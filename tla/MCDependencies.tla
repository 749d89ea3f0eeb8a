--------------------------- MODULE MCDependencies ---------------------------
(* Values for the constants of Dependencies.                               *)
EXTENDS DependenciesProps
CONSTANTS sys, c1, c2, c3, r1, r2, r3, r4

MCContainments == {<<c1, c2>>, <<c2, c1>>, <<c2, c3>>, <<c2, r1>>, <<sys, c1>>}
MCDeclared == {<<r1, r2>>, <<r2, r1>>, <<c2, r1>>, <<r2, c3>>}
MCLoops == {r1, r2, r3, r4} \X {r1, r2, r3, r4}
=============================================================================
