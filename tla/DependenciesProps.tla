------------------------- MODULE DependenciesProps -------------------------
(* What Dependencies is checked for.                                       *)
EXTENDS Dependencies

(* The types; the domains in use, and those one can reach, are domains     *)
(* that were handed out: the next number is nobody's yet.                  *)
TypeOK ==
  /\ db \in DbType
  /\ next_domain \in 1..(MaxDomains + 1)
  /\ domain \in [Objs -> 0..(next_domain - 1)]
  /\ reachable \in [1..MaxDomains -> SUBSET (1..(next_domain - 1))]
  /\ fate \in {"up", "hung", "broken"}

(* The two lists of a dependency agree whatever is created, moved and      *)
(* deleted, and name live objects only: no walk of swdiag_rci.c meets an   *)
(* object that was freed.                                                  *)
LinksAgree ==
  \A x \in Objs :
    /\ \A y \in db.child_depend[x] : x \in db.parent_depend[y]
    /\ \A y \in db.parent_depend[x] : x \in db.child_depend[y]
    /\ db.type[x] = "absent" => db.child_depend[x] = {} /\ db.parent_depend[x] = {}

(* An object is on the boundary lists of no component but its own, so that *)
(* a component that is expanded never stands for a rule that was moved or  *)
(* deleted.                                                                *)
BoundaryIsInside ==
  \A c \in Objs : db.top_depend[c] \cup db.bottom_depend[c] \subseteq Members(db, c)

(* Containment is a forest, and the list of a component (comps) has the    *)
(* components whose parent_comp it is, each once: creating, converting,    *)
(* moving and deleting write both, and the check of swdiag_comp_contains   *)
(* lets no component into one below it.                                    *)
NoRing(up) == \A S \in SUBSET Objs : S # {} => \E x \in S : up[x] \notin S
ListsMembers(d, c) ==
  /\ IsInjective(d.comps[c])
  /\ ToSet(d.comps[c]) = {x \in Members(d, c) : d.type[x] = "COMP"}
Forest(d) ==
  /\ d.type[System] = "COMP"
  /\ \A o \in Present(d) \ {System} : d.parent_comp[o] # NoComp
  /\ \A o \in Objs : d.parent_comp[o] \in Objs => d.type[d.parent_comp[o]] = "COMP"
  /\ \A c \in Objs : ListsMembers(d, c)
  /\ NoRing(d.parent_comp)
Nested == Forest(db)

(* The search of swdiag_comp_contains for the parent in the child ends,    *)
(* whatever was created, moved and deleted before, and although it takes   *)
(* other turns than the walk it is meant to be: it never keeps the lock of *)
(* the database for good.                                                  *)
ContainsReturns ==
  [][fate' = "hung" => \A p \in CompNames, o \in Objs : ~CompContains(p, o)]_vars

(* As long as no component was deleted with components in it, the walk of  *)
(* the whole system (sys_get_next_type), which is how names are looked up, *)
(* ends and finds the component of every object.                           *)
NextInSystem(d) == [x \in Places |-> IF x \in Objs THEN NextComp(d, x) ELSE NoComp]
AllFound ==
  LET last == Cardinality(Objs)
      walk == Iterate(NextInSystem(db), System, last)
  IN  (\A o \in Objs : db.parent_comp[o] # Freed) =>
        /\ walk[last] = NoComp
        /\ \A o \in Present(db) \ {System} : \E n \in 0..last : walk[n] = db.parent_comp[o]

(* No dependency closes a loop through objects of one domain only.         *)
Inside(x) == {y \in db.child_depend[x] : domain[y] = domain[x]}
InTreeInside(t, r) ==
  \A S \in SUBSET Objs : (r \in S /\ \A x \in S : Inside(x) \subseteq S) => t \in S
LoopsCrossDomains == \A x \in Objs : \A y \in Inside(x) : ~InTreeInside(x, y)

(* No dependency closes a loop.                                            *)
Acyclic == \A x \in Objs : ~OnLoop(db, x)
=============================================================================
