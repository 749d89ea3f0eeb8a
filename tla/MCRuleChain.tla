---------------------------- MODULE MCRuleChain ----------------------------
EXTENDS RuleChainProps, TLC

CONSTANTS t1, t2, r1, r2, r3

(* Two rules that count take the results of one test, and a third combines *)
(* theirs.                                                                 *)
Apart == {<<t1, r1>>, <<t1, r2>>, <<r1, r3>>, <<r2, r3>>}
AllTypes ==
  r1 :> {Type("N_IN_M", 2, 2)}
    @@ r2 :> {Type("N_IN_ROW", 2, 0)} @@ r3 :> {Type("AND", 0, 0), Type("OR", 0, 0)}
AllAnswers == t1 :> {Result("PASS"), Result("FAIL"), Value(1)}

Kept == r1 :> 2 @@ r2 :> 2 @@ r3 :> 0

(* Two rules that both combine the same two tests.                         *)
Shared == {<<t1, r1>>, <<t2, r1>>, <<t1, r2>>, <<t2, r2>>}
BothAnd == r1 :> {Type("AND", 0, 0)} @@ r2 :> {Type("AND", 0, 0)}
NoneKept == [r \in {r1, r2} |-> 0]
YesNo == [t \in {t1, t2} |-> {Result("PASS"), Result("FAIL")}]
=============================================================================
