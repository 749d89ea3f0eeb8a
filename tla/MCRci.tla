------------------------------- MODULE MCRci -------------------------------
EXTENDS RciProps, TLC

CONSTANTS top, left, right, leaf

(* The rules of a run and what they depend on: two rules, one on the       *)
(* other, and two ways from the top to the end.                            *)
Pair == top :> {leaf} @@ leaf :> {}
Diamond == top :> {left, right} @@ left :> {leaf} @@ right :> {leaf} @@ leaf :> {}
=============================================================================
