----------------------------- MODULE RuleChain -----------------------------
(* Tests, the rules that take their results, and the rules that take       *)
(* theirs: what the client's calls do to the links, and how the sequencer  *)
(* carries a result along them (seq_sequencer, swdiag_sequence.c).  Every  *)
(* call, and all that a result of a test sets off, holds the database      *)
(* lock; all objects are enabled and have their base instance only.        *)
EXTENDS RuleOps, RuleLinks

CONSTANTS
  Answers,      \* Answers[t]: what a test may answer
  Feeds,        \* the pairs of an input and a rule the client links
  Types,        \* Types[r]: the operators the client gives a rule
  Deletable,    \* what the client may delete
  Window        \* Window[r]: how many of the results r counted are remembered

ASSUME RuleChainAssumption ==
  /\ Feeds \subseteq Objs \X Rules
  /\ \A r \in Rules : <<r, r>> \notin Feeds
  /\ Deletable \subseteq Objs
  /\ Window \in [Rules -> Nat]

(* What swdiag_rule_set_type asks of n and m; and a rule that counts does  *)
(* not come to count in another way, or N in M with another M: what it     *)
(* remembers would not fit (README).                                       *)
ASSUME CountsAssumption ==
  \A r \in Rules : \A a \in Types[r] :
    /\ a.op = "N_IN_M" => a.m \in 1..Window[r] /\ a.n \in 1..a.m
    /\ a.op = "N_IN_ROW" => a.n \in 1..MaxCount /\ MaxCount <= Window[r]
    /\ Counts(a) => \A b \in Types[r] :
         (Counts(b) \/ b.op = "N_EVER") => b.op = a.op /\ b.m = a.m

VARIABLES
  links,        \* kinds, inputs and chains (RuleLinks)
  type,         \* operator of a rule with its operands
  data,         \* what a rule remembers (RuleOps)
  last_result,  \* PASS until there is another
  todo,         \* the calls of seq_sequencer still to come, the next first
  failed,       \* the k for which the k-th last result a rule counted is FAIL
  unheard,      \* results of its inputs a rule is still to take
  settled       \* combining rules run since operator and inputs last changed

vars == <<links, type, data, last_result, todo, failed, unheard, settled>>
auxiliary == <<failed, unheard, settled>>

Call(r, x, rci) == [rule |-> r, input |-> x, rci |-> rci]

Init ==
  /\ links = NoLinks
  /\ type = [r \in Rules |-> OnFail]
  /\ data = [r \in Rules |-> Fresh]
  /\ last_result = [o \in Objs |-> "PASS"]
  /\ todo = << >>
  /\ failed = [r \in Rules |-> {}]
  /\ unheard = [r \in Rules |-> << >>]
  /\ settled = {}

-----------------------------------------------------------------------------
(* The client's calls, each of which waits for the lock.  (A walk along a  *)
(* chain that turned in a ring would keep it: see ChainsAreInputs.)        *)
Free == todo = << >>

(* What is created again loses the rules it came to feed after it was      *)
(* first referenced, if that was before it was created (README).           *)
Fit(o) ==
  \/ links.kind[o] \in {"absent", "NONE"}
  \/ links.kind[o] \in {"TEST", "RULE"} /\ links.ref_rule[o] = NoRule

Relink(l) ==
  /\ links' = l
  /\ settled' = {r \in settled :
                   /\ l.inputs[r] = links.inputs[r]
                   /\ \A i \in ToSet(l.inputs[r]) : l.kind[i] = links.kind[i]}

CreateTestCall(t) ==
  /\ Free /\ Fit(t)
  /\ Relink(CreateTest(links, t))
  /\ UNCHANGED <<type, data, last_result, todo, failed, unheard>>

CreateRuleCall(r, i) ==
  /\ Free /\ Fit(r) /\ links.kind[i] # "DELETED"
  /\ Relink(CreateRule(links, r, i))
  /\ UNCHANGED <<type, data, last_result, todo, failed, unheard>>

AddInputCall(r, i) ==
  /\ Free /\ links.kind[i] # "DELETED"
  /\ Relink(AddInput(links, r, i))
  /\ UNCHANGED <<type, data, last_result, todo, failed, unheard>>

(* One that is only referenced would lose the rules it feeds (README).     *)
SetType(r, t) ==
  /\ Free /\ links.kind[r] \in {"absent", "RULE"}
  /\ links' = GetOrCreate(links, r, "RULE")
  /\ type' = [type EXCEPT ![r] = t]
  /\ settled' = settled \ {r}
  /\ UNCHANGED <<data, last_result, todo, failed, unheard>>

Delete(o) ==
  /\ Free /\ links.kind[o] \in {"NONE", "TEST", "RULE"}
  /\ Relink(RemoveObj(links, o))
  /\ UNCHANGED <<type, data, last_result, todo, failed, unheard>>

-----------------------------------------------------------------------------
(* Results.                                                                *)

(* Mutant: any answer is a last result.                                    *)
DecidedByAny(o, result) == [last_result EXCEPT ![o] = result]

Decided(o, result) ==
  IF result \in {"PASS", "FAIL"} THEN [last_result EXCEPT ![o] = result] ELSE last_result

First(r, x, rci) == IF r = NoRule THEN << >> ELSE <<Call(r, x, rci)>>

(* The rules that have o as an input are due to take its result.           *)
Due(waiting, o, x) ==
  [r \in Rules |-> IF x.result # "ABORT" /\ o \in ToSet(links.inputs[r])
                   THEN Append(waiting[r], x.result) ELSE waiting[r]]

(* SEQ_TEST_RESULT                                                         *)
TestResult(t, x) ==
  /\ Free /\ links.kind[t] = "TEST"
  /\ last_result' = Decided(t, x.result)
  /\ todo' = First(links.head[t], x, FALSE)
  /\ unheard' = Due(unheard, t, x)
  /\ UNCHANGED <<links, type, data, failed, settled>>

(* SEQ_TEST_RESULT_RCI: the last result again, for root cause              *)
(* identification.                                                         *)
FeedBack(t) ==
  /\ Free /\ links.kind[t] = "TEST"
  /\ todo' = First(links.head[t], Result(last_result[t]), TRUE)
  /\ UNCHANGED <<links, type, data, last_result, auxiliary>>

(* Rules that look at the last results of all their inputs.                *)
Combining == {r \in Rules : type[r].op \in {"AND", "OR"}}
InputResults(l, r) ==
  {last_result[i] : i \in {o \in ToSet(l.inputs[r]) : l.kind[o] \in {"TEST", "RULE"}}}

(* The rules after r on the chain take the same result.                    *)
Onward(c) == First(links.next_in_input[c.rule], c.input, c.rci)

Counted(r, result) ==
  IF Counts(type[r]) /\ Takes(type[r], Result(result))
  THEN [failed EXCEPT ![r] = {k \in 1..Window[r] : IF k = 1 THEN result = "FAIL"
                                                ELSE k - 1 \in failed[r]}]
  ELSE failed

Taken(r) == [unheard EXCEPT ![r] = IF unheard[r] = << >> THEN << >> ELSE Tail(unheard[r])]

(* A result that is an ABORT goes to root cause identification only.       *)
StepAbort ==
  LET c == Head(todo)
  IN  /\ todo # << >> /\ c.input.result = "ABORT"
      /\ links' = Validate(links, c.rule)
      /\ todo' = Onward(c) \o Tail(todo)
      /\ UNCHANGED <<type, data, last_result, auxiliary>>

(* SEQ_RULE_RUN_RCI: the rule's last result is its result, and goes to the *)
(* rules it feeds as any other.                                            *)
StepRci ==
  LET c == Head(todo)
      x == Result(last_result[c.rule])
  IN  /\ todo # << >> /\ c.rci /\ c.input.result # "ABORT"
      /\ links' = Validate(links, c.rule)
      /\ todo' = First(links.head[c.rule], x, FALSE) \o Onward(c) \o Tail(todo)
      /\ unheard' = Due(unheard, c.rule, x)
      /\ UNCHANGED <<type, data, last_result, failed, settled>>

(* Mutants: a rule that feeds others ends the chain; only failures go on. *)
StepRunLosesChain ==
  LET c == Head(todo)
      r == c.rule
      l == Validate(links, r)
      x == Verdict(data[r], type[r], c.input, InputResults(l, r))
  IN  /\ todo # << >> /\ ~c.rci /\ c.input.result # "ABORT"
      /\ links' = l
      /\ data' = [data EXCEPT ![r] = Remember(data[r], type[r], c.input)]
      /\ last_result' = Decided(r, x.result)
      /\ todo' = (IF links.head[r] = NoRule THEN Onward(c) ELSE First(links.head[r], x, FALSE))
                   \o Tail(todo)
      /\ failed' = Counted(r, c.input.result)
      /\ unheard' = Due(Taken(r), r, x)
      /\ settled' = settled \cup ({r} \cap Combining)
      /\ UNCHANGED type
StepRunTellsFailures ==
  LET c == Head(todo)
      r == c.rule
      l == Validate(links, r)
      x == Verdict(data[r], type[r], c.input, InputResults(l, r))
  IN  /\ todo # << >> /\ ~c.rci /\ c.input.result # "ABORT"
      /\ links' = l
      /\ data' = [data EXCEPT ![r] = Remember(data[r], type[r], c.input)]
      /\ last_result' = Decided(r, x.result)
      /\ todo' = (IF x.result = "FAIL" THEN First(links.head[r], x, FALSE) ELSE << >>)
                   \o Onward(c) \o Tail(todo)
      /\ failed' = Counted(r, c.input.result)
      /\ unheard' = Due(Taken(r), r, x)
      /\ settled' = settled \cup ({r} \cap Combining)
      /\ UNCHANGED type

(* SEQ_RULE_RUN, SEQ_RULE_RESULT: what the rule makes of the result goes   *)
(* to the rules it feeds before the others on the chain take theirs.       *)
StepRun ==
  LET c == Head(todo)
      r == c.rule
      l == Validate(links, r)
      x == Verdict(data[r], type[r], c.input, InputResults(l, r))
  IN  /\ todo # << >> /\ ~c.rci /\ c.input.result # "ABORT"
      /\ links' = l
      /\ data' = [data EXCEPT ![r] = Remember(data[r], type[r], c.input)]
      /\ last_result' = Decided(r, x.result)
      /\ todo' = First(links.head[r], x, FALSE) \o Onward(c) \o Tail(todo)
      /\ failed' = Counted(r, c.input.result)
      /\ unheard' = Due(Taken(r), r, x)
      /\ settled' = settled \cup ({r} \cap Combining)
      /\ UNCHANGED type

-----------------------------------------------------------------------------
Next ==
  \/ \E t \in Tests : CreateTestCall(t)
  \/ \E p \in Feeds : CreateRuleCall(p[2], p[1])
  \/ \E p \in Feeds : AddInputCall(p[2], p[1])
  \/ \E r \in Rules : \E t \in Types[r] : SetType(r, t)
  \/ \E o \in Deletable : Delete(o)
  \/ \E t \in Tests : \E x \in Answers[t] : TestResult(t, x)
  \/ \E t \in Tests : FeedBack(t)
  \/ StepAbort
  \/ StepRci
  \/ StepRun

Spec == Init /\ [][Next]_vars
=============================================================================
