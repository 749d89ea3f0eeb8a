------------------------------ MODULE RuleOps ------------------------------
(* The operators of rules: what a rule makes of a result, and what it      *)
(* remembers of it (seq_rule_run, swdiag_sequence.c).                      *)
EXTENDS Integers, FiniteSets

CONSTANTS
  ByteBits,   \* bits in a byte of the history: 8
  MaxCount    \* where the count of failures stops in the model

ASSUME RuleOpsAssumption == ByteBits \in Nat \ {0} /\ MaxCount \in Nat

(* A test answers PASS, FAIL, ABORT or VALUE, with a value; a rule the     *)
(* first three.                                                            *)
Result(r) == [result |-> r, value |-> 0]
Value(n) == [result |-> "VALUE", value |-> n]

(* The operator of a rule with its operands: op_n, op_m.                   *)
Type(op, n, m) == [op |-> op, n |-> n, m |-> m]
OnFail == Type("ON_FAIL", 0, 0)
Counts(type) == type.op \in {"N_IN_ROW", "N_IN_M"}

(* What a rule remembers: the failures counted, and the bits of N in M,    *)
(* here the set of those that are 1, in a history of so many bytes, none   *)
(* before it is allocated.                                                 *)
Fresh == [fail_count |-> 0, history |-> {}, history_size |-> 0, position |-> 0]

(* The results N in M takes; of others it makes an ABORT.                  *)
Takes(type, x) == type.op = "N_IN_M" => x.result \in {"PASS", "FAIL"}

CountOneMore(d) ==
  [d EXCEPT !.fail_count = IF d.fail_count < MaxCount THEN d.fail_count + 1 ELSE MaxCount]

Allocated(d, m) ==
  IF d.history_size # 0 THEN d
  ELSE [d EXCEPT !.history_size = (m \div ByteBits) + 1]

OffEnd(d) == d.position \div ByteBits >= d.history_size

(* Mutant: the position wraps one late.                                    *)
RecordWrapsLate(d, m, result) ==
  LET a == Allocated(d, m)
  IN  IF OffEnd(a) THEN a
      ELSE [a EXCEPT
             !.history = IF result = "FAIL" THEN a.history \cup {a.position}
                         ELSE a.history \ {a.position},
             !.position = IF a.position >= m THEN 0 ELSE a.position + 1]

(* The bit at the position is overwritten, and the position moves on; when *)
(* it is off the end of the history nothing happens any more.              *)
Record(d, m, result) ==
  LET a == Allocated(d, m)
  IN  IF OffEnd(a) THEN a
      ELSE [a EXCEPT
             !.history = IF result = "FAIL" THEN a.history \cup {a.position}
                         ELSE a.history \ {a.position},
             !.position = IF a.position + 1 >= m THEN 0 ELSE a.position + 1]

NEver(d, n) ==
  IF CountOneMore(d).fail_count >= n THEN [d EXCEPT !.fail_count = 0] ELSE CountOneMore(d)

(* Mutant: only a PASS interrupts a row, another answer does not.          *)
RememberRowUntilPass(d, type, x) ==
  CASE type.op = "N_EVER" /\ x.result = "FAIL" -> NEver(d, type.n)
    [] type.op = "N_IN_ROW" /\ x.result # "PASS" -> CountOneMore(d)
    [] type.op = "N_IN_ROW" /\ x.result = "PASS" -> [d EXCEPT !.fail_count = 0]
    [] type.op = "N_IN_M" /\ Takes(type, x) -> Record(d, type.m, x.result)
    [] OTHER -> d

(* The memory of a rule of that type after the result x.                   *)
Remember(d, type, x) ==
  CASE type.op = "N_EVER" /\ x.result = "FAIL" -> NEver(d, type.n)
    [] type.op = "N_IN_ROW" /\ x.result = "FAIL" -> CountOneMore(d)
    [] type.op = "N_IN_ROW" /\ x.result # "FAIL" -> [d EXCEPT !.fail_count = 0]
    [] type.op = "N_IN_M" /\ Takes(type, x) -> Record(d, type.m, x.result)
    [] OTHER -> d

(* Whether the operator finds a failure, given the last results of the     *)
(* inputs.                                                                 *)
Finds(d, type, x, input_results) ==
  LET after == Remember(d, type, x)
      v     == x.result = "VALUE"
  IN  \/ type.op = "ON_FAIL" /\ x.result = "FAIL"
      \/ type.op = "EQUAL_TO_N" /\ v /\ x.value = type.n
      \/ type.op = "NOT_EQUAL_TO_N" /\ v /\ x.value # type.n
      \/ type.op = "LESS_THAN_N" /\ v /\ x.value < type.n
      \/ type.op = "GREATER_THAN_N" /\ v /\ x.value > type.n
      \/ type.op = "RANGE_N_TO_M" /\ v /\ (x.value < type.n \/ x.value > type.m)
      \/ type.op = "N_EVER" /\ x.result = "FAIL" /\ CountOneMore(d).fail_count >= type.n
      \/ type.op = "N_IN_ROW" /\ x.result = "FAIL" /\ after.fail_count >= type.n
      \/ /\ type.op = "N_IN_M" /\ ~OffEnd(Allocated(d, type.m))
         /\ Cardinality(after.history) >= type.n
      \/ type.op = "OR" /\ "FAIL" \in input_results
      \/ type.op = "AND" /\ "PASS" \notin input_results

(* A disabled rule has no verdict, nor one whose operator is not supported. *)
Verdict(d, type, x, input_results) ==
  IF type.op \in {"DISABLE", "N_IN_TIME_M", "FAIL_FOR_TIME_N"} \/ ~Takes(type, x) THEN Result("ABORT")
  ELSE IF Finds(d, type, x, input_results) THEN Result("FAIL") ELSE Result("PASS")
=============================================================================
