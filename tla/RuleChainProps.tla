--------------------------- MODULE RuleChainProps ---------------------------
(* What the rules promise.                                                 *)
EXTENDS RuleChain

Results == {"PASS", "FAIL"}
Inputs == {Result(a) : a \in {"PASS", "FAIL", "ABORT"}} \cup UNION {Answers[t] : t \in Tests}

(* Each variable keeps to its values (obj_rule_s, obj_rule_data_s in       *)
(* swdiag_obj.h).                                                          *)
TypeOK ==
  /\ links \in LinksType
  /\ \A r \in Rules : type[r] \in Types[r] \cup {OnFail}
  /\ \A r \in Rules :
       /\ data[r].fail_count \in 0..MaxCount
       /\ data[r].history_size \in Nat /\ data[r].position \in Nat
       /\ data[r].history \subseteq 0..(data[r].history_size * ByteBits - 1)
  /\ last_result \in [Objs -> Results]
  /\ \A r \in Rules : failed[r] \subseteq 1..Window[r]
  /\ unheard \in [Rules -> Seq({x.result : x \in Inputs})]
  /\ settled \subseteq Rules

(* N in M counts the failures among the last M results, no more and no     *)
(* fewer, wherever the position is in the history: the bit that is         *)
(* overwritten is the oldest ("overwrites old values", swdiag_sequence.c). *)
FailuresCounted ==
  \A r \in Rules : type[r].op = "N_IN_M" =>
    Cardinality(data[r].history) = Cardinality(failed[r] \cap 1..type[r].m)

(* N in a row has counted to n exactly when the last n results were        *)
(* failures, with nothing in between, not even a value.                    *)
RowCounted ==
  \A r \in Rules : type[r].op = "N_IN_ROW" =>
    \A n \in 1..MaxCount :
      data[r].fail_count >= n <=> 1..n \subseteq failed[r]

(* A rule takes each result of its inputs, once and in order, and nothing  *)
(* else: along the chain of an input that several rules share, down from   *)
(* rule to rule, and when results are fed back.                            *)
HeardOnce ==
  /\ todo = << >> => \A r \in Rules : unheard[r] = << >>
  /\ (todo # << >> /\ ~Head(todo).rci /\ Head(todo).input.result # "ABORT")
       => /\ unheard[Head(todo).rule] # << >>
          /\ Head(unheard[Head(todo).rule]) = Head(todo).input.result

(* "Check that all inputs point back to this rule" (swdiag_obj_validate).  *)
InputsPointBack ==
  \A r \in Rules : \A i \in ToSet(links.inputs[r]) : r \in Chain(links, i)

(* What a rule lists as its inputs and where it is chained agree, both     *)
(* ways, and every chain has an end.                                       *)
ChainsAreInputs ==
  \A o \in Objs :
    LET chain == Chain(links, o)
    IN  chain = {r \in Rules : o \in ToSet(links.inputs[r])} /\ Ends(links, chain)

(* Once all that a result set off is done, a rule that combines agrees    *)
(* with what its inputs are: AND fails when none passes, OR when one       *)
(* fails, those that came later, lost their test or took a value or an     *)
(* ABORT included.                                                         *)
LogicSettles ==
  todo = << >> => \A r \in settled :
    /\ type[r].op = "AND" =>
         (last_result[r] = "FAIL" <=> "PASS" \notin InputResults(links, r))
    /\ type[r].op = "OR" =>
         (last_result[r] = "FAIL" <=> "FAIL" \in InputResults(links, r))
-----------------------------------------------------------------------------
(* Where HeardOnce, ChainsAreInputs and LogicSettles hold: an input that   *)
(* several rules may take is the only one of each of them; no rule may     *)
(* come to take, along others, what it said itself; and a rule that may be *)
(* deleted feeds none.                                                     *)
Unshared ==
  \A p, q, s \in Feeds : p[1] = q[1] /\ p[2] # q[2] /\ s[2] = p[2] => s[1] = p[1]
NoLoops ==
  \A R \in SUBSET Rules : R # {} => \E r \in R : \A p \in Feeds : p[2] = r => p[1] \notin R
OnlyLastDeleted == \A p \in Feeds : p[1] \in Rules => p[1] \notin Deletable
Separate == Unshared /\ NoLoops /\ OnlyLastDeleted

(* The invariant behind them.  The links, of which those of a rule that    *)
(* has no input count for nothing:                                         *)
Fed(l, o) == {r \in Rules : o \in ToSet(l.inputs[r])}
Linked(l) == {r \in Rules : l.inputs[r] # << >>}
NoRing(l) ==
  \A R \in SUBSET Linked(l) : R # {} => \E r \in R : l.next_in_input[r] \notin R

KindsFit(l) ==
  /\ \A t \in Tests : l.kind[t] # "RULE"
  /\ \A r \in Rules : l.kind[r] # "TEST"
  /\ \A o \in Objs :
       /\ l.kind[o] \notin {"TEST", "RULE"} => l.head[o] = NoRule
       /\ l.kind[o] = "absent" => l.ref_rule[o] = NoRule

InputsFit(l) ==
  \A r \in Rules :
    /\ IsInjective(l.inputs[r])
    /\ l.inputs[r] # << >> => l.kind[r] = "RULE"
    /\ \A i \in ToSet(l.inputs[r]) :
         <<i, r>> \in Feeds /\ l.kind[i] \in {"NONE", "TEST", "RULE"}

LinksFit(l) ==
  /\ l \in LinksType /\ KindsFit(l) /\ InputsFit(l)
  /\ \A o \in Objs : Chain(l, o) = Fed(l, o)
  /\ NoRing(l)

(* The calls to come, each of which goes to the rest of a chain: below the *)
(* first, all go to rules after the first of a chain, whose input is above *)
(* all that the calls before will run.                                     *)
Rest(l, r) ==
  {q \in Rules : \A S \in SUBSET Rules : r \in S /\ Closed(l, S) => q \in S}
Under(o) ==
  {r \in Rules : \A S \in SUBSET Rules :
                    (\A p \in Feeds : p[1] \in S \cup {o} => p[2] \in S) => r \in S}

Waiting(l, c) ==
  \A o \in Objs : c.rule \in Fed(l, o) => \E r \in Fed(l, o) : r \notin Rest(l, c.rule)
Clear(l, c, d) ==
  /\ Rest(l, c.rule) \cap Rest(l, d.rule) = {}
  /\ \A o \in Objs : d.rule \in Fed(l, o) => Rest(l, c.rule) \subseteq Under(o)

Calls == [rule : Rules, input : Inputs, rci : BOOLEAN]

TodoFit ==
  /\ todo \in Seq(Calls)
  /\ \A k \in 1..Len(todo) :
       /\ todo[k].rule \in Linked(links)
       /\ k > 1 => Waiting(links, todo[k])
       /\ \A j \in 1..(k - 1) : Clear(links, todo[j], todo[k])

(* The results that calls of s will still run r on, which are what r has   *)
(* not heard, and what may leave it unsettled.                             *)
Runs(c) == ~c.rci /\ c.input.result # "ABORT"
Owed(l, s, r) ==
  {s[k].input.result : k \in {j \in DOMAIN s : Runs(s[j]) /\ r \in Rest(l, s[j].rule)}}

HeardFit ==
  \A r \in Rules :
    IF Owed(links, todo, r) = {} THEN unheard[r] = << >>
    ELSE \A v \in Owed(links, todo, r) : unheard[r] = <<v>>

Settles(r) ==
  /\ type[r].op = "AND" =>
       (last_result[r] = "FAIL" <=> "PASS" \notin InputResults(links, r))
  /\ type[r].op = "OR" =>
       (last_result[r] = "FAIL" <=> "FAIL" \in InputResults(links, r))

LogicFit == \A r \in settled : Settles(r) \/ Owed(links, todo, r) # {}

IInv == TypeOK /\ LinksFit(links) /\ TodoFit /\ HeardFit /\ LogicFit
=============================================================================
