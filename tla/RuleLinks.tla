----------------------------- MODULE RuleLinks -----------------------------
(* The links between tests and the rules that take their results, and      *)
(* between rules: each rule lists its inputs, and each test or rule points *)
(* at the head of a chain of the rules it feeds, linked by the one         *)
(* next_in_input each rule has (swdiag_obj.h, swdiag_api.c, swdiag_obj.c). *)
EXTENDS Naturals, SequencesExt

CONSTANTS
  Tests, Rules,
  NoRule        \* NULL where a rule is expected

ASSUME RuleLinksAssumption == Tests \cap Rules = {} /\ NoRule \notin Rules

Objs == Tests \cup Rules
Kinds == {"absent", "NONE", "TEST", "RULE", "DELETED"}

(* An object of type NONE, referenced before it is created, keeps its head *)
(* in ref_rule, a test in rule, a rule in output: the last two are head    *)
(* here.  Inputs are listed newest first.                                  *)
NoLinks ==
  [kind          |-> [o \in Objs |-> "absent"],
   inputs        |-> [r \in Rules |-> << >>],
   head          |-> [o \in Objs |-> NoRule],
   ref_rule      |-> [o \in Objs |-> NoRule],
   next_in_input |-> [r \in Rules |-> NoRule]]

LinksType ==
  [kind          : [Objs -> Kinds],
   inputs        : [Rules -> Seq(Objs)],
   head          : [Objs -> Rules \cup {NoRule}],
   ref_rule      : [Objs -> Rules \cup {NoRule}],
   next_in_input : [Rules -> Rules \cup {NoRule}]]

(* get_head_output_rule, and what is written there.                        *)
HeadOf(l, o) == IF l.kind[o] = "NONE" THEN l.ref_rule[o] ELSE l.head[o]
WithHead(l, o, r) ==
  IF l.kind[o] = "NONE" THEN [l EXCEPT !.ref_rule[o] = r] ELSE [l EXCEPT !.head[o] = r]

(* The rules on the chain that starts at head: those in every set that has *)
(* the head and, of each of its rules, the next.                           *)
Closed(l, S) == \A r \in S : l.next_in_input[r] \in S \cup {NoRule}
Chain(l, o) ==
  {r \in Rules : \A S \in SUBSET Rules :
                    HeadOf(l, o) \in S \cup {NoRule} /\ Closed(l, S) => r \in S}

(* A walk along a chain of these rules comes to its end: no ring.          *)
Ends(l, chain) == chain # {} => \E r \in chain : l.next_in_input[r] = NoRule

(* rule_input_search: target is an input of r, or of one of its inputs     *)
(* that are rules, and so on.                                              *)
Searches(l, r, target) ==
  \A S \in SUBSET Rules :
    (r \in S /\ \A x \in S : ToSet(l.inputs[x]) \cap Rules \subseteq S)
      => \E x \in S : target \in ToSet(l.inputs[x])
InputSearch(l, o, target) == l.kind[o] = "RULE" /\ Searches(l, o, target)

(* swdiag_api_get_or_create; a forward reference that gets its type has no *)
(* rule or output yet.                                                     *)
GetOrCreate(l, o, kind) ==
  CASE l.kind[o] = "absent" -> [l EXCEPT !.kind[o] = kind]
    [] l.kind[o] = "NONE" /\ kind # "NONE" ->
         [l EXCEPT !.kind[o] = kind, !.head[o] = NoRule]
    [] OTHER -> l

(* r becomes the head of the chain of i, and i an input of r.              *)
Feed(l, i, r) ==
  WithHead([l EXCEPT !.inputs[r] = <<i>> \o l.inputs[r],
                     !.next_in_input[r] = HeadOf(l, i)], i, r)

Before(l, i, r) == {p \in Chain(l, i) : l.next_in_input[p] = r}

(* r leaves the chains of its inputs: what points at it there, the head or *)
(* the rule before it, comes to point at the rule after it, but to nothing *)
(* where the walk over the inputs is past those of early.                  *)
Leave(l, r, early) ==
  LET inputs    == ToSet(l.inputs[r])
      headed    == {i \in inputs : HeadOf(l, i) = r}
      behind(p) == {i \in inputs \ headed : p \in Before(l, i, r)}
      next(I)   == IF I \cap early # {} THEN l.next_in_input[r] ELSE NoRule
  IN  [l EXCEPT
        !.head = [o \in Objs |-> IF o \in headed /\ l.kind[o] # "NONE" THEN next({o})
                                 ELSE l.head[o]],
        !.ref_rule = [o \in Objs |-> IF o \in headed /\ l.kind[o] = "NONE" THEN next({o})
                                     ELSE l.ref_rule[o]],
        !.next_in_input = [p \in Rules |-> IF behind(p) # {} THEN next(behind(p))
                                           ELSE l.next_in_input[p]],
        !.inputs[r] = << >>]

(* A rule that is created again.  Its own next_in_input is kept until all  *)
(* of them are done, and reset as they are popped; with none it stays, but *)
(* is overwritten next (Feed).                                             *)
LeaveChains(l, r) == [Leave(l, r, ToSet(l.inputs[r])) EXCEPT !.next_in_input[r] = NoRule]

(* Mutant: the head of the chain stays.                                    *)
RemoveRuleKeepsHead(l, r) ==
  [Leave(l, r, ToSet(l.inputs[r])) EXCEPT
    !.head = [l.head EXCEPT ![r] = NoRule], !.ref_rule = l.ref_rule, !.kind[r] = "DELETED"]

(* A rule that is deleted forgets its next_in_input at the first chain it  *)
(* heads.  The rules it feeds keep it as an input: what is looked for in   *)
(* their lists, to be removed, is the obj_rule_t, and what is there the    *)
(* obj_t.                                                                  *)
RemoveRule(l, r) ==
  LET inputs   == l.inputs[r]
      heads(k) == HeadOf(l, inputs[k]) = r
      early    == {inputs[k] : k \in {n \in DOMAIN inputs : \A j \in 1..(n - 1) : ~heads(j)}}
  IN  [Leave(l, r, early) EXCEPT
        !.next_in_input[r] = IF \E k \in DOMAIN inputs : heads(k) THEN NoRule ELSE @,
        !.head[r] = NoRule, !.kind[r] = "DELETED"]

(* A test, or a forward reference, is removed from the lists of the rules  *)
(* on its chain.                                                           *)
RemoveInput(l, o) ==
  [WithHead([l EXCEPT !.inputs = [r \in Rules |-> IF r \in Chain(l, o)
                                                  THEN RemoveFirst(l.inputs[r], o)
                                                  ELSE l.inputs[r]]], o, NoRule)
     EXCEPT !.kind[o] = "DELETED"]

RemoveObj(l, o) == IF l.kind[o] = "RULE" THEN RemoveRule(l, o) ELSE RemoveInput(l, o)

(* swdiag_obj_validate drops the inputs on whose chain r is not.           *)
Validate(l, r) ==
  IF \A i \in ToSet(l.inputs[r]) : r \in Chain(l, i) THEN l
  ELSE [l EXCEPT !.inputs[r] = SelectSeq(l.inputs[r], LAMBDA i : r \in Chain(l, i))]

-----------------------------------------------------------------------------
(* The entry points.                                                       *)

(* What is referenced already feeds the rules that do.                     *)
Connect(l, o) == IF l.ref_rule[o] = NoRule THEN l ELSE [l EXCEPT !.head[o] = l.ref_rule[o]]

CreateTest(l, t) == Connect(GetOrCreate(l, t, "TEST"), t)

(* swdiag_rule_create: the rule has that input, and no other any more.  A  *)
(* rule that would feed itself is deleted.                                 *)
CreateRule(l, r, i) ==
  LET m == GetOrCreate(GetOrCreate(l, r, "RULE"), i, "NONE")
  IN  IF InputSearch(m, r, i) THEN m
      ELSE IF InputSearch(m, i, r) THEN RemoveObj(m, r)
      ELSE Connect(Feed(LeaveChains(m, r), i, r), r)

(* swdiag_rule_add_input                                                   *)
AddInput(l, r, i) ==
  LET m == GetOrCreate(l, i, "NONE")
  IN  IF l.kind[r] # "RULE" THEN l
      ELSE IF InputSearch(m, r, i) \/ InputSearch(m, i, r) THEN m
      ELSE Feed(m, i, r)
=============================================================================
