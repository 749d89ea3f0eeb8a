-------------------------- MODULE RuleChain_proofs --------------------------
(* For any tests, rules, links, operands and size of the history: what a   *)
(* rule that counts remembers is true of the results it counted; and, with *)
(* links of the kind that one next_in_input can serve (Separate), inputs   *)
(* and chains agree, every result is heard once, and rules that combine    *)
(* come to agree with their inputs.                                        *)
EXTENDS RuleChainProps, QueueFacts

(* The bit of the k-th last result.                                        *)
Slot(p, k, m) == IF k <= p THEN p - k ELSE p - k + m

(* The history of N in M is a ring: each bit up to M is one of the last M  *)
(* results.                                                                *)
Ring(d, m, F) ==
  /\ d.position \in 0..(m - 1)
  /\ d.history \subseteq 0..(m - 1)
  /\ \A k \in 1..m : k \in F <=> Slot(d.position, k, m) \in d.history
  /\ d.history_size \in {0, (m \div ByteBits) + 1}

Row(d, F) == \A n \in 1..MaxCount : d.fail_count >= n <=> 1..n \subseteq F

DataType ==
  [fail_count : 0..MaxCount, history : SUBSET Nat, history_size : Nat, position : Nat]

Typed ==
  /\ data \in [Rules -> DataType]
  /\ failed \in [Rules -> SUBSET Nat]
  /\ type \in [Rules -> UNION {Types[r] \cup {OnFail} : r \in Rules}]
  /\ \A r \in Rules : type[r] \in Types[r] \cup {OnFail}

Remembered(r) ==
  \A t \in Types[r] :
    /\ t.op = "N_IN_M" => Ring(data[r], t.m, failed[r])
    /\ t.op = "N_IN_ROW" => Row(data[r], failed[r])

CountsFit == Typed /\ \A r \in Rules : Remembered(r)

(* The failures of F a count of results moves one back, and the latest     *)
(* joins them (Counted).                                                   *)
Shift(F, w, fail) == {k \in 1..w : IF k = 1 THEN fail ELSE k - 1 \in F}

(* A position before M is in a byte of the history (seq_rule_run).         *)
LEMMA InHistory ==
  ASSUME NEW p \in Nat, NEW m \in Nat, p < m
  PROVE  p \div ByteBits < (m \div ByteBits) + 1
  BY RuleOpsAssumption

(* The position and the distance back name a bit below M, and different    *)
(* distances different bits.                                               *)
LEMMA SlotFacts ==
  ASSUME NEW m \in Nat, NEW p \in 0..(m - 1)
  PROVE  /\ \A k \in 1..m : Slot(p, k, m) \in 0..(m - 1)
         /\ \A j, k \in 1..m : Slot(p, j, m) = Slot(p, k, m) => j = k
         /\ \A b \in 0..(m - 1) : \E k \in 1..m : Slot(p, k, m) = b
<1>1. \A k \in 1..m : Slot(p, k, m) \in 0..(m - 1)
  BY DEF Slot
<1>2. \A j, k \in 1..m : Slot(p, j, m) = Slot(p, k, m) => j = k
  BY DEF Slot
<1>3. ASSUME NEW b \in 0..(m - 1) PROVE \E k \in 1..m : Slot(p, k, m) = b
  <2>1. CASE b < p
    <3>1. p - b \in 1..m /\ Slot(p, p - b, m) = b
      BY <2>1 DEF Slot
    <3> QED BY <3>1
  <2>2. CASE b >= p
    <3>1. p - b + m \in 1..m /\ Slot(p, p - b + m, m) = b
      BY <2>2 DEF Slot
    <3> QED BY <3>1
  <2> QED BY <2>1, <2>2
<1> QED BY <1>1, <1>2, <1>3

(* As many bits of the ring are set as there are failures in the last M    *)
(* results.                                                                *)
LEMMA RingCounts ==
  ASSUME NEW d, NEW m \in Nat, NEW F, Ring(d, m, F)
  PROVE  Cardinality(d.history) = Cardinality(F \cap 1..m)
<1> DEFINE L == F \cap 1..m
           g == [k \in L |-> Slot(d.position, k, m)]
<1>1. d.position \in 0..(m - 1) /\ d.history \subseteq 0..(m - 1)
  BY DEF Ring
<1>2. \A k \in L : g[k] \in d.history
  BY DEF Ring
<1>3. \A j, k \in L : g[j] = g[k] => j = k
  BY <1>1, SlotFacts
<1>4. ASSUME NEW b \in d.history PROVE \E k \in L : g[k] = b
  <2>1. PICK k \in 1..m : Slot(d.position, k, m) = b
    BY <1>1, <1>4, SlotFacts
  <2>2. k \in F
    BY <2>1 DEF Ring
  <2> QED BY <2>1, <2>2
<1>5. g \in Bijection(L, d.history)
  BY <1>2, <1>3, <1>4 DEF Bijection, Injection, Surjection, IsInjective
<1>6. IsFiniteSet(L)
  <2>1. IsFiniteSet(1..m)
    BY FS_Interval
  <2> QED BY <2>1, FS_Subset
<1> HIDE DEF g
<1> QED BY <1>5, <1>6, FS_Bijection DEF ExistsBijection

(* N in M takes a result: the bit it writes is the oldest, and from the    *)
(* new position each of the others is one further back (seq_rule_run).     *)
LEMMA RecordKeepsRing ==
  ASSUME NEW d \in DataType, NEW m \in Nat \ {0}, NEW w \in Nat, m <= w,
         NEW F \in SUBSET Nat, Ring(d, m, F), NEW result
  PROVE  Ring(Record(d, m, result), m, Shift(F, w, result = "FAIL"))
<1> DEFINE a == Allocated(d, m)
           e == Record(d, m, result)
           p == d.position
           H == IF result = "FAIL" THEN d.history \cup {p} ELSE d.history \ {p}
           q == IF p + 1 >= m THEN 0 ELSE p + 1
           G == Shift(F, w, result = "FAIL")
<1>1. /\ a \in DataType /\ a.position = p /\ a.history = d.history
      /\ a.history_size = (m \div ByteBits) + 1
  BY RuleOpsAssumption DEF Allocated, DataType, Ring
<1>2. p \in 0..(m - 1) /\ p < m
  BY DEF Ring
<1>3. ~OffEnd(a)
  BY <1>1, <1>2, InHistory, RuleOpsAssumption DEF OffEnd
<1>4. e.position = q /\ e.history = H /\ e.history_size = a.history_size
  BY <1>1, <1>3 DEF Record, DataType
<1>5. q \in 0..(m - 1) /\ H \subseteq 0..(m - 1)
  BY <1>2 DEF Ring
<1>6. ASSUME NEW k \in 1..m PROVE k \in G <=> Slot(q, k, m) \in H
  <2>1. CASE k = 1
    <3>1. Slot(q, 1, m) = p
      BY <1>2 DEF Slot
    <3>2. 1 \in G <=> result = "FAIL"
      BY DEF Shift
    <3> QED BY <2>1, <3>1, <3>2
  <2>2. CASE k # 1
    <3>1. k - 1 \in 1..m /\ Slot(q, k, m) = Slot(p, k - 1, m) /\ Slot(q, k, m) # p
      BY <2>2, <1>2 DEF Slot
    <3>2. k \in G <=> k - 1 \in F
      BY <2>2 DEF Shift
    <3>3. k - 1 \in F <=> Slot(p, k - 1, m) \in d.history
      BY <3>1 DEF Ring
    <3> QED BY <3>1, <3>2, <3>3
  <2> QED BY <2>1, <2>2
<1> HIDE DEF q, H, G, e
<1>7. Ring(e, m, G)
  BY <1>1, <1>4, <1>5, <1>6 DEF Ring
<1> QED BY <1>7 DEF e, G

(* N in a row takes a result: a failure lengthens the row, anything else   *)
(* ends it (seq_rule_run).                                                 *)
LEMMA CountKeepsRow ==
  ASSUME NEW d \in DataType, NEW w \in Nat, MaxCount <= w,
         NEW F \in SUBSET Nat, Row(d, F), NEW fail \in BOOLEAN
  PROVE  Row(IF fail THEN CountOneMore(d) ELSE [d EXCEPT !.fail_count = 0], Shift(F, w, fail))
<1> DEFINE G == Shift(F, w, fail)
           e == IF fail THEN CountOneMore(d) ELSE [d EXCEPT !.fail_count = 0]
<1> SUFFICES ASSUME NEW n \in 1..MaxCount PROVE e.fail_count >= n <=> 1..n \subseteq G
  BY DEF Row
<1>0. d.fail_count \in 0..MaxCount /\ MaxCount \in Nat
  BY RuleOpsAssumption DEF DataType
<1>1. CASE ~fail
  <2>1. e.fail_count = 0
    BY <1>1 DEF DataType
  <2>2. 1 \notin G /\ 1 \in 1..n
    BY <1>1, <1>0 DEF Shift
  <2> QED BY <2>1, <2>2, <1>0
<1>2. CASE fail
  <2>1. e.fail_count = IF d.fail_count < MaxCount THEN d.fail_count + 1 ELSE MaxCount
    BY <1>2 DEF CountOneMore, DataType
  <2>2. e.fail_count >= n <=> d.fail_count >= n - 1
    BY <2>1, <1>0
  <2>3. 1..n \subseteq G <=> 1..(n - 1) \subseteq F
    <3>1. ASSUME 1..n \subseteq G, NEW j \in 1..(n - 1) PROVE j \in F
      <4>1. j + 1 \in 1..n /\ j + 1 \in G
        BY <3>1, <1>0
      <4> QED BY <4>1 DEF Shift
    <3>2. ASSUME 1..(n - 1) \subseteq F, NEW j \in 1..n PROVE j \in G
      <4>1. j = 1 \/ j - 1 \in F
        BY <3>2, <1>0
      <4> QED BY <4>1, <1>2, <1>0 DEF Shift
    <3> QED BY <3>1, <3>2
  <2>4. CASE n = 1
    BY <2>2, <2>3, <2>4, <1>0
  <2>5. CASE n # 1
    <3>1. n - 1 \in 1..MaxCount
      BY <2>5, <1>0
    <3> QED BY <3>1, <2>2, <2>3 DEF Row
  <2> QED BY <2>4, <2>5
<1> QED BY <1>1, <1>2

(* What a rule is run on leaves what it remembers of the type it should be. *)
LEMMA RememberTyped ==
  ASSUME NEW d \in DataType, NEW t, NEW x,
         t.op = "N_IN_M" => t.m \in Nat
  PROVE  Remember(d, t, x) \in DataType
<1>1. MaxCount \in Nat /\ ByteBits \in Nat \ {0}
  BY RuleOpsAssumption
<1>2. CountOneMore(d) \in DataType /\ [d EXCEPT !.fail_count = 0] \in DataType
  BY <1>1 DEF CountOneMore, DataType
<1>3. NEver(d, t.n) \in DataType
  BY <1>2 DEF NEver
<1>4. ASSUME t.op = "N_IN_M" PROVE Record(d, t.m, x.result) \in DataType
  <2>1. Allocated(d, t.m) \in DataType
    BY <1>1, <1>4 DEF Allocated, DataType
  <2> DEFINE a == Allocated(d, t.m)
  <2>2. a.position \in Nat /\ t.m \in Nat
    BY <2>1, <1>4 DEF DataType
  <2>3. \A h \in SUBSET Nat, q \in Nat : [a EXCEPT !.history = h, !.position = q] \in DataType
    BY <2>1 DEF DataType
  <2>4. a.history \cup {a.position} \in SUBSET Nat /\ a.history \ {a.position} \in SUBSET Nat
    BY <2>1 DEF DataType
  <2>5. a.position + 1 \in Nat /\ 0 \in Nat
    BY <2>2
  <2> DEFINE h == IF x.result = "FAIL" THEN a.history \cup {a.position}
                  ELSE a.history \ {a.position}
             q == IF a.position + 1 >= t.m THEN 0 ELSE a.position + 1
  <2>6. Record(d, t.m, x.result) =
          IF OffEnd(a) THEN a ELSE [a EXCEPT !.history = h, !.position = q]
    BY DEF Record
  <2>7. h \in SUBSET Nat
    BY <2>4
  <2>8. q \in Nat
    BY <2>5
  <2>9. a \in DataType
    BY <2>1
  <2> HIDE DEF a, h, q
  <2>10. [a EXCEPT !.history = h, !.position = q] \in DataType
    BY <2>3, <2>7, <2>8
  <2> QED BY <2>6, <2>9, <2>10
<1> QED BY <1>2, <1>3, <1>4 DEF Remember

(* Nothing is remembered at first.                                         *)
LEMMA InitCounts == Init => CountsFit
<1> SUFFICES ASSUME Init PROVE CountsFit
  OBVIOUS
<1>1. Fresh \in DataType
  BY RuleOpsAssumption DEF Fresh, DataType
<1>2. Typed
  BY <1>1 DEF Init, Typed
<1>3. ASSUME NEW r \in Rules, NEW t \in Types[r] PROVE t.op = "N_IN_M" => Ring(data[r], t.m, failed[r])
  <2>1. SUFFICES ASSUME t.op = "N_IN_M" PROVE Ring(Fresh, t.m, {})
    BY DEF Init
  <2>2. t.m \in Nat \ {0}
    BY <2>1, CountsAssumption, RuleChainAssumption
  <2> QED BY <2>2 DEF Ring, Fresh
<1>4. ASSUME NEW r \in Rules PROVE Row(data[r], failed[r])
  <2>1. data[r].fail_count = 0 /\ failed[r] = {}
    BY DEF Init, Fresh
  <2> QED BY <2>1, RuleOpsAssumption DEF Row
<1> QED BY <1>2, <1>3, <1>4 DEF CountsFit, Remembered

(* A rule that runs remembers the result it takes (StepRun).               *)
LEMMA StepRunCounts == CountsFit /\ StepRun => CountsFit'
<1> SUFFICES ASSUME CountsFit, StepRun PROVE CountsFit'
  OBVIOUS
<1>1. PICK r, x : /\ data' = [data EXCEPT ![r] = Remember(data[r], type[r], x)]
                  /\ failed' = Counted(r, x.result)
                  /\ type' = type
  BY DEF StepRun
<1>2. \A s \in Rules : s # r => data'[s] = data[s] /\ failed'[s] = failed[s]
  BY <1>1 DEF Counted, CountsFit, Typed
<1>3. CASE r \notin Rules
  <2>1. data' = data /\ failed' = failed
    BY <1>1, <1>3 DEF Counted, CountsFit, Typed
  <2> QED BY <2>1, <1>1 DEF CountsFit, Typed, Remembered
<1>4. CASE r \in Rules
  <2> DEFINE d == data[r]
             ty == type[r]
             e == Remember(d, ty, x)
             G == Shift(failed[r], Window[r], x.result = "FAIL")
  <2>1. d \in DataType /\ failed[r] \in SUBSET Nat /\ Window[r] \in Nat
    BY <1>4, RuleChainAssumption DEF CountsFit, Typed
  <2>2. ty \in Types[r] \cup {OnFail}
    BY <1>4 DEF CountsFit, Typed
  <2>3. ty.op = "N_IN_M" => ty \in Types[r] /\ ty.m \in Nat \ {0} /\ ty.m <= Window[r]
    BY <2>1, <2>2, <1>4, CountsAssumption DEF OnFail, Type
  <2>4. ty.op = "N_IN_ROW" => ty \in Types[r] /\ MaxCount <= Window[r]
    BY <2>2, <1>4, CountsAssumption DEF OnFail, Type
  <2>5. e \in DataType
    BY <2>1, <2>3, RememberTyped
  <2>6. data'[r] = e
    BY <1>1, <1>4 DEF CountsFit, Typed
  <2>7. failed'[r] = IF Counts(ty) /\ Takes(ty, Result(x.result)) THEN G ELSE failed[r]
    BY <1>1, <1>4 DEF Counted, Shift, CountsFit, Typed
  <2>8. G \in SUBSET Nat
    BY <2>1 DEF Shift
  <2> HIDE DEF d, ty, e, G
  <2>9. Typed'
    <3>1. data' \in [Rules -> DataType]
      BY <1>1, <2>5 DEF CountsFit, Typed, d, ty, e
    <3>2. failed' \in [Rules -> SUBSET Nat]
      <4>1. failed' = failed \/ failed' = [failed EXCEPT ![r] = G]
        BY <1>1 DEF Counted, Shift, G
      <4> QED BY <4>1, <2>8 DEF CountsFit, Typed
    <3> QED BY <3>1, <3>2, <1>1 DEF CountsFit, Typed
  <2>10. ASSUME NEW t \in Types[r], t.op = "N_IN_M" PROVE Ring(e, t.m, failed'[r])
    <3>1. Ring(d, t.m, failed[r])
      BY <1>4, <2>10 DEF CountsFit, Remembered, d
    <3>2. CASE ty.op = "N_IN_M"
      <4>1. ty.m = t.m
        BY <3>2, <2>3, <2>10, <1>4, CountsAssumption DEF Counts
      <4>2. CASE Takes(ty, x)
        <5>1. e = Record(d, t.m, x.result) /\ failed'[r] = G
          BY <4>1, <4>2, <3>2, <2>7 DEF e, Remember, Counts, Takes, Result
        <5> QED BY <5>1, <4>1, <3>1, <3>2, <2>1, <2>3, RecordKeepsRing DEF d, G
      <4>3. CASE ~Takes(ty, x)
        <5>1. e = d /\ failed'[r] = failed[r]
          BY <4>3, <3>2, <2>7 DEF e, Remember, Takes, Result
        <5> QED BY <5>1, <3>1
      <4> QED BY <4>2, <4>3
    <3>3. CASE ty.op # "N_IN_M"
      <4>1. ty.op # "N_IN_ROW" /\ ty.op # "N_EVER"
        <5>1. CASE ty = OnFail
          BY <5>1 DEF OnFail, Type
        <5>2. CASE ty \in Types[r]
          BY <5>2, <3>3, <2>10, <1>4, CountsAssumption DEF Counts
        <5> QED BY <5>1, <5>2, <2>2
      <4>2. e = d /\ failed'[r] = failed[r]
        BY <4>1, <3>3, <2>7 DEF e, Remember, Counts
      <4> QED BY <4>2, <3>1
    <3> QED BY <3>2, <3>3
  <2>11. ASSUME NEW t \in Types[r], t.op = "N_IN_ROW" PROVE Row(e, failed'[r])
    <3>1. Row(d, failed[r])
      BY <1>4, <2>11 DEF CountsFit, Remembered, d
    <3>2. CASE ty.op = "N_IN_ROW"
      <4>1. failed'[r] = G
        BY <3>2, <2>7 DEF Counts, Takes
      <4>2. e = IF x.result = "FAIL" THEN CountOneMore(d) ELSE [d EXCEPT !.fail_count = 0]
        BY <3>2 DEF e, Remember
      <4> QED BY <4>1, <4>2, <3>1, <3>2, <2>1, <2>4, CountKeepsRow DEF d, G
    <3>3. CASE ty.op # "N_IN_ROW"
      <4>1. ty.op # "N_IN_M" /\ ty.op # "N_EVER"
        <5>1. CASE ty = OnFail
          BY <5>1 DEF OnFail, Type
        <5>2. CASE ty \in Types[r]
          BY <5>2, <3>3, <2>11, <1>4, CountsAssumption DEF Counts
        <5> QED BY <5>1, <5>2, <2>2
      <4>2. e = d /\ failed'[r] = failed[r]
        BY <4>1, <3>3, <2>7 DEF e, Remember, Counts
      <4> QED BY <4>2, <3>1
    <3> QED BY <3>2, <3>3
  <2>12. Remembered(r)'
    BY <2>6, <2>10, <2>11 DEF Remembered
  <2>13. ASSUME NEW s \in Rules, s # r PROVE Remembered(s)'
    BY <2>13, <1>2 DEF CountsFit, Remembered
  <2> QED BY <2>9, <2>12, <2>13 DEF CountsFit
<1> QED BY <1>3, <1>4

(* No other step changes what a rule remembers, or the operator of a rule  *)
(* but to one of its own.                                                  *)
LEMMA NextCounts == CountsFit /\ [Next]_vars => CountsFit'
<1> SUFFICES ASSUME CountsFit, [Next]_vars PROVE CountsFit'
  OBVIOUS
<1>1. CASE StepRun
  BY <1>1, StepRunCounts
<1>2. ASSUME NEW r \in Rules, NEW t \in Types[r], SetType(r, t) PROVE CountsFit'
  <2>1. data' = data /\ failed' = failed /\ type' = [type EXCEPT ![r] = t]
    BY <1>2 DEF SetType
  <2>2. Typed'
    BY <2>1 DEF CountsFit, Typed
  <2> QED BY <2>1, <2>2 DEF CountsFit, Remembered
<1>3. CASE UNCHANGED <<type, data, failed>>
  BY <1>3 DEF CountsFit, Typed, Remembered
<1>4. CASE UNCHANGED vars
  BY <1>3, <1>4 DEF vars
<1>5. CASE Next
  <2>1. ASSUME NEW t \in Tests, CreateTestCall(t) PROVE UNCHANGED <<type, data, failed>>
    BY <2>1 DEF CreateTestCall
  <2>2. ASSUME NEW p \in Feeds, CreateRuleCall(p[2], p[1]) PROVE UNCHANGED <<type, data, failed>>
    BY <2>2 DEF CreateRuleCall
  <2>3. ASSUME NEW p \in Feeds, AddInputCall(p[2], p[1]) PROVE UNCHANGED <<type, data, failed>>
    BY <2>3 DEF AddInputCall
  <2>4. ASSUME NEW o \in Deletable, Delete(o) PROVE UNCHANGED <<type, data, failed>>
    BY <2>4 DEF Delete
  <2>5. ASSUME NEW t \in Tests, NEW x \in Answers[t], TestResult(t, x)
        PROVE UNCHANGED <<type, data, failed>>
    BY <2>5 DEF TestResult
  <2>6. ASSUME NEW t \in Tests, FeedBack(t) PROVE UNCHANGED <<type, data, failed>>
    BY <2>6 DEF FeedBack, auxiliary
  <2>7. StepAbort => UNCHANGED <<type, data, failed>>
    BY DEF StepAbort, auxiliary
  <2>8. StepRci => UNCHANGED <<type, data, failed>>
    BY DEF StepRci
  <2> QED
    BY <1>1, <1>2, <1>3, <1>5, <2>1, <2>2, <2>3, <2>4, <2>5, <2>6, <2>7, <2>8 DEF Next
<1> QED BY <1>4, <1>5

(* What rules remember is always true of what they counted.                *)
LEMMA CountsInvariant == Spec => []CountsFit
BY InitCounts, NextCounts, PTL DEF Spec

(* For any M, any number of rules and any order of results and calls: N in *)
(* M counts the failures among the last M results.                         *)
THEOREM FailuresCountedAlways == Spec => []FailuresCounted
<1>1. CountsFit => FailuresCounted
  <2> SUFFICES ASSUME CountsFit, NEW r \in Rules, type[r].op = "N_IN_M"
               PROVE  Cardinality(data[r].history) = Cardinality(failed[r] \cap 1..type[r].m)
    BY DEF FailuresCounted
  <2>1. type[r] \in Types[r]
    BY DEF CountsFit, Typed, OnFail, Type
  <2>2. type[r].m \in Nat
    BY <2>1, CountsAssumption, RuleChainAssumption
  <2>3. Ring(data[r], type[r].m, failed[r])
    BY <2>1 DEF CountsFit, Remembered
  <2> QED BY <2>2, <2>3, RingCounts
<1> QED BY <1>1, CountsInvariant, PTL

(* And N in a row has counted to n exactly when the last n results were    *)
(* failures.                                                               *)
THEOREM RowCountedAlways == Spec => []RowCounted
<1>1. CountsFit => RowCounted
  <2> SUFFICES ASSUME CountsFit, NEW r \in Rules, type[r].op = "N_IN_ROW"
               PROVE  Row(data[r], failed[r])
    BY DEF RowCounted, Row
  <2>1. type[r] \in Types[r]
    BY DEF CountsFit, Typed, OnFail, Type
  <2> QED BY <2>1 DEF CountsFit, Remembered
<1> QED BY <1>1, CountsInvariant, PTL

-----------------------------------------------------------------------------
(* Chains.                                                                 *)

(* What each part of the links is.                                         *)
LEMMA LinkTypes ==
  ASSUME NEW l \in LinksType
  PROVE  /\ l.kind \in [Objs -> Kinds]
         /\ l.inputs \in [Rules -> Seq(Objs)]
         /\ l.head \in [Objs -> Rules \cup {NoRule}]
         /\ l.ref_rule \in [Objs -> Rules \cup {NoRule}]
         /\ l.next_in_input \in [Rules -> Rules \cup {NoRule}]
         /\ \A o \in Objs : HeadOf(l, o) \in Rules \cup {NoRule}
         /\ NoRule \notin Rules
BY RuleLinksAssumption DEF LinksType, HeadOf

(* A chain has its head and the next of each of its rules, and is in every *)
(* set that does.                                                          *)
LEMMA ChainIs ==
  ASSUME NEW l \in LinksType, NEW o \in Objs
  PROVE  /\ Chain(l, o) \subseteq Rules
         /\ HeadOf(l, o) \in Chain(l, o) \cup {NoRule}
         /\ Closed(l, Chain(l, o))
         /\ \A S \in SUBSET Rules :
              HeadOf(l, o) \in S \cup {NoRule} /\ Closed(l, S) => Chain(l, o) \subseteq S
<1>1. Chain(l, o) \subseteq Rules
  BY DEF Chain
<1>2. HeadOf(l, o) \in Chain(l, o) \cup {NoRule}
  BY LinkTypes DEF Chain
<1>3. Closed(l, Chain(l, o))
  BY LinkTypes DEF Chain, Closed
<1>4. ASSUME NEW S \in SUBSET Rules, HeadOf(l, o) \in S \cup {NoRule}, Closed(l, S)
      PROVE  Chain(l, o) \subseteq S
  BY <1>4 DEF Chain
<1> QED
  BY <1>1, <1>2, <1>3, <1>4

(* The inputs of a rule, and the rules an input feeds.                     *)
LEMMA LinkedIs ==
  ASSUME NEW l \in LinksType
  PROVE  /\ \A r \in Linked(l) : \E i \in Objs : r \in Fed(l, i)
         /\ \A i \in Objs : Fed(l, i) \subseteq Linked(l)
         /\ \A r \in Rules : ToSet(l.inputs[r]) \subseteq Objs
         /\ Linked(l) \subseteq Rules
<1>1. ASSUME NEW r \in Rules
      PROVE  /\ ToSet(l.inputs[r]) \subseteq Objs
             /\ l.inputs[r] # << >> <=> \E i \in Objs : i \in ToSet(l.inputs[r])
  <2>1. l.inputs[r] \in Seq(Objs)
    BY LinkTypes
  <2>2. ToSet(l.inputs[r]) = {l.inputs[r][k] : k \in 1..Len(l.inputs[r])}
    BY <2>1 DEF ToSet
  <2>3. l.inputs[r] # << >> => 1 \in 1..Len(l.inputs[r])
    BY <2>1
  <2>4. l.inputs[r] = << >> => 1..Len(l.inputs[r]) = {}
    OBVIOUS
  <2> QED
    BY <2>1, <2>2, <2>3, <2>4
<1> QED
  BY <1>1 DEF Linked, Fed

(* Where the links fit, a linked rule is followed by one of the same       *)
(* chains, and not by itself.                                              *)
LEMMA NextIs ==
  ASSUME NEW l, LinksFit(l), NEW r \in Linked(l)
  PROVE  /\ l.next_in_input[r] # r
         /\ \A o \in Objs : r \in Fed(l, o) => l.next_in_input[r] \in Fed(l, o) \cup {NoRule}
<1>1. l.next_in_input[r] # r
  <2>1. {r} \in SUBSET Linked(l) /\ {r} # {}
    OBVIOUS
  <2> QED
    BY <2>1 DEF LinksFit, NoRing
<1>2. ASSUME NEW o \in Objs, r \in Fed(l, o)
      PROVE  l.next_in_input[r] \in Fed(l, o) \cup {NoRule}
  BY <1>2, ChainIs DEF LinksFit, Closed
<1> QED
  BY <1>1, <1>2

(* Where inputs are unshared, a rule with a second input is alone on the   *)
(* chains of both.                                                         *)
LEMMA SecondInput ==
  ASSUME Separate, NEW l, LinksFit(l), NEW i \in Objs, NEW j \in Objs, i # j,
         NEW r \in Fed(l, i) \cap Fed(l, j)
  PROVE  Fed(l, i) = {r} /\ l.next_in_input[r] = NoRule
<1>1. \A q \in Fed(l, i) : <<i, q>> \in Feeds
  BY DEF LinksFit, InputsFit, Fed
<1>2. <<j, r>> \in Feeds
  BY DEF LinksFit, InputsFit, Fed
<1>3. ASSUME NEW q \in Fed(l, i), q # r PROVE FALSE
  <2> DEFINE a == <<i, r>>
             b == <<i, q>>
             c == <<j, r>>
  <2>1. a \in Feeds /\ b \in Feeds /\ c \in Feeds
    BY <1>1, <1>2
  <2>2. a[1] = b[1] /\ a[2] # b[2] /\ c[2] = a[2] /\ c[1] # a[1]
    BY <1>3
  <2> HIDE DEF a, b, c
  <2> QED
    BY <2>1, <2>2 DEF Separate, Unshared
<1>4. Fed(l, i) = {r}
  BY <1>3
<1> QED
  BY <1>4, LinkedIs, NextIs DEF LinksFit

(* A chain on which nothing changes stays.                                 *)
LEMMA ChainStays ==
  ASSUME NEW l \in LinksType, NEW m \in LinksType, NEW o \in Objs,
         HeadOf(m, o) = HeadOf(l, o),
         \A p \in Chain(l, o) : m.next_in_input[p] = l.next_in_input[p]
  PROVE  Chain(m, o) = Chain(l, o)
<1> DEFINE C == Chain(l, o)
           D == Chain(m, o)
<1>1. C \subseteq Rules /\ D \subseteq Rules
  BY ChainIs
<1>2. D \subseteq C
  <2>1. HeadOf(m, o) \in C \cup {NoRule} /\ Closed(m, C)
    BY ChainIs DEF Closed
  <2> QED
    BY <1>1, <2>1, ChainIs
<1>3. C \subseteq D
  <2>1. HeadOf(l, o) \in D \cup {NoRule} /\ Closed(m, D)
    BY ChainIs
  <2>2. Closed(l, D)
    BY <1>2, <2>1 DEF Closed
  <2> QED
    BY <1>1, <2>1, <2>2, ChainIs
<1> QED
  BY <1>2, <1>3

(* Links stay fit when kinds change, what points at the rules does not,    *)
(* and what has inputs stays what it is.                                   *)
LEMMA SameFit ==
  ASSUME NEW l, LinksFit(l), NEW m \in LinksType, KindsFit(m),
         m.inputs = l.inputs,
         \A p \in Linked(l) : m.next_in_input[p] = l.next_in_input[p] /\ m.kind[p] = l.kind[p],
         \A o \in Objs : HeadOf(m, o) = HeadOf(l, o),
         \A o \in Objs : l.kind[o] \in {"NONE", "TEST", "RULE"} =>
           \/ m.kind[o] \in {"NONE", "TEST", "RULE"}
           \/ Fed(l, o) = {}
  PROVE  LinksFit(m)
<1>1. l \in LinksType /\ Linked(m) = Linked(l) /\ \A o \in Objs : Fed(m, o) = Fed(l, o)
  BY DEF LinksFit, Linked, Fed
<1>2. InputsFit(m)
  <2>1. \A r \in Rules : ToSet(l.inputs[r]) \subseteq Objs /\ (r \in Linked(l) <=> l.inputs[r] # << >>)
    BY <1>1, LinkedIs DEF Linked
  <2>2. \A r \in Rules : \A j \in ToSet(l.inputs[r]) : Fed(l, j) # {}
    BY DEF Fed
  <2> QED
    BY <2>1, <2>2 DEF LinksFit, InputsFit
<1>3. ASSUME NEW o \in Objs PROVE Chain(m, o) = Fed(m, o)
  BY <1>1, ChainStays, LinkedIs DEF LinksFit
<1>4. NoRing(m)
  BY <1>1 DEF LinksFit, NoRing
<1> QED
  BY <1>2, <1>3, <1>4 DEF LinksFit

(* A rule that is put at the head of the chain of one input more.          *)
LEMMA FeedFit ==
  ASSUME Separate, NEW l, LinksFit(l), NEW m \in LinksType, KindsFit(m),
         NEW i \in Objs, NEW r \in Rules, <<i, r>> \in Feeds, r \notin Fed(l, i),
         m.inputs = [l.inputs EXCEPT ![r] = <<i>> \o l.inputs[r]],
         m.next_in_input = [l.next_in_input EXCEPT ![r] = HeadOf(l, i)],
         \A o \in Objs : HeadOf(m, o) = IF o = i THEN r ELSE HeadOf(l, o),
         \A p \in Linked(l) : m.kind[p] = l.kind[p],
         m.kind[r] = "RULE", m.kind[i] \in {"NONE", "TEST", "RULE"},
         \A o \in Objs : l.kind[o] \in {"NONE", "TEST", "RULE"}
                           => m.kind[o] \in {"NONE", "TEST", "RULE"}
  PROVE  LinksFit(m)
<1>0. l \in LinksType
  BY DEF LinksFit
<1>1. /\ m.inputs[r] = <<i>> \o l.inputs[r] /\ l.inputs[r] \in Seq(Objs)
      /\ \A p \in Rules : p # r => m.inputs[p] = l.inputs[p]
      /\ m.next_in_input[r] = HeadOf(l, i)
      /\ \A p \in Rules : p # r => m.next_in_input[p] = l.next_in_input[p]
  BY <1>0, LinkTypes
<1>2. /\ ToSet(m.inputs[r]) = ToSet(l.inputs[r]) \cup {i}
      /\ IsInjective(l.inputs[r]) => IsInjective(m.inputs[r])
      /\ m.inputs[r] # << >>
  <2> DEFINE s == l.inputs[r]
             n == <<i>> \o s
  <2>1. /\ n \in Seq(Objs) /\ Len(n) = Len(s) + 1 /\ n[1] = i
        /\ \A k \in 1..Len(s) : n[k + 1] = s[k]
        /\ \A k \in 1..Len(n) : k = 1 \/ (k - 1 \in 1..Len(s) /\ n[k] = s[k - 1])
    BY <1>1
  <2>0. s \in Seq(Objs) /\ n \in Seq(Objs)
    BY <1>1
  <2> HIDE DEF n, s
  <2>2. ToSet(s) = {s[k] : k \in 1..Len(s)} /\ ToSet(n) = {n[k] : k \in 1..Len(n)}
    <3>1. DOMAIN s = 1..Len(s) /\ DOMAIN n = 1..Len(n)
      BY <2>0
    <3> QED
      BY <3>1 DEF ToSet
  <2>3. \A k \in 1..Len(s) : s[k] # i
    BY <2>2 DEF Fed, s
  <2>4. n # << >>
    BY <2>1
  <2>5. Len(s) \in Nat /\ \A k \in 1..Len(s) : k + 1 \in 1..Len(n)
    BY <2>0, <2>1
  <2>6. 1 \in 1..Len(n)
    BY <2>1, <2>5
  <2>7. ToSet(n) = ToSet(s) \cup {i}
    <3>1. \A x \in ToSet(n) : x \in ToSet(s) \cup {i}
      BY <2>1, <2>2
    <3>2. \A x \in ToSet(s) : x \in ToSet(n)
      BY <2>1, <2>2, <2>5
    <3>3. i \in ToSet(n)
      BY <2>1, <2>2, <2>6
    <3> QED
      BY <3>1, <3>2, <3>3
  <2>8. IsInjective(s) => IsInjective(n)
    <3> SUFFICES ASSUME IsInjective(s), NEW j \in 1..Len(n), NEW k \in 1..Len(n), n[j] = n[k]
                 PROVE  j = k
      BY <2>0, InjectiveIs
    <3>1. \A x, y \in 1..Len(s) : s[x] = s[y] => x = y
      BY <2>0, InjectiveIs
    <3>2. CASE j = 1 \/ k = 1
      <4>1. \A x \in 1..Len(n) : n[x] = i => x = 1
        BY <2>1, <2>3
      <4> QED
        BY <2>1, <3>2, <4>1
    <3>3. CASE j # 1 /\ k # 1
      <4>1. j - 1 \in 1..Len(s) /\ k - 1 \in 1..Len(s) /\ s[j - 1] = s[k - 1]
        BY <2>1, <3>3
      <4> QED
        BY <3>1, <4>1
    <3> QED
      BY <3>2, <3>3
  <2> QED
    BY <1>1, <2>4, <2>7, <2>8 DEF n, s
<1>3. /\ \A o \in Objs : Fed(m, o) = IF o = i THEN Fed(l, o) \cup {r} ELSE Fed(l, o)
      /\ Linked(m) = Linked(l) \cup {r}
  BY <1>1, <1>2 DEF Fed, Linked
<1>4. InputsFit(m)
  <2>1. \A p \in Rules : ToSet(l.inputs[p]) \subseteq Objs
    BY <1>0, LinkedIs
  <2>2. ASSUME NEW p \in Rules, p # r
        PROVE  /\ IsInjective(m.inputs[p])
               /\ m.inputs[p] # << >> => m.kind[p] = "RULE"
               /\ \A j \in ToSet(m.inputs[p]) :
                    <<j, p>> \in Feeds /\ m.kind[j] \in {"NONE", "TEST", "RULE"}
    BY <1>1, <2>1, <2>2 DEF LinksFit, InputsFit, Linked
  <2>3. /\ IsInjective(m.inputs[r])
        /\ m.inputs[r] # << >> => m.kind[r] = "RULE"
        /\ \A j \in ToSet(m.inputs[r]) :
             <<j, r>> \in Feeds /\ m.kind[j] \in {"NONE", "TEST", "RULE"}
    BY <1>2, <2>1 DEF LinksFit, InputsFit
  <2> QED
    BY <2>2, <2>3 DEF InputsFit
(* Nothing points at r but heads, and r at what comes after it on chains.  *)
<1>5. ASSUME NEW o \in Objs, r \in Fed(l, o)
      PROVE  Fed(l, o) = {r} /\ m.next_in_input[r] = NoRule /\ l.next_in_input[r] = NoRule
  <2>1. <<o, r>> \in Feeds /\ o # i
    BY <1>5 DEF LinksFit, InputsFit, Fed
  <2>2. Fed(l, o) = {r}
    <3>1. \A q \in Fed(l, o) : <<o, q>> \in Feeds
      BY DEF LinksFit, InputsFit, Fed
    <3>2. ASSUME NEW q \in Fed(l, o), q # r PROVE FALSE
      <4> DEFINE a == <<o, r>>
                 b == <<o, q>>
                 c == <<i, r>>
      <4>1. a \in Feeds /\ b \in Feeds /\ c \in Feeds
        BY <2>1, <3>1
      <4>2. a[1] = b[1] /\ a[2] # b[2] /\ c[2] = a[2] /\ c[1] # a[1]
        BY <2>1, <3>2
      <4> HIDE DEF a, b, c
      <4> QED
        BY <4>1, <4>2 DEF Separate, Unshared
    <3> QED
      BY <1>5, <3>2
  <2>3. Fed(l, i) = {}
    <3>1. \A q \in Fed(l, i) : <<i, q>> \in Feeds /\ q # r
      BY DEF LinksFit, InputsFit, Fed
    <3>2. ASSUME NEW q \in Fed(l, i) PROVE FALSE
      <4> DEFINE a == <<i, r>>
                 b == <<i, q>>
                 c == <<o, r>>
      <4>1. a \in Feeds /\ b \in Feeds /\ c \in Feeds
        BY <2>1, <3>1
      <4>2. a[1] = b[1] /\ a[2] # b[2] /\ c[2] = a[2] /\ c[1] # a[1]
        BY <2>1, <3>1
      <4> HIDE DEF a, b, c
      <4> QED
        BY <4>1, <4>2 DEF Separate, Unshared
    <3> QED
      BY <3>2
  <2>4. HeadOf(l, i) = NoRule
    BY <1>0, <2>3, ChainIs DEF LinksFit
  <2>5. r \in Linked(l) /\ l.next_in_input[r] = NoRule
    BY <1>0, <1>5, <2>2, LinkedIs, NextIs
  <2> QED
    BY <1>1, <2>2, <2>4, <2>5
<1>6. ASSUME NEW p \in Linked(l), l.next_in_input[p] = r PROVE FALSE
  <2>1. PICK o \in Objs : p \in Fed(l, o)
    BY <1>0, LinkedIs
  <2>2. r \in Fed(l, o) /\ p # r
    BY <1>6, <2>1, NextIs, RuleLinksAssumption
  <2> QED
    BY <2>1, <2>2, <1>5
<1>7. ASSUME NEW o \in Objs, o # i PROVE Chain(m, o) = Chain(l, o)
  <2>1. \A p \in Chain(l, o) : m.next_in_input[p] = l.next_in_input[p]
    BY <1>0, <1>1, <1>5, ChainIs DEF LinksFit
  <2> QED
    BY <1>0, <1>7, <2>1, ChainStays
<1>8. Chain(m, i) = Chain(l, i) \cup {r}
  <2> DEFINE C == Chain(l, i)
             D == Chain(m, i)
  <2>1. /\ C \subseteq Rules /\ HeadOf(l, i) \in C \cup {NoRule} /\ Closed(l, C) /\ r \notin C
        /\ D \subseteq Rules /\ r \in D /\ Closed(m, D)
        /\ C \subseteq Linked(l)
    BY <1>0, ChainIs, LinkedIs, RuleLinksAssumption DEF LinksFit
  <2>2. D \subseteq C \cup {r}
    <3>1. Closed(m, C \cup {r})
      BY <1>1, <2>1 DEF Closed
    <3> QED
      BY <2>1, <3>1, ChainIs
  <2>3. C \subseteq D
    <3>1. Closed(l, D \cap C)
      BY <1>1, <1>6, <2>1 DEF Closed
    <3>2. HeadOf(l, i) \in (D \cap C) \cup {NoRule}
      BY <1>1, <2>1 DEF Closed
    <3>3. D \cap C \in SUBSET Rules
      BY <2>1
    <3> QED
      BY <1>0, <3>1, <3>2, <3>3, ChainIs
  <2> QED
    BY <2>1, <2>2, <2>3
<1>9. NoRing(m)
  <2> SUFFICES ASSUME NEW R \in SUBSET Linked(m), R # {}
               PROVE  \E p \in R : m.next_in_input[p] \notin R
    BY DEF NoRing
  <2>1. R \ {r} \in SUBSET Linked(l) /\ Linked(l) \subseteq Rules
    BY <1>0, <1>3, LinkedIs
  <2>2. CASE R \ {r} = {}
    <3>1. HeadOf(l, i) # r
      BY <1>0, ChainIs, RuleLinksAssumption DEF LinksFit
    <3> QED
      BY <1>1, <2>2, <3>1
  <2>3. CASE R \ {r} # {}
    <3>1. PICK p \in R \ {r} : l.next_in_input[p] \notin R \ {r}
      BY <2>1, <2>3 DEF LinksFit, NoRing
    <3>2. l.next_in_input[p] # r /\ m.next_in_input[p] = l.next_in_input[p]
      BY <1>1, <1>6, <2>1, <3>1
    <3> QED
      BY <3>1, <3>2
  <2> QED
    BY <2>2, <2>3
<1>10. \A o \in Objs : Chain(m, o) = Fed(m, o)
  BY <1>3, <1>7, <1>8 DEF LinksFit
<1> QED
  BY <1>4, <1>9, <1>10 DEF LinksFit

(* A rule that leaves all its chains: what points at it comes to point at  *)
(* the rule after it.                                                      *)
LEMMA DropFit ==
  ASSUME NEW l, LinksFit(l), NEW m \in LinksType, KindsFit(m), NEW r \in Linked(l),
         m.inputs = [l.inputs EXCEPT ![r] = << >>],
         \A p \in Linked(l) : p # r =>
           m.next_in_input[p] = IF l.next_in_input[p] = r THEN l.next_in_input[r]
                                ELSE l.next_in_input[p],
         \A o \in Objs : r \notin Fed(l, o) => HeadOf(m, o) = HeadOf(l, o),
         \A o \in Objs : r \in Fed(l, o) =>
           HeadOf(m, o) = IF HeadOf(l, o) = r THEN l.next_in_input[r] ELSE HeadOf(l, o),
         \A p \in Linked(l) : p # r => m.kind[p] = l.kind[p],
         \A o \in Objs : l.kind[o] \in {"NONE", "TEST", "RULE"} =>
           \/ m.kind[o] \in {"NONE", "TEST", "RULE"}
           \/ Fed(l, o) \subseteq {r}
  PROVE  LinksFit(m)
<1>0. l \in LinksType /\ r \in Rules
  BY LinkedIs DEF LinksFit
<1>1. /\ m.inputs[r] = << >>
      /\ \A p \in Rules : p # r => m.inputs[p] = l.inputs[p]
  BY <1>0, LinkTypes
<1>2. ToSet(m.inputs[r]) = {}
  BY <1>1 DEF ToSet
<1>3. /\ \A o \in Objs : Fed(m, o) = Fed(l, o) \ {r}
      /\ Linked(m) = Linked(l) \ {r}
  BY <1>1, <1>2 DEF Fed, Linked
<1>4. InputsFit(m)
  <2>1. ASSUME NEW p \in Rules, p # r
        PROVE  /\ IsInjective(m.inputs[p])
               /\ m.inputs[p] # << >> => m.kind[p] = "RULE"
               /\ \A j \in ToSet(m.inputs[p]) :
                    <<j, p>> \in Feeds /\ m.kind[j] \in {"NONE", "TEST", "RULE"}
    <3>1. \A j \in ToSet(l.inputs[p]) : j \in Objs /\ p \in Fed(l, j)
      BY <1>0, <2>1, LinkedIs DEF Fed
    <3> QED
      BY <1>1, <2>1, <3>1 DEF LinksFit, InputsFit, Linked
  <2>2. IsInjective(m.inputs[r]) /\ m.inputs[r] = << >>
    BY <1>1 DEF IsInjective
  <2> QED
    BY <1>2, <2>1, <2>2 DEF InputsFit
<1>5. l.next_in_input[r] # r
  BY NextIs
<1>6. ASSUME NEW o \in Objs PROVE Chain(m, o) = Chain(l, o) \ {r}
  <2> DEFINE C == Chain(l, o)
             D == Chain(m, o)
  <2>1. /\ C \subseteq Rules /\ HeadOf(l, o) \in C \cup {NoRule} /\ Closed(l, C)
        /\ D \subseteq Rules /\ HeadOf(m, o) \in D \cup {NoRule} /\ Closed(m, D)
        /\ C \subseteq Linked(l) /\ C = Fed(l, o) /\ r # NoRule
    BY <1>0, ChainIs, LinkedIs, RuleLinksAssumption DEF LinksFit
  <2>2. HeadOf(m, o) = IF HeadOf(l, o) = r THEN l.next_in_input[r] ELSE HeadOf(l, o)
    BY <2>1
  <2>3. D \subseteq C \ {r}
    <3>1. Closed(m, C \ {r})
      BY <1>5, <2>1 DEF Closed
    <3>2. HeadOf(m, o) \in (C \ {r}) \cup {NoRule}
      BY <1>5, <2>1, <2>2 DEF Closed
    <3> QED
      BY <2>1, <3>1, <3>2, ChainIs
  <2>4. C \ {r} \subseteq D
    <3>1. CASE HeadOf(l, o) = r \/ \E p \in D : l.next_in_input[p] = r
      <4>1. l.next_in_input[r] \in D \cup {NoRule}
        BY <2>1, <2>2, <2>3, <3>1 DEF Closed
      <4>2. Closed(l, D \cup {r})
        BY <2>1, <2>3, <4>1 DEF Closed
      <4>3. HeadOf(l, o) \in (D \cup {r}) \cup {NoRule}
        BY <2>1, <2>2
      <4>4. D \cup {r} \in SUBSET Rules
        BY <1>0, <2>1
      <4> QED
        BY <1>0, <4>2, <4>3, <4>4, ChainIs
    <3>2. CASE HeadOf(l, o) # r /\ \A p \in D : l.next_in_input[p] # r
      <4>1. Closed(l, D) /\ HeadOf(l, o) \in D \cup {NoRule}
        BY <2>1, <2>2, <2>3, <3>2 DEF Closed
      <4> QED
        BY <1>0, <2>1, <4>1, ChainIs
    <3> QED
      BY <3>1, <3>2
  <2> QED
    BY <2>3, <2>4
<1>7. NoRing(m)
  <2> SUFFICES ASSUME NEW R \in SUBSET Linked(m), R # {}
               PROVE  \E p \in R : m.next_in_input[p] \notin R
    BY DEF NoRing
  <2>1. R \subseteq Linked(l) /\ r \notin R
    BY <1>3
  <2>2. CASE \A p \in R : l.next_in_input[p] # r
    <3>1. PICK p \in R : l.next_in_input[p] \notin R
      BY <2>1 DEF LinksFit, NoRing
    <3> QED
      BY <2>1, <2>2, <3>1
  <2>3. CASE \E p \in R : l.next_in_input[p] = r
    <3>1. R \cup {r} \in SUBSET Linked(l) /\ R \cup {r} # {}
      BY <2>1
    <3>2. PICK q \in R \cup {r} : l.next_in_input[q] \notin R \cup {r}
      BY <3>1 DEF LinksFit, NoRing
    <3>3. PICK p \in R : l.next_in_input[p] = r
      BY <2>3
    <3>4. CASE q = r
      BY <2>1, <3>2, <3>3, <3>4
    <3>5. CASE q # r
      BY <2>1, <3>2, <3>5
    <3> QED
      BY <3>4, <3>5
  <2> QED
    BY <2>2, <2>3
<1>8. \A o \in Objs : Chain(m, o) = Fed(m, o)
  BY <1>3, <1>6 DEF LinksFit
<1> QED
  BY <1>4, <1>7, <1>8 DEF LinksFit

(* What swdiag_list_remove leaves of a list without duplicates.            *)
LEMMA RemoveOne ==
  ASSUME NEW s \in Seq(Objs), IsInjective(s), NEW e \in ToSet(s)
  PROVE  /\ RemoveFirst(s, e) \in Seq(Objs)
         /\ IsInjective(RemoveFirst(s, e))
         /\ ToSet(RemoveFirst(s, e)) = ToSet(s) \ {e}
<1> DEFINE u == RemoveFirst(s, e)
<1>1. DOMAIN s = 1..Len(s) /\ ToSet(s) = {s[j] : j \in 1..Len(s)}
  BY DEF ToSet
<1>2. PICK n \in 1..Len(s) : s[n] = e
  BY <1>1
<1>3. Contains(s, e)
  BY <1>2 DEF Contains
<1>4. PICK k \in 1..Len(s) :
        /\ s[k] = e
        /\ u \in Seq(Objs) /\ Len(u) = Len(s) - 1
        /\ \A j \in 1..(Len(s) - 1) : u[j] = IF j < k THEN s[j] ELSE s[j + 1]
  BY <1>3, RemoveFirstIs
<1> HIDE DEF u
<1>5. \A x, y \in 1..Len(s) : s[x] = s[y] => x = y
  BY InjectiveIs
<1>6. DOMAIN u = 1..Len(u) /\ ToSet(u) = {u[j] : j \in 1..Len(u)}
  BY <1>4 DEF ToSet
<1>7. Len(s) \in Nat
  OBVIOUS
<1>8. ASSUME NEW x \in 1..Len(u), NEW y \in 1..Len(u), u[x] = u[y] PROVE x = y
  <2> DEFINE X == IF x < k THEN x ELSE x + 1
             Y == IF y < k THEN y ELSE y + 1
  <2>0. x \in 1..(Len(s) - 1) /\ y \in 1..(Len(s) - 1) /\ k \in 1..Len(s)
    BY <1>4
  <2>1. X \in 1..Len(s) /\ Y \in 1..Len(s)
    BY <1>7, <2>0
  <2>3. u[x] = s[X] /\ u[y] = s[Y]
    BY <1>4, <2>0
  <2>2. X = Y
    BY <1>5, <1>8, <2>1, <2>3
  <2> QED
    BY <1>7, <2>0, <2>2
<1>9. ASSUME NEW x \in ToSet(u) PROVE x \in ToSet(s) \ {e}
  <2>1. PICK j \in 1..Len(u) : x = u[j]
    BY <1>6
  <2> DEFINE J == IF j < k THEN j ELSE j + 1
  <2>2. x = s[J] /\ J \in 1..Len(s) /\ J # k
    BY <1>4, <1>7, <2>1
  <2> QED
    BY <1>1, <1>4, <1>5, <2>2
<1>10. ASSUME NEW x \in ToSet(s), x # e PROVE x \in ToSet(u)
  <2>1. PICK j \in 1..Len(s) : x = s[j]
    BY <1>1
  <2>2. j # k
    BY <1>4, <1>10, <2>1
  <2> DEFINE J == IF j < k THEN j ELSE j - 1
  <2>3. J \in 1..Len(u) /\ u[J] = s[j]
    BY <1>4, <1>7, <2>2
  <2> QED
    BY <1>6, <2>1, <2>3
<1>11. IsInjective(u)
  BY <1>4, <1>8, InjectiveIs
<1> QED
  BY <1>4, <1>9, <1>10, <1>11 DEF u

(* An input that is deleted is taken off the lists of the rules it feeds.  *)
LEMMA ForgetFit ==
  ASSUME NEW l, LinksFit(l), NEW m \in LinksType, KindsFit(m),
         NEW o \in Objs, o \notin Linked(l),
         \A r \in Rules : m.inputs[r] = IF r \in Fed(l, o) THEN RemoveFirst(l.inputs[r], o)
                                        ELSE l.inputs[r],
         m.next_in_input = l.next_in_input,
         \A i \in Objs : HeadOf(m, i) = IF i = o THEN NoRule ELSE HeadOf(l, i),
         \A i \in Objs : i # o => m.kind[i] = l.kind[i]
  PROVE  LinksFit(m)
<1>0. l \in LinksType
  BY DEF LinksFit
<1>1. ASSUME NEW r \in Rules
      PROVE  /\ IsInjective(m.inputs[r])
             /\ ToSet(m.inputs[r]) = ToSet(l.inputs[r]) \ {o}
  <2>1. l.inputs[r] \in Seq(Objs) /\ IsInjective(l.inputs[r])
    BY <1>0, LinkTypes DEF LinksFit, InputsFit
  <2> QED
    BY <2>1, RemoveOne DEF Fed
<1>2. \A i \in Objs : Fed(m, i) = IF i = o THEN {} ELSE Fed(l, i)
  BY <1>1 DEF Fed
<1>3. Linked(m) \subseteq Linked(l)
  <2>1. \A r \in Linked(m) : \E i \in Objs : r \in Fed(m, i)
    BY LinkedIs
  <2>2. \A i \in Objs : Fed(l, i) \subseteq Linked(l)
    BY <1>0, LinkedIs
  <2> QED
    BY <1>2, <2>1, <2>2
<1>4. InputsFit(m)
  <2> SUFFICES ASSUME NEW r \in Rules
               PROVE  /\ IsInjective(m.inputs[r])
                      /\ m.inputs[r] # << >> => m.kind[r] = "RULE"
                      /\ \A i \in ToSet(m.inputs[r]) :
                           <<i, r>> \in Feeds /\ m.kind[i] \in {"NONE", "TEST", "RULE"}
    BY DEF InputsFit
  <2>1. m.inputs[r] # << >> => m.kind[r] = "RULE"
    <3>1. m.inputs[r] # << >> => r \in Linked(l)
      BY <1>3 DEF Linked
    <3> QED
      BY <3>1 DEF LinksFit, InputsFit, Linked, Objs
  <2>2. \A i \in ToSet(m.inputs[r]) :
          <<i, r>> \in Feeds /\ m.kind[i] \in {"NONE", "TEST", "RULE"}
    BY <1>0, <1>1, LinkedIs DEF LinksFit, InputsFit
  <2> QED
    BY <1>1, <2>1, <2>2
<1>5. ASSUME NEW i \in Objs PROVE Chain(m, i) = Fed(m, i)
  <2>1. CASE i = o
    <3>1. HeadOf(m, i) \in {} \cup {NoRule} /\ Closed(m, {})
      BY <2>1 DEF Closed
    <3> QED
      BY <1>2, <2>1, <3>1, ChainIs
  <2>2. CASE i # o
    BY <1>0, <1>2, <2>2, ChainStays DEF LinksFit
  <2> QED
    BY <2>1, <2>2
<1>6. NoRing(m)
  BY <1>3 DEF LinksFit, NoRing
<1> QED
  BY <1>4, <1>5, <1>6 DEF LinksFit

-----------------------------------------------------------------------------
(* What each operator on links does to each part of them.                  *)

LEMMA GetOrCreateIs ==
  ASSUME NEW l \in LinksType, NEW o \in Objs, NEW k \in {"NONE", "TEST", "RULE"}
  PROVE  LET m == GetOrCreate(l, o, k)
         IN  /\ m \in LinksType
             /\ m.inputs = l.inputs /\ m.next_in_input = l.next_in_input
             /\ m.ref_rule = l.ref_rule
             /\ m.kind[o] = IF l.kind[o] \in {"absent", "NONE"} THEN k ELSE l.kind[o]
             /\ \A p \in Objs : p # o => m.kind[p] = l.kind[p]
             /\ m.head[o] = IF l.kind[o] = "NONE" /\ k # "NONE" THEN NoRule ELSE l.head[o]
             /\ \A p \in Objs : p # o => m.head[p] = l.head[p]
             /\ l.kind[o] \notin {"absent", "NONE"} => m = l
<1> DEFINE m == GetOrCreate(l, o, k)
<1>0. l.kind \in [Objs -> Kinds] /\ l.head \in [Objs -> Rules \cup {NoRule}]
  BY DEF LinksType
<1>1. CASE l.kind[o] = "absent"
  <2>1. m = [l EXCEPT !.kind[o] = k]
    BY <1>1 DEF GetOrCreate
  <2>2. /\ m.kind = [l.kind EXCEPT ![o] = k] /\ m.head = l.head /\ m.ref_rule = l.ref_rule
        /\ m.inputs = l.inputs /\ m.next_in_input = l.next_in_input
    BY <2>1 DEF LinksType
  <2>3. m \in LinksType
    <3>1. [l.kind EXCEPT ![o] = k] \in [Objs -> Kinds]
      BY <1>0 DEF Kinds
    <3>2. m = [l EXCEPT !.kind = [l.kind EXCEPT ![o] = k]]
      BY <2>1 DEF LinksType
    <3> HIDE DEF m
    <3> QED
      BY <3>1, <3>2 DEF LinksType
  <2> HIDE DEF m
  <2>4. m.kind[o] = k /\ \A p \in Objs : p # o => m.kind[p] = l.kind[p]
    BY <1>0, <2>2
  <2> QED
    BY <1>1, <2>2, <2>3, <2>4 DEF m
<1>2. CASE l.kind[o] = "NONE" /\ k # "NONE"
  <2>1. m = [l EXCEPT !.kind[o] = k, !.head[o] = NoRule]
    BY <1>2 DEF GetOrCreate
  <2>2. /\ m.kind = [l.kind EXCEPT ![o] = k] /\ m.head = [l.head EXCEPT ![o] = NoRule]
        /\ m.ref_rule = l.ref_rule
        /\ m.inputs = l.inputs /\ m.next_in_input = l.next_in_input
    BY <2>1 DEF LinksType
  <2>3. m \in LinksType
    <3>1. k \in Kinds
      BY DEF Kinds
    <3>2. [l.kind EXCEPT ![o] = k] \in [Objs -> Kinds]
      BY <1>0, <3>1
    <3>3. [l.head EXCEPT ![o] = NoRule] \in [Objs -> Rules \cup {NoRule}]
      BY <1>0
    <3> QED
      BY <2>1, <3>1, <3>2, <3>3 DEF LinksType
  <2> HIDE DEF m
  <2>4. /\ m.kind[o] = k /\ \A p \in Objs : p # o => m.kind[p] = l.kind[p]
        /\ m.head[o] = NoRule /\ \A p \in Objs : p # o => m.head[p] = l.head[p]
    BY <1>0, <2>2
  <2> QED
    BY <1>2, <2>2, <2>3, <2>4 DEF m
<1>3. CASE l.kind[o] = "NONE" /\ k = "NONE"
  BY <1>3 DEF GetOrCreate
<1>4. CASE l.kind[o] \notin {"absent", "NONE"}
  BY <1>4 DEF GetOrCreate
<1> QED
  BY <1>1, <1>2, <1>3, <1>4

LEMMA WithHeadIs ==
  ASSUME NEW l \in LinksType, NEW o \in Objs, NEW r \in Rules \cup {NoRule}
  PROVE  LET m == WithHead(l, o, r)
         IN  /\ m \in LinksType
             /\ m.kind = l.kind /\ m.inputs = l.inputs /\ m.next_in_input = l.next_in_input
             /\ \A p \in Objs : p # o => m.head[p] = l.head[p] /\ m.ref_rule[p] = l.ref_rule[p]
             /\ l.kind[o] = "NONE" => m.head[o] = l.head[o] /\ m.ref_rule[o] = r
             /\ l.kind[o] # "NONE" => m.head[o] = r /\ m.ref_rule[o] = l.ref_rule[o]
             /\ \A p \in Objs : HeadOf(m, p) = IF p = o THEN r ELSE HeadOf(l, p)
<1> DEFINE m == WithHead(l, o, r)
<1>0. /\ l.kind \in [Objs -> Kinds] /\ l.head \in [Objs -> Rules \cup {NoRule}]
      /\ l.ref_rule \in [Objs -> Rules \cup {NoRule}]
  BY DEF LinksType
<1>1. CASE l.kind[o] = "NONE"
  <2>1. m = [l EXCEPT !.ref_rule[o] = r]
    BY <1>1 DEF WithHead
  <2>2. /\ m.kind = l.kind /\ m.head = l.head /\ m.ref_rule = [l.ref_rule EXCEPT ![o] = r]
        /\ m.inputs = l.inputs /\ m.next_in_input = l.next_in_input
    BY <2>1 DEF LinksType
  <2>3. m \in LinksType
    <3>1. [l.ref_rule EXCEPT ![o] = r] \in [Objs -> Rules \cup {NoRule}]
      BY <1>0
    <3> QED
      BY <2>1, <3>1 DEF LinksType
  <2> HIDE DEF m
  <2>4. m.ref_rule[o] = r /\ \A p \in Objs : p # o => m.ref_rule[p] = l.ref_rule[p]
    BY <1>0, <2>2
  <2>5. \A p \in Objs : HeadOf(m, p) = IF p = o THEN r ELSE HeadOf(l, p)
    BY <1>1, <2>2, <2>4 DEF HeadOf
  <2> QED
    BY <1>1, <2>2, <2>3, <2>4, <2>5 DEF m
<1>2. CASE l.kind[o] # "NONE"
  <2>1. m = [l EXCEPT !.head[o] = r]
    BY <1>2 DEF WithHead
  <2>2. /\ m.kind = l.kind /\ m.head = [l.head EXCEPT ![o] = r] /\ m.ref_rule = l.ref_rule
        /\ m.inputs = l.inputs /\ m.next_in_input = l.next_in_input
    BY <2>1 DEF LinksType
  <2>3. m \in LinksType
    <3>1. [l.head EXCEPT ![o] = r] \in [Objs -> Rules \cup {NoRule}]
      BY <1>0
    <3> QED
      BY <2>1, <3>1 DEF LinksType
  <2> HIDE DEF m
  <2>4. m.head[o] = r /\ \A p \in Objs : p # o => m.head[p] = l.head[p]
    BY <1>0, <2>2
  <2>5. \A p \in Objs : HeadOf(m, p) = IF p = o THEN r ELSE HeadOf(l, p)
    BY <1>2, <2>2, <2>4 DEF HeadOf
  <2> QED
    BY <1>2, <2>2, <2>3, <2>4, <2>5 DEF m
<1> QED
  BY <1>1, <1>2

LEMMA FeedIs ==
  ASSUME NEW l \in LinksType, NEW i \in Objs, NEW r \in Rules
  PROVE  LET m == Feed(l, i, r)
         IN  /\ m \in LinksType
             /\ m.kind = l.kind
             /\ m.inputs = [l.inputs EXCEPT ![r] = <<i>> \o l.inputs[r]]
             /\ m.next_in_input = [l.next_in_input EXCEPT ![r] = HeadOf(l, i)]
             /\ \A p \in Objs : p # i => m.head[p] = l.head[p] /\ m.ref_rule[p] = l.ref_rule[p]
             /\ l.kind[i] = "NONE" => m.head[i] = l.head[i]
             /\ l.kind[i] # "NONE" => m.ref_rule[i] = l.ref_rule[i]
             /\ \A p \in Objs : HeadOf(m, p) = IF p = i THEN r ELSE HeadOf(l, p)
<1> DEFINE n == [l EXCEPT !.inputs[r] = <<i>> \o l.inputs[r], !.next_in_input[r] = HeadOf(l, i)]
<1>1. /\ l.inputs \in [Rules -> Seq(Objs)] /\ HeadOf(l, i) \in Rules \cup {NoRule}
      /\ l.next_in_input \in [Rules -> Rules \cup {NoRule}]
  BY LinkTypes
<1>2. <<i>> \o l.inputs[r] \in Seq(Objs)
  BY <1>1
<1>3. /\ n \in LinksType
      /\ n.kind = l.kind /\ n.head = l.head /\ n.ref_rule = l.ref_rule
      /\ n.inputs = [l.inputs EXCEPT ![r] = <<i>> \o l.inputs[r]]
      /\ n.next_in_input = [l.next_in_input EXCEPT ![r] = HeadOf(l, i)]
  BY <1>1, <1>2 DEF LinksType
<1>4. \A p \in Objs : HeadOf(n, p) = HeadOf(l, p)
  BY <1>3 DEF HeadOf
<1>5. Feed(l, i, r) = WithHead(n, i, r)
  BY DEF Feed
<1> HIDE DEF n
<1> QED
  BY <1>3, <1>4, <1>5, WithHeadIs

LEMMA ConnectIs ==
  ASSUME NEW l \in LinksType, NEW o \in Objs
  PROVE  LET m == Connect(l, o)
         IN  /\ m \in LinksType
             /\ m.kind = l.kind /\ m.inputs = l.inputs /\ m.next_in_input = l.next_in_input
             /\ m.ref_rule = l.ref_rule
             /\ \A p \in Objs : p # o => m.head[p] = l.head[p]
             /\ l.ref_rule[o] = NoRule => m = l
             /\ l.ref_rule[o] # NoRule => m.head[o] = l.ref_rule[o]
<1>1. l.head \in [Objs -> Rules \cup {NoRule}] /\ l.ref_rule \in [Objs -> Rules \cup {NoRule}]
  BY DEF LinksType
<1> QED
  BY <1>1 DEF Connect, LinksType

-----------------------------------------------------------------------------
(* The calls keep the links fit.                                           *)

(* What is under an input is fed by it or by what is under it.             *)
LEMMA UnderIs ==
  ASSUME NEW o
  PROVE  /\ Under(o) \subseteq Rules
         /\ \A p \in Feeds : p[1] \in Under(o) \cup {o} => p[2] \in Under(o)
         /\ \A S \in SUBSET Rules :
              (\A p \in Feeds : p[1] \in S \cup {o} => p[2] \in S) => Under(o) \subseteq S
<1>1. \A p \in Feeds : p[2] \in Rules
  BY RuleChainAssumption
<1>2. ASSUME NEW p \in Feeds, p[1] \in Under(o) \cup {o} PROVE p[2] \in Under(o)
  BY <1>1, <1>2 DEF Under
<1>3. Under(o) \subseteq Rules
  BY DEF Under
<1>4. ASSUME NEW S \in SUBSET Rules, \A p \in Feeds : p[1] \in S \cup {o} => p[2] \in S
      PROVE  Under(o) \subseteq S
  BY <1>4 DEF Under
<1> QED
  BY <1>2, <1>3, <1>4

(* Where there are no loops, nothing is under itself.                      *)
LEMMA NotUnder ==
  ASSUME Separate, NEW o
  PROVE  o \notin Under(o)
<1> SUFFICES ASSUME o \in Under(o) PROVE FALSE
  OBVIOUS
<1> DEFINE R == Under(o)
<1>1. ASSUME NEW x \in R PROVE \E p \in Feeds : p[2] = x /\ p[1] \in R
  <2> SUFFICES ASSUME \A p \in Feeds : p[2] = x => p[1] \notin R PROVE FALSE
    OBVIOUS
  <2> DEFINE S == R \ {x}
  <2>1. \A p \in Feeds : p[1] \in S \cup {o} => p[2] \in S
    BY UnderIs
  <2>2. S \in SUBSET Rules
    BY UnderIs
  <2>3. x \notin S
    OBVIOUS
  <2> HIDE DEF S
  <2> QED
    BY <2>1, <2>2, <2>3, UnderIs
<1>2. R \in SUBSET Rules /\ R # {}
  BY UnderIs
<1> HIDE DEF R
<1> QED
  BY <1>1, <1>2 DEF Separate, NoLoops

(* So no call is refused because it would make a rule its own input        *)
(* (rule_input_search).                                                    *)
LEMMA NoLoopAsked ==
  ASSUME Separate, NEW l \in LinksType, KindsFit(l),
         \A x \in Rules : \A y \in ToSet(l.inputs[x]) : <<y, x>> \in Feeds,
         NEW i \in Objs, NEW r \in Rules, <<i, r>> \in Feeds
  PROVE  ~InputSearch(l, i, r)
<1> SUFFICES ASSUME l.kind[i] = "RULE" PROVE ~Searches(l, i, r)
  BY DEF InputSearch
<1> DEFINE S == Rules \ Under(r)
           fed == <<i, r>>
<1>1. i \in Rules
  BY DEF KindsFit, Objs
<1>2. i \notin Under(r)
  <2>1. fed \in Feeds /\ fed[1] = i /\ fed[2] = r
    OBVIOUS
  <2> HIDE DEF fed
  <2> QED
    BY <2>1, UnderIs, NotUnder
<1>3. ASSUME NEW x \in Rules, NEW y \in ToSet(l.inputs[x]), y \in Under(r) \cup {r}
      PROVE  x \in Under(r)
  <2> DEFINE p == <<y, x>>
  <2>1. p \in Feeds /\ p[1] = y /\ p[2] = x
    OBVIOUS
  <2> HIDE DEF p
  <2> QED
    BY <1>3, <2>1, UnderIs
<1>4. i \in S /\ \A x \in S : ToSet(l.inputs[x]) \cap Rules \subseteq S
  BY <1>1, <1>2, <1>3
<1>5. \A x \in S : r \notin ToSet(l.inputs[x])
  BY <1>3
<1>6. S \in SUBSET Rules
  OBVIOUS
<1> HIDE DEF S
<1> QED
  BY <1>4, <1>5, <1>6 DEF Searches

(* The rest of a chain is a rule and the rest from the next one on.        *)
LEMMA RestIs ==
  ASSUME NEW l \in LinksType, NEW r \in Rules
  PROVE  /\ Rest(l, r) \subseteq Rules /\ r \in Rest(l, r) /\ Closed(l, Rest(l, r))
         /\ \A S \in SUBSET Rules : r \in S /\ Closed(l, S) => Rest(l, r) \subseteq S
         /\ l.next_in_input[r] = NoRule => Rest(l, r) = {r}
         /\ l.next_in_input[r] # NoRule =>
              Rest(l, r) = {r} \cup Rest(l, l.next_in_input[r])
<1> DEFINE n == l.next_in_input[r]
<1>1. ASSUME NEW q \in Rules
      PROVE  /\ Rest(l, q) \subseteq Rules /\ q \in Rest(l, q) /\ Closed(l, Rest(l, q))
             /\ \A S \in SUBSET Rules : q \in S /\ Closed(l, S) => Rest(l, q) \subseteq S
  <2>1. Rest(l, q) \subseteq Rules /\ q \in Rest(l, q)
    BY DEF Rest
  <2>2. Closed(l, Rest(l, q))
    BY LinkTypes DEF Rest, Closed
  <2>3. \A S \in SUBSET Rules : q \in S /\ Closed(l, S) => Rest(l, q) \subseteq S
    BY DEF Rest
  <2> QED
    BY <2>1, <2>2, <2>3
<1>2. ASSUME n = NoRule PROVE Rest(l, r) = {r}
  <2>1. Closed(l, {r}) /\ r \in {r} /\ {r} \in SUBSET Rules
    BY <1>2 DEF Closed
  <2> QED
    BY <1>1, <2>1
<1>3. ASSUME n # NoRule PROVE Rest(l, r) = {r} \cup Rest(l, n)
  <2>1. n \in Rules
    BY <1>3, LinkTypes
  <2>2. Rest(l, r) \subseteq {r} \cup Rest(l, n)
    <3> DEFINE S == {r} \cup Rest(l, n)
    <3>1. r \in S /\ Closed(l, S) /\ S \in SUBSET Rules
      BY <1>1, <2>1 DEF Closed
    <3> HIDE DEF S
    <3>2. Rest(l, r) \subseteq S
      BY <1>1, <3>1
    <3> QED
      BY <3>2 DEF S
  <2>3. Rest(l, n) \subseteq Rest(l, r)
    <3>1. n \in Rest(l, r)
      BY <1>1, <1>3 DEF Closed
    <3> QED
      BY <1>1, <2>1, <3>1
  <2> QED
    BY <1>1, <2>2, <2>3
<1> QED
  BY <1>1, <1>2, <1>3

(* A walk does not come back to a rule, and not to the head.               *)
LEMMA RestAway ==
  ASSUME NEW l, LinksFit(l), NEW r \in Linked(l), l.next_in_input[r] # NoRule
  PROVE  r \notin Rest(l, l.next_in_input[r])
<1> SUFFICES ASSUME r \in Rest(l, l.next_in_input[r]) PROVE FALSE
  OBVIOUS
<1> DEFINE R == {x \in Linked(l) : x \in Rest(l, r) /\ r \in Rest(l, x)}
<1>1. l \in LinksType /\ Linked(l) \subseteq Rules
  BY LinkedIs DEF LinksFit
<1>2. r \in R
  BY <1>1, RestIs
<1>3. ASSUME NEW x \in R PROVE l.next_in_input[x] \in R
  <2> DEFINE n == l.next_in_input[x]
  <2>1. x \in Rules /\ x \in Linked(l) /\ x \in Rest(l, r) /\ r \in Rest(l, x)
    BY <1>1
  <2>2. n # NoRule /\ r \in Rest(l, n)
    BY <1>1, <2>1, RestIs
  <2>3. n \in Rest(l, r)
    BY <1>1, <2>1, <2>2, RestIs DEF Closed
  <2>4. n \in Linked(l)
    <3>1. PICK o \in Objs : x \in Fed(l, o)
      BY <1>1, <2>1, LinkedIs
    <3> QED
      BY <1>1, <2>1, <2>2, <3>1, NextIs, LinkedIs
  <2> QED
    BY <2>2, <2>3, <2>4
<1>4. R \in SUBSET Linked(l) /\ R # {}
  BY <1>2
<1> HIDE DEF R
<1> QED
  BY <1>3, <1>4 DEF LinksFit, NoRing

(* A chain is the rest from its head on; no rule of it is before the head. *)
LEMMA ChainRest ==
  ASSUME NEW l, LinksFit(l), NEW o \in Objs, HeadOf(l, o) # NoRule
  PROVE  /\ HeadOf(l, o) \in Fed(l, o)
         /\ Fed(l, o) = Rest(l, HeadOf(l, o))
         /\ \A p \in Fed(l, o) : l.next_in_input[p] # HeadOf(l, o)
<1> DEFINE h == HeadOf(l, o)
           C == Fed(l, o)
<1>1. /\ l \in LinksType /\ C \subseteq Rules /\ h \in C /\ Closed(l, C)
      /\ \A S \in SUBSET Rules : h \in S /\ Closed(l, S) => C \subseteq S
      /\ C \subseteq Linked(l)
  BY ChainIs, LinkedIs DEF LinksFit
<1>2. /\ Rest(l, h) \subseteq Rules /\ h \in Rest(l, h) /\ Closed(l, Rest(l, h))
      /\ \A S \in SUBSET Rules : h \in S /\ Closed(l, S) => Rest(l, h) \subseteq S
  BY <1>1, RestIs
<1> HIDE DEF C, h
<1>3. C = Rest(l, h)
  BY <1>1, <1>2
<1>4. ASSUME NEW p \in C, l.next_in_input[p] = h PROVE FALSE
  <2>1. h # NoRule /\ h \in Linked(l) /\ h \in Rules
    BY <1>1 DEF h
  <2>2. p # h
    BY <1>4, <2>1, NextIs
  <2>3. l.next_in_input[h] # NoRule /\ p \in Rest(l, l.next_in_input[h])
    BY <1>1, <1>3, <1>4, <2>1, <2>2, RestIs
  <2>4. l.next_in_input[h] \in Rules
    BY <1>1, <2>1, <2>3, LinkTypes
  <2>5. h \in Rest(l, l.next_in_input[h])
    BY <1>1, <1>4, <2>1, <2>3, <2>4, RestIs DEF Closed
  <2> QED
    BY <2>1, <2>3, <2>5, RestAway
<1> QED
  BY <1>1, <1>3, <1>4 DEF C, h

(* Naming an object for the first time.                                    *)
LEMMA NamedFit ==
  ASSUME NEW l, LinksFit(l), NEW o \in Objs
  PROVE  LinksFit(GetOrCreate(l, o, "NONE"))
<1> DEFINE m == GetOrCreate(l, o, "NONE")
<1>0. l \in LinksType /\ KindsFit(l) /\ Linked(l) \subseteq Rules
  BY LinkedIs DEF LinksFit
<1>1. /\ m \in LinksType
      /\ m.inputs = l.inputs /\ m.next_in_input = l.next_in_input /\ m.ref_rule = l.ref_rule
      /\ m.kind[o] = IF l.kind[o] \in {"absent", "NONE"} THEN "NONE" ELSE l.kind[o]
      /\ \A p \in Objs : p # o => m.kind[p] = l.kind[p]
      /\ \A p \in Objs : m.head[p] = l.head[p]
  BY <1>0, GetOrCreateIs, SMTT(30)
<1> HIDE DEF m
<1>2. KindsFit(m)
  BY <1>0, <1>1 DEF KindsFit, Objs
<1>3. \A p \in Objs : HeadOf(m, p) = HeadOf(l, p)
  BY <1>0, <1>1 DEF KindsFit, HeadOf
<1>4. \A p \in Linked(l) : m.next_in_input[p] = l.next_in_input[p] /\ m.kind[p] = l.kind[p]
  <2>1. \A p \in Linked(l) : l.kind[p] = "RULE" /\ p \in Objs
    BY DEF LinksFit, InputsFit, Linked, Objs
  <2> QED
    BY <1>1, <2>1
<1>5. \A p \in Objs : l.kind[p] \in {"NONE", "TEST", "RULE"} => m.kind[p] \in {"NONE", "TEST", "RULE"}
  BY <1>1
<1>6. LinksFit(m)
  BY <1>1, <1>2, <1>3, <1>4, <1>5, SameFit
<1> QED
  BY <1>6 DEF m

(* Creating a test or a rule.                                              *)
LEMMA MadeFit ==
  ASSUME NEW l, LinksFit(l), NEW o \in Objs, NEW k,
         (o \in Tests /\ k = "TEST") \/ (o \in Rules /\ k = "RULE"),
         l.kind[o] \in {"absent", "NONE"} \/ (l.kind[o] = k /\ l.ref_rule[o] = NoRule)
  PROVE  LinksFit(Connect(GetOrCreate(l, o, k), o))
<1> DEFINE g == GetOrCreate(l, o, k)
           m == Connect(g, o)
<1>0. l \in LinksType /\ KindsFit(l) /\ Linked(l) \subseteq Rules
  BY LinkedIs DEF LinksFit
<1>a. k \in {"NONE", "TEST", "RULE"} /\ k # "NONE"
  OBVIOUS
<1>b. /\ g \in LinksType
      /\ g.inputs = l.inputs /\ g.next_in_input = l.next_in_input /\ g.ref_rule = l.ref_rule
      /\ g.kind[o] = IF l.kind[o] \in {"absent", "NONE"} THEN k ELSE l.kind[o]
      /\ \A p \in Objs : p # o => g.kind[p] = l.kind[p]
      /\ g.head[o] = IF l.kind[o] = "NONE" /\ k # "NONE" THEN NoRule ELSE l.head[o]
      /\ \A p \in Objs : p # o => g.head[p] = l.head[p]
  <2>1. l \in LinksType
    BY <1>0
  <2>2. CASE k = "TEST"
    BY <2>1, <2>2, GetOrCreateIs, SMTT(30)
  <2>3. CASE k = "RULE"
    BY <2>1, <2>3, GetOrCreateIs, SMTT(30)
  <2> QED
    BY <2>2, <2>3
<1>1. /\ g \in LinksType
      /\ g.inputs = l.inputs /\ g.next_in_input = l.next_in_input /\ g.ref_rule = l.ref_rule
      /\ g.kind[o] = k
      /\ \A p \in Objs : p # o => g.kind[p] = l.kind[p]
      /\ g.head[o] = IF l.kind[o] = "NONE" THEN NoRule ELSE l.head[o]
      /\ \A p \in Objs : p # o => g.head[p] = l.head[p]
  BY <1>a, <1>b
<1> HIDE DEF g
<1>2. /\ m \in LinksType
      /\ m.kind = g.kind /\ m.inputs = l.inputs /\ m.next_in_input = l.next_in_input
      /\ m.ref_rule = l.ref_rule
      /\ \A p \in Objs : p # o => m.head[p] = l.head[p]
      /\ m.head[o] = IF l.ref_rule[o] = NoRule THEN g.head[o] ELSE l.ref_rule[o]
  BY <1>1, ConnectIs
<1> HIDE DEF m
<1>3. KindsFit(m)
  BY <1>0, <1>1, <1>2, RuleLinksAssumption DEF KindsFit, Objs
<1>4. \A p \in Objs : HeadOf(m, p) = HeadOf(l, p)
  BY <1>0, <1>1, <1>2 DEF KindsFit, HeadOf
<1>5. \A p \in Linked(l) : m.next_in_input[p] = l.next_in_input[p] /\ m.kind[p] = l.kind[p]
  <2>1. \A p \in Linked(l) : l.kind[p] = "RULE" /\ p \in Objs
    BY DEF LinksFit, InputsFit, Linked, Objs
  <2> QED
    BY <1>1, <1>2, <2>1
<1>6. \A p \in Objs : l.kind[p] \in {"NONE", "TEST", "RULE"} => m.kind[p] \in {"NONE", "TEST", "RULE"}
  BY <1>1, <1>2
<1>7. LinksFit(m)
  BY <1>2, <1>3, <1>4, <1>5, <1>6, SameFit
<1> QED
  BY <1>7 DEF m, g

(* What leaving the chains of its inputs changes.                          *)
LEMMA LeaveIs ==
  ASSUME NEW l \in LinksType, NEW r \in Rules, NEW early
  PROVE  LET m == Leave(l, r, early)
             I == ToSet(l.inputs[r])
         IN  /\ m \in LinksType
             /\ m.kind = l.kind /\ m.inputs = [l.inputs EXCEPT ![r] = << >>]
             /\ \A o \in Objs : ~(o \in I /\ HeadOf(l, o) = r) =>
                  m.head[o] = l.head[o] /\ m.ref_rule[o] = l.ref_rule[o]
             /\ \A o \in Objs : l.kind[o] = "NONE" => m.head[o] = l.head[o]
             /\ \A o \in Objs : HeadOf(m, o) =
                  IF o \in I /\ HeadOf(l, o) = r
                  THEN IF o \in early THEN l.next_in_input[r] ELSE NoRule
                  ELSE HeadOf(l, o)
             /\ \A p \in Rules :
                  LET behind == {i \in I : HeadOf(l, i) # r /\ p \in Chain(l, i)
                                             /\ l.next_in_input[p] = r}
                  IN  m.next_in_input[p] =
                        IF behind = {} THEN l.next_in_input[p]
                        ELSE IF behind \cap early # {} THEN l.next_in_input[r] ELSE NoRule
<1> DEFINE m == Leave(l, r, early)
           inputs == ToSet(l.inputs[r])
           headed == {i \in inputs : HeadOf(l, i) = r}
           behind(p) == {i \in inputs \ headed : p \in Before(l, i, r)}
           next(I) == IF I \cap early # {} THEN l.next_in_input[r] ELSE NoRule
           H == [o \in Objs |-> IF o \in headed /\ l.kind[o] # "NONE" THEN next({o})
                                ELSE l.head[o]]
           F == [o \in Objs |-> IF o \in headed /\ l.kind[o] = "NONE" THEN next({o})
                                ELSE l.ref_rule[o]]
           N == [p \in Rules |-> IF behind(p) # {} THEN next(behind(p))
                                 ELSE l.next_in_input[p]]
<1>1. m = [l EXCEPT !.head = H, !.ref_rule = F, !.next_in_input = N, !.inputs[r] = << >>]
  BY DEF Leave
<1>2. \A I : next(I) \in Rules \cup {NoRule}
  BY LinkTypes
<1>3. /\ H \in [Objs -> Rules \cup {NoRule}] /\ F \in [Objs -> Rules \cup {NoRule}]
      /\ N \in [Rules -> Rules \cup {NoRule}]
  <2> HIDE DEF next, headed, behind
  <2> QED
    BY <1>2, LinkTypes
<1>4. /\ \A o \in Objs : H[o] = IF o \in headed /\ l.kind[o] # "NONE" THEN next({o})
                                ELSE l.head[o]
      /\ \A o \in Objs : F[o] = IF o \in headed /\ l.kind[o] = "NONE" THEN next({o})
                                ELSE l.ref_rule[o]
      /\ \A p \in Rules : N[p] = IF behind(p) # {} THEN next(behind(p))
                                 ELSE l.next_in_input[p]
  OBVIOUS
<1>5. [l.inputs EXCEPT ![r] = << >>] \in [Rules -> Seq(Objs)]
  BY LinkTypes
<1> HIDE DEF H, F, N, m
<1>6. /\ m \in LinksType
      /\ m.kind = l.kind /\ m.inputs = [l.inputs EXCEPT ![r] = << >>]
      /\ m.head = H /\ m.ref_rule = F /\ m.next_in_input = N
  BY <1>1, <1>3, <1>5 DEF LinksType
<1>7. ASSUME NEW o \in Objs
      PROVE  /\ ~(o \in inputs /\ HeadOf(l, o) = r) =>
                  m.head[o] = l.head[o] /\ m.ref_rule[o] = l.ref_rule[o]
             /\ l.kind[o] = "NONE" => m.head[o] = l.head[o]
             /\ HeadOf(m, o) =
                  IF o \in inputs /\ HeadOf(l, o) = r
                  THEN IF o \in early THEN l.next_in_input[r] ELSE NoRule
                  ELSE HeadOf(l, o)
  <2>1. {o} \cap early # {} <=> o \in early
    OBVIOUS
  <2> QED
    BY <1>4, <1>6, <2>1 DEF HeadOf
<1>8. ASSUME NEW p \in Rules
      PROVE  LET B == {i \in inputs : HeadOf(l, i) # r /\ p \in Chain(l, i)
                                         /\ l.next_in_input[p] = r}
             IN  m.next_in_input[p] =
                   IF B = {} THEN l.next_in_input[p]
                   ELSE IF B \cap early # {} THEN l.next_in_input[r] ELSE NoRule
  <2> DEFINE B == {i \in inputs : HeadOf(l, i) # r /\ p \in Chain(l, i)
                                    /\ l.next_in_input[p] = r}
  <2>1. behind(p) = B
    BY DEF Before
  <2> HIDE DEF B, behind
  <2>2. m.next_in_input[p] = IF B # {} THEN next(B) ELSE l.next_in_input[p]
    BY <1>4, <1>6, <2>1
  <2> QED
    BY <2>2 DEF B
<1> QED
  BY <1>6, <1>7, <1>8 DEF m

(* Links stay fit when a rule leaves: of the walk over its inputs, only    *)
(* those that come before it has forgotten the rule after it count, unless *)
(* there is none.                                                          *)
LEMMA LeaveFit ==
  ASSUME NEW l, LinksFit(l), NEW r \in Linked(l), NEW early,
         \A i \in ToSet(l.inputs[r]) : i \in early \/ l.next_in_input[r] = NoRule,
         NEW m \in LinksType, KindsFit(m),
         m.inputs = Leave(l, r, early).inputs,
         \A p \in Rules : p # r => m.next_in_input[p] = Leave(l, r, early).next_in_input[p],
         \A o \in Objs : HeadOf(m, o) = HeadOf(Leave(l, r, early), o),
         \A p \in Linked(l) : p # r => m.kind[p] = l.kind[p],
         \A o \in Objs : l.kind[o] \in {"NONE", "TEST", "RULE"} =>
           \/ m.kind[o] \in {"NONE", "TEST", "RULE"}
           \/ Fed(l, o) \subseteq {r}
  PROVE  LinksFit(m)
<1> DEFINE n == Leave(l, r, early)
           I == ToSet(l.inputs[r])
           behind(p) == {i \in I : HeadOf(l, i) # r /\ p \in Chain(l, i)
                                     /\ l.next_in_input[p] = r}
<1>0. l \in LinksType /\ Linked(l) \subseteq Rules /\ r \in Rules /\ r # NoRule
  BY LinkedIs, RuleLinksAssumption DEF LinksFit
<1>1. /\ n.inputs = [l.inputs EXCEPT ![r] = << >>]
      /\ \A o \in Objs : HeadOf(n, o) =
           IF o \in I /\ HeadOf(l, o) = r
           THEN IF o \in early THEN l.next_in_input[r] ELSE NoRule
           ELSE HeadOf(l, o)
      /\ \A p \in Rules : n.next_in_input[p] =
           IF behind(p) = {} THEN l.next_in_input[p]
           ELSE IF behind(p) \cap early # {} THEN l.next_in_input[r] ELSE NoRule
  BY <1>0, LeaveIs
<1> HIDE DEF n
<1>2. \A o \in Objs : r \in Fed(l, o) <=> o \in I
  BY <1>0 DEF Fed
<1>3. ASSUME NEW p \in Linked(l), p # r
      PROVE  m.next_in_input[p] = IF l.next_in_input[p] = r THEN l.next_in_input[r]
                                  ELSE l.next_in_input[p]
  <2>1. p \in Rules /\ m.next_in_input[p] = n.next_in_input[p]
    BY <1>0, <1>3 DEF n
  <2>2. CASE l.next_in_input[p] # r
    BY <1>1, <2>1, <2>2
  <2>3. CASE l.next_in_input[p] = r
    <3>1. PICK o \in Objs : p \in Fed(l, o)
      BY <1>0, LinkedIs
    <3>2. r \in Fed(l, o)
      BY <1>0, <2>3, <3>1, NextIs
    <3>3. HeadOf(l, o) # r
      BY <1>0, <2>3, <3>1, ChainRest
    <3>4. p \in Chain(l, o)
      BY <3>1 DEF LinksFit
    <3>5. o \in behind(p)
      BY <1>2, <2>3, <3>2, <3>3, <3>4
    <3>6. behind(p) \subseteq I
      OBVIOUS
    <3> HIDE DEF behind
    <3> QED
      BY <1>1, <2>1, <2>3, <3>5, <3>6
  <2> QED
    BY <2>2, <2>3
<1>4. \A o \in Objs : r \notin Fed(l, o) => HeadOf(m, o) = HeadOf(l, o)
  BY <1>1, <1>2 DEF n
<1>5. \A o \in Objs : r \in Fed(l, o) =>
        HeadOf(m, o) = IF HeadOf(l, o) = r THEN l.next_in_input[r] ELSE HeadOf(l, o)
  BY <1>1, <1>2 DEF n
<1>6. m.inputs = [l.inputs EXCEPT ![r] = << >>]
  BY <1>1 DEF n
<1> QED
  BY <1>3, <1>4, <1>5, <1>6, DropFit

(* A rule without inputs has none to leave.                                *)
LEMMA LeaveNone ==
  ASSUME NEW l \in LinksType, NEW r \in Rules, l.inputs[r] = << >>, NEW early
  PROVE  LET m == Leave(l, r, early)
         IN  /\ m \in LinksType /\ m.kind = l.kind
             /\ m.inputs = l.inputs /\ m.next_in_input = l.next_in_input
             /\ m.head = l.head /\ m.ref_rule = l.ref_rule
             /\ \A o \in Objs : HeadOf(m, o) = HeadOf(l, o)
<1> DEFINE m == Leave(l, r, early)
<1>1. ToSet(l.inputs[r]) = {}
  BY DEF ToSet
<1>2. /\ m \in LinksType /\ m.kind = l.kind /\ m.inputs = [l.inputs EXCEPT ![r] = << >>]
      /\ \A o \in Objs : m.head[o] = l.head[o] /\ m.ref_rule[o] = l.ref_rule[o]
      /\ \A o \in Objs : HeadOf(m, o) = HeadOf(l, o)
      /\ \A p \in Rules : m.next_in_input[p] = l.next_in_input[p]
  <2> DEFINE I == ToSet(l.inputs[r])
             behind(p) == {i \in I : HeadOf(l, i) # r /\ p \in Chain(l, i)
                                       /\ l.next_in_input[p] = r}
  <2>1. /\ m \in LinksType
        /\ m.kind = l.kind /\ m.inputs = [l.inputs EXCEPT ![r] = << >>]
        /\ \A o \in Objs : ~(o \in I /\ HeadOf(l, o) = r) =>
             m.head[o] = l.head[o] /\ m.ref_rule[o] = l.ref_rule[o]
        /\ \A o \in Objs : HeadOf(m, o) =
             IF o \in I /\ HeadOf(l, o) = r
             THEN IF o \in early THEN l.next_in_input[r] ELSE NoRule
             ELSE HeadOf(l, o)
        /\ \A p \in Rules : m.next_in_input[p] =
             IF behind(p) = {} THEN l.next_in_input[p]
             ELSE IF behind(p) \cap early # {} THEN l.next_in_input[r] ELSE NoRule
    BY LeaveIs
  <2>2. I = {} /\ \A p : behind(p) = {}
    BY <1>1
  <2> HIDE DEF m, I, behind
  <2> QED
    BY <2>1, <2>2
<1> HIDE DEF m
<1>3. m.inputs = l.inputs
  <2>1. l.inputs \in [Rules -> Seq(Objs)] /\ l.inputs[r] = << >>
    BY <1>1, LinkTypes
  <2>2. m.inputs = [l.inputs EXCEPT ![r] = << >>]
    BY <1>2
  <2> QED
    BY <2>1, <2>2
<1>4. m.next_in_input = l.next_in_input
  <2>1. /\ l.next_in_input \in [Rules -> Rules \cup {NoRule}]
        /\ m.next_in_input \in [Rules -> Rules \cup {NoRule}]
    BY <1>2, LinkTypes
  <2> QED
    BY <1>2, <2>1
<1>5. m.head = l.head /\ m.ref_rule = l.ref_rule
  <2>1. /\ l.head \in [Objs -> Rules \cup {NoRule}] /\ m.head \in [Objs -> Rules \cup {NoRule}]
        /\ l.ref_rule \in [Objs -> Rules \cup {NoRule}]
        /\ m.ref_rule \in [Objs -> Rules \cup {NoRule}]
    BY <1>2, LinkTypes
  <2> QED
    BY <1>2, <2>1
<1> QED
  BY <1>2, <1>3, <1>4, <1>5 DEF m

(* A rule that is created again leaves its chains.                         *)
LEMMA LeaveChainsFit ==
  ASSUME NEW l, LinksFit(l), NEW r \in Rules
  PROVE  LET m == LeaveChains(l, r)
         IN  /\ LinksFit(m)
             /\ m.kind = l.kind /\ m.inputs[r] = << >>
             /\ m.ref_rule[r] = l.ref_rule[r]
<1> DEFINE I == ToSet(l.inputs[r])
           n == Leave(l, r, I)
           m == LeaveChains(l, r)
<1>0. l \in LinksType /\ KindsFit(l) /\ InputsFit(l)
  BY DEF LinksFit
<1>1. /\ n \in LinksType
      /\ n.kind = l.kind /\ n.inputs = [l.inputs EXCEPT ![r] = << >>]
      /\ \A o \in Objs : ~(o \in I /\ HeadOf(l, o) = r) =>
           n.head[o] = l.head[o] /\ n.ref_rule[o] = l.ref_rule[o]
      /\ \A o \in Objs : l.kind[o] = "NONE" => n.head[o] = l.head[o]
  BY <1>0, LeaveIs
<1>2. n.inputs[r] = << >>
  BY <1>0, <1>1, LinkTypes
<1> HIDE DEF n
<1>3. m = [n EXCEPT !.next_in_input[r] = NoRule]
  BY DEF LeaveChains, n
<1>a. [n.next_in_input EXCEPT ![r] = NoRule] \in [Rules -> Rules \cup {NoRule}]
  BY <1>1, LinkTypes
<1>4. /\ m \in LinksType /\ m.kind = n.kind /\ m.inputs = n.inputs
      /\ m.head = n.head /\ m.ref_rule = n.ref_rule
      /\ m.next_in_input = [n.next_in_input EXCEPT ![r] = NoRule]
  BY <1>1, <1>3, <1>a DEF LinksType
<1>5. /\ \A p \in Rules : p # r => m.next_in_input[p] = n.next_in_input[p]
      /\ \A o \in Objs : HeadOf(m, o) = HeadOf(n, o)
  BY <1>1, <1>4, LinkTypes DEF HeadOf
<1> HIDE DEF m
<1>6. \A o \in I : o \in Objs /\ l.kind[o] \in {"NONE", "TEST", "RULE"} /\ <<o, r>> \in Feeds
  BY <1>0, LinkedIs DEF InputsFit
<1>7. KindsFit(m)
  <2>1. \A o \in Objs : m.kind[o] = l.kind[o] /\ m.head[o] = n.head[o] /\ m.ref_rule[o] = n.ref_rule[o]
    BY <1>1, <1>4
  <2>2. \A o \in Objs : l.kind[o] \notin {"TEST", "RULE"} => n.head[o] = l.head[o]
    BY <1>1, <1>6
  <2>3. \A o \in Objs : l.kind[o] = "absent" => n.ref_rule[o] = l.ref_rule[o]
    BY <1>1, <1>6
  <2> QED
    BY <1>0, <2>1, <2>2, <2>3 DEF KindsFit, Objs
<1>8. ASSUME r \in Linked(l) PROVE LinksFit(m)
  <2>1. m.inputs = Leave(l, r, I).inputs
    BY <1>4 DEF n
  <2>2. \A p \in Rules : p # r => m.next_in_input[p] = Leave(l, r, I).next_in_input[p]
    BY <1>5 DEF n
  <2>3. \A o \in Objs : HeadOf(m, o) = HeadOf(Leave(l, r, I), o)
    BY <1>5 DEF n
  <2>4. \A i \in ToSet(l.inputs[r]) : i \in I \/ l.next_in_input[r] = NoRule
    OBVIOUS
  <2>5. m \in LinksType
    BY <1>4
  <2>6. \A p \in Linked(l) : p # r => m.kind[p] = l.kind[p]
    BY <1>1, <1>4
  <2>7. \A o \in Objs : l.kind[o] \in {"NONE", "TEST", "RULE"} =>
          \/ m.kind[o] \in {"NONE", "TEST", "RULE"}
          \/ Fed(l, o) \subseteq {r}
    BY <1>1, <1>4
  <2> HIDE DEF I
  <2> QED
    BY <1>7, <1>8, <2>1, <2>2, <2>3, <2>4, <2>5, <2>6, <2>7, LeaveFit
<1>9. ASSUME r \notin Linked(l) PROVE LinksFit(m)
  <2>1. l.inputs[r] = << >>
    BY <1>9 DEF Linked
  <2>2. /\ n.inputs = l.inputs /\ n.next_in_input = l.next_in_input
        /\ \A o \in Objs : HeadOf(n, o) = HeadOf(l, o)
    BY <1>0, <2>1, LeaveNone DEF n
  <2>3. \A p \in Linked(l) : m.next_in_input[p] = l.next_in_input[p] /\ m.kind[p] = l.kind[p]
    <3>1. \A p \in Linked(l) : p \in Rules /\ p # r
      BY <1>0, <1>9, LinkedIs
    <3> QED
      BY <1>1, <1>4, <1>5, <2>2, <3>1
  <2>4. m \in LinksType /\ m.inputs = l.inputs
    BY <1>4, <2>2
  <2>5. \A o \in Objs : HeadOf(m, o) = HeadOf(l, o)
    BY <1>5, <2>2
  <2>6. \A o \in Objs : l.kind[o] \in {"NONE", "TEST", "RULE"} =>
          \/ m.kind[o] \in {"NONE", "TEST", "RULE"}
          \/ Fed(l, o) = {}
    BY <1>1, <1>4
  <2> QED
    BY <1>7, <2>3, <2>4, <2>5, <2>6, SameFit
<1>10. r \in Objs /\ r \notin I
  BY <1>6, RuleChainAssumption DEF Objs
<1>11. m.ref_rule[r] = l.ref_rule[r]
  BY <1>1, <1>4, <1>10
<1> QED
  BY <1>1, <1>2, <1>4, <1>8, <1>9, <1>11 DEF LinksFit, m

(* A rule that feeds none is deleted.                                      *)
LEMMA RemoveRuleFit ==
  ASSUME Separate, NEW l, LinksFit(l), NEW r \in Rules, r \in Deletable
  PROVE  LinksFit(RemoveRule(l, r))
<1> DEFINE inputs == l.inputs[r]
           heads(k) == HeadOf(l, inputs[k]) = r
           early == {inputs[k] : k \in {x \in DOMAIN inputs : \A j \in 1..(x - 1) : ~heads(j)}}
           n == Leave(l, r, early)
           m == RemoveRule(l, r)
           after == IF \E k \in DOMAIN inputs : heads(k) THEN NoRule ELSE n.next_in_input[r]
<1>0. l \in LinksType /\ KindsFit(l) /\ InputsFit(l) /\ r \in Objs
  BY DEF LinksFit, Objs
<1>1. /\ n \in LinksType
      /\ n.kind = l.kind /\ n.inputs = [l.inputs EXCEPT ![r] = << >>]
      /\ \A o \in Objs : ~(o \in ToSet(inputs) /\ HeadOf(l, o) = r) =>
           n.head[o] = l.head[o] /\ n.ref_rule[o] = l.ref_rule[o]
      /\ \A o \in Objs : l.kind[o] = "NONE" => n.head[o] = l.head[o]
      /\ \A o \in Objs : o \notin ToSet(inputs) => HeadOf(n, o) = HeadOf(l, o)
  BY <1>0, LeaveIs
<1>2. m = [n EXCEPT !.next_in_input[r] = after, !.head[r] = NoRule, !.kind[r] = "DELETED"]
  BY DEF RemoveRule
<1>3. \A i \in ToSet(inputs) : i \in early \/ l.next_in_input[r] = NoRule
  <2> SUFFICES ASSUME NEW i \in ToSet(inputs), l.next_in_input[r] # NoRule PROVE i \in early
    OBVIOUS
  <2>1. /\ inputs \in Seq(Objs) /\ ToSet(inputs) \subseteq Objs
        /\ DOMAIN inputs = 1..Len(inputs)
    BY <1>0, LinkTypes, LinkedIs
  <2>2. \A j \in ToSet(inputs) : r \in Fed(l, j)
    BY DEF Fed
  <2>3. \A j \in ToSet(inputs) : j = i
    BY <2>1, <2>2, SecondInput
  <2>4. 1 \in DOMAIN inputs /\ inputs[1] \in ToSet(inputs)
    BY <2>1 DEF ToSet
  <2>5. \A j \in 1..(1 - 1) : ~heads(j)
    OBVIOUS
  <2>6. inputs[1] \in early
    BY <2>4, <2>5
  <2> QED
    BY <2>3, <2>4, <2>6
<1> HIDE DEF early, n, heads
<1>4. after \in Rules \cup {NoRule}
  BY <1>1, LinkTypes
<1> HIDE DEF after
<1>5. [n.next_in_input EXCEPT ![r] = after] \in [Rules -> Rules \cup {NoRule}]
  BY <1>1, <1>4, LinkTypes
<1>6. [n.head EXCEPT ![r] = NoRule] \in [Objs -> Rules \cup {NoRule}]
  BY <1>1, LinkTypes
<1>7. [n.kind EXCEPT ![r] = "DELETED"] \in [Objs -> Kinds]
  BY <1>1, LinkTypes DEF Kinds
<1>8. /\ m \in LinksType /\ m.inputs = n.inputs /\ m.ref_rule = n.ref_rule
      /\ m.next_in_input = [n.next_in_input EXCEPT ![r] = after]
      /\ m.head = [n.head EXCEPT ![r] = NoRule]
      /\ m.kind = [n.kind EXCEPT ![r] = "DELETED"]
  BY <1>1, <1>2, <1>5, <1>6, <1>7 DEF LinksType
<1> HIDE DEF m
<1>9. /\ m.kind[r] = "DELETED" /\ m.head[r] = NoRule
      /\ \A o \in Objs : o # r => m.kind[o] = l.kind[o] /\ m.head[o] = n.head[o]
      /\ \A p \in Rules : p # r => m.next_in_input[p] = n.next_in_input[p]
  BY <1>0, <1>1, <1>8, LinkTypes
<1>10. Fed(l, r) = {}
  <2> SUFFICES ASSUME NEW q \in Fed(l, r) PROVE FALSE
    OBVIOUS
  <2> DEFINE p == <<r, q>>
  <2>1. p \in Feeds /\ p[1] = r
    BY <1>0 DEF InputsFit, Fed
  <2> HIDE DEF p
  <2> QED
    BY <2>1 DEF Separate, OnlyLastDeleted
<1>11. r \notin ToSet(inputs)
  BY <1>10 DEF Fed
<1>12. \A o \in Objs : HeadOf(m, o) = HeadOf(n, o)
  <2>1. HeadOf(l, r) = NoRule
    BY <1>0, <1>10, ChainIs DEF LinksFit
  <2>2. HeadOf(m, r) = NoRule
    BY <1>9 DEF HeadOf
  <2>3. HeadOf(n, r) = NoRule
    BY <1>0, <1>1, <1>11, <2>1
  <2>4. ASSUME NEW o \in Objs, o # r PROVE HeadOf(m, o) = HeadOf(n, o)
    BY <1>1, <1>8, <1>9, <2>4 DEF HeadOf
  <2> QED
    BY <2>2, <2>3, <2>4
<1>13. KindsFit(m)
  <2>1. \A o \in ToSet(inputs) : l.kind[o] \in {"NONE", "TEST", "RULE"}
    BY <1>0 DEF InputsFit
  <2>2. \A o \in Objs : o # r /\ l.kind[o] \notin {"TEST", "RULE"} => m.head[o] = l.head[o]
    BY <1>1, <1>9, <2>1
  <2>3. \A o \in Objs : l.kind[o] = "absent" => m.ref_rule[o] = l.ref_rule[o]
    BY <1>1, <1>8, <2>1
  <2> QED
    BY <1>0, <1>9, <2>2, <2>3, RuleLinksAssumption DEF KindsFit, Objs
<1>14. \A p \in Linked(l) : p \in Rules /\ p \in Objs
  BY <1>0, LinkedIs DEF Objs
<1>15. \A o \in Objs : l.kind[o] \in {"NONE", "TEST", "RULE"} =>
         \/ m.kind[o] \in {"NONE", "TEST", "RULE"}
         \/ Fed(l, o) = {}
  BY <1>9, <1>10
<1> HIDE DEF inputs
<1>16. ASSUME r \in Linked(l) PROVE LinksFit(m)
  <2>1. m.inputs = Leave(l, r, early).inputs
    BY <1>8 DEF n
  <2>2. \A p \in Rules : p # r => m.next_in_input[p] = Leave(l, r, early).next_in_input[p]
    BY <1>9 DEF n
  <2>3. \A o \in Objs : HeadOf(m, o) = HeadOf(Leave(l, r, early), o)
    BY <1>12 DEF n
  <2>4. \A i \in ToSet(l.inputs[r]) : i \in early \/ l.next_in_input[r] = NoRule
    BY <1>3 DEF inputs
  <2>5. \A p \in Linked(l) : p # r => m.kind[p] = l.kind[p]
    BY <1>9, <1>14
  <2>6. \A o \in Objs : l.kind[o] \in {"NONE", "TEST", "RULE"} =>
          \/ m.kind[o] \in {"NONE", "TEST", "RULE"}
          \/ Fed(l, o) \subseteq {r}
    BY <1>15
  <2>7. m \in LinksType
    BY <1>8
  <2> QED
    BY <1>13, <1>16, <2>1, <2>2, <2>3, <2>4, <2>5, <2>6, <2>7, LeaveFit
<1>17. ASSUME r \notin Linked(l) PROVE LinksFit(m)
  <2>1. l.inputs[r] = << >>
    BY <1>17 DEF Linked
  <2>2. /\ n.inputs = l.inputs /\ n.next_in_input = l.next_in_input
        /\ \A o \in Objs : HeadOf(n, o) = HeadOf(l, o)
    BY <1>0, <2>1, LeaveNone DEF n
  <2>3. \A p \in Linked(l) : m.next_in_input[p] = l.next_in_input[p] /\ m.kind[p] = l.kind[p]
    BY <1>9, <1>14, <1>17, <2>2
  <2>4. m \in LinksType /\ m.inputs = l.inputs
    BY <1>8, <2>2
  <2>5. \A o \in Objs : HeadOf(m, o) = HeadOf(l, o)
    BY <1>12, <2>2
  <2> QED
    BY <1>13, <1>15, <2>3, <2>4, <2>5, SameFit
<1>18. LinksFit(m)
  BY <1>16, <1>17
<1> QED
  BY <1>18 DEF m

(* A test, or what was only referenced, is deleted.                        *)
LEMMA RemoveInputFit ==
  ASSUME NEW l, LinksFit(l), NEW o \in Objs, l.kind[o] \in {"NONE", "TEST"}
  PROVE  LinksFit(RemoveInput(l, o))
<1> DEFINE J == [r \in Rules |-> IF r \in Fed(l, o) THEN RemoveFirst(l.inputs[r], o)
                                 ELSE l.inputs[r]]
           n == [l EXCEPT !.inputs = J]
           h == WithHead(n, o, NoRule)
           m == RemoveInput(l, o)
<1>0. l \in LinksType /\ KindsFit(l) /\ InputsFit(l)
  BY DEF LinksFit
<1>1. m = [h EXCEPT !.kind[o] = "DELETED"]
  <2>1. Chain(l, o) = Fed(l, o)
    BY DEF LinksFit
  <2> QED
    BY <2>1 DEF RemoveInput
<1>2. J \in [Rules -> Seq(Objs)]
  <2> SUFFICES ASSUME NEW r \in Rules PROVE J[r] \in Seq(Objs)
    OBVIOUS
  <2>1. l.inputs[r] \in Seq(Objs) /\ IsInjective(l.inputs[r])
    BY <1>0, LinkTypes DEF InputsFit
  <2>2. r \in Fed(l, o) => RemoveFirst(l.inputs[r], o) \in Seq(Objs)
    BY <2>1, RemoveOne DEF Fed
  <2> QED
    BY <2>1, <2>2
<1> HIDE DEF J
<1>3. /\ n \in LinksType /\ n.inputs = J /\ n.kind = l.kind /\ n.head = l.head
      /\ n.ref_rule = l.ref_rule /\ n.next_in_input = l.next_in_input
  BY <1>0, <1>2 DEF LinksType
<1> HIDE DEF n
<1>4. /\ h \in LinksType
      /\ h.kind = n.kind /\ h.inputs = n.inputs /\ h.next_in_input = n.next_in_input
      /\ \A p \in Objs : p # o => h.head[p] = n.head[p] /\ h.ref_rule[p] = n.ref_rule[p]
      /\ n.kind[o] = "NONE" => h.head[o] = n.head[o]
      /\ n.kind[o] # "NONE" => h.head[o] = NoRule
      /\ \A p \in Objs : HeadOf(h, p) = IF p = o THEN NoRule ELSE HeadOf(n, p)
  BY <1>3, WithHeadIs
<1> HIDE DEF h
<1>5. [h.kind EXCEPT ![o] = "DELETED"] \in [Objs -> Kinds]
  BY <1>4, LinkTypes DEF Kinds
<1>6. /\ m \in LinksType /\ m.inputs = h.inputs /\ m.head = h.head
      /\ m.ref_rule = h.ref_rule /\ m.next_in_input = h.next_in_input
      /\ m.kind = [h.kind EXCEPT ![o] = "DELETED"]
  BY <1>1, <1>4, <1>5 DEF LinksType
<1> HIDE DEF m
<1>7. m.kind[o] = "DELETED" /\ \A p \in Objs : p # o => m.kind[p] = l.kind[p]
  BY <1>3, <1>4, <1>6, LinkTypes
<1>8. m.head[o] = NoRule
  BY <1>0, <1>3, <1>4, <1>6 DEF KindsFit
<1>9. \A p \in Objs : HeadOf(m, p) = IF p = o THEN NoRule ELSE HeadOf(l, p)
  <2>1. HeadOf(m, o) = NoRule
    BY <1>7, <1>8 DEF HeadOf
  <2>2. ASSUME NEW p \in Objs, p # o PROVE HeadOf(m, p) = HeadOf(l, p)
    BY <1>3, <1>4, <1>6, <1>7, <2>2 DEF HeadOf
  <2> QED
    BY <2>1, <2>2
<1>10. KindsFit(m)
  BY <1>0, <1>3, <1>4, <1>6, <1>7, <1>8, RuleLinksAssumption DEF KindsFit, Objs
<1>11. o \notin Linked(l)
  BY <1>0 DEF InputsFit, Linked
<1>12. \A r \in Rules : m.inputs[r] = IF r \in Fed(l, o) THEN RemoveFirst(l.inputs[r], o)
                                      ELSE l.inputs[r]
  BY <1>3, <1>4, <1>6 DEF J
<1>13. m.next_in_input = l.next_in_input
  BY <1>3, <1>4, <1>6
<1>14. m \in LinksType
  BY <1>6
<1>15. \A p \in Objs : p # o => m.kind[p] = l.kind[p]
  BY <1>7
<1>16. LinksFit(m)
  BY <1>9, <1>10, <1>11, <1>12, <1>13, <1>14, <1>15, ForgetFit
<1> QED
  BY <1>16 DEF m

(* What is deleted: a rule only where it may be.                           *)
LEMMA RemoveFit ==
  ASSUME Separate, NEW l, LinksFit(l), NEW o \in Deletable,
         l.kind[o] \in {"NONE", "TEST", "RULE"}
  PROVE  LinksFit(RemoveObj(l, o))
<1>1. o \in Objs
  BY RuleChainAssumption
<1>2. CASE l.kind[o] = "RULE"
  <2>1. o \in Rules
    BY <1>1, <1>2 DEF LinksFit, KindsFit, Objs
  <2> QED
    BY <1>2, <2>1, RemoveRuleFit DEF RemoveObj
<1>3. CASE l.kind[o] # "RULE"
  BY <1>1, <1>3, RemoveInputFit DEF RemoveObj
<1> QED
  BY <1>2, <1>3

(* A rule that is created takes one input more.                            *)
LEMMA FedFit ==
  ASSUME Separate, NEW l, LinksFit(l), NEW i \in Objs, NEW r \in Rules, <<i, r>> \in Feeds,
         r \notin Fed(l, i), l.kind[r] = "RULE", l.kind[i] \in {"NONE", "TEST", "RULE"}
  PROVE  LinksFit(Feed(l, i, r)) /\ Feed(l, i, r).ref_rule[r] = l.ref_rule[r]
<1> DEFINE m == Feed(l, i, r)
<1>0. l \in LinksType /\ KindsFit(l) /\ r \in Objs
  BY DEF LinksFit, Objs
<1>a. l \in LinksType
  BY <1>0
<1>1. /\ m \in LinksType /\ m.kind = l.kind
      /\ m.inputs = [l.inputs EXCEPT ![r] = <<i>> \o l.inputs[r]]
      /\ m.next_in_input = [l.next_in_input EXCEPT ![r] = HeadOf(l, i)]
      /\ \A p \in Objs : p # i => m.head[p] = l.head[p] /\ m.ref_rule[p] = l.ref_rule[p]
      /\ l.kind[i] = "NONE" => m.head[i] = l.head[i]
      /\ l.kind[i] # "NONE" => m.ref_rule[i] = l.ref_rule[i]
      /\ \A p \in Objs : HeadOf(m, p) = IF p = i THEN r ELSE HeadOf(l, p)
  BY <1>a, FeedIs, SMTT(30)
<1> HIDE DEF m
<1>2. KindsFit(m)
  BY <1>0, <1>1 DEF KindsFit, Objs
<1>3. i # r
  BY RuleChainAssumption
<1>4. m.ref_rule[r] = l.ref_rule[r]
  BY <1>0, <1>1, <1>3
<1>5. m \in LinksType
  BY <1>1
<1>6. m.inputs = [l.inputs EXCEPT ![r] = <<i>> \o l.inputs[r]]
  BY <1>1
<1>7. m.next_in_input = [l.next_in_input EXCEPT ![r] = HeadOf(l, i)]
  BY <1>1
<1>8. \A o \in Objs : HeadOf(m, o) = IF o = i THEN r ELSE HeadOf(l, o)
  BY <1>1
<1>9. \A p \in Linked(l) : m.kind[p] = l.kind[p]
  BY <1>1
<1>10. m.kind[r] = "RULE" /\ m.kind[i] \in {"NONE", "TEST", "RULE"}
  BY <1>1
<1>11. \A o \in Objs : l.kind[o] \in {"NONE", "TEST", "RULE"}
                         => m.kind[o] \in {"NONE", "TEST", "RULE"}
  BY <1>1
<1>12. LinksFit(m)
  BY <1>2, <1>5, <1>6, <1>7, <1>8, <1>9, <1>10, <1>11, FeedFit
<1> QED
  BY <1>4, <1>12 DEF m

(* What making an object a rule changes.                                   *)
LEMMA MadeRuleIs ==
  ASSUME NEW l \in LinksType, NEW o \in Objs
  PROVE  LET m == GetOrCreate(l, o, "RULE")
         IN  /\ m \in LinksType
             /\ m.inputs = l.inputs /\ m.next_in_input = l.next_in_input
             /\ m.ref_rule = l.ref_rule
             /\ m.kind[o] = IF l.kind[o] \in {"absent", "NONE"} THEN "RULE" ELSE l.kind[o]
             /\ \A p \in Objs : p # o => m.kind[p] = l.kind[p]
             /\ m.head[o] = IF l.kind[o] = "NONE" THEN NoRule ELSE l.head[o]
             /\ \A p \in Objs : p # o => m.head[p] = l.head[p]
BY GetOrCreateIs, SMTT(30)

(* The kinds of what is named.                                             *)
LEMMA NamedKind ==
  ASSUME NEW l \in LinksType, NEW i \in Objs
  PROVE  GetOrCreate(l, i, "NONE").kind[i] =
           IF l.kind[i] \in {"absent", "NONE"} THEN "NONE" ELSE l.kind[i]
BY GetOrCreateIs, SMTT(30)

LEMMA NamedKinds ==
  ASSUME NEW l \in LinksType, NEW i \in Objs, l.kind[i] # "DELETED"
  PROVE  LET m == GetOrCreate(l, i, "NONE")
         IN  /\ m \in LinksType /\ m.inputs = l.inputs /\ m.next_in_input = l.next_in_input
             /\ m.ref_rule = l.ref_rule
             /\ m.kind[i] \in {"NONE", "TEST", "RULE"}
             /\ \A p \in Objs : p # i => m.kind[p] = l.kind[p]
             /\ \A p \in Objs : m.head[p] = l.head[p]
<1> DEFINE m == GetOrCreate(l, i, "NONE")
<1>1. l.kind[i] \in Kinds
  BY LinkTypes
<1>2. /\ m \in LinksType
      /\ m.inputs = l.inputs /\ m.next_in_input = l.next_in_input
      /\ m.ref_rule = l.ref_rule
      /\ m.kind[i] = IF l.kind[i] \in {"absent", "NONE"} THEN "NONE" ELSE l.kind[i]
      /\ \A p \in Objs : p # i => m.kind[p] = l.kind[p]
      /\ m.head[i] = IF l.kind[i] = "NONE" /\ "NONE" # "NONE" THEN NoRule ELSE l.head[i]
      /\ \A p \in Objs : p # i => m.head[p] = l.head[p]
  BY GetOrCreateIs, SMTT(30)
<1> HIDE DEF m
<1>3. m.kind[i] \in {"NONE", "TEST", "RULE"}
  BY <1>1, <1>2 DEF Kinds
<1>4. \A p \in Objs : m.head[p] = l.head[p]
  BY <1>2
<1> QED
  BY <1>2, <1>3, <1>4 DEF m

(* swdiag_rule_add_input                                                   *)
LEMMA AddInputFit ==
  ASSUME Separate, NEW l, LinksFit(l), NEW i \in Objs, NEW r \in Rules, <<i, r>> \in Feeds,
         l.kind[i] # "DELETED"
  PROVE  LinksFit(AddInput(l, r, i))
<1> DEFINE m == GetOrCreate(l, i, "NONE")
<1>0. l \in LinksType /\ i # r /\ r \in Objs
  BY RuleChainAssumption DEF LinksFit, Objs
<1>1. LinksFit(m)
  BY NamedFit
<1>2. m.kind[i] \in {"NONE", "TEST", "RULE"} /\ m.kind[r] = l.kind[r]
  BY <1>0, NamedKinds
<1>3. CASE l.kind[r] # "RULE" \/ InputSearch(m, r, i) \/ InputSearch(m, i, r)
  <2>1. AddInput(l, r, i) \in {l, m}
    BY <1>3 DEF AddInput
  <2> QED
    BY <1>1, <2>1
<1>4. CASE l.kind[r] = "RULE" /\ ~InputSearch(m, r, i) /\ ~InputSearch(m, i, r)
  <2>1. AddInput(l, r, i) = Feed(m, i, r)
    BY <1>4 DEF AddInput
  <2> HIDE DEF m
  <2>2. r \notin Fed(m, i)
    BY <1>2, <1>4 DEF InputSearch, Searches, Fed
  <2> QED
    BY <1>1, <1>2, <1>4, <2>1, <2>2, FedFit
<1> QED
  BY <1>3, <1>4

(* swdiag_test_create                                                      *)
LEMMA CreateTestFit ==
  ASSUME NEW l, LinksFit(l), NEW t \in Tests,
         l.kind[t] \in {"absent", "NONE"} \/ (l.kind[t] = "TEST" /\ l.ref_rule[t] = NoRule)
  PROVE  LinksFit(CreateTest(l, t))
<1>1. t \in Objs
  BY DEF Objs
<1> QED
  BY <1>1, MadeFit DEF CreateTest

(* swdiag_rule_set_type                                                    *)
LEMMA SetTypeFit ==
  ASSUME NEW l, LinksFit(l), NEW r \in Rules, l.kind[r] \in {"absent", "RULE"}
  PROVE  LinksFit(GetOrCreate(l, r, "RULE"))
<1>0. l \in LinksType /\ KindsFit(l) /\ r \in Objs
  BY DEF LinksFit, Objs
<1>1. CASE l.kind[r] = "RULE"
  <2>1. GetOrCreate(l, r, "RULE") = l
    BY <1>1 DEF GetOrCreate
  <2> QED
    BY <2>1
<1>2. CASE l.kind[r] = "absent"
  <2> DEFINE g == GetOrCreate(l, r, "RULE")
  <2>1. l.ref_rule[r] = NoRule
    BY <1>0, <1>2 DEF KindsFit
  <2>2. g.ref_rule = l.ref_rule
    BY <1>0, GetOrCreateIs, SMTT(30)
  <2> HIDE DEF g
  <2>3. Connect(g, r) = g
    BY <2>1, <2>2 DEF Connect
  <2>4. LinksFit(Connect(g, r))
    BY <1>0, <1>2, MadeFit DEF g
  <2> QED
    BY <2>3, <2>4 DEF g
<1> QED
  BY <1>1, <1>2

(* swdiag_rule_create of what is a rule already.                           *)
LEMMA CreateAgainFit ==
  ASSUME Separate, NEW l, LinksFit(l), NEW i \in Objs, NEW r \in Rules, <<i, r>> \in Feeds,
         l.kind[i] # "DELETED", l.kind[r] = "RULE", l.ref_rule[r] = NoRule
  PROVE  LinksFit(CreateRule(l, r, i))
<1> DEFINE m == GetOrCreate(l, i, "NONE")
           n == LeaveChains(m, r)
           f == Feed(n, i, r)
<1>0. l \in LinksType /\ i # r /\ r \in Objs
  BY RuleChainAssumption DEF LinksFit, Objs
<1>1. GetOrCreate(l, r, "RULE") = l
  BY DEF GetOrCreate
<1>2. LinksFit(m)
  BY NamedFit
<1>3. /\ m.kind[i] \in {"NONE", "TEST", "RULE"} /\ m.kind[r] = l.kind[r]
      /\ m.ref_rule[r] = NoRule
  BY <1>0, NamedKinds
<1> HIDE DEF m
<1>4. ~InputSearch(m, i, r)
  BY <1>2, NoLoopAsked DEF LinksFit, InputsFit
<1>5. LinksFit(n) /\ n.kind = m.kind /\ n.inputs[r] = << >> /\ n.ref_rule[r] = NoRule
  BY <1>2, <1>3, LeaveChainsFit
<1> HIDE DEF n
<1>6. r \notin Fed(n, i)
  BY <1>5 DEF Fed, ToSet
<1>7. LinksFit(f) /\ f.ref_rule[r] = NoRule
  BY <1>3, <1>5, <1>6, FedFit
<1> HIDE DEF f
<1>8. Connect(f, r) = f
  BY <1>7 DEF Connect
<1>9. CreateRule(l, r, i) = IF InputSearch(m, r, i) THEN m ELSE f
  BY <1>1, <1>4, <1>8 DEF CreateRule, m, n, f
<1> QED
  BY <1>2, <1>7, <1>9

(* And of what is not one yet, but may feed rules.                         *)
LEMMA CreateFirstFit ==
  ASSUME Separate, NEW l, LinksFit(l), NEW i \in Objs, NEW r \in Rules, <<i, r>> \in Feeds,
         l.kind[i] # "DELETED", l.kind[r] \in {"absent", "NONE"}
  PROVE  LinksFit(CreateRule(l, r, i))
<1> DEFINE g == GetOrCreate(l, r, "RULE")
           m == GetOrCreate(g, i, "NONE")
           n == LeaveChains(m, r)
           f == Feed(n, i, r)
           k == Connect(f, r)
           c == Connect(g, r)
           d == GetOrCreate(c, i, "NONE")
<1>0. /\ l \in LinksType /\ KindsFit(l) /\ InputsFit(l)
      /\ i # r /\ r \in Objs /\ l.inputs[r] = << >>
  BY RuleChainAssumption DEF LinksFit, InputsFit, Objs
<1>1. /\ g \in LinksType
      /\ g.inputs = l.inputs /\ g.next_in_input = l.next_in_input /\ g.ref_rule = l.ref_rule
      /\ g.kind[r] = "RULE"
      /\ \A p \in Objs : p # r => g.kind[p] = l.kind[p]
      /\ g.head[r] = NoRule
      /\ \A p \in Objs : p # r => g.head[p] = l.head[p]
  <2>1. l \in LinksType /\ r \in Objs
    BY <1>0
  <2>2. /\ g \in LinksType
        /\ g.inputs = l.inputs /\ g.next_in_input = l.next_in_input /\ g.ref_rule = l.ref_rule
        /\ g.kind[r] = IF l.kind[r] \in {"absent", "NONE"} THEN "RULE" ELSE l.kind[r]
        /\ \A p \in Objs : p # r => g.kind[p] = l.kind[p]
        /\ g.head[r] = IF l.kind[r] = "NONE" THEN NoRule ELSE l.head[r]
        /\ \A p \in Objs : p # r => g.head[p] = l.head[p]
    BY <2>1, MadeRuleIs
  <2> HIDE DEF g
  <2> QED
    BY <1>0, <2>2 DEF KindsFit
<1>2. LinksFit(c)
  BY <1>0, MadeFit
<1> HIDE DEF g
<1>3. /\ c \in LinksType /\ c.kind = g.kind /\ c.inputs = g.inputs
      /\ c.next_in_input = g.next_in_input /\ c.ref_rule = g.ref_rule
      /\ \A p \in Objs : p # r => c.head[p] = g.head[p]
      /\ c.head[r] = l.ref_rule[r]
  <2>1. /\ c \in LinksType /\ c.kind = g.kind /\ c.inputs = g.inputs
        /\ c.next_in_input = g.next_in_input /\ c.ref_rule = g.ref_rule
        /\ \A p \in Objs : p # r => c.head[p] = g.head[p]
        /\ g.ref_rule[r] = NoRule => c = g
        /\ g.ref_rule[r] # NoRule => c.head[r] = g.ref_rule[r]
    BY <1>0, <1>1, ConnectIs
  <2> HIDE DEF c
  <2> QED
    BY <1>1, <2>1
<1> HIDE DEF c
<1>4. LinksFit(d)
  BY <1>2, NamedFit
<1>5. /\ d \in LinksType /\ d.inputs = l.inputs /\ d.next_in_input = l.next_in_input
      /\ d.ref_rule = l.ref_rule
      /\ d.kind[i] \in {"NONE", "TEST", "RULE"} /\ d.kind[r] = "RULE"
      /\ \A p \in Objs : p # i => d.kind[p] = c.kind[p]
      /\ \A p \in Objs : d.head[p] = c.head[p]
  <2>1. c \in LinksType /\ c.kind[i] # "DELETED"
    BY <1>0, <1>1, <1>3
  <2>2. /\ d \in LinksType /\ d.inputs = c.inputs /\ d.next_in_input = c.next_in_input
        /\ d.ref_rule = c.ref_rule
        /\ d.kind[i] \in {"NONE", "TEST", "RULE"}
        /\ \A p \in Objs : p # i => d.kind[p] = c.kind[p]
        /\ \A p \in Objs : d.head[p] = c.head[p]
    BY <2>1, NamedKinds
  <2> HIDE DEF d
  <2> QED
    BY <1>0, <1>1, <1>3, <2>2
<1>6. /\ m \in LinksType /\ m.inputs = l.inputs /\ m.next_in_input = l.next_in_input
      /\ m.ref_rule = l.ref_rule
      /\ m.kind[i] \in {"NONE", "TEST", "RULE"} /\ m.kind[r] = "RULE"
      /\ \A p \in Objs : p # i => m.kind[p] = g.kind[p]
      /\ \A p \in Objs : m.head[p] = g.head[p]
  <2>1. g \in LinksType /\ g.kind[i] # "DELETED"
    BY <1>0, <1>1
  <2>2. /\ m \in LinksType /\ m.inputs = g.inputs /\ m.next_in_input = g.next_in_input
        /\ m.ref_rule = g.ref_rule
        /\ m.kind[i] \in {"NONE", "TEST", "RULE"}
        /\ \A p \in Objs : p # i => m.kind[p] = g.kind[p]
        /\ \A p \in Objs : m.head[p] = g.head[p]
    BY <2>1, NamedKinds
  <2> HIDE DEF m
  <2> QED
    BY <1>0, <1>1, <2>2
<1>7. m.kind = d.kind
  <2>1. m.kind[i] = d.kind[i]
    <3>1. m.kind[i] = IF g.kind[i] \in {"absent", "NONE"} THEN "NONE" ELSE g.kind[i]
      <4>1. g \in LinksType
        BY <1>1
      <4> QED
        BY <4>1, NamedKind
    <3>2. d.kind[i] = IF c.kind[i] \in {"absent", "NONE"} THEN "NONE" ELSE c.kind[i]
      <4>1. c \in LinksType
        BY <1>3
      <4> QED
        BY <4>1, NamedKind
    <3> QED
      BY <1>3, <3>1, <3>2
  <2> HIDE DEF m, d
  <2>2. \A p \in Objs : m.kind[p] = d.kind[p]
    BY <1>3, <1>5, <1>6, <2>1
  <2>3. m.kind \in [Objs -> Kinds] /\ d.kind \in [Objs -> Kinds]
    BY <1>5, <1>6, LinkTypes
  <2> QED
    BY <2>2, <2>3
<1> HIDE DEF m, d
<1>8. \A p \in Objs : p # r => HeadOf(m, p) = HeadOf(d, p)
  BY <1>3, <1>5, <1>6, <1>7 DEF HeadOf
<1>9. ~InputSearch(m, r, i)
  <2>1. {r} \in SUBSET Rules /\ r \in {r} /\ ToSet(m.inputs[r]) = {}
    BY <1>0, <1>6 DEF ToSet
  <2> QED
    BY <2>1 DEF InputSearch, Searches
<1>10. KindsFit(m) /\ InputsFit(d)
  <2>1. KindsFit(d) /\ InputsFit(d)
    BY <1>4 DEF LinksFit
  <2>2. \A p \in Objs : p # r => m.head[p] = d.head[p]
    BY <1>3, <1>5, <1>6
  <2> QED
    BY <1>5, <1>6, <1>7, <2>1, <2>2 DEF KindsFit
<1>11. ~InputSearch(m, i, r)
  BY <1>5, <1>6, <1>10, NoLoopAsked DEF InputsFit
<1>12. /\ n \in LinksType /\ n.kind = m.kind /\ n.inputs = m.inputs
       /\ n.ref_rule = m.ref_rule /\ n.head = m.head
       /\ n.next_in_input = [m.next_in_input EXCEPT ![r] = NoRule]
       /\ \A o \in Objs : HeadOf(n, o) = HeadOf(m, o)
  <2> DEFINE e == Leave(m, r, ToSet(m.inputs[r]))
  <2>1. m.inputs[r] = << >> /\ ToSet(m.inputs[r]) = {}
    BY <1>0, <1>6 DEF ToSet
  <2>2. /\ e.inputs = m.inputs /\ e.next_in_input = m.next_in_input
        /\ \A o \in Objs : HeadOf(e, o) = HeadOf(m, o)
    BY <1>6, <2>1, LeaveNone
  <2>3. /\ e \in LinksType /\ e.kind = m.kind
        /\ e.head = m.head /\ e.ref_rule = m.ref_rule
    BY <1>6, <2>1, LeaveNone
  <2> HIDE DEF e
  <2>5. n = [e EXCEPT !.next_in_input[r] = NoRule]
    BY DEF LeaveChains, e
  <2>6. [e.next_in_input EXCEPT ![r] = NoRule] \in [Rules -> Rules \cup {NoRule}]
    BY <2>3, LinkTypes
  <2>7. /\ n \in LinksType /\ n.kind = e.kind /\ n.inputs = e.inputs
        /\ n.head = e.head /\ n.ref_rule = e.ref_rule
        /\ n.next_in_input = [e.next_in_input EXCEPT ![r] = NoRule]
    BY <2>3, <2>5, <2>6 DEF LinksType
  <2> HIDE DEF n
  <2>8. \A o \in Objs : HeadOf(n, o) = HeadOf(e, o)
    BY <2>7 DEF HeadOf
  <2> QED
    BY <2>2, <2>3, <2>7, <2>8
<1> HIDE DEF n
<1>13. /\ f \in LinksType /\ f.kind = n.kind
       /\ f.inputs = [n.inputs EXCEPT ![r] = <<i>> \o n.inputs[r]]
       /\ f.next_in_input = [n.next_in_input EXCEPT ![r] = HeadOf(n, i)]
       /\ \A p \in Objs : p # i => f.head[p] = n.head[p] /\ f.ref_rule[p] = n.ref_rule[p]
       /\ n.kind[i] = "NONE" => f.head[i] = n.head[i]
       /\ n.kind[i] # "NONE" => f.ref_rule[i] = n.ref_rule[i]
       /\ \A p \in Objs : HeadOf(f, p) = IF p = i THEN r ELSE HeadOf(n, p)
  BY <1>12, FeedIs, SMTT(30)
<1> HIDE DEF f
<1>14. /\ k \in LinksType
       /\ k.kind = f.kind /\ k.inputs = f.inputs /\ k.next_in_input = f.next_in_input
       /\ k.ref_rule = f.ref_rule
       /\ \A p \in Objs : p # r => k.head[p] = f.head[p]
       /\ f.ref_rule[r] = NoRule => k = f
       /\ f.ref_rule[r] # NoRule => k.head[r] = f.ref_rule[r]
  BY <1>0, <1>13, ConnectIs
<1> HIDE DEF k
<1>15. k.head[r] = l.ref_rule[r]
  BY <1>0, <1>1, <1>6, <1>12, <1>13, <1>14
<1>16. k.kind = d.kind
  BY <1>7, <1>12, <1>13, <1>14
<1>17. k.inputs = [d.inputs EXCEPT ![r] = <<i>> \o d.inputs[r]]
  BY <1>5, <1>6, <1>12, <1>13, <1>14
<1>18. \A o \in Objs : HeadOf(k, o) = IF o = i THEN r ELSE HeadOf(d, o)
  <2>1. HeadOf(k, r) = HeadOf(d, r)
    BY <1>0, <1>3, <1>5, <1>15, <1>16 DEF HeadOf
  <2>2. ASSUME NEW o \in Objs, o # r PROVE HeadOf(k, o) = IF o = i THEN r ELSE HeadOf(d, o)
    <3>1. HeadOf(k, o) = HeadOf(f, o)
      BY <1>14, <2>2 DEF HeadOf
    <3> QED
      BY <1>8, <1>12, <1>13, <2>2, <3>1
  <2> QED
    BY <1>0, <2>1, <2>2
<1>19. k.next_in_input = [d.next_in_input EXCEPT ![r] = HeadOf(d, i)]
  <2>1. HeadOf(n, i) = HeadOf(d, i)
    BY <1>0, <1>8, <1>12
  <2>2. d.next_in_input \in [Rules -> Rules \cup {NoRule}]
    BY <1>5, LinkTypes
  <2> QED
    BY <1>5, <1>6, <1>12, <1>13, <1>14, <2>1, <2>2
<1>20. KindsFit(k)
  <2>1. KindsFit(d)
    BY <1>4 DEF LinksFit
  <2>2. \A o \in Objs : o # r /\ o # i => k.head[o] = d.head[o] /\ k.ref_rule[o] = d.ref_rule[o]
    BY <1>3, <1>5, <1>6, <1>12, <1>13, <1>14
  <2>3. d.kind[i] = "NONE" => k.head[i] = d.head[i]
    BY <1>0, <1>3, <1>5, <1>6, <1>7, <1>12, <1>13, <1>14
  <2>4. k.kind[r] = "RULE" /\ k.kind[i] \in {"NONE", "TEST", "RULE"}
    BY <1>5, <1>16
  <2> QED
    BY <1>16, <2>1, <2>2, <2>3, <2>4 DEF KindsFit
<1>21. r \notin Fed(d, i)
  BY <1>0, <1>5 DEF Fed, ToSet
<1>22. k.kind[r] = "RULE" /\ k.kind[i] \in {"NONE", "TEST", "RULE"}
  BY <1>5, <1>16
<1>23. \A p \in Linked(d) : k.kind[p] = d.kind[p]
  BY <1>16
<1>24. \A o \in Objs : d.kind[o] \in {"NONE", "TEST", "RULE"}
                         => k.kind[o] \in {"NONE", "TEST", "RULE"}
  BY <1>16
<1>25. k \in LinksType
  BY <1>14
<1>26. LinksFit(k)
  BY <1>4, <1>17, <1>18, <1>19, <1>20, <1>21, <1>22, <1>23, <1>24, <1>25, FeedFit
<1>27. CreateRule(l, r, i) = k
  BY <1>9, <1>11 DEF CreateRule, k, f, n, m, g
<1> QED
  BY <1>26, <1>27

-----------------------------------------------------------------------------
(* The calls to come.                                                      *)

(* A sequence with one element before it.                                  *)
LEMMA ConsIs ==
  ASSUME NEW S, NEW c \in S, NEW s \in Seq(S)
  PROVE  LET t == <<c>> \o s
         IN  /\ t \in Seq(S) /\ Len(t) = Len(s) + 1 /\ t[1] = c /\ t # << >>
             /\ \A k \in 1..Len(s) : t[k + 1] = s[k]
             /\ \A k \in 1..Len(t) : k = 1 \/ (k - 1 \in 1..Len(s) /\ t[k] = s[k - 1])
             /\ Head(t) = c /\ Tail(t) = s
<1> DEFINE t == <<c>> \o s
<1>1. /\ t \in Seq(S) /\ Len(t) = Len(s) + 1 /\ t[1] = c
      /\ \A k \in 1..Len(s) : t[k + 1] = s[k]
  OBVIOUS
<1>2. \A k \in 1..Len(t) : k = 1 \/ (k - 1 \in 1..Len(s) /\ t[k] = s[k - 1])
  OBVIOUS
<1>3. t # << >> /\ Head(t) = c
  BY <1>1
<1>4. Tail(t) = s
  <2> HIDE DEF t
  <2>1. Tail(t) \in Seq(S) /\ Len(Tail(t)) = Len(s) /\ \A k \in 1..Len(s) : Tail(t)[k] = t[k + 1]
    BY <1>1, <1>3
  <2> QED
    BY <1>1, <2>1, SeqEqual
<1> QED
  BY <1>1, <1>2, <1>3, <1>4

(* A sequence is its head and its tail.                                    *)
LEMMA HeadTailIs ==
  ASSUME NEW S, NEW t \in Seq(S), t # << >>
  PROVE  /\ Head(t) \in S /\ Head(t) = t[1] /\ Tail(t) \in Seq(S)
         /\ Len(t) = Len(Tail(t)) + 1
         /\ \A k \in 1..Len(Tail(t)) : Tail(t)[k] = t[k + 1]
         /\ t = <<Head(t)>> \o Tail(t)
<1>1. /\ Head(t) \in S /\ Head(t) = t[1] /\ Tail(t) \in Seq(S)
      /\ Len(t) = Len(Tail(t)) + 1
      /\ \A k \in 1..Len(Tail(t)) : Tail(t)[k] = t[k + 1]
  OBVIOUS
<1> DEFINE u == <<Head(t)>> \o Tail(t)
<1>2. /\ u \in Seq(S) /\ Len(u) = Len(Tail(t)) + 1 /\ u[1] = Head(t)
      /\ \A k \in 1..Len(u) : k = 1 \/ (k - 1 \in 1..Len(Tail(t)) /\ u[k] = Tail(t)[k - 1])
  BY <1>1, ConsIs
<1> HIDE DEF u
<1>3. \A k \in 1..Len(t) : t[k] = u[k]
  BY <1>1, <1>2
<1>4. t = u
  BY <1>1, <1>2, <1>3, SeqEqual
<1> QED
  BY <1>1, <1>4 DEF u

(* What is owed by a call and by those after it.                           *)
LEMMA OwedIs ==
  ASSUME NEW l, NEW c \in Calls, NEW s \in Seq(Calls), NEW r
  PROVE  Owed(l, <<c>> \o s, r) =
           (IF Runs(c) /\ r \in Rest(l, c.rule) THEN {c.input.result} ELSE {}) \cup Owed(l, s, r)
<1> DEFINE t == <<c>> \o s
           mine == IF Runs(c) /\ r \in Rest(l, c.rule) THEN {c.input.result} ELSE {}
<1>1. /\ t \in Seq(Calls) /\ Len(t) = Len(s) + 1 /\ t[1] = c
      /\ \A k \in 1..Len(s) : t[k + 1] = s[k]
      /\ \A k \in 1..Len(t) : k = 1 \/ (k - 1 \in 1..Len(s) /\ t[k] = s[k - 1])
  BY ConsIs
<1> HIDE DEF t
<1>2. DOMAIN t = 1..Len(t) /\ DOMAIN s = 1..Len(s) /\ Len(s) \in Nat
  BY <1>1
<1>3. ASSUME NEW v \in Owed(l, t, r) PROVE v \in mine \cup Owed(l, s, r)
  <2>1. PICK k \in 1..Len(t) : Runs(t[k]) /\ r \in Rest(l, t[k].rule) /\ v = t[k].input.result
    BY <1>2 DEF Owed
  <2>2. CASE k = 1
    BY <1>1, <2>1, <2>2
  <2>3. CASE k # 1
    BY <1>1, <1>2, <2>1, <2>3 DEF Owed
  <2> QED
    BY <2>2, <2>3
<1>4. ASSUME NEW v \in Owed(l, s, r) PROVE v \in Owed(l, t, r)
  <2>1. PICK k \in 1..Len(s) : Runs(s[k]) /\ r \in Rest(l, s[k].rule) /\ v = s[k].input.result
    BY <1>2 DEF Owed
  <2>2. k + 1 \in 1..Len(t) /\ t[k + 1] = s[k]
    BY <1>1, <1>2
  <2> QED
    BY <1>2, <2>1, <2>2 DEF Owed
<1>5. ASSUME NEW v \in mine PROVE v \in Owed(l, t, r)
  <2>1. Runs(c) /\ r \in Rest(l, c.rule) /\ v = c.input.result
    OBVIOUS
  <2>2. 1 \in 1..Len(t) /\ t[1] = c
    BY <1>1, <1>2
  <2> QED
    BY <1>2, <2>1, <2>2 DEF Owed
<1> HIDE DEF mine
<1>6. Owed(l, t, r) = mine \cup Owed(l, s, r)
  BY <1>3, <1>4, <1>5
<1> QED
  BY <1>6 DEF t, mine

(* Calls that may come after another.                                      *)
Ready(l, s) ==
  /\ s \in Seq(Calls)
  /\ \A k \in 1..Len(s) :
       /\ s[k].rule \in Linked(l) /\ Waiting(l, s[k])
       /\ \A j \in 1..(k - 1) : Clear(l, s[j], s[k])
Ahead(l, c, s) == \A k \in 1..Len(s) : Clear(l, c, s[k])

LEMMA ReadyCons ==
  ASSUME NEW l, NEW s, Ready(l, s), NEW c \in Calls, c.rule \in Linked(l), Waiting(l, c),
         Ahead(l, c, s)
  PROVE  Ready(l, <<c>> \o s)
<1> DEFINE t == <<c>> \o s
<1>1. /\ t \in Seq(Calls) /\ Len(t) = Len(s) + 1 /\ t[1] = c
      /\ \A k \in 1..Len(s) : t[k + 1] = s[k]
      /\ \A k \in 1..Len(t) : k = 1 \/ (k - 1 \in 1..Len(s) /\ t[k] = s[k - 1])
  BY ConsIs DEF Ready
<1> HIDE DEF t
<1>2. ASSUME NEW k \in 1..Len(t)
      PROVE  /\ t[k].rule \in Linked(l) /\ Waiting(l, t[k])
             /\ \A j \in 1..(k - 1) : Clear(l, t[j], t[k])
  <2>1. CASE k = 1
    BY <1>1, <2>1
  <2>2. CASE k # 1
    <3>1. k - 1 \in 1..Len(s) /\ t[k] = s[k - 1] /\ Len(s) \in Nat
      BY <1>1, <2>2 DEF Ready
    <3>2. ASSUME NEW j \in 1..(k - 1) PROVE Clear(l, t[j], t[k])
      <4>1. CASE j = 1
        BY <1>1, <3>1, <4>1 DEF Ahead
      <4>2. CASE j # 1
        <5>1. j - 1 \in 1..(k - 1 - 1) /\ t[j] = s[j - 1]
          BY <1>1, <3>1, <4>2
        <5> QED
          BY <3>1, <5>1 DEF Ready
      <4> QED
        BY <4>1, <4>2
    <3> QED
      BY <3>1, <3>2 DEF Ready
  <2> QED
    BY <2>1, <2>2
<1>3. Ready(l, t)
  BY <1>1, <1>2 DEF Ready
<1> QED
  BY <1>3 DEF t

LEMMA AheadCons ==
  ASSUME NEW l, NEW s, Ready(l, s), NEW b, Ahead(l, b, s), NEW c \in Calls, Clear(l, b, c)
  PROVE  Ahead(l, b, <<c>> \o s)
<1> DEFINE t == <<c>> \o s
<1>1. /\ t[1] = c
      /\ \A k \in 1..Len(t) : k = 1 \/ (k - 1 \in 1..Len(s) /\ t[k] = s[k - 1])
  BY ConsIs DEF Ready
<1> HIDE DEF t
<1>2. Ahead(l, b, t)
  BY <1>1 DEF Ahead
<1> QED
  BY <1>2 DEF t

(* The first of the calls, and those after it.                             *)
LEMMA TodoIs ==
  ASSUME TodoFit, todo # << >>
  PROVE  LET c == Head(todo)
             s == Tail(todo)
         IN  /\ c \in Calls /\ c.rule \in Linked(links)
             /\ todo = <<c>> \o s /\ Ready(links, s) /\ Ahead(links, c, s)
<1> DEFINE c == Head(todo)
           s == Tail(todo)
<1>1. todo \in Seq(Calls)
  BY DEF TodoFit
<1>2. /\ c \in Calls /\ c = todo[1] /\ s \in Seq(Calls) /\ Len(todo) = Len(s) + 1
      /\ \A k \in 1..Len(s) : s[k] = todo[k + 1]
      /\ todo = <<c>> \o s
  BY <1>1, HeadTailIs
<1> HIDE DEF c, s
<1>3. c.rule \in Linked(links)
  BY <1>2 DEF TodoFit
<1>4. ASSUME NEW k \in 1..Len(s)
      PROVE  /\ s[k].rule \in Linked(links) /\ Waiting(links, s[k])
             /\ \A j \in 1..(k - 1) : Clear(links, s[j], s[k])
             /\ Clear(links, c, s[k])
  <2>1. k + 1 \in 1..Len(todo) /\ k + 1 > 1 /\ s[k] = todo[k + 1] /\ Len(s) \in Nat
    BY <1>2
  <2>2. 1 \in 1..(k + 1 - 1) /\ todo[1] = c
    BY <1>2
  <2>3. ASSUME NEW j \in 1..(k - 1) PROVE Clear(links, s[j], s[k])
    <3>1. j + 1 \in 1..(k + 1 - 1) /\ s[j] = todo[j + 1]
      BY <1>2, <2>1
    <3> QED
      BY <2>1, <3>1 DEF TodoFit
  <2> QED
    BY <2>1, <2>2, <2>3 DEF TodoFit
<1>5. Ready(links, s) /\ Ahead(links, c, s)
  BY <1>2, <1>4 DEF Ready, Ahead
<1> QED
  BY <1>2, <1>3, <1>5 DEF c, s

(* And back.                                                               *)
LEMMA TodoCons ==
  ASSUME NEW s, Ready(links', s), NEW c \in Calls, c.rule \in Linked(links'),
         Ahead(links', c, s), todo' = <<c>> \o s
  PROVE  TodoFit'
<1>1. /\ todo' \in Seq(Calls) /\ Len(todo') = Len(s) + 1 /\ todo'[1] = c
      /\ \A k \in 1..Len(s) : todo'[k + 1] = s[k]
      /\ \A k \in 1..Len(todo') : k = 1 \/ (k - 1 \in 1..Len(s) /\ todo'[k] = s[k - 1])
  BY ConsIs DEF Ready
<1>2. ASSUME NEW k \in 1..Len(todo')
      PROVE  /\ todo'[k].rule \in Linked(links') /\ (k > 1 => Waiting(links', todo'[k]))
             /\ \A j \in 1..(k - 1) : Clear(links', todo'[j], todo'[k])
  <2>1. CASE k = 1
    BY <1>1, <2>1
  <2>2. CASE k # 1
    <3>1. k - 1 \in 1..Len(s) /\ todo'[k] = s[k - 1] /\ Len(s) \in Nat
      BY <1>1, <2>2 DEF Ready
    <3>2. ASSUME NEW j \in 1..(k - 1) PROVE Clear(links', todo'[j], todo'[k])
      <4>1. CASE j = 1
        BY <1>1, <3>1, <4>1 DEF Ahead
      <4>2. CASE j # 1
        <5>1. j - 1 \in 1..(k - 1 - 1) /\ todo'[j] = s[j - 1]
          BY <1>1, <3>1, <4>2
        <5> QED
          BY <3>1, <5>1 DEF Ready
      <4> QED
        BY <4>1, <4>2
    <3> QED
      BY <3>1, <3>2 DEF Ready
  <2> QED
    BY <2>1, <2>2
<1> QED
  BY <1>1, <1>2 DEF TodoFit

LEMMA TodoReady ==
  ASSUME Ready(links', todo')
  PROVE  TodoFit'
BY DEF Ready, TodoFit

(* What is owed by the calls after c is not owed to the rules of c.        *)
LEMMA AheadOwes ==
  ASSUME NEW l, NEW s \in Seq(Calls), NEW c, Ahead(l, c, s), NEW q \in Rest(l, c.rule)
  PROVE  Owed(l, s, q) = {}
<1>1. \A k \in DOMAIN s : q \notin Rest(l, s[k].rule)
  BY DEF Ahead, Clear
<1> QED
  BY <1>1 DEF Owed

(* The rest of a chain is on every chain it starts on.                     *)
LEMMA RestFed ==
  ASSUME NEW l, LinksFit(l), NEW o \in Objs, NEW r \in Fed(l, o)
  PROVE  Rest(l, r) \subseteq Fed(l, o)
<1>1. l \in LinksType /\ r \in Rules /\ Chain(l, o) = Fed(l, o)
  BY DEF LinksFit, Fed
<1>2. Fed(l, o) \in SUBSET Rules /\ Closed(l, Fed(l, o))
  BY <1>1, ChainIs
<1> QED
  BY <1>1, <1>2, RestIs

(* The rules r feeds are not on what is left of chains whose inputs are    *)
(* above r, but that have been begun.                                      *)
LEMMA FedAway ==
  ASSUME Separate, NEW l, LinksFit(l), NEW r \in Rules, NEW q \in Linked(l),
         \A o \in Objs : q \in Fed(l, o) => r \in Under(o),
         \A o \in Objs : q \in Fed(l, o) => \E p \in Fed(l, o) : p \notin Rest(l, q)
  PROVE  /\ Fed(l, r) \cap Rest(l, q) = {}
         /\ \A o \in Objs : q \in Fed(l, o) => Fed(l, r) \subseteq Under(o)
<1>0. l \in LinksType /\ r \in Objs
  BY DEF LinksFit, Objs
<1>1. ASSUME NEW s \in Fed(l, r), s \in Rest(l, q) PROVE FALSE
  <2>1. PICK o \in Objs : q \in Fed(l, o)
    BY <1>0, LinkedIs
  <2>2. s \in Fed(l, o)
    BY <1>1, <2>1, RestFed
  <2>3. o # r
    BY <2>1, NotUnder
  <2>4. Fed(l, o) = {s}
    BY <1>0, <2>2, <2>3, SecondInput
  <2> QED
    BY <1>1, <2>1, <2>4
<1>2. ASSUME NEW o \in Objs, q \in Fed(l, o), NEW s \in Fed(l, r) PROVE s \in Under(o)
  <2> DEFINE p == <<r, s>>
  <2>1. p \in Feeds /\ p[1] = r /\ p[2] = s
    BY DEF LinksFit, InputsFit, Fed
  <2>2. r \in Under(o)
    BY <1>2
  <2> HIDE DEF p
  <2> QED
    BY <2>1, <2>2, UnderIs
<1> QED
  BY <1>1, <1>2

(* The rule after r on a chain: the rest of the chain goes on from it, and *)
(* r is on every chain it is on.                                           *)
LEMMA OnwardIs ==
  ASSUME Separate, NEW l, LinksFit(l), NEW r \in Linked(l), l.next_in_input[r] # NoRule
  PROVE  LET n == l.next_in_input[r]
         IN  /\ n \in Linked(l)
             /\ Rest(l, r) = {r} \cup Rest(l, n) /\ r \notin Rest(l, n)
             /\ \A o \in Objs : n \in Fed(l, o) => r \in Fed(l, o)
<1> DEFINE n == l.next_in_input[r]
<1>0. l \in LinksType /\ r \in Rules
  BY LinkedIs DEF LinksFit
<1>1. PICK o \in Objs : r \in Fed(l, o)
  BY <1>0, LinkedIs
<1>2. n \in Fed(l, o) /\ n # r
  BY <1>1, NextIs
<1>3. n \in Linked(l)
  BY <1>0, <1>2, LinkedIs
<1>4. Rest(l, r) = {r} \cup Rest(l, n)
  BY <1>0, RestIs
<1>5. r \notin Rest(l, n)
  BY RestAway
<1> HIDE DEF n
<1>6. ASSUME NEW p \in Objs, n \in Fed(l, p) PROVE r \in Fed(l, p)
  <2>1. CASE p = o
    BY <1>1, <2>1
  <2>2. CASE p # o
    <3>1. Fed(l, o) = {n}
      BY <1>2, <1>6, <2>2, SecondInput
    <3> QED
      BY <1>1, <1>2, <3>1
  <2> QED
    BY <2>1, <2>2
<1> QED
  BY <1>3, <1>4, <1>5, <1>6 DEF n

(* What a rule feeds is not on its own chains.                             *)
LEMMA FeedsIs ==
  ASSUME Separate, NEW l, LinksFit(l), NEW r \in Linked(l)
  PROVE  /\ r \in Objs /\ HeadOf(l, r) = l.head[r]
         /\ Fed(l, r) \cap Rest(l, r) = {}
         /\ HeadOf(l, r) = NoRule => Fed(l, r) = {}
         /\ HeadOf(l, r) # NoRule =>
              /\ HeadOf(l, r) \in Linked(l) /\ Fed(l, r) = Rest(l, HeadOf(l, r))
<1>0. l \in LinksType /\ r \in Rules /\ r \in Objs
  BY LinkedIs DEF LinksFit, Objs
<1>1. HeadOf(l, r) = l.head[r]
  BY <1>0 DEF LinksFit, InputsFit, Linked, HeadOf
<1>2. ASSUME NEW s \in Fed(l, r), s \in Rest(l, r) PROVE FALSE
  <2>1. PICK o \in Objs : r \in Fed(l, o)
    BY <1>0, LinkedIs
  <2>2. s \in Fed(l, o)
    BY <1>2, <2>1, RestFed
  <2>3. <<r, s>> \in Feeds /\ <<o, r>> \in Feeds
    BY <2>1 DEF LinksFit, InputsFit, Fed
  <2>4. o # r /\ s # r
    BY <1>0, <2>3, RuleChainAssumption
  <2>5. Fed(l, o) = {s}
    BY <1>0, <2>2, <2>4, SecondInput
  <2> QED
    BY <2>1, <2>4, <2>5
<1>3. ASSUME HeadOf(l, r) = NoRule PROVE Fed(l, r) = {}
  <2>1. Chain(l, r) = Fed(l, r) /\ Closed(l, {}) /\ {} \in SUBSET Rules
    BY <1>0 DEF LinksFit, Closed
  <2> QED
    BY <1>0, <1>3, <2>1, ChainIs
<1>4. ASSUME HeadOf(l, r) # NoRule
      PROVE  HeadOf(l, r) \in Linked(l) /\ Fed(l, r) = Rest(l, HeadOf(l, r))
  BY <1>0, <1>4, ChainRest, LinkedIs
<1> QED
  BY <1>0, <1>1, <1>2, <1>3, <1>4

(* A call that has run is followed by one for the rule after it, and that, *)
(* where the rule has something to say, comes after one for those it feeds. *)
LEMMA OnwardFit ==
  ASSUME Separate, NEW l, LinksFit(l), NEW s, Ready(l, s), NEW c \in Calls,
         c.rule \in Linked(l), Ahead(l, c, s)
  PROVE  LET u == First(l.next_in_input[c.rule], c.input, c.rci) \o s
         IN  /\ Ready(l, u)
             /\ \A q : Owed(l, u, q) =
                  (IF Runs(c) /\ q \in Rest(l, c.rule) \ {c.rule} THEN {c.input.result} ELSE {})
                    \cup Owed(l, s, q)
<1> DEFINE r == c.rule
           n == l.next_in_input[r]
           d == Call(n, c.input, c.rci)
           u == First(n, c.input, c.rci) \o s
<1>0. l \in LinksType /\ r \in Rules /\ s \in Seq(Calls) /\ c.input \in Inputs /\ c.rci \in BOOLEAN
  BY DEF LinksFit, Ready, Calls
<1>1. CASE n = NoRule
  <2>1. u = s
    BY <1>0, <1>1 DEF First
  <2>2. Rest(l, r) = {r}
    BY <1>0, <1>1, RestIs
  <2> QED
    BY <2>1, <2>2
<1>2. CASE n # NoRule
  <2>1. u = <<d>> \o s
    BY <1>2 DEF First
  <2>2. /\ n \in Linked(l)
        /\ Rest(l, r) = {r} \cup Rest(l, n) /\ r \notin Rest(l, n)
        /\ \A o \in Objs : n \in Fed(l, o) => r \in Fed(l, o)
    BY <1>2, OnwardIs
  <2>3. d \in Calls /\ d.rule = n /\ d.input = c.input /\ d.rci = c.rci
    BY <1>0, <2>2, LinkedIs DEF Call, Calls
  <2> HIDE DEF d, n
  <2>4. Waiting(l, d)
    BY <2>2, <2>3 DEF Waiting
  <2>5. Ahead(l, d, s)
    BY <2>2, <2>3 DEF Ahead, Clear
  <2>6. Ready(l, u)
    BY <2>1, <2>2, <2>3, <2>4, <2>5, ReadyCons
  <2>8. ASSUME NEW b \in Calls, NEW q
        PROVE  Owed(l, <<b>> \o s, q) =
                 (IF Runs(b) /\ q \in Rest(l, b.rule) THEN {b.input.result} ELSE {})
                   \cup Owed(l, s, q)
    BY <1>0, OwedIs
  <2>7. ASSUME NEW q
        PROVE Owed(l, u, q) =
                (IF Runs(c) /\ q \in Rest(l, r) \ {r} THEN {c.input.result} ELSE {})
                  \cup Owed(l, s, q)
    <3>1. Owed(l, <<d>> \o s, q) =
            (IF Runs(d) /\ q \in Rest(l, d.rule) THEN {d.input.result} ELSE {}) \cup Owed(l, s, q)
      BY <2>3, <2>8
    <3>2. Runs(d) <=> Runs(c)
      BY <2>3 DEF Runs
    <3>3. q \in Rest(l, d.rule) <=> q \in Rest(l, r) \ {r}
      BY <2>2, <2>3
    <3> QED
      BY <2>1, <2>3, <3>1, <3>2, <3>3
  <2> QED
    BY <2>6, <2>7 DEF n
<1> QED
  BY <1>1, <1>2

LEMMA SayFit ==
  ASSUME Separate, NEW l, LinksFit(l), NEW s, Ready(l, s), NEW c \in Calls,
         c.rule \in Linked(l), Ahead(l, c, s), NEW x \in Inputs
  PROVE  LET u == First(l.next_in_input[c.rule], c.input, c.rci) \o s
             t == First(l.head[c.rule], x, FALSE) \o u
         IN  /\ \/ t = u
                \/ \E d \in Calls : d.rule \in Linked(l) /\ Ahead(l, d, u) /\ t = <<d>> \o u
             /\ \A q : Owed(l, t, q) =
                  (IF x.result # "ABORT" /\ q \in Fed(l, c.rule) THEN {x.result} ELSE {})
                    \cup Owed(l, u, q)
             /\ \A q \in Fed(l, c.rule) : Owed(l, u, q) = {} /\ Owed(l, s, q) = {}
<1> DEFINE r == c.rule
           n == l.next_in_input[r]
           h == l.head[r]
           e == Call(n, c.input, c.rci)
           d == Call(h, x, FALSE)
           u == First(n, c.input, c.rci) \o s
           t == First(h, x, FALSE) \o u
<1>0. /\ l \in LinksType /\ r \in Rules /\ s \in Seq(Calls)
      /\ c.input \in Inputs /\ c.rci \in BOOLEAN /\ r \in Rest(l, r)
  BY RestIs DEF LinksFit, Ready, Calls
<1>1. Ready(l, u)
  BY OnwardFit
<1>2. /\ r \in Objs /\ HeadOf(l, r) = h
      /\ Fed(l, r) \cap Rest(l, r) = {}
      /\ h = NoRule => Fed(l, r) = {}
      /\ h # NoRule => h \in Linked(l) /\ Fed(l, r) = Rest(l, h)
  BY FeedsIs
<1> HIDE DEF u
<1>3. CASE h = NoRule
  <2>1. t = u
    BY <1>1, <1>3 DEF First, Ready
  <2> QED
    BY <1>2, <1>3, <2>1 DEF u
<1>4. CASE h # NoRule
  <2>1. t = <<d>> \o u
    BY <1>4 DEF First
  <2>2. d \in Calls /\ d.rule = h /\ d.input = x /\ d.rci = FALSE
    BY <1>0, <1>2, <1>4, LinkedIs DEF Call, Calls
  <2> HIDE DEF d, h
  <2>3. Ahead(l, d, s)
    <3> SUFFICES ASSUME NEW k \in 1..Len(s) PROVE Clear(l, d, s[k])
      BY DEF Ahead
    <3> DEFINE q == s[k].rule
    <3>1. /\ q \in Linked(l)
          /\ \A o \in Objs : q \in Fed(l, o) => \E p \in Fed(l, o) : p \notin Rest(l, q)
      BY DEF Ready, Waiting
    <3>2. \A o \in Objs : q \in Fed(l, o) => r \in Under(o)
      BY <1>0 DEF Ahead, Clear
    <3>3. /\ Fed(l, r) \cap Rest(l, q) = {}
          /\ \A o \in Objs : q \in Fed(l, o) => Fed(l, r) \subseteq Under(o)
      BY <1>0, <3>1, <3>2, FedAway
    <3> QED
      BY <1>2, <1>4, <2>2, <3>3 DEF Clear
  <2>4. Ahead(l, d, u)
    <3>1. CASE n = NoRule
      <4>1. u = s
        BY <1>0, <3>1 DEF First, u
      <4> QED
        BY <2>3, <4>1
    <3>2. CASE n # NoRule
      <4>1. u = <<e>> \o s
        BY <3>2 DEF First, u
      <4>2. /\ n \in Linked(l)
            /\ Rest(l, r) = {r} \cup Rest(l, n) /\ r \notin Rest(l, n)
            /\ \A o \in Objs : n \in Fed(l, o) => r \in Fed(l, o)
        BY <3>2, OnwardIs
      <4>3. e \in Calls /\ e.rule = n
        BY <1>0, <4>2, LinkedIs DEF Call, Calls
      <4> HIDE DEF e, n
      <4>4. ASSUME NEW o \in Objs, n \in Fed(l, o) PROVE r \in Under(o)
        <5> DEFINE p == <<o, r>>
        <5>1. p \in Feeds /\ p[1] = o /\ p[2] = r
          BY <4>2, <4>4 DEF LinksFit, InputsFit, Fed
        <5> HIDE DEF p
        <5> QED
          BY <5>1, UnderIs
      <4>5. \A o \in Objs : n \in Fed(l, o) => \E p \in Fed(l, o) : p \notin Rest(l, n)
        BY <4>2
      <4>6. /\ Fed(l, r) \cap Rest(l, n) = {}
            /\ \A o \in Objs : n \in Fed(l, o) => Fed(l, r) \subseteq Under(o)
        BY <1>0, <4>2, <4>4, <4>5, FedAway
      <4>7. Clear(l, d, e)
        BY <1>2, <1>4, <2>2, <4>3, <4>6 DEF Clear
      <4> QED
        BY <2>3, <4>1, <4>3, <4>7, AheadCons
    <3> QED
      BY <3>1, <3>2
  <2>5. ASSUME NEW q
        PROVE  Owed(l, t, q) =
                 (IF x.result # "ABORT" /\ q \in Fed(l, r) THEN {x.result} ELSE {})
                   \cup Owed(l, u, q)
    <3>1. Owed(l, <<d>> \o u, q) =
            (IF Runs(d) /\ q \in Rest(l, d.rule) THEN {d.input.result} ELSE {}) \cup Owed(l, u, q)
      <4>1. d \in Calls /\ u \in Seq(Calls)
        BY <1>1, <2>2 DEF Ready
      <4> QED
        BY <4>1, OwedIs
    <3>2. Runs(d) <=> x.result # "ABORT"
      BY <2>2 DEF Runs
    <3> QED
      BY <1>2, <1>4, <2>1, <2>2, <3>1, <3>2
  <2>6. ASSUME NEW q \in Fed(l, r) PROVE Owed(l, u, q) = {} /\ Owed(l, s, q) = {}
    <3>1. q \in Rest(l, d.rule)
      BY <1>2, <1>4, <2>2
    <3> QED
      BY <1>0, <1>1, <2>3, <2>4, <3>1, AheadOwes DEF Ready
  <2>7. d.rule \in Linked(l)
    BY <1>2, <1>4, <2>2
  <2> QED
    BY <2>1, <2>2, <2>4, <2>5, <2>6, <2>7 DEF h, u
<1> QED
  BY <1>3, <1>4

-----------------------------------------------------------------------------
(* Steps.                                                                  *)

(* Where the links fit, no rule drops an input (swdiag_obj_validate).      *)
LEMMA ValidateIs ==
  ASSUME NEW l, LinksFit(l), NEW r \in Rules
  PROVE  Validate(l, r) = l
<1>1. ToSet(l.inputs[r]) \subseteq Objs
  BY LinkedIs DEF LinksFit
<1>2. \A i \in ToSet(l.inputs[r]) : r \in Chain(l, i)
  BY <1>1 DEF LinksFit, Fed
<1> QED
  BY <1>2 DEF Validate

(* A call that comes to its turn: what it and those after it owe, and what *)
(* is owed once it has run and the rule has said x.                        *)
LEMMA TurnFacts ==
  ASSUME Separate, LinksFit(links), TodoFit, todo # << >>, NEW x \in Inputs
  PROVE  LET c == Head(todo)
             r == c.rule
             s == Tail(todo)
             u == Onward(c) \o s
             t == First(links.head[r], x, FALSE) \o Onward(c) \o s
             said == IF x.result # "ABORT" THEN {x.result} ELSE {}
             taken == IF Runs(c) THEN {c.input.result} ELSE {}
         IN  /\ c \in Calls /\ r \in Rules /\ r \in Rest(links, r)
             /\ Fed(links, r) \cap Rest(links, r) = {}
             /\ \A q \in Rules : Owed(links, todo, q) =
                  (IF q \in Rest(links, r) THEN taken ELSE {}) \cup Owed(links, s, q)
             /\ \A q \in Rules : Owed(links, u, q) =
                  (IF q \in Rest(links, r) \ {r} THEN taken ELSE {}) \cup Owed(links, s, q)
             /\ \A q \in Rules : Owed(links, t, q) =
                  (IF q \in Fed(links, r) THEN said ELSE {}) \cup Owed(links, u, q)
             /\ \A q \in Rest(links, r) \cup Fed(links, r) : Owed(links, s, q) = {}
             /\ links' = links /\ todo' \in {t, u} => TodoFit'
<1> DEFINE c == Head(todo)
           r == c.rule
           s == Tail(todo)
           O == First(links.next_in_input[r], c.input, c.rci)
           u == O \o s
           F == First(links.head[r], x, FALSE)
           t == F \o O \o s
           w == F \o u
<1>1. /\ c \in Calls /\ r \in Linked(links)
      /\ todo = <<c>> \o s /\ Ready(links, s) /\ Ahead(links, c, s)
  BY TodoIs
<1>2. links \in LinksType /\ r \in Rules /\ s \in Seq(Calls)
  BY <1>1, LinkedIs DEF LinksFit, Ready
<1>3. /\ c.input \in Inputs /\ c.rci \in BOOLEAN
      /\ links.next_in_input[r] \in Rules \cup {NoRule}
      /\ links.head[r] \in Rules \cup {NoRule}
  BY <1>1, <1>2, LinkTypes DEF Calls, Objs
<1> HIDE DEF c, s
<1>4. r \in Rest(links, r)
  BY <1>2, RestIs
<1>5. Fed(links, r) \cap Rest(links, r) = {}
  BY <1>1, FeedsIs
<1>6. Onward(c) = O
  BY DEF Onward
<1>7. /\ Ready(links, u)
      /\ \A q : Owed(links, u, q) =
           (IF Runs(c) /\ q \in Rest(links, r) \ {r} THEN {c.input.result} ELSE {})
             \cup Owed(links, s, q)
  BY <1>1, OnwardFit
<1>8. /\ \/ w = u
         \/ \E d \in Calls : d.rule \in Linked(links) /\ Ahead(links, d, u) /\ w = <<d>> \o u
      /\ \A q : Owed(links, w, q) =
           (IF x.result # "ABORT" /\ q \in Fed(links, r) THEN {x.result} ELSE {})
             \cup Owed(links, u, q)
      /\ \A q \in Fed(links, r) : Owed(links, s, q) = {}
  <2>1. /\ c \in Calls /\ c.rule \in Linked(links)
        /\ Ready(links, s) /\ Ahead(links, c, s)
    BY <1>1
  <2>2. /\ \/ w = u
           \/ \E d \in Calls : d.rule \in Linked(links) /\ Ahead(links, d, u) /\ w = <<d>> \o u
        /\ \A q : Owed(links, w, q) =
             (IF x.result # "ABORT" /\ q \in Fed(links, c.rule) THEN {x.result} ELSE {})
               \cup Owed(links, u, q)
        /\ \A q \in Fed(links, c.rule) : Owed(links, u, q) = {} /\ Owed(links, s, q) = {}
    BY <2>1, SayFit
  <2> QED
    BY <2>2
<1>9. O \in Seq(Calls) /\ F \in Seq(Calls)
  <2>1. ASSUME NEW h \in Rules \cup {NoRule}, NEW y \in Inputs, NEW b \in BOOLEAN
        PROVE  First(h, y, b) \in Seq(Calls)
    <3>1. h \in Rules => Call(h, y, b) \in Calls
      BY DEF Call, Calls
    <3> QED
      BY <3>1 DEF First
  <2> QED
    BY <1>3, <2>1
<1> HIDE DEF O, F
<1>10. t = w
  BY <1>2, <1>9, ConcatAssociative
<1>11. ASSUME NEW q \in Rules
       PROVE  Owed(links, todo, q) =
                (IF Runs(c) /\ q \in Rest(links, r) THEN {c.input.result} ELSE {})
                  \cup Owed(links, s, q)
  <2>1. c \in Calls /\ s \in Seq(Calls)
    BY <1>1, <1>2
  <2>2. Owed(links, <<c>> \o s, q) =
          (IF Runs(c) /\ q \in Rest(links, r) THEN {c.input.result} ELSE {})
            \cup Owed(links, s, q)
    BY <2>1, OwedIs
  <2> QED
    BY <1>1, <2>2
<1>12. \A q \in Rest(links, r) : Owed(links, s, q) = {}
  BY <1>1, <1>2, AheadOwes
<1> HIDE DEF t, w, u
<1>13. ASSUME links' = links, todo' \in {t, u} PROVE TodoFit'
  <2>1. CASE todo' = u
    BY <1>7, <1>13, <2>1, TodoReady
  <2>2. CASE todo' # u
    <3>1. PICK d \in Calls : d.rule \in Linked(links) /\ Ahead(links, d, u) /\ todo' = <<d>> \o u
      BY <1>8, <1>10, <1>13, <2>2
    <3> QED
      BY <1>7, <1>13, <3>1, TodoCons
  <2> QED
    BY <2>1, <2>2
<1>14. ASSUME NEW q \in Rules
       PROVE  /\ Owed(links, todo, q) =
                   (IF q \in Rest(links, r) THEN IF Runs(c) THEN {c.input.result} ELSE {} ELSE {})
                     \cup Owed(links, s, q)
              /\ Owed(links, u, q) =
                   (IF q \in Rest(links, r) \ {r}
                    THEN IF Runs(c) THEN {c.input.result} ELSE {} ELSE {})
                     \cup Owed(links, s, q)
              /\ Owed(links, t, q) =
                   (IF q \in Fed(links, r)
                    THEN IF x.result # "ABORT" THEN {x.result} ELSE {} ELSE {})
                     \cup Owed(links, u, q)
  BY <1>7, <1>8, <1>10, <1>11
<1> QED
  BY <1>1, <1>2, <1>4, <1>5, <1>8, <1>6, <1>12, <1>13, <1>14 DEF t, u, F, c, s

(* A position in a byte of a history of so many bytes.                     *)
LEMMA InBytes ==
  ASSUME NEW p \in Nat, NEW n \in Nat, p \div ByteBits < n
  PROVE  p \in 0..(n * ByteBits - 1)
<1> DEFINE b == ByteBits
           q == p \div b
<1>1. b \in Nat \ {0} /\ q \in Nat /\ p < b * q + b
  BY RuleOpsAssumption
<1>2. PICK k \in Nat : n = q + 1 + k
  <2>1. n - q - 1 \in Nat /\ n = q + 1 + (n - q - 1)
    BY <1>1
  <2> QED
    BY <2>1
<1> HIDE DEF b, q
<1>3. n * b = b * q + b + b * k
  BY <1>1, <1>2
<1>4. b * k \in Nat /\ b * q \in Nat
  BY <1>1, <1>2
<1>5. p < n * b
  BY <1>1, <1>3, <1>4
<1>6. n * b \in Nat
  BY <1>1
<1> QED
  BY <1>5, <1>6 DEF b

(* The bits of a history are in its bytes.                                 *)
Held(d) == d.history \subseteq 0..(d.history_size * ByteBits - 1)

LEMMA RememberHeld ==
  ASSUME NEW d \in DataType, Held(d), NEW t, NEW x, t.op = "N_IN_M" => t.m \in Nat
  PROVE  Held(Remember(d, t, x))
<1>1. ASSUME NEW n \in Nat PROVE Held([d EXCEPT !.fail_count = n])
  BY DEF Held, DataType
<1>2. CASE t.op # "N_IN_M"
  <2>1. \/ Remember(d, t, x) = d
        \/ \E n \in Nat : Remember(d, t, x) = [d EXCEPT !.fail_count = n]
    <3>1. /\ 0 \in Nat /\ MaxCount \in Nat
          /\ d.fail_count < MaxCount => d.fail_count + 1 \in Nat
      BY RuleOpsAssumption DEF DataType
    <3>2. \E n \in Nat : CountOneMore(d) = [d EXCEPT !.fail_count = n]
      BY <3>1 DEF CountOneMore
    <3>3. \E n \in Nat : NEver(d, t.n) = [d EXCEPT !.fail_count = n]
      BY <3>1, <3>2 DEF NEver
    <3> QED
      BY <1>2, <3>1, <3>2, <3>3 DEF Remember
  <2> QED
    BY <1>1, <2>1
<1>3. CASE t.op = "N_IN_M" /\ ~Takes(t, x)
  BY <1>3 DEF Remember
<1>4. CASE t.op = "N_IN_M" /\ Takes(t, x)
  <2> DEFINE a == Allocated(d, t.m)
             H == IF x.result = "FAIL" THEN a.history \cup {a.position}
                  ELSE a.history \ {a.position}
             q == IF a.position + 1 >= t.m THEN 0 ELSE a.position + 1
  <2>1. Remember(d, t, x) = Record(d, t.m, x.result)
    BY <1>4 DEF Remember
  <2>2. a \in DataType /\ Held(a)
    <3>1. ByteBits \in Nat \ {0} /\ t.m \in Nat
      BY <1>4, RuleOpsAssumption
    <3>2. CASE d.history_size # 0
      BY <3>2 DEF Allocated
    <3>3. CASE d.history_size = 0
      <4>1. d.history = {}
        BY <3>1, <3>3 DEF Held
      <4>2. t.m \div ByteBits + 1 \in Nat
        BY <3>1
      <4>3. a = [d EXCEPT !.history_size = t.m \div ByteBits + 1]
        BY <3>3 DEF Allocated
      <4>4. a \in DataType /\ a.history = {}
        BY <4>1, <4>2, <4>3 DEF DataType
      <4> QED
        BY <4>4 DEF Held
    <3> QED
      BY <3>2, <3>3
  <2>3. CASE OffEnd(a)
    BY <2>1, <2>2, <2>3 DEF Record
  <2>4. CASE ~OffEnd(a)
    <3>1. Record(d, t.m, x.result) = [a EXCEPT !.history = H, !.position = q]
      BY <2>4 DEF Record
    <3>2. a.position \in 0..(a.history_size * ByteBits - 1)
      <4>1. /\ a.position \in Nat /\ a.history_size \in Nat /\ ByteBits \in Nat \ {0}
            /\ ~(a.position \div ByteBits >= a.history_size)
        BY <2>2, <2>4, RuleOpsAssumption DEF OffEnd, DataType
      <4>2. a.position \div ByteBits < a.history_size
        BY <4>1
      <4> QED
        BY <4>1, <4>2, InBytes
    <3>3. H \subseteq 0..(a.history_size * ByteBits - 1)
      BY <2>2, <3>2 DEF Held
    <3> HIDE DEF a, H, q
    <3>4. /\ [a EXCEPT !.history = H, !.position = q].history = H
          /\ [a EXCEPT !.history = H, !.position = q].history_size = a.history_size
      BY <2>2 DEF DataType
    <3> QED
      BY <2>1, <3>1, <3>3, <3>4 DEF Held
  <2> QED
    BY <2>3, <2>4
<1> QED
  BY <1>2, <1>3, <1>4

Heard == {x.result : x \in Inputs}

Values ==
  /\ \A r \in Rules : Held(data[r])
  /\ last_result \in [Objs -> Results]
  /\ \A r \in Rules : failed[r] \subseteq 1..Window[r]
  /\ unheard \in [Rules -> Seq(Heard)]
  /\ settled \subseteq Rules

(* The type invariant and its parts.                                       *)
LEMMA TypeIs ==
  /\ TypeOK => Values
  /\ Typed /\ Values /\ links \in LinksType => TypeOK
<1>1. TypeOK => Values
  BY DEF TypeOK, Values, Held, Heard
<1>2. ASSUME Typed, Values, links \in LinksType PROVE TypeOK
  <2>1. \A r \in Rules : data[r] \in DataType
    BY <1>2 DEF Typed
  <2> QED
    BY <1>2, <2>1 DEF TypeOK, Typed, Values, Held, Heard, DataType
<1> QED
  BY <1>1, <1>2

LEMMA NothingOwed == \A l, r : Owed(l, << >>, r) = {}
BY DEF Owed

(* Whatever links a call of the client changes, the rules that stay        *)
(* settled have the inputs they had.                                       *)
LEMMA CallFit ==
  ASSUME IInv, Typed', todo = << >>, todo' = << >>, LinksFit(links'),
         UNCHANGED <<data, last_result, failed, unheard>>,
         settled' \subseteq settled,
         \A r \in settled' :
           /\ type'[r] = type[r] /\ links'.inputs[r] = links.inputs[r]
           /\ \A i \in ToSet(links.inputs[r]) : links'.kind[i] = links.kind[i]
  PROVE  IInv'
<1>1. Values'
  <2>1. Values
    BY TypeIs DEF IInv
  <2> QED
    BY <2>1 DEF Values
<1>2. TypeOK'
  <2>1. (Typed /\ Values /\ links \in LinksType => TypeOK)'
    BY TypeIs, PTL
  <2> QED
    BY <1>1, <2>1 DEF LinksFit
<1>3. TodoFit'
  BY DEF TodoFit
<1>4. HeardFit'
  <2>1. \A r \in Rules : unheard[r] = << >>
    BY NothingOwed DEF IInv, HeardFit
  <2> QED
    BY <2>1, NothingOwed DEF HeardFit
<1>5. ASSUME NEW r \in settled' PROVE Settles(r)'
  <2>1. Settles(r) /\ r \in Rules
    BY <1>5, NothingOwed DEF IInv, LogicFit, TypeOK
  <2>2. \A v : v \in InputResults(links, r)' <=> v \in InputResults(links, r)
    BY DEF InputResults
  <2>3. ("PASS" \in InputResults(links, r)' <=> "PASS" \in InputResults(links, r))
        /\ ("FAIL" \in InputResults(links, r)' <=> "FAIL" \in InputResults(links, r))
    BY <2>2
  <2> QED
    BY <2>1, <2>3 DEF Settles
<1>6. LogicFit'
  BY <1>5 DEF LogicFit
<1> QED
  BY <1>2, <1>3, <1>4, <1>6 DEF IInv

(* No call of the client breaks the invariant.                             *)
LEMMA CallsFit ==
  ASSUME Separate, IInv, Typed',
         \/ \E t \in Tests : CreateTestCall(t)
         \/ \E p \in Feeds : CreateRuleCall(p[2], p[1])
         \/ \E p \in Feeds : AddInputCall(p[2], p[1])
         \/ \E r \in Rules : \E t \in Types[r] : SetType(r, t)
         \/ \E o \in Deletable : Delete(o)
  PROVE  IInv'
<1>0. LinksFit(links) /\ settled \subseteq Rules /\ KindsFit(links) /\ links \in LinksType
  BY DEF IInv, TypeOK, LinksFit
<1>1. ASSUME NEW l, LinksFit(l), Relink(l), Free,
             UNCHANGED <<type, data, last_result, todo, failed, unheard>>
      PROVE  IInv'
  <2>1. todo = << >> /\ todo' = << >> /\ LinksFit(links')
    BY <1>1 DEF Free, Relink
  <2>2. /\ settled' \subseteq settled
        /\ \A r \in settled' :
             /\ type'[r] = type[r] /\ links'.inputs[r] = links.inputs[r]
             /\ \A i \in ToSet(links.inputs[r]) : links'.kind[i] = links.kind[i]
    BY <1>1 DEF Relink
  <2> QED
    BY <1>1, <2>1, <2>2, CallFit
<1>2. ASSUME NEW t \in Tests, CreateTestCall(t) PROVE IInv'
  <2>1. t \in Objs /\ links.kind[t] # "RULE"
    BY <1>0 DEF KindsFit, Objs
  <2>2. LinksFit(CreateTest(links, t))
    BY <1>0, <1>2, <2>1, CreateTestFit DEF CreateTestCall, Fit
  <2> QED
    BY <1>1, <1>2, <2>2 DEF CreateTestCall
<1>3. ASSUME NEW p \in Feeds, CreateRuleCall(p[2], p[1]) PROVE IInv'
  <2> DEFINE i == p[1]
             r == p[2]
  <2>1. i \in Objs /\ r \in Rules /\ <<i, r>> \in Feeds
    BY RuleChainAssumption
  <2> HIDE DEF i, r
  <2>2. /\ Fit(r) /\ links.kind[i] # "DELETED" /\ Free /\ Relink(CreateRule(links, r, i))
        /\ UNCHANGED <<type, data, last_result, todo, failed, unheard>>
    BY <1>3 DEF CreateRuleCall, i, r
  <2>3. links.kind[r] # "TEST"
    BY <1>0, <2>1 DEF KindsFit
  <2>4. LinksFit(CreateRule(links, r, i))
    BY <1>0, <2>1, <2>2, <2>3, CreateAgainFit, CreateFirstFit DEF Fit
  <2> QED
    BY <1>1, <2>2, <2>4
<1>4. ASSUME NEW p \in Feeds, AddInputCall(p[2], p[1]) PROVE IInv'
  <2> DEFINE i == p[1]
             r == p[2]
  <2>1. i \in Objs /\ r \in Rules /\ <<i, r>> \in Feeds
    BY RuleChainAssumption
  <2> HIDE DEF i, r
  <2>2. /\ links.kind[i] # "DELETED" /\ Free /\ Relink(AddInput(links, r, i))
        /\ UNCHANGED <<type, data, last_result, todo, failed, unheard>>
    BY <1>4 DEF AddInputCall, i, r
  <2>3. LinksFit(AddInput(links, r, i))
    BY <1>0, <2>1, <2>2, AddInputFit
  <2> QED
    BY <1>1, <2>2, <2>3
<1>5. ASSUME NEW r \in Rules, NEW t \in Types[r], SetType(r, t) PROVE IInv'
  <2>1. /\ Free /\ links.kind[r] \in {"absent", "RULE"}
        /\ links' = GetOrCreate(links, r, "RULE")
        /\ type' = [type EXCEPT ![r] = t]
        /\ settled' = settled \ {r}
        /\ UNCHANGED <<data, last_result, todo, failed, unheard>>
    BY <1>5 DEF SetType
  <2>2. LinksFit(links')
    BY <1>0, <2>1, SetTypeFit
  <2>3. r \in Objs
    BY DEF Objs
  <2>4. /\ links'.inputs = links.inputs
        /\ links.kind[r] = "RULE" => links' = links
        /\ \A p \in Objs : p # r => links'.kind[p] = links.kind[p]
    <3>1. links \in LinksType
      BY <1>0
    <3> DEFINE m == GetOrCreate(links, r, "RULE")
    <3>2. m.inputs = links.inputs /\ \A p \in Objs : p # r => m.kind[p] = links.kind[p]
      BY <3>1, <2>3, GetOrCreateIs, SMTT(30)
    <3>3. links.kind[r] = "RULE" => m = links
      BY DEF GetOrCreate
    <3>4. links' = m
      BY <2>1
    <3> HIDE DEF m
    <3> QED
      BY <3>2, <3>3, <3>4
  <2>5. ASSUME NEW q \in settled', NEW i \in ToSet(links.inputs[q])
        PROVE  links'.kind[i] = links.kind[i]
    <3>1. q \in Rules
      BY <1>0, <2>1
    <3>2. i \in Objs /\ links.kind[i] \in {"NONE", "TEST", "RULE"}
      BY <1>0, <3>1, LinkedIs DEF LinksFit, InputsFit
    <3> QED
      BY <2>1, <2>4, <3>2
  <2>6. \A q \in settled' : type'[q] = type[q]
    BY <2>1
  <2>7. todo = << >> /\ todo' = << >>
    BY <2>1 DEF Free
  <2> QED
    BY <2>1, <2>2, <2>4, <2>5, <2>6, <2>7, CallFit
<1>6. ASSUME NEW o \in Deletable, Delete(o) PROVE IInv'
  <2>1. LinksFit(RemoveObj(links, o))
    BY <1>0, <1>6, RemoveFit DEF Delete
  <2> QED
    BY <1>1, <1>6, <2>1 DEF Delete
<1> QED
  BY <1>2, <1>3, <1>4, <1>5, <1>6

(* What becomes due, and what is taken.                                    *)
LEMMA DueIs ==
  ASSUME links \in LinksType, NEW w \in [Rules -> Seq(Heard)], NEW o \in Objs, NEW x \in Inputs
  PROVE  /\ Due(w, o, x) \in [Rules -> Seq(Heard)]
         /\ \A q \in Rules : Due(w, o, x)[q] =
              IF x.result # "ABORT" /\ q \in Fed(links, o) THEN Append(w[q], x.result) ELSE w[q]
<1>1. x.result \in Heard
  BY DEF Heard
<1>2. \A q \in Rules : Append(w[q], x.result) \in Seq(Heard)
  BY <1>1
<1>3. \A q \in Rules : Due(w, o, x)[q] =
        IF x.result # "ABORT" /\ q \in Fed(links, o) THEN Append(w[q], x.result) ELSE w[q]
  BY DEF Due, Fed
<1>4. Due(w, o, x) \in [Rules -> Seq(Heard)]
  BY <1>2 DEF Due
<1> QED
  BY <1>3, <1>4

LEMMA TakenIs ==
  ASSUME unheard \in [Rules -> Seq(Heard)], NEW r \in Rules
  PROVE  /\ Taken(r) \in [Rules -> Seq(Heard)]
         /\ \A q \in Rules : q # r => Taken(r)[q] = unheard[q]
         /\ \A v : unheard[r] = <<v>> => Taken(r)[r] = << >>
<1> DEFINE w == IF unheard[r] = << >> THEN << >> ELSE Tail(unheard[r])
<1>1. w \in Seq(Heard)
  OBVIOUS
<1>2. ASSUME NEW v, unheard[r] = <<v>> PROVE w = << >>
  BY <1>2
<1>3. Taken(r) = [unheard EXCEPT ![r] = w]
  BY DEF Taken
<1> HIDE DEF w
<1> QED
  BY <1>1, <1>2, <1>3

(* What a rule says, and when one that combines says that it fails.        *)
LEMMA VerdictIs ==
  ASSUME NEW d, NEW t, NEW x, NEW R
  PROVE  LET y == Verdict(d, t, x, R)
         IN  /\ y \in Inputs /\ y.result \in {"PASS", "FAIL", "ABORT"}
             /\ t.op = "AND" => y.result # "ABORT" /\ (y.result = "FAIL" <=> "PASS" \notin R)
             /\ t.op = "OR" => y.result # "ABORT" /\ (y.result = "FAIL" <=> "FAIL" \in R)
<1> DEFINE y == Verdict(d, t, x, R)
<1>1. \E a \in {"PASS", "FAIL", "ABORT"} : y = Result(a)
  BY DEF Verdict
<1>2. \A a : Result(a).result = a
  BY DEF Result
<1>3. y \in Inputs /\ y.result \in {"PASS", "FAIL", "ABORT"}
  BY <1>1, <1>2 DEF Inputs
<1>4. ASSUME t.op = "AND"
      PROVE  y.result # "ABORT" /\ (y.result = "FAIL" <=> "PASS" \notin R)
  <2>1. Finds(d, t, x, R) <=> "PASS" \notin R
    BY <1>4 DEF Finds
  <2>2. y = IF Finds(d, t, x, R) THEN Result("FAIL") ELSE Result("PASS")
    BY <1>4 DEF Verdict, Takes
  <2> QED
    BY <1>2, <2>1, <2>2
<1>5. ASSUME t.op = "OR"
      PROVE  y.result # "ABORT" /\ (y.result = "FAIL" <=> "FAIL" \in R)
  <2>1. Finds(d, t, x, R) <=> "FAIL" \in R
    BY <1>5 DEF Finds
  <2>2. y = IF Finds(d, t, x, R) THEN Result("FAIL") ELSE Result("PASS")
    BY <1>5 DEF Verdict, Takes
  <2> QED
    BY <1>2, <2>1, <2>2
<1> QED
  BY <1>3, <1>4, <1>5

(* A step in which o says x, those of T have taken what they were owed,    *)
(* and nothing else is due or taken.                                       *)
LEMMA SaidFit ==
  ASSUME TypeOK, HeardFit, LogicFit, links' = links, type' = type,
         NEW o \in Objs, NEW x \in Inputs, NEW T \in SUBSET Rules,
         \A q \in Rules :
           Owed(links, todo', q) =
             (IF x.result # "ABORT" /\ q \in Fed(links, o) THEN {x.result} ELSE {})
               \cup (IF q \in T THEN {} ELSE Owed(links, todo, q)),
         \A q \in Fed(links, o) : x.result # "ABORT" => Owed(links, todo, q) = {},
         \A q \in Rules :
           /\ q \notin T /\ (q \notin Fed(links, o) \/ x.result = "ABORT")
                => unheard'[q] = unheard[q]
           /\ q \in T /\ (q \notin Fed(links, o) \/ x.result = "ABORT") => unheard'[q] = << >>
           /\ q \in Fed(links, o) /\ x.result # "ABORT" =>
                q \notin T /\ unheard'[q] = Append(unheard[q], x.result),
         settled' \subseteq settled \cup T,
         \A q \in T : Settles(q)',
         \A p \in Objs : p # o \/ x.result = "ABORT" => last_result'[p] = last_result[p],
         \A q \in Rules : q \notin T => last_result'[q] = last_result[q]
  PROVE  HeardFit' /\ LogicFit'
<1>1. \A l, s, q : links' = l /\ todo' = s => (Owed(links, todo, q)' = Owed(l, s, q))
  BY DEF Owed, Rest, Closed
<1>2. \A q : Owed(links, todo, q)' = Owed(links, todo', q)
  BY <1>1
<1>3. ASSUME NEW q \in Rules
      PROVE  IF Owed(links, todo', q) = {} THEN unheard'[q] = << >>
             ELSE \A v \in Owed(links, todo', q) : unheard'[q] = <<v>>
  <2>0. IF Owed(links, todo, q) = {} THEN unheard[q] = << >>
        ELSE \A v \in Owed(links, todo, q) : unheard[q] = <<v>>
    BY DEF HeardFit
  <2>1. CASE q \in Fed(links, o) /\ x.result # "ABORT"
    <3>1. unheard[q] = << >> /\ unheard'[q] = Append(unheard[q], x.result)
      BY <2>0, <2>1
    <3>2. Owed(links, todo', q) = {x.result}
      BY <2>1
    <3>3. unheard'[q] = <<x.result>>
      BY <3>1
    <3> QED
      BY <3>2, <3>3
  <2>2. CASE ~(q \in Fed(links, o) /\ x.result # "ABORT") /\ q \in T
    <3>1. Owed(links, todo', q) = {} /\ unheard'[q] = << >>
      BY <2>2
    <3> QED
      BY <3>1
  <2>3. CASE ~(q \in Fed(links, o) /\ x.result # "ABORT") /\ q \notin T
    <3>1. Owed(links, todo', q) = Owed(links, todo, q) /\ unheard'[q] = unheard[q]
      BY <2>3
    <3> QED
      BY <2>0, <3>1
  <2> QED
    BY <2>1, <2>2, <2>3
<1>4. HeardFit'
  BY <1>2, <1>3 DEF HeardFit
<1>5. ASSUME NEW q \in settled' PROVE Settles(q)' \/ Owed(links, todo', q) # {}
  <2>1. q \in T \/ (q \notin T /\ q \in settled /\ q \in Rules)
    BY DEF TypeOK
  <2>2. CASE q \in T
    BY <2>2
  <2>3. CASE q \notin T /\ Owed(links, todo, q) # {}
    BY <2>1, <2>3
  <2>4. CASE q \notin T /\ q \in Fed(links, o) /\ x.result # "ABORT"
    BY <2>1, <2>4
  <2>5. CASE q \notin T /\ Owed(links, todo, q) = {} /\ (q \notin Fed(links, o) \/ x.result = "ABORT")
    <3>1. q \in Rules /\ Settles(q) /\ last_result'[q] = last_result[q]
      BY <2>1, <2>5 DEF LogicFit
    <3>2. \A i \in ToSet(links.inputs[q]) : i \in Objs => last_result'[i] = last_result[i]
      BY <2>5, <3>1 DEF Fed
    <3>3. ToSet(links.inputs[q]) \subseteq Objs
      BY <3>1, LinkedIs DEF TypeOK
    <3>4. \A v : v \in InputResults(links, q)' <=> v \in InputResults(links, q)
      BY <3>2, <3>3 DEF InputResults
    <3>5. ("PASS" \in InputResults(links, q)' <=> "PASS" \in InputResults(links, q))
          /\ ("FAIL" \in InputResults(links, q)' <=> "FAIL" \in InputResults(links, q))
      BY <3>4
    <3> QED
      BY <3>1, <3>5 DEF Settles
  <2> QED
    BY <2>1, <2>2, <2>3, <2>4, <2>5
<1>6. LogicFit'
  BY <1>2, <1>5 DEF LogicFit
<1> QED
  BY <1>4, <1>6

(* The first call of what a test said: all the rules it feeds take it.     *)
LEMMA HeadFit ==
  ASSUME LinksFit(links), links' = links, NEW o \in Tests, links.kind[o] = "TEST",
         NEW x \in Inputs, NEW b \in BOOLEAN, todo' = First(links.head[o], x, b)
  PROVE  /\ TodoFit'
         /\ \A q \in Rules : Owed(links, todo', q) =
              IF ~b /\ x.result # "ABORT" /\ q \in Fed(links, o) THEN {x.result} ELSE {}
<1> DEFINE h == links.head[o]
           c == Call(h, x, b)
           s == << >>
<1>1. o \in Objs /\ HeadOf(links, o) = h /\ links \in LinksType /\ Chain(links, o) = Fed(links, o)
  BY DEF Objs, HeadOf, LinksFit
<1>2. Ready(links, s) /\ Ready(links', s) /\ s \in Seq(Calls)
  BY DEF Ready
<1>3. CASE h = NoRule
  <2>1. todo' = << >>
    BY <1>3 DEF First
  <2>2. Fed(links, o) = {}
    <3>1. Closed(links, {}) /\ HeadOf(links, o) \in {} \cup {NoRule}
      BY <1>1, <1>3 DEF Closed
    <3>2. \A S \in SUBSET Rules :
            HeadOf(links, o) \in S \cup {NoRule} /\ Closed(links, S) => Chain(links, o) \subseteq S
      BY <1>1, ChainIs
    <3>3. Chain(links, o) \subseteq {}
      BY <3>1, <3>2
    <3> QED
      BY <1>1, <3>3
  <2>3. TodoFit'
    BY <2>1, <1>2, TodoReady
  <2> QED
    BY <2>1, <2>2, <2>3, NothingOwed
<1>4. CASE h # NoRule
  <2>1. HeadOf(links, o) # NoRule
    BY <1>1, <1>4
  <2>2. HeadOf(links, o) \in Fed(links, o) /\ Fed(links, o) = Rest(links, HeadOf(links, o))
    BY <1>1, <2>1, ChainRest
  <2>3. h \in Fed(links, o) /\ Fed(links, o) = Rest(links, h)
    BY <1>1, <2>2
  <2>4. h \in Linked(links) /\ h \in Rules
    BY <1>1, <2>3, LinkedIs
  <2> HIDE DEF h
  <2>5. c \in Calls /\ c.rule = h /\ c.input = x /\ c.rci = b
    BY <2>4 DEF Call, Calls
  <2>6. todo' = <<c>> \o s
    BY <1>4 DEF First, h
  <2> HIDE DEF c
  <2>7. Ahead(links', c, s) /\ c.rule \in Linked(links')
    BY <2>4, <2>5 DEF Ahead
  <2>8. TodoFit'
    BY <1>2, <2>5, <2>6, <2>7, TodoCons
  <2>9. ASSUME NEW q \in Rules
        PROVE  Owed(links, todo', q) =
                 IF ~b /\ x.result # "ABORT" /\ q \in Fed(links, o) THEN {x.result} ELSE {}
    <3>1. Owed(links, <<c>> \o s, q) =
            (IF Runs(c) /\ q \in Rest(links, c.rule) THEN {c.input.result} ELSE {})
              \cup Owed(links, s, q)
      <4>1. c \in Calls /\ s \in Seq(Calls)
        BY <1>2, <2>5
      <4> HIDE DEF s
      <4> QED
        BY <4>1, OwedIs
    <3>2. Owed(links, s, q) = {}
      BY NothingOwed
    <3>3. Runs(c) <=> ~b /\ x.result # "ABORT"
      BY <2>5 DEF Runs
    <3> HIDE DEF s
    <3> QED
      BY <2>3, <2>5, <2>6, <3>1, <3>2, <3>3
  <2> QED
    BY <2>8, <2>9
<1> QED
  BY <1>3, <1>4

(* What Typed and Values leave of the invariant to be shown by a step that *)
(* keeps the links.                                                        *)
LEMMA KeptFit ==
  ASSUME LinksFit(links), links' = links, Typed', Values', TodoFit', HeardFit', LogicFit'
  PROVE  IInv'
<1>1. (Typed /\ Values /\ links \in LinksType => TypeOK)'
  BY TypeIs, PTL
<1>2. LinksFit(links)' /\ (links \in LinksType)'
  BY DEF LinksFit
<1> QED
  BY <1>1, <1>2 DEF IInv

LEMMA TestFit ==
  ASSUME Separate, IInv, Typed', NEW o \in Tests, NEW x \in Answers[o], TestResult(o, x)
  PROVE  IInv'
<1>1. /\ todo = << >> /\ links.kind[o] = "TEST" /\ links' = links /\ type' = type
      /\ last_result' = Decided(o, x.result)
      /\ todo' = First(links.head[o], x, FALSE)
      /\ unheard' = Due(unheard, o, x)
      /\ UNCHANGED <<data, failed, settled>>
  BY DEF TestResult, Free
<1>2. x \in Inputs /\ o \in Objs /\ o \notin Rules
  BY RuleLinksAssumption DEF Inputs, Objs
<1>3. Values /\ TypeOK /\ LinksFit(links) /\ links \in LinksType /\ HeardFit /\ LogicFit
  BY TypeIs DEF IInv, LinksFit
<1>4. /\ TodoFit'
      /\ \A q \in Rules : Owed(links, todo', q) =
           IF ~FALSE /\ x.result # "ABORT" /\ q \in Fed(links, o) THEN {x.result} ELSE {}
  BY <1>1, <1>2, <1>3, HeadFit
<1>5. unheard \in [Rules -> Seq(Heard)]
  BY <1>3 DEF Values
<1>6. /\ Due(unheard, o, x) \in [Rules -> Seq(Heard)]
      /\ \A q \in Rules : Due(unheard, o, x)[q] =
           IF x.result # "ABORT" /\ q \in Fed(links, o) THEN Append(unheard[q], x.result)
           ELSE unheard[q]
  BY <1>2, <1>3, <1>5, DueIs
<1>7. /\ last_result' \in [Objs -> Results]
      /\ \A p \in Objs : p # o \/ x.result = "ABORT" => last_result'[p] = last_result[p]
  BY <1>1, <1>2, <1>3 DEF Values, Decided, Results
<1>8. Values'
  BY <1>1, <1>3, <1>6, <1>7 DEF Values
<1>9. HeardFit' /\ LogicFit'
  <2> DEFINE T == {}
  <2>1. T \in SUBSET Rules
    OBVIOUS
  <2>2. \A q \in Rules :
          Owed(links, todo', q) =
            (IF x.result # "ABORT" /\ q \in Fed(links, o) THEN {x.result} ELSE {})
              \cup (IF q \in T THEN {} ELSE Owed(links, todo, q))
    BY <1>1, <1>4, NothingOwed
  <2>3. \A q \in Fed(links, o) : x.result # "ABORT" => Owed(links, todo, q) = {}
    BY <1>1, NothingOwed
  <2>4. \A q \in Rules :
          /\ q \notin T /\ (q \notin Fed(links, o) \/ x.result = "ABORT")
               => unheard'[q] = unheard[q]
          /\ q \in T /\ (q \notin Fed(links, o) \/ x.result = "ABORT") => unheard'[q] = << >>
          /\ q \in Fed(links, o) /\ x.result # "ABORT" =>
               q \notin T /\ unheard'[q] = Append(unheard[q], x.result)
    BY <1>1, <1>6
  <2>5. settled' \subseteq settled \cup T /\ \A q \in T : Settles(q)'
    BY <1>1
  <2>6. \A q \in Rules : q \notin T => last_result'[q] = last_result[q]
    BY <1>2, <1>7 DEF Objs
  <2> HIDE DEF T
  <2> QED
    BY <1>1, <1>2, <1>3, <1>7, <2>1, <2>2, <2>3, <2>4, <2>5, <2>6, SaidFit
<1> QED
  BY <1>1, <1>3, <1>4, <1>8, <1>9, KeptFit

(* A step after which no more results are due, and none taken.             *)
LEMMA SilentFit ==
  ASSUME TypeOK, HeardFit, LogicFit, links' = links, type' = type,
         UNCHANGED <<last_result, unheard, settled>>,
         \A q \in Rules : Owed(links, todo', q) = Owed(links, todo, q)
  PROVE  HeardFit' /\ LogicFit'
<1>1. \A l, s, q : links' = l /\ todo' = s => (Owed(links, todo, q)' = Owed(l, s, q))
  BY DEF Owed, Rest, Closed
<1>2. \A q \in Rules : Owed(links, todo, q)' = Owed(links, todo, q)
  BY <1>1
<1>3. HeardFit'
  BY <1>2 DEF HeardFit
<1>4. ASSUME NEW q \in settled', Settles(q) PROVE Settles(q)'
  <2>1. \A v : v \in InputResults(links, q)' <=> v \in InputResults(links, q)
    BY DEF InputResults
  <2>2. ("PASS" \in InputResults(links, q)' <=> "PASS" \in InputResults(links, q))
        /\ ("FAIL" \in InputResults(links, q)' <=> "FAIL" \in InputResults(links, q))
    BY <2>1
  <2> QED
    BY <1>4, <2>2 DEF Settles
<1>5. LogicFit'
  BY <1>2, <1>4 DEF LogicFit, TypeOK
<1> QED
  BY <1>3, <1>5

LEMMA FeedBackFit ==
  ASSUME Separate, IInv, Typed', NEW o \in Tests, FeedBack(o)
  PROVE  IInv'
<1> DEFINE x == Result(last_result[o])
<1>1. /\ todo = << >> /\ links.kind[o] = "TEST" /\ links' = links /\ type' = type
      /\ todo' = First(links.head[o], x, TRUE)
      /\ UNCHANGED <<data, last_result, failed, unheard, settled>>
  BY DEF FeedBack, Free, auxiliary
<1>2. Values /\ TypeOK /\ LinksFit(links) /\ HeardFit /\ LogicFit
  BY TypeIs DEF IInv
<1>3. x \in Inputs
  BY <1>2 DEF Objs, Values, Results, Inputs
<1> HIDE DEF x
<1>4. /\ TodoFit'
      /\ \A q \in Rules : Owed(links, todo', q) =
           IF ~TRUE /\ x.result # "ABORT" /\ q \in Fed(links, o) THEN {x.result} ELSE {}
  BY <1>1, <1>2, <1>3, HeadFit
<1>5. \A q \in Rules : Owed(links, todo', q) = Owed(links, todo, q)
  BY <1>1, <1>4, NothingOwed
<1>6. HeardFit' /\ LogicFit'
  BY <1>1, <1>2, <1>5, SilentFit
<1>7. Values'
  BY <1>1, <1>2 DEF Values
<1> QED
  BY <1>1, <1>2, <1>4, <1>6, <1>7, KeptFit

LEMMA StepAbortFit ==
  ASSUME Separate, IInv, Typed', StepAbort
  PROVE  IInv'
<1> DEFINE c == Head(todo)
           r == c.rule
           s == Tail(todo)
           u == Onward(c) \o s
           x == Result("ABORT")
           t == First(links.head[r], x, FALSE) \o Onward(c) \o s
           taken == IF Runs(c) THEN {c.input.result} ELSE {}
<1>1. /\ todo # << >> /\ c.input.result = "ABORT" /\ todo' = u
      /\ links' = Validate(links, r) /\ type' = type
      /\ UNCHANGED <<data, last_result, failed, unheard, settled>>
  BY DEF StepAbort, auxiliary
<1>2. Values /\ TypeOK /\ LinksFit(links) /\ links \in LinksType /\ TodoFit /\ HeardFit /\ LogicFit
  BY TypeIs DEF IInv, LinksFit
<1>3. links' = links
  <2>1. r \in Rules
    BY <1>1, <1>2, TodoIs, LinkedIs
  <2> QED
    BY <1>1, <1>2, <2>1, ValidateIs
<1>4. x \in Inputs
  BY DEF Inputs
<1>5. /\ \A q \in Rules : Owed(links, todo, q) =
           (IF q \in Rest(links, r) THEN taken ELSE {}) \cup Owed(links, s, q)
      /\ \A q \in Rules : Owed(links, u, q) =
           (IF q \in Rest(links, r) \ {r} THEN taken ELSE {}) \cup Owed(links, s, q)
      /\ links' = links /\ todo' \in {t, u} => TodoFit'
  <2> HIDE DEF x
  <2> QED
    BY <1>1, <1>2, <1>4, TurnFacts
<1>6. taken = {}
  BY <1>1 DEF Runs
<1> HIDE DEF taken, u, s, t
<1>7. \A q \in Rules : Owed(links, todo', q) = Owed(links, todo, q)
  BY <1>1, <1>3, <1>5, <1>6
<1>8. HeardFit' /\ LogicFit'
  BY <1>1, <1>3, <1>2, <1>7, SilentFit
<1>9. Values'
  BY <1>1, <1>2 DEF Values
<1>10. TodoFit'
  BY <1>1, <1>3, <1>5
<1> QED
  BY <1>1, <1>3, <1>2, <1>8, <1>9, <1>10, KeptFit

LEMMA StepRciFit ==
  ASSUME Separate, IInv, Typed', StepRci
  PROVE  IInv'
<1> DEFINE c == Head(todo)
           r == c.rule
           s == Tail(todo)
           u == Onward(c) \o s
           x == Result(last_result[r])
           t == First(links.head[r], x, FALSE) \o Onward(c) \o s
           said == IF x.result # "ABORT" THEN {x.result} ELSE {}
           taken == IF Runs(c) THEN {c.input.result} ELSE {}
<1>1. /\ todo # << >> /\ c.rci /\ todo' = t /\ links' = Validate(links, r) /\ type' = type
      /\ unheard' = Due(unheard, r, x)
      /\ UNCHANGED <<data, last_result, failed, settled>>
  BY DEF StepRci
<1>2. Values /\ TypeOK /\ LinksFit(links) /\ links \in LinksType /\ TodoFit /\ HeardFit /\ LogicFit
  BY TypeIs DEF IInv, LinksFit
<1>3. r \in Rules /\ r \in Objs
  BY <1>1, <1>2, TodoIs, LinkedIs DEF Objs
<1>4. x \in Inputs /\ x.result # "ABORT"
  BY <1>2, <1>3 DEF Values, Results, Inputs, Result
<1>5. links' = links
  BY <1>1, <1>2, <1>3, ValidateIs
<1> HIDE DEF x
<1>6. /\ Fed(links, r) \cap Rest(links, r) = {}
      /\ \A q \in Rules : Owed(links, todo, q) =
           (IF q \in Rest(links, r) THEN taken ELSE {}) \cup Owed(links, s, q)
      /\ \A q \in Rules : Owed(links, u, q) =
           (IF q \in Rest(links, r) \ {r} THEN taken ELSE {}) \cup Owed(links, s, q)
      /\ \A q \in Rules : Owed(links, t, q) =
           (IF q \in Fed(links, r) THEN said ELSE {}) \cup Owed(links, u, q)
      /\ \A q \in Rest(links, r) \cup Fed(links, r) : Owed(links, s, q) = {}
      /\ links' = links /\ todo' \in {t, u} => TodoFit'
  BY <1>1, <1>2, <1>4, TurnFacts
<1>7. taken = {} /\ said = {x.result}
  BY <1>1, <1>4 DEF Runs
<1>8. Fed(links, r) \subseteq Rules
  BY DEF Fed
<1> HIDE DEF taken, said, u, s, t
<1>9. TodoFit'
  BY <1>1, <1>5, <1>6
<1>10. unheard \in [Rules -> Seq(Heard)]
  BY <1>2 DEF Values
<1>11. /\ Due(unheard, r, x) \in [Rules -> Seq(Heard)]
       /\ \A q \in Rules : Due(unheard, r, x)[q] =
            IF x.result # "ABORT" /\ q \in Fed(links, r) THEN Append(unheard[q], x.result)
            ELSE unheard[q]
  BY <1>2, <1>3, <1>4, <1>10, DueIs
<1>12. Values'
  BY <1>1, <1>2, <1>11 DEF Values
<1>13. HeardFit' /\ LogicFit'
  <2> DEFINE T == {}
  <2>1. T \in SUBSET Rules
    OBVIOUS
  <2>2. \A q \in Rules :
          Owed(links, todo', q) =
            (IF x.result # "ABORT" /\ q \in Fed(links, r) THEN {x.result} ELSE {})
              \cup (IF q \in T THEN {} ELSE Owed(links, todo, q))
    BY <1>1, <1>4, <1>6, <1>7
  <2>3. \A q \in Fed(links, r) : x.result # "ABORT" => Owed(links, todo, q) = {}
    BY <1>6, <1>7, <1>8
  <2>4. \A q \in Rules :
          /\ q \notin T /\ (q \notin Fed(links, r) \/ x.result = "ABORT")
               => unheard'[q] = unheard[q]
          /\ q \in T /\ (q \notin Fed(links, r) \/ x.result = "ABORT") => unheard'[q] = << >>
          /\ q \in Fed(links, r) /\ x.result # "ABORT" =>
               q \notin T /\ unheard'[q] = Append(unheard[q], x.result)
    BY <1>1, <1>11
  <2>5. settled' \subseteq settled \cup T /\ \A q \in T : Settles(q)'
    BY <1>1
  <2>6. /\ \A q \in Rules : q \notin T => last_result'[q] = last_result[q]
        /\ \A p \in Objs : p # r \/ x.result = "ABORT" => last_result'[p] = last_result[p]
    BY <1>1
  <2> HIDE DEF T, r, c
  <2> QED
    BY <1>1, <1>5, <1>2, <1>3, <1>4, <2>1, <2>2, <2>3, <2>4, <2>5, <2>6, SaidFit
<1> QED
  BY <1>1, <1>5, <1>2, <1>9, <1>12, <1>13, KeptFit

LEMMA StepRunFit ==
  ASSUME Separate, IInv, Typed, Typed', StepRun
  PROVE  IInv'
<1> DEFINE c == Head(todo)
           r == c.rule
           s == Tail(todo)
           u == Onward(c) \o s
           x == Verdict(data[r], type[r], c.input, InputResults(links, r))
           t == First(links.head[r], x, FALSE) \o Onward(c) \o s
           said == IF x.result # "ABORT" THEN {x.result} ELSE {}
           taken == IF Runs(c) THEN {c.input.result} ELSE {}
           w == Taken(r)
<1>1. Values /\ TypeOK /\ LinksFit(links) /\ links \in LinksType /\ TodoFit /\ HeardFit /\ LogicFit
  BY TypeIs DEF IInv, LinksFit
<1>2. todo # << >> /\ ~c.rci /\ c.input.result # "ABORT" /\ links' = Validate(links, r)
  BY DEF StepRun
<1>3. r \in Rules /\ r \in Objs
  BY <1>2, <1>1, TodoIs, LinkedIs DEF Objs
<1>4. Validate(links, r) = links
  BY <1>1, <1>3, ValidateIs
<1>5. /\ todo' = t /\ links' = links /\ type' = type
      /\ data' = [data EXCEPT ![r] = Remember(data[r], type[r], c.input)]
      /\ last_result' = Decided(r, x.result)
      /\ failed' = Counted(r, c.input.result)
      /\ unheard' = Due(w, r, x)
      /\ settled' = settled \cup ({r} \cap Combining)
  BY <1>4 DEF StepRun
<1>6. /\ x \in Inputs /\ x.result \in {"PASS", "FAIL", "ABORT"}
      /\ type[r].op = "AND" =>
           x.result # "ABORT" /\ (x.result = "FAIL" <=> "PASS" \notin InputResults(links, r))
      /\ type[r].op = "OR" =>
           x.result # "ABORT" /\ (x.result = "FAIL" <=> "FAIL" \in InputResults(links, r))
  BY VerdictIs
<1> HIDE DEF x
<1>7. /\ r \in Rest(links, r)
      /\ Fed(links, r) \cap Rest(links, r) = {}
      /\ \A q \in Rules : Owed(links, todo, q) =
           (IF q \in Rest(links, r) THEN taken ELSE {}) \cup Owed(links, s, q)
      /\ \A q \in Rules : Owed(links, u, q) =
           (IF q \in Rest(links, r) \ {r} THEN taken ELSE {}) \cup Owed(links, s, q)
      /\ \A q \in Rules : Owed(links, t, q) =
           (IF q \in Fed(links, r) THEN said ELSE {}) \cup Owed(links, u, q)
      /\ \A q \in Rest(links, r) \cup Fed(links, r) : Owed(links, s, q) = {}
      /\ links' = links /\ todo' \in {t, u} => TodoFit'
  BY <1>2, <1>1, <1>6, TurnFacts
<1>8. taken = {c.input.result}
  BY <1>2 DEF Runs
<1>9. Fed(links, r) \subseteq Rules /\ r \notin Fed(links, r)
  BY <1>7 DEF Fed
<1> HIDE DEF taken, u, s, t
<1>10. TodoFit'
  BY <1>5, <1>7
<1>11. Owed(links, todo, r) = {c.input.result}
  BY <1>3, <1>7, <1>8
<1>12. unheard[r] = <<c.input.result>>
  BY <1>1, <1>3, <1>11 DEF HeardFit
<1>13. unheard \in [Rules -> Seq(Heard)]
  BY <1>1 DEF Values
<1>14. /\ w \in [Rules -> Seq(Heard)]
       /\ \A q \in Rules : q # r => w[q] = unheard[q]
       /\ w[r] = << >>
  BY <1>3, <1>12, <1>13, TakenIs
<1> HIDE DEF w, c
<1>15. /\ Due(w, r, x) \in [Rules -> Seq(Heard)]
       /\ \A q \in Rules : Due(w, r, x)[q] =
            IF x.result # "ABORT" /\ q \in Fed(links, r) THEN Append(w[q], x.result)
            ELSE w[q]
  BY <1>1, <1>3, <1>6, <1>14, DueIs
<1> DEFINE T == {r}
<1> HIDE DEF r
<1>16. /\ last_result' \in [Objs -> Results]
       /\ \A p \in Objs : p # r \/ x.result = "ABORT" => last_result'[p] = last_result[p]
       /\ x.result # "ABORT" => last_result'[r] = x.result
  BY <1>1, <1>3, <1>5, <1>6 DEF Values, Decided, Results
<1>17. Values'
  <2>1. ASSUME NEW q \in Rules PROVE Held(data'[q])
    <3>1. CASE q = r
      <4>1. data[r] \in DataType /\ Held(data[r]) /\ type[r] \in Types[r] \cup {OnFail}
        BY <1>1, <1>3 DEF Typed, Values
      <4>2. type[r].op = "N_IN_M" => type[r].m \in Nat
        BY <4>1, <1>3, CountsAssumption, RuleChainAssumption DEF OnFail, Type
      <4>3. Held(Remember(data[r], type[r], c.input))
        BY <4>1, <4>2, RememberHeld
      <4>4. data'[r] = Remember(data[r], type[r], c.input)
        BY <1>3, <1>5 DEF Typed
      <4> QED
        BY <3>1, <4>3, <4>4
    <3>2. CASE q # r
      <4>1. data'[q] = data[q]
        BY <1>5, <3>2 DEF Typed
      <4> QED
        BY <1>1, <4>1 DEF Values
    <3> QED
      BY <3>1, <3>2
  <2>2. ASSUME NEW q \in Rules PROVE failed'[q] \subseteq 1..Window[q]
    <3> DEFINE F == {k \in 1..Window[r] : IF k = 1 THEN c.input.result = "FAIL"
                                          ELSE k - 1 \in failed[r]}
    <3>1. F \subseteq 1..Window[r]
      OBVIOUS
    <3>2. failed' = [failed EXCEPT ![r] = F] \/ failed' = failed
      BY <1>5 DEF Counted
    <3> HIDE DEF F
    <3>3. failed[q] \subseteq 1..Window[q] /\ failed \in [Rules -> SUBSET Nat]
      BY <1>1 DEF Values, Typed
    <3>4. CASE q = r
      <4>1. failed'[r] \in {F, failed[r]}
        BY <1>3, <3>2, <3>3
      <4> QED
        BY <3>1, <3>3, <3>4, <4>1
    <3>5. CASE q # r
      BY <3>2, <3>3, <3>5
    <3> QED
      BY <3>4, <3>5
  <2>3. settled' \subseteq Rules
    BY <1>1, <1>3, <1>5 DEF Values
  <2>4. unheard' \in [Rules -> Seq(Heard)]
    BY <1>5, <1>15
  <2> QED
    BY <1>16, <2>1, <2>2, <2>3, <2>4 DEF Values
<1>18. ASSUME NEW q \in Rules, q = r PROVE Settles(q)'
  <2>1. q \notin ToSet(links.inputs[q]) /\ ToSet(links.inputs[q]) \subseteq Objs
    BY <1>1, <1>3, LinkedIs, RuleChainAssumption DEF LinksFit, InputsFit
  <2>2. \A i \in ToSet(links.inputs[q]) : last_result'[i] = last_result[i]
    BY <2>1, <1>18, <1>16
  <2>3. \A v : v \in InputResults(links, q)' <=> v \in InputResults(links, q)
    BY <1>5, <2>2 DEF InputResults
  <2>4. ("PASS" \in InputResults(links, q)' <=> "PASS" \in InputResults(links, q))
        /\ ("FAIL" \in InputResults(links, q)' <=> "FAIL" \in InputResults(links, q))
    BY <2>3
  <2> QED
    BY <1>5, <1>6, <1>16, <1>18, <2>4 DEF Settles
<1>19. HeardFit' /\ LogicFit'
  <2>1. T \in SUBSET Rules
    BY <1>3
  <2>2. \A q \in Rules :
          Owed(links, todo', q) =
            (IF x.result # "ABORT" /\ q \in Fed(links, r) THEN {x.result} ELSE {})
              \cup (IF q \in T THEN {} ELSE Owed(links, todo, q))
    <3>1. ASSUME NEW q \in Rules
          PROVE  Owed(links, u, q) = IF q \in T THEN {} ELSE Owed(links, todo, q)
      <4>1. CASE q = r
        BY <1>7, <4>1
      <4>2. CASE q # r
        BY <1>7, <4>2
      <4> QED
        BY <4>1, <4>2
    <3>2. \A q \in Rules : Owed(links, todo', q) =
            (IF q \in Fed(links, r) THEN said ELSE {}) \cup Owed(links, u, q)
      BY <1>5, <1>7
    <3>3. said = IF x.result # "ABORT" THEN {x.result} ELSE {}
      OBVIOUS
    <3> HIDE DEF T, said
    <3> QED
      BY <3>1, <3>2, <3>3
  <2>3. \A q \in Fed(links, r) : x.result # "ABORT" => Owed(links, todo, q) = {}
    BY <1>7, <1>9
  <2>4. \A q \in Rules :
          /\ q \notin T /\ (q \notin Fed(links, r) \/ x.result = "ABORT")
               => unheard'[q] = unheard[q]
          /\ q \in T /\ (q \notin Fed(links, r) \/ x.result = "ABORT") => unheard'[q] = << >>
          /\ q \in Fed(links, r) /\ x.result # "ABORT" =>
               q \notin T /\ unheard'[q] = Append(unheard[q], x.result)
    BY <1>5, <1>9, <1>14, <1>15
  <2>5. settled' \subseteq settled \cup T
    BY <1>5
  <2>6. \A q \in T : Settles(q)'
    <3>1. \A q \in T : q = r /\ q \in Rules
      BY <1>3
    <3>2. \A q \in Rules : q = r => Settles(q)'
      BY <1>18
    <3> HIDE DEF T
    <3> QED
      BY <3>1, <3>2
  <2>7. \A q \in Rules : q \notin T => last_result'[q] = last_result[q]
    BY <1>16 DEF Objs
  <2>8. \A p \in Objs : p # r \/ x.result = "ABORT" => last_result'[p] = last_result[p]
    BY <1>16
  <2>9. x \in Inputs /\ r \in Objs /\ links' = links /\ type' = type
    BY <1>3, <1>5, <1>6
  <2> HIDE DEF T
  <2> QED
    BY <1>1, <2>1, <2>2, <2>3, <2>4, <2>5, <2>6, <2>7, <2>8, <2>9, SaidFit
<1> QED
  BY <1>5, <1>1, <1>10, <1>17, <1>19, KeptFit

(* There are no links at first.                                            *)
LEMMA InitFit == Init => IInv
<1> SUFFICES ASSUME Init PROVE IInv
  OBVIOUS
<1>1. links = NoLinks /\ links \in LinksType
  BY DEF Init, NoLinks, LinksType, Kinds
<1>2. /\ \A o \in Objs : links.kind[o] = "absent" /\ links.head[o] = NoRule
                         /\ links.ref_rule[o] = NoRule
      /\ \A r \in Rules : links.inputs[r] = << >>
  BY <1>1 DEF NoLinks
<1>3. KindsFit(links)
  BY <1>2 DEF KindsFit, Objs
<1>4. InputsFit(links)
  BY <1>2 DEF InputsFit, IsInjective, ToSet
<1>5. Linked(links) = {} /\ \A o \in Objs : Fed(links, o) = {}
  BY <1>2 DEF Linked, Fed, ToSet
<1>6. ASSUME NEW o \in Objs PROVE Chain(links, o) = {}
  <2>1. Closed(links, {}) /\ HeadOf(links, o) \in {} \cup {NoRule}
    BY <1>2 DEF Closed, HeadOf
  <2>2. \A S \in SUBSET Rules :
          HeadOf(links, o) \in S \cup {NoRule} /\ Closed(links, S) => Chain(links, o) \subseteq S
    BY <1>1, ChainIs
  <2>3. Chain(links, o) \subseteq {}
    BY <2>1, <2>2
  <2> QED
    BY <2>3
<1>7. LinksFit(links)
  BY <1>1, <1>3, <1>4, <1>5, <1>6 DEF LinksFit, NoRing
<1>8. Typed
  BY InitCounts DEF CountsFit
<1>9. Values
  <2>1. \A r \in Rules : Held(data[r])
    BY DEF Init, Fresh, Held
  <2> QED
    BY <2>1 DEF Init, Values, Results
<1>10. TypeOK
  BY <1>1, <1>8, <1>9, TypeIs
<1>11. TodoFit /\ HeardFit /\ LogicFit
  BY NothingOwed DEF Init, TodoFit, HeardFit, LogicFit
<1> QED
  BY <1>7, <1>10, <1>11 DEF IInv

(* And every step keeps the invariant.                                     *)
LEMMA NextFit == Separate /\ CountsFit /\ IInv /\ [Next]_vars => IInv'
<1> SUFFICES ASSUME Separate, CountsFit, IInv, [Next]_vars PROVE IInv'
  OBVIOUS
<1>1. Typed
  BY DEF CountsFit
<1>2. Typed'
  <2>1. CountsFit'
    BY NextCounts
  <2> QED
    BY <2>1 DEF CountsFit
<1>3. CASE \/ \E t \in Tests : CreateTestCall(t)
           \/ \E p \in Feeds : CreateRuleCall(p[2], p[1])
           \/ \E p \in Feeds : AddInputCall(p[2], p[1])
           \/ \E r \in Rules : \E t \in Types[r] : SetType(r, t)
           \/ \E o \in Deletable : Delete(o)
  BY <1>2, <1>3, CallsFit
<1>4. ASSUME NEW t \in Tests, NEW x \in Answers[t], TestResult(t, x) PROVE IInv'
  BY <1>2, <1>4, TestFit
<1>5. ASSUME NEW t \in Tests, FeedBack(t) PROVE IInv'
  BY <1>2, <1>5, FeedBackFit
<1>6. CASE StepAbort
  BY <1>2, <1>6, StepAbortFit
<1>7. CASE StepRci
  BY <1>2, <1>7, StepRciFit
<1>8. CASE StepRun
  BY <1>1, <1>2, <1>8, StepRunFit
<1>9. CASE UNCHANGED vars
  <2>1. /\ UNCHANGED <<links, type, data, last_result, todo, failed, unheard, settled>>
    BY <1>9 DEF vars
  <2>2. Values /\ TypeOK /\ LinksFit(links) /\ TodoFit /\ HeardFit /\ LogicFit
    BY TypeIs DEF IInv
  <2>3. TodoFit' /\ Values'
    BY <2>1, <2>2 DEF TodoFit, Values
  <2>4. HeardFit' /\ LogicFit'
    BY <2>1, <2>2, SilentFit
  <2> QED
    BY <1>2, <2>1, <2>2, <2>3, <2>4, KeptFit
<1> QED
  BY <1>3, <1>4, <1>5, <1>6, <1>7, <1>8, <1>9 DEF Next

-----------------------------------------------------------------------------
(* Where no input is shared but as the only one of its rules, no rule can  *)
(* come to take what it said itself, and what may be deleted feeds no rule *)
(* (Separate), for any number of tests, rules and links between them:      *)

(* The invariant holds: what each rule lists as its inputs and the chains  *)
(* agree, the calls still to come are to different rules, and what each of *)
(* them has to hear is what they bring.                                    *)
THEOREM Invariance == Separate => (Spec => []IInv)
<1>1. Separate /\ Init => IInv
  BY InitFit
<1>2. Separate /\ CountsFit /\ IInv /\ [Next]_vars => IInv'
  BY NextFit
<1>3. Separate => []Separate
  OBVIOUS
<1> QED
  BY <1>1, <1>2, <1>3, CountsInvariant, PTL DEF Spec

(* A rule is on the chain of an input exactly when it lists it, and every  *)
(* chain has an end: seq_sequencer's walk takes in the rules it should,    *)
(* and comes back (swdiag_rule_create, swdiag_rule_add_input,              *)
(* swdiag_obj_delete).                                                     *)
THEOREM ChainsKept == Separate => (Spec => []ChainsAreInputs)
<1>1. IInv => ChainsAreInputs
  <2> SUFFICES ASSUME IInv, NEW o \in Objs
               PROVE  /\ Chain(links, o) = {r \in Rules : o \in ToSet(links.inputs[r])}
                      /\ Ends(links, Chain(links, o))
    BY DEF ChainsAreInputs
  <2>1. LinksFit(links) /\ links \in LinksType
    BY DEF IInv, LinksFit
  <2>2. Chain(links, o) = Fed(links, o)
    BY <2>1 DEF LinksFit
  <2>3. ASSUME Chain(links, o) # {}
        PROVE  \E r \in Chain(links, o) : links.next_in_input[r] = NoRule
    <3>1. Fed(links, o) \subseteq Linked(links)
      BY <2>1, LinkedIs
    <3>2. PICK r \in Chain(links, o) : links.next_in_input[r] \notin Chain(links, o)
      BY <2>1, <2>2, <2>3, <3>1 DEF LinksFit, NoRing
    <3>3. Closed(links, Chain(links, o))
      BY <2>1, ChainIs
    <3> QED
      BY <3>2, <3>3 DEF Closed
  <2> QED
    BY <2>2, <2>3 DEF Fed, Ends
<1>2. Separate => []Separate
  OBVIOUS
<1> QED
  BY <1>1, <1>2, Invariance, PTL

(* So the check of seq_sequencer before a rule is run, that all its inputs *)
(* point back to it, finds nothing to drop (swdiag_obj_validate).          *)
THEOREM NothingDropped == Separate => (Spec => []InputsPointBack)
<1>1. IInv => InputsPointBack
  <2> SUFFICES ASSUME IInv, NEW r \in Rules, NEW i \in ToSet(links.inputs[r])
               PROVE  r \in Chain(links, i)
    BY DEF InputsPointBack
  <2>1. LinksFit(links) /\ links \in LinksType
    BY DEF IInv, LinksFit
  <2>2. i \in Objs
    BY <2>1, LinkedIs
  <2> QED
    BY <2>1, <2>2 DEF LinksFit, Fed
<1>2. Separate => []Separate
  OBVIOUS
<1> QED
  BY <1>1, <1>2, Invariance, PTL

(* Each rule takes each result of its inputs once, and no other: a result  *)
(* is never lost on the way along a chain, nor taken twice                 *)
(* (seq_sequencer).                                                        *)
THEOREM EachHeardOnce == Separate => (Spec => []HeardOnce)
<1>1. IInv => HeardOnce
  <2> SUFFICES ASSUME IInv PROVE HeardOnce
    OBVIOUS
  <2>1. todo = << >> => \A r \in Rules : unheard[r] = << >>
    BY NothingOwed DEF IInv, HeardFit
  <2>2. ASSUME todo # << >>, ~Head(todo).rci, Head(todo).input.result # "ABORT"
        PROVE  unheard[Head(todo).rule] = <<Head(todo).input.result>>
    <3> DEFINE c == Head(todo)
               s == Tail(todo)
    <3>1. c \in Calls /\ c.rule \in Linked(links) /\ todo = <<c>> \o s /\ Ready(links, s)
      BY <2>2, TodoIs DEF IInv
    <3>2. Runs(c) /\ s \in Seq(Calls) /\ links \in LinksType /\ c.rule \in Rules
      BY <2>2, <3>1, LinkedIs DEF Runs, Ready, IInv, LinksFit
    <3> HIDE DEF c, s
    <3>3. c.rule \in Rest(links, c.rule)
      BY <3>2, RestIs
    <3>4. Owed(links, <<c>> \o s, c.rule) =
            (IF Runs(c) /\ c.rule \in Rest(links, c.rule) THEN {c.input.result} ELSE {})
              \cup Owed(links, s, c.rule)
      BY <3>1, <3>2, OwedIs
    <3>5. c.input.result \in Owed(links, todo, c.rule)
      BY <3>1, <3>2, <3>3, <3>4
    <3>6. unheard[c.rule] = <<c.input.result>>
      BY <3>2, <3>5 DEF IInv, HeardFit
    <3> QED
      BY <3>6 DEF c
  <2> DEFINE v == Head(todo).input.result
  <2>3. \A y : y = <<v>> => y # << >> /\ Head(y) = v
    OBVIOUS
  <2> HIDE DEF v
  <2>4. ASSUME todo # << >>, ~Head(todo).rci, v # "ABORT"
        PROVE  unheard[Head(todo).rule] # << >> /\ Head(unheard[Head(todo).rule]) = v
    BY <2>2, <2>3, <2>4 DEF v
  <2> QED
    BY <2>1, <2>4 DEF HeardOnce, v
<1>2. Separate => []Separate
  OBVIOUS
<1> QED
  BY <1>1, <1>2, Invariance, PTL

(* When all that a result set off is done, each rule that combines its     *)
(* inputs agrees with what they are by then, in whatever order they came   *)
(* (seq_rule_run).                                                         *)
THEOREM LogicSettlesAlways == Separate => (Spec => []LogicSettles)
<1>1. IInv => LogicSettles
  <2> SUFFICES ASSUME IInv, todo = << >>, NEW r \in settled PROVE Settles(r)
    BY DEF LogicSettles, Settles
  <2> QED
    BY NothingOwed DEF IInv, LogicFit
<1>2. Separate => []Separate
  OBVIOUS
<1> QED
  BY <1>1, <1>2, Invariance, PTL
=============================================================================
