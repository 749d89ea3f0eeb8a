-------------------------- MODULE Scheduler_proofs --------------------------
(***************************************************************************)
(* Proofs about the scheduler's queues, its timer and the tests it must    *)
(* not forget, for any tests, periods and delays.  Each theorem names the  *)
(* calls that it excludes: creating a test again makes the queues and what *)
(* the tests record of them differ, and what the CLI asks for in between   *)
(* leaves an enabled test off its queue.                                   *)
(***************************************************************************)
EXTENDS SchedulerProps, QueueFacts

-----------------------------------------------------------------------------
(* One queue.                                                              *)

(* Taking a test out of a queue leaves the rest, in order.                 *)
LEMMA TakenOut ==
  ASSUME NEW s \in Seq(Tests), NEW d \in [Tests -> Nat], NEW t,
         IsInjective(s), Sorted(s, d)
  PROVE  /\ RemoveFirst(s, t) \in Seq(Tests)
         /\ IsInjective(RemoveFirst(s, t))
         /\ Sorted(RemoveFirst(s, t), d)
         /\ \A u \in Tests : Contains(RemoveFirst(s, t), u) <=> Contains(s, u) /\ u # t
<1>1. CASE ~Contains(s, t) /\ RemoveFirst(s, t) = s
  BY <1>1 DEF Contains
<1>2. ASSUME NEW k \in 1..Len(s), NEW r \in Seq(Tests), s[k] = t, Len(r) = Len(s) - 1,
             \A i \in 1..(Len(s) - 1) : r[i] = IF i < k THEN s[i] ELSE s[i + 1]
      PROVE  /\ IsInjective(r) /\ Sorted(r, d)
             /\ \A u \in Tests : Contains(r, u) <=> Contains(s, u) /\ u # t
  <2> DEFINE f(i) == IF i < k THEN i ELSE i + 1
  <2>1. \A i \in 1..Len(r) : f(i) \in 1..Len(s) /\ r[i] = s[f(i)] /\ f(i) # k
    BY <1>2, SMTT(30)
  <2>2. \A i, j \in 1..Len(r) : (i < j => f(i) < f(j)) /\ (f(i) = f(j) => i = j)
    OBVIOUS
  <2>3. \A j \in 1..Len(s) : j # k => \E i \in 1..Len(r) : f(i) = j
    <3> TAKE j \in 1..Len(s)
    <3> HAVE j # k
    <3>1. CASE j < k
      <4>1. j \in 1..Len(r) /\ f(j) = j
        BY <3>1, <1>2
      <4> QED
        BY <4>1
    <3>2. CASE j > k
      <4>1. j - 1 \in 1..Len(r) /\ f(j - 1) = j
        BY <3>2, <1>2
      <4> QED
        BY <4>1
    <3> QED
      BY <3>1, <3>2
  <2> HIDE DEF f
  <2>4. \A i, j \in 1..Len(s) : s[i] = s[j] => i = j
    BY InjectiveIs
  <2>5. IsInjective(r)
    <3>1. \A i, j \in 1..Len(r) : r[i] = r[j] => i = j
      BY <2>1, <2>2, <2>4
    <3> QED
      BY <3>1, InjectiveIs
  <2>6. Sorted(r, d)
    BY <2>1, <2>2 DEF Sorted
  <2>7. ASSUME NEW u \in Tests
        PROVE  Contains(r, u) <=> Contains(s, u) /\ u # t
    <3>1. CASE \E i \in 1..Len(r) : r[i] = u
      <4>1. PICK i \in 1..Len(r) : r[i] = u
        BY <3>1
      <4>2. f(i) \in 1..Len(s) /\ s[f(i)] = u /\ s[f(i)] # s[k]
        BY <4>1, <2>1, <2>4
      <4> QED
        BY <3>1, <4>2, <1>2 DEF Contains
    <3>2. ASSUME NEW j \in 1..Len(s), s[j] = u, u # t
          PROVE  \E i \in 1..Len(r) : r[i] = u
      <4>1. PICK i \in 1..Len(r) : f(i) = j
        BY <3>2, <1>2, <2>3
      <4> QED
        BY <3>2, <4>1, <2>1
    <3> QED
      BY <3>1, <3>2 DEF Contains
  <2> QED
    BY <2>5, <2>6, <2>7
<1> QED
  <2>1. CASE Contains(s, t)
    <3> DEFINE r == RemoveFirst(s, t)
    <3>1. PICK k \in 1..Len(s) : /\ s[k] = t /\ r \in Seq(Tests) /\ Len(r) = Len(s) - 1
                                 /\ \A i \in 1..(Len(s) - 1) : r[i] = IF i < k THEN s[i] ELSE s[i + 1]
      BY <2>1, RemoveFirstIs
    <3> HIDE DEF r
    <3>2. /\ IsInjective(r) /\ Sorted(r, d)
          /\ \A u \in Tests : Contains(r, u) <=> Contains(s, u) /\ u # t
      BY <3>1, <1>2
    <3> QED
      BY <3>1, <3>2 DEF r
  <2>2. CASE ~Contains(s, t)
    BY <2>2, <1>1, RemoveFirstIs DEF Contains
  <2> QED
    BY <2>1, <2>2

(* Closing a gap in the positions keeps their order.                       *)
LEMMA GapKeepsOrder ==
  ASSUME NEW k \in Int, NEW i \in Int, NEW j \in Int, i # k, j # k
  PROVE  LET g(n) == IF n < k THEN n ELSE n - 1
         IN  (i < j => g(i) < g(j)) /\ (g(i) = g(j) => i = j)
  OBVIOUS

(* r is s with t in place k, behind what is due by then and before what is *)
(* due later.                                                              *)
Placed(r, s, d, t, k) ==
  /\ k \in 1..(Len(s) + 1) /\ r \in Seq(Tests) /\ Len(r) = Len(s) + 1
  /\ \A i \in 1..Len(r) : r[i] = IF i < k THEN s[i] ELSE IF i = k THEN t ELSE s[i - 1]
  /\ \A i \in 1..Len(s) : IF i < k THEN d[s[i]] <= d[t] ELSE d[t] <= d[s[i]]

(* Then r holds t besides what s holds, each once and in order.            *)
LEMMA PlacedIn ==
  ASSUME NEW s \in Seq(Tests), NEW d \in [Tests -> Nat], NEW t \in Tests,
         IsInjective(s), Sorted(s, d), ~Contains(s, t),
         NEW k, NEW r, Placed(r, s, d, t, k)
  PROVE  /\ IsInjective(r) /\ Sorted(r, d)
         /\ \A u \in Tests : Contains(r, u) <=> Contains(s, u) \/ u = t
<1> DEFINE g(i) == IF i < k THEN i ELSE i - 1
<1>0. /\ k \in 1..(Len(s) + 1) /\ r \in Seq(Tests) /\ Len(r) = Len(s) + 1
      /\ \A i \in 1..Len(r) : r[i] = IF i < k THEN s[i] ELSE IF i = k THEN t ELSE s[i - 1]
      /\ \A i \in 1..Len(s) : IF i < k THEN d[s[i]] <= d[t] ELSE d[t] <= d[s[i]]
  BY DEF Placed
<1>1. ASSUME NEW i \in 1..Len(r), i # k
      PROVE  g(i) \in 1..Len(s) /\ r[i] = s[g(i)]
  <2>1. CASE i < k
    BY <1>0, <2>1
  <2>2. CASE i > k
    BY <1>0, <2>2, SMTT(30)
  <2> QED
    BY <1>0, <1>1, <2>1, <2>2
<1>2. r[k] = t /\ k \in 1..Len(r)
  BY <1>0
<1>3. ASSUME NEW i \in 1..Len(r), NEW j \in 1..Len(r), i # k, j # k
      PROVE  (i < j => g(i) < g(j)) /\ (g(i) = g(j) => i = j)
  <2>1. i \in Int /\ j \in Int /\ k \in Int
    BY <1>0
  <2> QED
    BY <1>0, <1>3, <2>1, GapKeepsOrder
<1>4. \A j \in 1..Len(s) : \E i \in 1..Len(r) : i # k /\ g(i) = j
  <2> TAKE j \in 1..Len(s)
  <2>1. CASE j < k
    <3>1. j \in 1..Len(r) /\ j # k /\ g(j) = j
      BY <1>0, <2>1
    <3> QED
      BY <3>1
  <2>2. CASE j >= k
    <3>1. j + 1 \in 1..Len(r) /\ j + 1 # k /\ g(j + 1) = j
      BY <1>0, <2>2
    <3> QED
      BY <3>1
  <2> QED
    BY <1>0, <2>1, <2>2
<1>5. ASSUME NEW i \in 1..Len(r)
      PROVE  (i < k => d[r[i]] <= d[t]) /\ (i > k => d[t] <= d[r[i]])
  <2>1. CASE i < k
    BY <1>0, <2>1, SMTT(30)
  <2>2. CASE i > k
    <3>1. i - 1 \in 1..Len(s) /\ ~(i - 1 < k) /\ r[i] = s[i - 1]
      BY <1>0, <2>2
    <3>2. d[t] <= d[r[i]]
      BY <1>0, <3>1
    <3> QED
      BY <1>0, <2>2, <3>2
  <2> QED
    BY <1>0, <2>1, <2>2
<1> HIDE DEF g
<1>6. \A i, j \in 1..Len(s) : s[i] = s[j] => i = j
  BY <1>0, InjectiveIs
<1>7. \A i \in 1..Len(s) : s[i] # t
  BY DEF Contains
<1>8. IsInjective(r)
  <2>1. \A i, j \in 1..Len(r) : r[i] = r[j] => i = j
    <3> SUFFICES ASSUME NEW i \in 1..Len(r), NEW j \in 1..Len(r), r[i] = r[j]
                 PROVE  i = j
      BY <1>0
    <3>1. CASE i = k \/ j = k
      BY <3>1, <1>1, <1>2, <1>7
    <3>2. CASE i # k /\ j # k
      <4>1. s[g(i)] = s[g(j)] /\ g(i) \in 1..Len(s) /\ g(j) \in 1..Len(s)
        BY <3>2, <1>1
      <4>2. g(i) = g(j)
        BY <4>1, <1>6
      <4> QED
        BY <3>2, <4>2, <1>3
    <3> QED
      BY <1>0, <3>1, <3>2
  <2> QED
    BY <1>0, <2>1, InjectiveIs
<1>9. Sorted(r, d)
  <2> SUFFICES ASSUME NEW i \in 1..Len(r), NEW j \in 1..Len(r), i < j
               PROVE  d[r[i]] <= d[r[j]]
    BY DEF Sorted
  <2>1. CASE i = k \/ j = k
    BY <2>1, <1>2, <1>5
  <2>2. CASE i # k /\ j # k
    BY <2>2, <1>1, <1>3 DEF Sorted
  <2> QED
    BY <1>0, <2>1, <2>2
<1>10. ASSUME NEW u \in Tests
       PROVE  Contains(r, u) <=> Contains(s, u) \/ u = t
  <2>1. ASSUME NEW i \in 1..Len(r), r[i] = u
        PROVE  u = t \/ \E j \in 1..Len(s) : s[j] = u
    BY <2>1, <1>1, <1>2
  <2>2. ASSUME NEW j \in 1..Len(s), s[j] = u
        PROVE  \E i \in 1..Len(r) : r[i] = u
    <3>1. PICK i \in 1..Len(r) : i # k /\ g(i) = j
      BY <1>4
    <3> QED
      BY <3>1, <2>2, <1>1
  <2> QED
    BY <2>1, <2>2, <1>2 DEF Contains
<1> QED
  BY <1>8, <1>9, <1>10

(* Insert puts t in, once and in order.                                    *)
LEMMA PutIn ==
  ASSUME NEW s \in Seq(Tests), NEW d \in [Tests -> Nat], NEW t \in Tests, NEW q \in Queues,
         IsInjective(s), Sorted(s, d), ~Contains(s, t),
         q # "USER" => \A i \in 1..Len(s) : d[s[i]] <= d[t]
  PROVE  /\ Insert(s, q, t, d) \in Seq(Tests)
         /\ IsInjective(Insert(s, q, t, d))
         /\ Sorted(Insert(s, q, t, d), d)
         /\ \A u \in Tests : Contains(Insert(s, q, t, d), u) <=> Contains(s, u) \/ u = t
<1>1. CASE q # "USER"
  <2> DEFINE r == Append(s, t)
             k == Len(s) + 1
  <2>1. Placed(r, s, d, t, k) /\ r \in Seq(Tests)
    <3>1. /\ r \in Seq(Tests) /\ Len(r) = Len(s) + 1
          /\ \A i \in 1..Len(r) : r[i] = IF i < Len(s) + 1 THEN s[i]
                                       ELSE IF i = Len(s) + 1 THEN t ELSE s[i - 1]
      OBVIOUS
    <3> HIDE DEF r
    <3> QED
      BY <1>1, <3>1 DEF Placed
  <2>4. Insert(s, q, t, d) = r
    BY <1>1 DEF Insert
  <2> HIDE DEF r, k
  <2>5. /\ IsInjective(r) /\ Sorted(r, d)
        /\ \A u \in Tests : Contains(r, u) <=> Contains(s, u) \/ u = t
    BY <2>1, PlacedIn
  <2> QED
    BY <2>1, <2>4, <2>5
<1>2. CASE q = "USER"
  <2> DEFINE K == {i \in 1..Len(s) : d[t] < d[s[i]]} \cup {Len(s) + 1}
             k == Min(K)
             r == InsertAt(s, k, t)
  <2>1. K \in SUBSET Nat /\ K # {} /\ K \subseteq 1..(Len(s) + 1)
    OBVIOUS
  <2>2. k \in K /\ \A i \in K : k <= i
    BY <2>1, MinIs
  <2>3. \A i \in 1..Len(s) : s[i] \in Tests /\ d[s[i]] \in Nat /\ d[t] \in Nat
    OBVIOUS
  <2>4. ASSUME NEW i \in 1..Len(s)
        PROVE  IF i < k THEN d[s[i]] <= d[t] ELSE d[t] <= d[s[i]]
    <3>0. k \in 1..(Len(s) + 1)
      BY <2>1, <2>2
    <3>1. CASE i < k
      <4>1. i \notin K
        BY <3>0, <3>1, <2>2
      <4> QED
        BY <3>1, <4>1, <2>3
    <3>2. CASE i >= k
      <4>1. k \in 1..Len(s) /\ d[t] < d[s[k]]
        BY <3>0, <3>2, <2>2
      <4>2. d[s[k]] <= d[s[i]]
        BY <3>2, <4>1, <2>3 DEF Sorted
      <4> QED
        BY <3>0, <3>2, <4>1, <4>2, <2>3
    <3> QED
      BY <3>0, <3>1, <3>2
  <2>5. k \in 1..(Len(s) + 1)
    BY <2>1, <2>2
  <2>6. Insert(s, q, t, d) = r
    BY <1>2 DEF Insert
  <2> HIDE DEF K, k, r
  <2>7. /\ r \in Seq(Tests) /\ Len(r) = Len(s) + 1
        /\ \A i \in 1..Len(r) : r[i] = IF i < k THEN s[i] ELSE IF i = k THEN t ELSE s[i - 1]
    BY <2>5, InsertAtIs DEF r
  <2>8. /\ IsInjective(r) /\ Sorted(r, d)
        /\ \A u \in Tests : Contains(r, u) <=> Contains(s, u) \/ u = t
    <3>1. Placed(r, s, d, t, k)
      BY <2>4, <2>5, <2>7 DEF Placed
    <3> QED
      BY <3>1, PlacedIn
  <2> QED
    BY <2>6, <2>7, <2>8
<1> QED
  BY <1>1, <1>2

-----------------------------------------------------------------------------
(* The timer.                                                              *)

(* On queues in order, nothing is due before the soonest head.             *)
LEMMA HeadsSoonest ==
  ASSUME NEW qs \in [Queues -> Seq(Tests)], NEW d \in [Tests -> Nat],
         \A p \in Queues : Sorted(qs[p], d)
  PROVE  /\ HeadTimes(qs, d) \in SUBSET Nat
         /\ \A p \in Queues, u \in Tests :
              Contains(qs[p], u) => \E x \in HeadTimes(qs, d) : x <= d[u]
<1>1. ASSUME NEW p \in Queues, qs[p] # <<>>
      PROVE  d[Head(qs[p])] \in Nat
  BY <1>1
<1>2. ASSUME NEW p \in Queues, NEW u \in Tests, Contains(qs[p], u)
      PROVE  \E x \in HeadTimes(qs, d) : x <= d[u]
  <2> DEFINE s == qs[p]
  <2>1. s \in Seq(Tests)
    OBVIOUS
  <2>2. Sorted(s, d)
    OBVIOUS
  <2> HIDE DEF s
  <2>3. PICK i \in 1..Len(s) : s[i] = u
    BY <1>2 DEF Contains, s
  <2>4. Head(s) = s[1] /\ s # <<>> /\ 1 \in 1..Len(s) /\ s[1] \in Tests
    BY <2>1, <2>3
  <2>5. d[s[1]] <= d[u]
    <3>1. CASE i = 1
      BY <2>3, <2>4, <3>1
    <3>2. CASE 1 < i
      BY <2>2, <2>3, <2>4, <3>2 DEF Sorted
    <3> QED
      BY <3>1, <3>2
  <2>6. d[s[1]] \in HeadTimes(qs, d)
    BY <2>4 DEF HeadTimes, s
  <2> QED
    BY <2>5, <2>6
<1> QED
  BY <1>1, <1>2 DEF HeadTimes

(* A timer that is restarted runs until the first test is due, if none is. *)
LEMMA TimerInTime ==
  ASSUME NEW qs \in [Queues -> Seq(Tests)], NEW d \in [Tests -> Nat],
         \A p \in Queues : Sorted(qs[p], d),
         NEW tm \in Nat \cup {-1}
  PROVE  LET after == TimerAfter(tm, HeadTimes(qs, d)) IN
         /\ after \in Nat \cup {-1}
         /\ spc # "create" /\ 0 \notin HeadTimes(qs, d) =>
              \A p \in Queues, u \in Tests :
                Contains(qs[p], u) => after # -1 /\ after <= d[u]
<1> DEFINE H == HeadTimes(qs, d)
<1>1. /\ H \in SUBSET Nat
      /\ \A p \in Queues, u \in Tests : Contains(qs[p], u) => \E x \in H : x <= d[u]
  BY HeadsSoonest
<1>2. H # {} => Min(H) \in H /\ \A x \in H : Min(H) <= x
  BY <1>1, MinIs
<1> HIDE DEF H
<1>3. TimerAfter(tm, H) \in Nat \cup {-1}
  BY <1>1, <1>2 DEF TimerAfter
<1>4. ASSUME spc # "create", 0 \notin H,
             NEW p \in Queues, NEW u \in Tests, Contains(qs[p], u)
      PROVE  TimerAfter(tm, H) # -1 /\ TimerAfter(tm, H) <= d[u]
  <2>1. PICK x \in H : x <= d[u]
    BY <1>1, <1>4
  <2>2. TimerAfter(tm, H) = Min(H)
    BY <1>4, <2>1 DEF TimerAfter
  <2>3. Min(H) \in Nat /\ x \in Nat /\ d[u] \in Nat /\ Min(H) <= x
    BY <1>1, <1>2, <2>1
  <2> QED
    BY <2>1, <2>2, <2>3
<1> QED
  BY <1>3, <1>4 DEF H

-----------------------------------------------------------------------------
(* Moving one test.                                                        *)

(* What a call or a job does to the state of the test t that it is about:  *)
(* a test that is gone does not come back.                                 *)
StateStep(t) ==
  /\ \A u \in Tests \ {t} : state'[u] = state[u]
  /\ state'[t] = "ABSENT" => state[t] = "ABSENT"
  /\ state'[t] \in Live => state[t] \in Live \cup {"ABSENT"}

(* The other tests stay where they are.                                    *)
OthersStay(t) ==
  \A p \in Queues, u \in Tests \ {t} : Contains(queue'[p], u) <=> Contains(queue[p], u)

(* Removal finds the test, wherever it is.                                 *)
LEMMA Without ==
  ASSUME SchedInv, NEW t \in Tests, state[t] \in Live \cup {"ABSENT"}
  PROVE  /\ QueuesWithout(t) \in [Queues -> Seq(Tests)]
         /\ \A p \in Queues :
              /\ IsInjective(QueuesWithout(t)[p]) /\ Sorted(QueuesWithout(t)[p], due)
              /\ \A u \in Tests : Contains(QueuesWithout(t)[p], u) <=> Contains(queue[p], u) /\ u # t
<1> DEFINE qs == QueuesWithout(t)
<1>1. /\ queued[t] \in Queues \cup {"NONE"} /\ queue \in [Queues -> Seq(Tests)]
      /\ due \in [Tests -> Nat]
  BY DEF SchedInv, SchedTypes
<1>2. \A p \in Queues : IsInjective(queue[p]) /\ Sorted(queue[p], due)
  BY DEF SchedInv, QueueInv, QueueConsistent, QueuedOnce, QueuesSorted
<1>3. \A p \in Queues : p # queued[t] => ~Contains(queue[p], t)
  BY DEF SchedInv, QueueInv, QueueConsistent, Recorded, NewOffQueue
<1>4. CASE queued[t] = "NONE"
  <2>1. qs = queue
    BY <1>4 DEF QueuesWithout
  <2>2. \A p \in Queues : p # "NONE"
    BY DEF Queues, Classes
  <2> QED
    BY <1>1, <1>2, <1>3, <1>4, <2>1, <2>2
<1>5. CASE queued[t] # "NONE"
  <2> DEFINE q == queued[t]
             s == queue[q]
             r == RemoveFirst(s, t)
  <2>1. q \in Queues /\ s \in Seq(Tests) /\ qs = [queue EXCEPT ![q] = r]
    BY <1>1, <1>5 DEF QueuesWithout
  <2>2. /\ r \in Seq(Tests) /\ IsInjective(r) /\ Sorted(r, due)
        /\ \A u \in Tests : Contains(r, u) <=> Contains(s, u) /\ u # t
    <3> HIDE DEF s
    <3>1. s \in Seq(Tests) /\ IsInjective(s) /\ Sorted(s, due)
      BY <1>2, <2>1 DEF s
    <3> QED
      BY <1>1, <3>1, TakenOut
  <2>3. qs \in [Queues -> Seq(Tests)] /\ qs[q] = r /\ \A p \in Queues \ {q} : qs[p] = queue[p]
    BY <1>1, <2>1, <2>2
  <2> QED
    BY <1>2, <1>3, <2>2, <2>3
<1> QED
  BY <1>4, <1>5

(* After a change of the queues, the timer is restarted and in time.       *)
LEMMA Restarted ==
  ASSUME SchedInv, NEW qs \in [Queues -> Seq(Tests)], NEW d \in [Tests -> Nat],
         \A p \in Queues : Sorted(qs[p], d),
         NEW tm \in Nat \cup {-1},
         queue' = qs, due' = d, spc' = spc,
         timer' = TimerAfter(tm, HeadTimes(qs, d)),
         wake' = WakeAfter(HeadTimes(qs, d))
  PROVE  timer' \in Nat \cup {-1} /\ wake' \in BOOLEAN /\ WakeupPending'
<1> DEFINE H == HeadTimes(qs, d)
<1>1. wake \in BOOLEAN
  BY DEF SchedInv, SchedTypes
<1>2. wake' \in BOOLEAN
  BY <1>1 DEF WakeAfter
<1>3. /\ timer' \in Nat \cup {-1}
      /\ spc # "create" /\ 0 \notin H =>
           \A p \in Queues, u \in Tests : Contains(qs[p], u) => timer' # -1 /\ timer' <= d[u]
  BY TimerInTime
<1>4. ASSUME spc' = "wait", ~wake'
      PROVE  spc # "create" /\ 0 \notin H
  BY <1>4 DEF WakeAfter
<1> HIDE DEF H
<1> QED
  BY <1>2, <1>3, <1>4 DEF WakeupPending

(* Calls that leave the queues alone.                                      *)
LEMMA Unmoved ==
  ASSUME SchedInv, NEW t \in Tests, StateStep(t), UNCHANGED schedVars, UNCHANGED spc
  PROVE  SchedInv' /\ OthersStay(t)
<1>1. UNCHANGED <<queued, queue, due, timer, wake, spc>>
  BY DEF schedVars
<1>2. SchedTypes'
  BY <1>1 DEF SchedInv, SchedTypes
<1>3. WakeupPending'
  BY <1>1 DEF SchedInv, WakeupPending
<1>4. QueuesSorted' /\ WithinPeriod' /\ QueuedOnce'
  BY <1>1 DEF SchedInv, QueueInv, QueueConsistent, QueuesSorted, WithinPeriod, QueuedOnce
<1>5. NewOffQueue'
  BY <1>1 DEF SchedInv, QueueInv, NewOffQueue, StateStep
<1>6. Recorded'
  <2> SUFFICES ASSUME NEW u \in Tests, state'[u] \in Live, NEW q \in Queues
               PROVE  Contains(queue[q], u) <=> queued[u] = q
    BY <1>1 DEF Recorded
  <2>1. CASE state[u] \in Live
    BY <2>1 DEF SchedInv, QueueInv, QueueConsistent, Recorded
  <2>2. CASE state[u] = "ABSENT"
    BY <2>2 DEF SchedInv, QueueInv, NewOffQueue, Queues, Classes
  <2> QED
    BY <2>1, <2>2 DEF StateStep
<1> QED
  BY <1>1, <1>2, <1>3, <1>4, <1>5, <1>6 DEF SchedInv, QueueInv, QueueConsistent, OthersStay

(* swdiag_sched_remove_test.                                               *)
LEMMA Removed ==
  ASSUME SchedInv, NEW t \in Tests, StateStep(t), state[t] \in Live \cup {"ABSENT"},
         RemoveTest(t), UNCHANGED spc
  PROVE  SchedInv' /\ OthersStay(t) /\ \A p \in Queues : ~Contains(queue'[p], t)
<1> DEFINE qs == QueuesWithout(t)
<1>1. /\ qs \in [Queues -> Seq(Tests)]
      /\ \A p \in Queues :
           /\ IsInjective(qs[p]) /\ Sorted(qs[p], due)
           /\ \A u \in Tests : Contains(qs[p], u) <=> Contains(queue[p], u) /\ u # t
  BY Without
<1>2. /\ queued' = [queued EXCEPT ![t] = "NONE"] /\ queue' = qs /\ due' = due
      /\ timer' = TimerAfter(timer, HeadTimes(qs, due))
      /\ wake' = WakeAfter(HeadTimes(qs, due))
  BY DEF RemoveTest
<1> HIDE DEF qs
<1>3. /\ queued \in [Tests -> Queues \cup {"NONE"}] /\ due \in [Tests -> Nat]
      /\ timer \in Nat \cup {-1} /\ spc \in {"create", "check", "wait"}
  BY DEF SchedInv, SchedTypes
<1>4. timer' \in Nat \cup {-1} /\ wake' \in BOOLEAN /\ WakeupPending'
  BY <1>1, <1>2, <1>3, Restarted
<1>5. SchedTypes'
  BY <1>1, <1>2, <1>3, <1>4 DEF SchedTypes
<1>6. QueuesSorted' /\ QueuedOnce'
  BY <1>1, <1>2 DEF QueuesSorted, QueuedOnce
<1>7. WithinPeriod'
  BY <1>1, <1>2 DEF SchedInv, QueueInv, WithinPeriod
<1>8. ASSUME NEW u \in Tests
      PROVE  queued'[u] = IF u = t THEN "NONE" ELSE queued[u]
  BY <1>2, <1>3
<1>9. NewOffQueue'
  BY <1>1, <1>2, <1>8 DEF SchedInv, QueueInv, NewOffQueue, StateStep
<1>10. Recorded'
  <2> SUFFICES ASSUME NEW u \in Tests, state'[u] \in Live, NEW q \in Queues
               PROVE  Contains(qs[q], u) <=> queued'[u] = q
    BY <1>2 DEF Recorded
  <2>1. q # "NONE"
    BY DEF Queues, Classes
  <2>2. CASE u = t
    BY <2>1, <2>2, <1>1, <1>8
  <2>3. CASE u # t
    BY <2>3, <1>1, <1>8 DEF SchedInv, QueueInv, QueueConsistent, Recorded, StateStep
  <2> QED
    BY <2>2, <2>3
<1>11. OthersStay(t) /\ \A p \in Queues : ~Contains(queue'[p], t)
  BY <1>1, <1>2 DEF OthersStay
<1> QED
  BY <1>4, <1>5, <1>6, <1>7, <1>9, <1>10, <1>11 DEF SchedInv, QueueInv, QueueConsistent

(* A test put on a queue for as long as its tests wait at most.            *)
LEMMA Enqueued ==
  ASSUME SchedInv, NEW t \in Tests, StateStep(t), state[t] \in Live \cup {"ABSENT"},
         state'[t] # "ABSENT",
         NEW q \in Queues, NEW delay \in Nat, q # "USER" => delay = LongestDelay(q),
         NEW tm \in Nat \cup {-1}, Enqueue(t, q, delay, tm), UNCHANGED spc
  PROVE  SchedInv' /\ OthersStay(t)
<1> DEFINE ws == QueuesWithout(t)
           d  == [due EXCEPT ![t] = delay]
           s  == ws[q]
           r  == Insert(s, q, t, d)
           qs == [ws EXCEPT ![q] = r]
<1>1. /\ ws \in [Queues -> Seq(Tests)]
      /\ \A p \in Queues :
           /\ IsInjective(ws[p]) /\ Sorted(ws[p], due)
           /\ \A u \in Tests : Contains(ws[p], u) <=> Contains(queue[p], u) /\ u # t
  BY Without
<1>2. /\ queued' = [queued EXCEPT ![t] = q] /\ queue' = qs /\ due' = d
      /\ timer' = TimerAfter(tm, HeadTimes(qs, d))
      /\ wake' = WakeAfter(HeadTimes(qs, d))
  BY DEF Enqueue
<1>3. /\ queued \in [Tests -> Queues \cup {"NONE"}] /\ due \in [Tests -> Nat]
      /\ timer \in Nat \cup {-1} /\ spc \in {"create", "check", "wait"}
  BY DEF SchedInv, SchedTypes
<1>4. d \in [Tests -> Nat] /\ d[t] = delay /\ \A u \in Tests \ {t} : d[u] = due[u]
  BY <1>3
<1> HIDE DEF ws, d
<1>5. ASSUME NEW p \in Queues
      PROVE  Sorted(ws[p], d)
  <2> DEFINE w == ws[p]
  <2>1. w \in Seq(Tests) /\ Sorted(w, due) /\ ~Contains(w, t)
    BY <1>1
  <2> HIDE DEF w
  <2>2. \A i \in 1..Len(w) : w[i] \in Tests \ {t}
    BY <2>1 DEF Contains
  <2>3. Sorted(w, d)
    BY <2>1, <2>2, <1>4 DEF Sorted
  <2> QED
    BY <2>3 DEF w
<1>6. s \in Seq(Tests) /\ IsInjective(s) /\ Sorted(s, d) /\ ~Contains(s, t)
  BY <1>1, <1>5
<1>7. ASSUME q # "USER", NEW i \in 1..Len(s)
      PROVE  d[s[i]] <= d[t]
  <2>1. s[i] \in Tests /\ Contains(s, s[i])
    BY <1>6 DEF Contains
  <2>2. Contains(queue[q], s[i]) /\ s[i] # t
    BY <1>1, <2>1
  <2> QED
    BY <1>4, <1>7, <2>1, <2>2 DEF SchedInv, QueueInv, WithinPeriod
<1>8. /\ r \in Seq(Tests) /\ IsInjective(r) /\ Sorted(r, d)
      /\ \A u \in Tests : Contains(r, u) <=> Contains(s, u) \/ u = t
  <2> HIDE DEF s
  <2> QED
    BY <1>4, <1>6, <1>7, PutIn
<1>9. qs \in [Queues -> Seq(Tests)] /\ qs[q] = r /\ \A p \in Queues \ {q} : qs[p] = ws[p]
  BY <1>1, <1>8
<1> HIDE DEF r, qs
<1>10. \A p \in Queues :
         /\ IsInjective(qs[p]) /\ Sorted(qs[p], d)
         /\ \A u \in Tests :
              Contains(qs[p], u) <=> IF u = t THEN p = q ELSE Contains(queue[p], u)
  BY <1>1, <1>5, <1>8, <1>9
<1>11. timer' \in Nat \cup {-1} /\ wake' \in BOOLEAN /\ WakeupPending'
  BY <1>2, <1>4, <1>9, <1>10, Restarted
<1>12. SchedTypes'
  BY <1>2, <1>3, <1>4, <1>9, <1>11 DEF SchedTypes
<1>13. QueuesSorted' /\ QueuedOnce'
  BY <1>2, <1>10 DEF QueuesSorted, QueuedOnce
<1>14. WithinPeriod'
  <2> SUFFICES ASSUME NEW p \in Queues \ {"USER"}, NEW u \in Tests, Contains(qs[p], u)
               PROVE  d[u] <= LongestDelay(p)
    BY <1>2 DEF WithinPeriod, LongestDelay
  <2>1. CASE u = t
    BY <2>1, <1>4, <1>10
  <2>2. CASE u # t
    BY <2>2, <1>4, <1>10 DEF SchedInv, QueueInv, WithinPeriod
  <2> QED
    BY <2>1, <2>2
<1>15. ASSUME NEW u \in Tests
       PROVE  queued'[u] = IF u = t THEN q ELSE queued[u]
  BY <1>2, <1>3
<1>16. NewOffQueue'
  BY <1>2, <1>10, <1>15 DEF SchedInv, QueueInv, NewOffQueue, StateStep
<1>17. Recorded'
  <2> SUFFICES ASSUME NEW u \in Tests, state'[u] \in Live, NEW p \in Queues
               PROVE  Contains(qs[p], u) <=> queued'[u] = p
    BY <1>2 DEF Recorded
  <2>1. CASE u = t
    BY <2>1, <1>10, <1>15
  <2>2. CASE u # t
    BY <2>2, <1>10, <1>15 DEF SchedInv, QueueInv, QueueConsistent, Recorded, StateStep
  <2> QED
    BY <2>1, <2>2
<1>18. OthersStay(t)
  BY <1>2, <1>10 DEF OthersStay
<1> QED
  BY <1>11, <1>12, <1>13, <1>14, <1>16, <1>17, <1>18 DEF SchedInv, QueueInv, QueueConsistent

(* swdiag_sched_add_test.                                                  *)
LEMMA Added ==
  ASSUME SchedInv, NEW t \in Tests, StateStep(t),
         NEW st, st = state'[t], NEW res, NEW p \in Classes,
         AddTest(t, st, res, p), UNCHANGED spc
  PROVE  SchedInv' /\ OthersStay(t)
<1> DEFINE q == QueueFor(t, p)
           delay == DelayOf(t, p)
<1>1. CASE UNCHANGED schedVars
  BY <1>1, Unmoved
<1>2. CASE st = "ENABLED" /\ Enqueue(t, q, delay, timer)
  <2>1. q \in Queues /\ delay \in Nat /\ (q # "USER" => delay = LongestDelay(q))
    BY TimeAssumption DEF Queues, Classes, LongestDelay, QueueFor, DelayOf
  <2>2. state[t] \in Live \cup {"ABSENT"} /\ state'[t] # "ABSENT"
    BY <1>2 DEF StateStep, Live, Created
  <2>3. timer \in Nat \cup {-1}
    BY DEF SchedInv, SchedTypes
  <2> HIDE DEF q, delay
  <2> QED
    BY <1>2, <2>1, <2>2, <2>3, Enqueued
<1> QED
  BY <1>1, <1>2 DEF AddTest, Wanted

-----------------------------------------------------------------------------
(* The scheduler thread.                                                   *)

(* The due tests of a queue are those at its front.                        *)
LEMMA DueInFront ==
  ASSUME SchedInv, NEW q \in Queues
  PROVE  /\ DueCount(q) \in 0..Len(queue[q])
         /\ \A i \in 1..Len(queue[q]) : due[queue[q][i]] = 0 <=> i <= DueCount(q)
<1> DEFINE s == queue[q]
           T == {n \in 0..Len(s) : \A i \in 1..n : due[s[i]] = 0}
<1>1. s \in Seq(Tests) /\ due \in [Tests -> Nat] /\ Sorted(s, due)
  BY DEF SchedInv, SchedTypes, QueueInv, QueuesSorted
<1>2. DueCount(q) = Max(T)
  BY DEF DueCount
<1> HIDE DEF s
<1>3. Len(s) \in Nat /\ T \in SUBSET (0..Len(s)) /\ 0 \in T
  BY <1>1
<1>4. Max(T) \in T /\ \A n \in T : Max(T) >= n
  BY <1>3, MaxIs
<1>5. ASSUME NEW i \in 1..Len(s), due[s[i]] = 0
      PROVE  i \in T
  <2>1. ASSUME NEW j \in 1..i
        PROVE  due[s[j]] = 0
    <3>1. j \in 1..Len(s) /\ s[i] \in Tests /\ s[j] \in Tests /\ (j < i \/ j = i)
      BY <1>1
    <3>2. due[s[j]] \in Nat /\ due[s[j]] <= 0
      BY <1>1, <1>5, <3>1 DEF Sorted
    <3> QED
      BY <3>2
  <2> QED
    BY <2>1
<1>6. ASSUME NEW i \in 1..Len(s)
      PROVE  due[s[i]] = 0 <=> i <= Max(T)
  BY <1>3, <1>4, <1>5
<1> QED
  BY <1>2, <1>3, <1>4, <1>6 DEF s

(* What is left of a queue is what is not due.                             *)
LEMMA RestOfQueue ==
  ASSUME SchedInv, NEW q \in Queues
  PROVE  LET r == SubSeq(queue[q], DueCount(q) + 1, Len(queue[q])) IN
         /\ r \in Seq(Tests) /\ IsInjective(r) /\ Sorted(r, due)
         /\ \A u \in Tests : Contains(r, u) <=> Contains(queue[q], u) /\ due[u] # 0
<1> DEFINE s == queue[q]
           n == DueCount(q)
           r == SubSeq(s, n + 1, Len(s))
<1>1. /\ s \in Seq(Tests) /\ due \in [Tests -> Nat]
      /\ IsInjective(s) /\ Sorted(s, due)
  BY DEF SchedInv, SchedTypes, QueueInv, QueueConsistent, QueuedOnce, QueuesSorted
<1>2. n \in 0..Len(s) /\ \A i \in 1..Len(s) : due[s[i]] = 0 <=> i <= n
  BY DueInFront
<1> HIDE DEF s, n
<1>3. r \in Seq(Tests) /\ Len(r) = Len(s) - n /\ \A i \in 1..Len(r) : r[i] = s[n + i]
  BY <1>1, <1>2
<1> HIDE DEF r
<1>4. ASSUME NEW i \in 1..Len(r)
      PROVE  n + i \in 1..Len(s) /\ r[i] = s[n + i] /\ ~(n + i <= n)
  BY <1>1, <1>2, <1>3
<1>5. IsInjective(r)
  <2>1. \A i, j \in 1..Len(s) : s[i] = s[j] => i = j
    BY <1>1, InjectiveIs
  <2>2. \A i, j \in 1..Len(r) : r[i] = r[j] => i = j
    <3> TAKE i, j \in 1..Len(r)
    <3> HAVE r[i] = r[j]
    <3>1. n + i = n + j
      BY <1>4, <2>1
    <3> QED
      BY <1>2, <3>1
  <2> QED
    BY <1>3, <2>2, InjectiveIs
<1>6. Sorted(r, due)
  <2> SUFFICES ASSUME NEW i \in 1..Len(r), NEW j \in 1..Len(r), i < j
               PROVE  due[r[i]] <= due[r[j]]
    BY DEF Sorted
  <2>1. n + i < n + j
    BY <1>2
  <2> QED
    BY <1>1, <1>4, <2>1 DEF Sorted
<1>7. ASSUME NEW u \in Tests
      PROVE  Contains(r, u) <=> Contains(s, u) /\ due[u] # 0
  <2>1. ASSUME NEW i \in 1..Len(r), r[i] = u
        PROVE  due[u] # 0 /\ \E j \in 1..Len(s) : s[j] = u
    BY <1>2, <1>4, <2>1
  <2>2. ASSUME NEW j \in 1..Len(s), s[j] = u, due[u] # 0
        PROVE  \E i \in 1..Len(r) : r[i] = u
    <3>1. j - n \in 1..Len(r) /\ n + (j - n) = j
      BY <1>1, <1>2, <1>3, <2>2, SMTT(30)
    <3> QED
      BY <1>4, <2>2, <3>1
  <2> QED
    BY <2>1, <2>2 DEF Contains
<1> QED
  BY <1>3, <1>5, <1>6, <1>7 DEF r, s, n

(* A check takes off the entries of the tests that are due.                *)
LEMMA DueIs ==
  ASSUME SchedInv, NEW u \in Tests
  PROVE  DueEntries(u) # {} <=> due[u] = 0 /\ \E q \in Queues : Contains(queue[q], u)
<1>1. queue \in [Queues -> Seq(Tests)]
  BY DEF SchedInv, SchedTypes
<1>2. \A q \in Queues :
        /\ DueCount(q) \in 0..Len(queue[q])
        /\ \A i \in 1..Len(queue[q]) : due[queue[q][i]] = 0 <=> i <= DueCount(q)
  BY DueInFront
<1>3. ASSUME NEW q \in Queues, NEW k \in 1..DueCount(q), queue[q][k] = u
      PROVE  due[u] = 0 /\ Contains(queue[q], u)
  <2>1. k \in 1..Len(queue[q]) /\ k <= DueCount(q)
    BY <1>1, <1>2
  <2> QED
    BY <1>2, <1>3, <2>1 DEF Contains
<1>4. ASSUME NEW q \in Queues, Contains(queue[q], u), due[u] = 0
      PROVE  \E k \in 1..DueCount(q) : queue[q][k] = u
  <2>1. PICK k \in 1..Len(queue[q]) : queue[q][k] = u
    BY <1>4 DEF Contains
  <2>2. k <= DueCount(q)
    BY <1>2, <1>4, <2>1
  <2> QED
    BY <1>1, <1>2, <2>1, <2>2
<1>5. DueEntries(u) # {} <=> \E q \in Queues : \E k \in 1..DueCount(q) : queue[q][k] = u
  <2> DEFINE K(q) == {k \in 1..DueCount(q) : queue[q][k] = u}
             E(q) == {<<q, i>> : i \in K(q)}
  <2>1. DueEntries(u) = UNION {E(q) : q \in Queues}
    BY DEF DueEntries
  <2> HIDE DEF E
  <2>2. DueEntries(u) # {} <=> \E q \in Queues : E(q) # {}
    BY <2>1
  <2>3. ASSUME NEW q \in Queues
        PROVE  E(q) # {} <=> K(q) # {}
    BY DEF E
  <2> QED
    BY <2>2, <2>3
<1> QED
  BY <1>3, <1>4, <1>5

(* check_queue_test_times.                                                 *)
LEMMA Checked ==
  ASSUME SchedInv, CheckQueues, spc # "create", spc' = "wait", wake' \in BOOLEAN
  PROVE  SchedInv'
<1> DEFINE qs == [q \in Queues |-> SubSeq(queue[q], DueCount(q) + 1, Len(queue[q]))]
           started == {t \in Tests : DueEntries(t) # {} /\ state[t] \in Live}
           H == HeadTimes(qs, due)
<1>1. /\ queued \in [Tests -> Queues \cup {"NONE"}] /\ due \in [Tests -> Nat]
      /\ timer \in Nat \cup {-1}
  BY DEF SchedInv, SchedTypes
<1>2. /\ queue' = qs /\ due' = due /\ state' = state /\ timer' = TimerAfter(timer, H)
      /\ queued' = [t \in Tests |-> IF t \in started THEN "NONE" ELSE queued[t]]
  BY DEF CheckQueues, objVars
<1>3. /\ qs \in [Queues -> Seq(Tests)]
      /\ \A q \in Queues :
           /\ IsInjective(qs[q]) /\ Sorted(qs[q], due)
           /\ \A u \in Tests : Contains(qs[q], u) <=> Contains(queue[q], u) /\ due[u] # 0
  BY RestOfQueue
<1>4. \A u \in Tests : u \in started <=>
        /\ state[u] \in Live /\ due[u] = 0
        /\ \E q \in Queues : Contains(queue[q], u)
  BY DueIs
<1> HIDE DEF qs, started
<1>5. 0 \notin H
  <2>1. ASSUME NEW q \in Queues, qs[q] # <<>>
        PROVE  due[Head(qs[q])] # 0
    <3>1. Head(qs[q]) \in Tests /\ Contains(qs[q], Head(qs[q]))
      BY <1>3, <2>1 DEF Contains
    <3> QED
      BY <1>3, <3>1
  <2> QED
    BY <2>1 DEF HeadTimes
<1> HIDE DEF H
<1>6. /\ timer' \in Nat \cup {-1}
      /\ \A q \in Queues, u \in Tests : Contains(qs[q], u) => timer' # -1 /\ timer' <= due[u]
  BY <1>1, <1>2, <1>3, <1>5, TimerInTime DEF H
<1>7. WakeupPending'
  BY <1>2, <1>6 DEF WakeupPending
<1>8. ASSUME NEW u \in Tests
      PROVE  queued'[u] = IF u \in started THEN "NONE" ELSE queued[u]
  BY <1>2
<1>9. SchedTypes'
  BY <1>1, <1>2, <1>3, <1>6 DEF SchedTypes
<1>10. QueuesSorted' /\ QueuedOnce'
  BY <1>2, <1>3 DEF QueuesSorted, QueuedOnce
<1>11. WithinPeriod'
  BY <1>2, <1>3 DEF SchedInv, QueueInv, WithinPeriod
<1>12. NewOffQueue'
  BY <1>2, <1>3, <1>8 DEF SchedInv, QueueInv, NewOffQueue
<1>13. Recorded'
  <2> SUFFICES ASSUME NEW u \in Tests, state[u] \in Live, NEW q \in Queues
               PROVE  Contains(qs[q], u) <=> queued'[u] = q
    BY <1>2 DEF Recorded
  <2>1. q # "NONE"
    BY DEF Queues, Classes
  <2>2. Contains(queue[q], u) <=> queued[u] = q
    BY DEF SchedInv, QueueInv, QueueConsistent, Recorded
  <2> QED
    BY <2>1, <2>2, <1>3, <1>4, <1>8
<1> QED
  BY <1>7, <1>9, <1>10, <1>11, <1>12, <1>13 DEF SchedInv, QueueInv, QueueConsistent

(* Time passes for the timer and for the tests alike.                      *)
LEMMA Ticked ==
  ASSUME SchedInv, Tick
  PROVE  SchedInv'
<1>1. /\ queue \in [Queues -> Seq(Tests)] /\ due \in [Tests -> Nat]
      /\ timer \in Nat \cup {-1}
  BY DEF SchedInv, SchedTypes
<1>2. /\ due' = [t \in Tests |-> IF due[t] > 0 THEN due[t] - 1 ELSE 0]
      /\ timer' = IF timer > 0 THEN timer - 1 ELSE timer
      /\ UNCHANGED <<state, queued, queue, wake, spc>>
  BY DEF Tick, objVars
<1>3. \A t \in Tests : /\ due[t] \in Nat /\ due'[t] \in Nat
                       /\ due'[t] = IF due[t] > 0 THEN due[t] - 1 ELSE 0
  BY <1>1, <1>2
<1>4. SchedTypes'
  BY <1>1, <1>2 DEF SchedInv, SchedTypes
<1>5. QueuesSorted'
  <2> SUFFICES ASSUME NEW q \in Queues, NEW i \in 1..Len(queue[q]), NEW j \in 1..Len(queue[q]), i < j
               PROVE  due'[queue[q][i]] <= due'[queue[q][j]]
    BY <1>2 DEF QueuesSorted, Sorted
  <2>1. queue[q][i] \in Tests /\ queue[q][j] \in Tests
    BY <1>1
  <2>2. due[queue[q][i]] <= due[queue[q][j]]
    BY DEF SchedInv, QueueInv, QueuesSorted, Sorted
  <2> QED
    BY <1>3, <2>1, <2>2, SMTT(30)
<1>6. WithinPeriod'
  <2> SUFFICES ASSUME NEW q \in Queues \ {"USER"}, NEW t \in Tests, Contains(queue[q], t)
               PROVE  due'[t] <= LongestDelay(q)
    BY <1>2 DEF WithinPeriod, LongestDelay
  <2>1. due[t] <= LongestDelay(q)
    BY DEF SchedInv, QueueInv, WithinPeriod
  <2>2. LongestDelay(q) \in Nat
    BY TimeAssumption DEF LongestDelay, Queues
  <2> QED
    BY <1>3, <2>1, <2>2
<1>7. WakeupPending'
  <2> SUFFICES ASSUME spc = "wait", ~wake, NEW q \in Queues, NEW t \in Tests, Contains(queue[q], t)
               PROVE  timer' # -1 /\ timer' <= due'[t]
    BY <1>2 DEF WakeupPending
  <2>1. timer # -1 /\ timer <= due[t]
    BY DEF SchedInv, WakeupPending
  <2> QED
    BY <1>1, <1>2, <1>3, <2>1
<1>8. QueueConsistent' /\ NewOffQueue'
  BY <1>2 DEF SchedInv, QueueInv, QueueConsistent, Recorded, QueuedOnce, NewOffQueue
<1> QED
  BY <1>4, <1>5, <1>6, <1>7, <1>8 DEF SchedInv, QueueInv

-----------------------------------------------------------------------------
(* What a call does to one instance.                                       *)

(* A step that is about the test t alone keeps types and queues.           *)
Kept(t) == ObjTypes' /\ SchedInv' /\ StateStep(t) /\ OthersStay(t)

(* It does if it leaves the queues alone, puts t on one as it should be,   *)
(* or takes it off.                                                        *)
LEMMA KeptBy ==
  ASSUME IInv, NEW t \in Tests, ObjTypes', StateStep(t), UNCHANGED spc,
         \/ UNCHANGED schedVars
         \/ \E st, res : \E p \in Classes : st = state'[t] /\ AddTest(t, st, res, p)
         \/ state[t] \in Live \cup {"ABSENT"} /\ RemoveTest(t)
  PROVE  Kept(t)
<1>1. SchedInv
  BY DEF IInv
<1>2. CASE UNCHANGED schedVars
  BY <1>1, <1>2, Unmoved DEF Kept
<1>3. ASSUME NEW st, NEW res, NEW p \in Classes, st = state'[t], AddTest(t, st, res, p)
      PROVE  Kept(t)
  BY <1>1, <1>3, Added DEF Kept
<1>4. CASE state[t] \in Live \cup {"ABSENT"} /\ RemoveTest(t)
  <2>1. SchedInv' /\ OthersStay(t)
    BY <1>1, <1>4, Removed
  <2> QED
    BY <2>1 DEF Kept
<1> QED
  BY <1>2, <1>3, <1>4

(* The client makes the test ready.                                        *)
LEMMA MadeReady ==
  ASSUME IInv, NEW t \in Tests, state[t] \in Live, NEW sys \in {"ENABLED", "DISABLED"},
         ReadyInstance(t, sys), UNCHANGED spc
  PROVE  Kept(t)
<1> DEFINE d  == IF state[t] \in Created /\ dflt[t] = "INITIALIZED" /\ cli[t] = "INITIALIZED"
                 THEN sys ELSE dflt[t]
           st == IF cli[t] # "INITIALIZED" THEN cli[t]
                 ELSE IF state[t] \in Created THEN d ELSE state[t]
<1>1. /\ UNCHANGED <<cli, period, last>>
      /\ state' = [state EXCEPT ![t] = st] /\ dflt' = [dflt EXCEPT ![t] = d]
      /\ AddTest(t, st, last[t], period[Base[t]]) \/ UNCHANGED schedVars
  BY DEF ReadyInstance
<1>2. st \in Live /\ d \in {"INITIALIZED", "ENABLED", "DISABLED"}
  BY DEF IInv, ObjTypes, Live, Created
<1> HIDE DEF d, st
<1>3. ObjTypes' /\ st = state'[t]
  BY <1>1, <1>2 DEF IInv, ObjTypes
<1>4. StateStep(t)
  BY <1>1, <1>2 DEF IInv, ObjTypes, StateStep, Live, Created
<1>5. period[Base[t]] \in Classes
  BY TestsAssumption DEF IInv, ObjTypes
<1> QED
  BY <1>1, <1>3, <1>4, <1>5, KeptBy

(* Asking for a state makes no test from one that is gone.                 *)
LEMMA StateSet ==
  ASSUME ObjTypes, NEW t \in Tests, state[t] \in Live \cup {"ABSENT"},
         NEW st \in {"ENABLED", "DISABLED"}, NEW by \in {"API", "CLI"}, NEW effective \in BOOLEAN,
         SetState(t, st, by, effective), UNCHANGED <<period, last>>
  PROVE  ObjTypes' /\ StateStep(t)
<1> DEFINE c == IF by = "CLI" THEN st ELSE cli[t]
           new == IF effective /\ c \in {"INITIALIZED", st} THEN st ELSE Found(t)
           d == IF by = "API" THEN st ELSE IF state[t] = "ABSENT" THEN dflt[Base[t]] ELSE dflt[t]
<1>1. /\ cli' = [cli EXCEPT ![t] = c] /\ dflt' = [dflt EXCEPT ![t] = d]
      /\ state' = [state EXCEPT ![t] = new]
  BY DEF SetState
<1>2. /\ c \in {"INITIALIZED", "ENABLED", "DISABLED"}
      /\ d \in {"INITIALIZED", "ENABLED", "DISABLED"}
  BY TestsAssumption DEF ObjTypes
<1>3. new \in Live \cup {"ABSENT"} /\ (new = "ABSENT" => state[t] = "ABSENT")
  BY DEF Found, Inherited, Live, Created
<1> HIDE DEF c, d, new
<1>4. StateStep(t)
  BY <1>1, <1>3 DEF ObjTypes, StateStep
<1> QED
  BY <1>1, <1>2, <1>3, <1>4 DEF ObjTypes

(* The API or the CLI enables the test.                                    *)
LEMMA Enables ==
  ASSUME IInv, NEW t \in Tests, state[t] \in Live \cup {"ABSENT"},
         NEW by \in {"API", "CLI"}, NEW effective \in BOOLEAN,
         EnableInstance(t, by, effective), UNCHANGED spc
  PROVE  Kept(t)
<1>1. ObjTypes' /\ StateStep(t) /\ period[Base[t]] \in Classes
  BY StateSet, TestsAssumption DEF IInv, ObjTypes, EnableInstance
<1>2. AddTest(t, state'[t], last[t], period[Base[t]]) \/ UNCHANGED schedVars
  BY DEF EnableInstance
<1> QED
  BY <1>1, <1>2, KeptBy

(* The API or the CLI disables it, and takes it off its queue.             *)
LEMMA Disables ==
  ASSUME IInv, NEW t \in Tests, state[t] \in Live \cup {"ABSENT"},
         NEW by \in {"API", "CLI"}, NEW effective \in BOOLEAN,
         DisableInstance(t, by, effective), UNCHANGED spc
  PROVE  Kept(t)
<1>1. ObjTypes' /\ StateStep(t)
  BY StateSet DEF IInv, DisableInstance
<1>2. RemoveTest(t) \/ UNCHANGED schedVars
  BY DEF DisableInstance
<1> QED
  BY <1>1, <1>2, KeptBy

(* The CLI withdraws the state that it asked for.                          *)
LEMMA Defaults ==
  ASSUME IInv, NEW t \in Tests, state[t] \in Live, DefaultInstance(t), UNCHANGED spc
  PROVE  Kept(t)
<1>1. /\ state' = [state EXCEPT ![t] = IF @ \in {"ENABLED", "DISABLED"} THEN dflt[t] ELSE @]
      /\ cli' = [cli EXCEPT ![t] = "INITIALIZED"]
      /\ period' = IF t \in Members THEN period ELSE [period EXCEPT ![t] = DefaultPeriod[t]]
      /\ AddTest(t, state'[t], last[t], period'[Base[t]]) \/ UNCHANGED schedVars
      /\ UNCHANGED <<dflt, last>>
  BY DEF DefaultInstance
<1>2. DefaultPeriod[t] \in Classes
  BY TestsAssumption
<1>3. ObjTypes' /\ StateStep(t)
  BY <1>1, <1>2 DEF IInv, ObjTypes, StateStep, Live, Created
<1>4. period'[Base[t]] \in Classes
  BY <1>3, TestsAssumption DEF ObjTypes
<1> QED
  BY <1>1, <1>3, <1>4, KeptBy

(* It moves to the queue of its new period, at the end of it.              *)
LEMMA SetsPeriod ==
  ASSUME IInv, NEW t \in Tests, state[t] \in Live, NEW p \in Classes,
         PeriodInstance(t, p), UNCHANGED spc
  PROVE  Kept(t)
<1> DEFINE q == QueueFor(t, p)
           delay == DelayOf(t, p)
<1>1. /\ period' = [period EXCEPT ![Base[t]] = p]
      /\ UNCHANGED <<state, dflt, cli, last>>
      /\ Enqueue(t, q, delay, timer) \/ RemoveTest(t)
  BY DEF PeriodInstance
<1>2. ObjTypes' /\ StateStep(t)
  BY <1>1, TestsAssumption DEF IInv, ObjTypes, StateStep
<1>3. /\ q \in Queues /\ delay \in Nat /\ (q # "USER" => delay = LongestDelay(q))
      /\ timer \in Nat \cup {-1} /\ SchedInv
  BY TimeAssumption DEF Queues, Classes, LongestDelay, QueueFor, DelayOf, IInv, SchedInv, SchedTypes
<1>4. state'[t] # "ABSENT"
  BY <1>1 DEF Live, Created
<1> HIDE DEF q, delay
<1>5. CASE Enqueue(t, q, delay, timer)
  <2>1. SchedInv' /\ OthersStay(t)
    BY <1>2, <1>3, <1>4, <1>5, Enqueued
  <2> QED
    BY <1>2, <2>1 DEF Kept
<1>6. CASE RemoveTest(t)
  BY <1>2, <1>6, KeptBy
<1> QED
  BY <1>1, <1>5, <1>6

(* A deleted test may stay on a queue.                                     *)
LEMMA Deletes ==
  ASSUME IInv, NEW t \in Tests, state[t] \in Live,
         state' = [state EXCEPT ![t] = "DELETED"], UNCHANGED <<dflt, cli, period, last, spc>>,
         UNCHANGED schedVars \/ RemoveTest(t)
  PROVE  Kept(t)
<1>1. ObjTypes' /\ StateStep(t)
  BY DEF IInv, ObjTypes, StateStep, Live, Created
<1> QED
  BY <1>1, KeptBy

(* So may one whose object is deleted as a forward reference.              *)
LEMMA Forgets ==
  ASSUME IInv, NEW t \in Tests, ForgetInstance(t), UNCHANGED spc
  PROVE  Kept(t)
<1>1. UNCHANGED <<period, last, schedVars>>
  BY DEF ForgetInstance
<1>2. CASE /\ dflt' = [dflt EXCEPT ![t] = "INITIALIZED"]
           /\ cli' = [cli EXCEPT ![t] = "INITIALIZED"]
           /\ UNCHANGED state
  <2>1. ObjTypes' /\ StateStep(t)
    BY <1>1, <1>2 DEF IInv, ObjTypes, StateStep
  <2> QED
    BY <1>1, <2>1, KeptBy
<1>3. CASE state' = [state EXCEPT ![t] = "DELETED"] /\ UNCHANGED <<dflt, cli>>
  <2>1. ObjTypes' /\ StateStep(t)
    BY <1>1, <1>3 DEF IInv, ObjTypes, StateStep, Live, Created
  <2> QED
    BY <1>1, <2>1, KeptBy
<1> QED
  BY <1>2, <1>3 DEF ForgetInstance

(* Whatever a call does for an instance that exists.                       *)
LEMMA InstanceSteps ==
  ASSUME IInv, NEW t \in Tests, state[t] \in Live, NEW op, NEW arg, Proper(op, arg),
         OnInstance(op, arg, t), UNCHANGED spc
  PROVE  Kept(t)
<1>1. CASE op = "ready"
  BY <1>1, MadeReady DEF Proper, OnInstance
<1>2. CASE op \in {"enable", "disable"}
  <2>1. arg \in {"API", "CLI"} /\ (EnableInstance(t, arg, TRUE) \/ DisableInstance(t, arg, TRUE))
    BY <1>2 DEF Proper, OnInstance
  <2> QED
    BY <2>1, Enables, Disables
<1>3. CASE op \in {"default", "period"}
  BY <1>3, Defaults, SetsPeriod DEF Proper, OnInstance
<1>4. CASE op = "delete"
  BY <1>4, Deletes DEF OnInstance, DeleteInstance
<1>5. CASE op = "forget"
  BY <1>5, Forgets DEF OnInstance
<1> QED
  BY <1>1, <1>2, <1>3, <1>4, <1>5 DEF Proper

-----------------------------------------------------------------------------
(* The calls, except that of creating a test again.                        *)

(* A call that goes on for the other instances of its object.              *)
LEMMA Looping ==
  ASSUME NEW op, NEW arg, Proper(op, arg), NEW left, left \subseteq Members,
         \A t \in left : state'[t] \in Live, loop' = LoopFor(op, arg, left)
  PROVE  LoopTypes'
<1>1. CASE left = {}
  BY <1>1 DEF LoopFor, LoopTypes
<1>2. CASE loop' = [op |-> op, arg |-> arg, left |-> left]
  BY <1>2 DEF LoopTypes
<1> QED
  BY <1>1, <1>2 DEF LoopFor

(* One that has no more to do, or is done at once.                         *)
LEMMA NotLooping ==
  ASSUME LoopTypes, Unlocked, UNCHANGED loop
  PROVE  LoopTypes'
  BY DEF LoopTypes, Unlocked, NoLoop

(* A call on a whole object begins with its base instance.                 *)
LEMMA ObjectCalled ==
  ASSUME IInv, NEW b \in Tests, b \notin Members, NEW op, NEW arg, Proper(op, arg),
         state[b] \in Live \/ op = "forget", OnObject(op, arg, b), UNCHANGED spc
  PROVE  Kept(b) /\ LoopTypes'
<1>1. Kept(b)
  BY InstanceSteps, Forgets DEF OnObject, OnInstance
<1>2. LoopTypes'
  <2> DEFINE left == {t \in Members : Base[t] = b /\ state[t] \in Live}
  <2>1. loop' = LoopFor(op, arg, left)
    BY DEF OnObject
  <2>2. \A t \in left : t \in Tests \ {b} /\ state[t] \in Live
    BY DEF Members
  <2>3. \A t \in left : state'[t] \in Live
    BY <1>1, <2>2 DEF Kept, StateStep
  <2> HIDE DEF left
  <2>4. left \subseteq Members
    BY DEF left
  <2> QED
    BY <2>1, <2>3, <2>4, Looping
<1> QED
  BY <1>1, <1>2

(* It goes on with the next one.                                           *)
LEMMA Continues ==
  ASSUME IInv, Continue
  PROVE  LoopTypes' /\ \E t \in loop.left : Kept(t)
<1>1. PICK t \in loop.left : /\ OnInstance(loop.op, loop.arg, t)
                            /\ loop' = LoopFor(loop.op, loop.arg, loop.left \ {t})
  BY DEF Continue
<1>2. /\ Proper(loop.op, loop.arg) /\ loop.left \subseteq Members
      /\ \A u \in loop.left : u \in Tests /\ state[u] \in Live
  BY <1>1 DEF IInv, LoopTypes, NoLoop, Members
<1>3. Kept(t)
  BY <1>1, <1>2, InstanceSteps DEF Continue
<1>4. \A u \in loop.left \ {t} : state'[u] \in Live
  BY <1>2, <1>3 DEF Kept, StateStep
<1>5. LoopTypes'
  <2> DEFINE left == loop.left \ {t}
  <2>1. left \subseteq Members /\ (\A u \in left : state'[u] \in Live)
        /\ loop' = LoopFor(loop.op, loop.arg, left)
    BY <1>1, <1>2, <1>4
  <2> HIDE DEF left
  <2> QED
    BY <1>2, <2>1, Looping
<1> QED
  BY <1>3, <1>5

(* A test that does not exist, or is a forward reference, is created.      *)
LEMMA Creates ==
  ASSUME "recreate" \notin Calls, IInv, NEW t \in Tests, CreateTest(t), UNCHANGED spc
  PROVE  Kept(t)
<1>1. /\ state[t] = "ABSENT" /\ state' = [state EXCEPT ![t] = "CREATED"]
      /\ period' = [period EXCEPT ![t] = DefaultPeriod[t]]
      /\ queued' = [queued EXCEPT ![t] = "NONE"]
      /\ UNCHANGED <<dflt, cli, last, queue, due, timer, wake>>
  BY DEF CreateTest
<1>2. queued' = queued
  BY <1>1 DEF IInv, SchedInv, SchedTypes, QueueInv, NewOffQueue
<1>3. ObjTypes'
  BY <1>1, TestsAssumption DEF IInv, ObjTypes, Live, Created
<1>4. StateStep(t)
  BY <1>1 DEF IInv, ObjTypes, StateStep
<1> QED
  BY <1>1, <1>2, <1>3, <1>4, KeptBy DEF schedVars

(* A member instance may be queued as soon as it is created.               *)
LEMMA CreatesInstance ==
  ASSUME IInv, NEW t \in Tests, CreateInstance(t), UNCHANGED spc
  PROVE  Kept(t)
<1> DEFINE st == IF Inherited(t) = "INITIALIZED" THEN "CREATED" ELSE Inherited(t)
<1>1. /\ state[t] = "ABSENT" /\ UNCHANGED <<cli, period, last>>
      /\ state' = [state EXCEPT ![t] = st]
      /\ dflt' = [dflt EXCEPT ![t] = dflt[Base[t]]]
      /\ UNCHANGED schedVars \/ AddTest(t, Inherited(t), last[t], period[Base[t]])
  BY DEF CreateInstance
<1>2. st \in Created /\ (Inherited(t) # st => Inherited(t) # "ENABLED")
  BY DEF Inherited, Created
<1>3. UNCHANGED schedVars \/ AddTest(t, st, last[t], period[Base[t]])
  BY <1>1, <1>2 DEF AddTest, Wanted
<1> HIDE DEF st
<1>4. dflt[Base[t]] \in {"INITIALIZED", "ENABLED", "DISABLED"} /\ period[Base[t]] \in Classes
  BY TestsAssumption DEF IInv, ObjTypes
<1>5. ObjTypes' /\ st = state'[t]
  BY <1>1, <1>2, <1>4 DEF IInv, ObjTypes, Live
<1>6. StateStep(t)
  BY <1>1, <1>2 DEF IInv, ObjTypes, StateStep, Live
<1> QED
  BY <1>1, <1>3, <1>4, <1>5, <1>6, KeptBy

(* The test goes to the immediate queue, whose tests are all due.          *)
LEMMA AskedForAtOnce ==
  ASSUME IInv, NEW t \in Tests, TestImmediate(t), UNCHANGED spc
  PROVE  Kept(t)
<1> DEFINE tm == IF queued[t] = "NONE" THEN timer
                 ELSE TimerAfter(timer, HeadTimes(QueuesWithout(t), due))
<1>1. state[t] \in Live /\ UNCHANGED objVars /\ Enqueue(t, "IMMEDIATE", 0, tm)
  BY DEF TestImmediate
<1>2. ObjTypes' /\ StateStep(t) /\ state'[t] # "ABSENT"
  BY <1>1 DEF IInv, ObjTypes, StateStep, objVars, Live, Created
<1>3. tm \in Nat \cup {-1}
  <2>1. timer \in Nat \cup {-1} /\ due \in [Tests -> Nat]
    BY DEF IInv, SchedInv, SchedTypes
  <2>2. /\ QueuesWithout(t) \in [Queues -> Seq(Tests)]
        /\ \A p \in Queues : Sorted(QueuesWithout(t)[p], due)
    BY <1>1, Without DEF IInv
  <2> QED
    BY <2>1, <2>2, TimerInTime
<1> HIDE DEF tm
<1>4. "IMMEDIATE" \in Queues /\ 0 = LongestDelay("IMMEDIATE")
  BY DEF Queues, LongestDelay
<1>5. SchedInv' /\ OthersStay(t)
  BY <1>1, <1>2, <1>3, <1>4, Enqueued DEF IInv
<1> QED
  BY <1>2, <1>5 DEF Kept

-----------------------------------------------------------------------------
(* The jobs and the collector.                                             *)

(* A test function that returns is put back on a queue.                    *)
LEMMA Returns ==
  ASSUME IInv, NEW t \in Tests, TestReturns(t)
  PROVE  Kept(t) /\ LoopTypes'
<1>1. /\ UNCHANGED <<objVars, spc>> /\ Unlocked /\ UNCHANGED loop
      /\ AddTest(t, state[t], last[t], period[Base[t]]) \/ UNCHANGED schedVars
  BY DEF TestReturns
<1>2. ObjTypes' /\ StateStep(t) /\ state[t] = state'[t] /\ period[Base[t]] \in Classes
  BY <1>1, TestsAssumption DEF IInv, ObjTypes, StateStep, objVars
<1>3. Kept(t)
  BY <1>1, <1>2, KeptBy
<1> QED
  BY <1>1, <1>3, NotLooping DEF IInv

(* A job may put its test on a queue.                                      *)
LEMMA JobTaken ==
  ASSUME IInv, NEW t \in Tests, NEW e \in Events, JobStep(t, e)
  PROVE  Kept(t) /\ LoopTypes'
<1>1. Unlocked /\ UNCHANGED <<spc, loop>>
  BY DEF JobStep, RunTest, TakeResult, FeedBack, Begin
<1>2. CASE RunTest(t)
  <2>1. UNCHANGED <<objVars, schedVars>>
    BY <1>2 DEF RunTest
  <2>2. ObjTypes' /\ StateStep(t)
    BY <2>1 DEF IInv, ObjTypes, StateStep, objVars
  <2> QED
    BY <1>1, <2>1, <2>2, KeptBy, NotLooping DEF IInv
<1>3. CASE TakeResult(t, e)
  <2> DEFINE res == IF e = "AUTOPASS" THEN "PASS" ELSE e
  <2>1. /\ e \in {"PASS", "FAIL", "AUTOPASS"}
        /\ UNCHANGED <<state, dflt, cli, period>>
        /\ last' = last \/ last' = [last EXCEPT ![t] = res]
        /\ AddTest(t, state[t], res, period[Base[t]]) \/ UNCHANGED schedVars
    BY <1>3 DEF TakeResult
  <2>2. res \in {"PASS", "FAIL"}
    BY <2>1
  <2> HIDE DEF res
  <2>3. ObjTypes' /\ StateStep(t) /\ state[t] = state'[t] /\ period[Base[t]] \in Classes
    BY <2>1, <2>2, TestsAssumption DEF IInv, ObjTypes, StateStep
  <2>4. Kept(t)
    BY <1>1, <2>1, <2>3, KeptBy
  <2> QED
    BY <1>1, <2>4, NotLooping DEF IInv
<1>4. CASE FeedBack(t)
  <2>1. /\ UNCHANGED objVars
        /\ AddTest(t, state[t], last[t], period[Base[t]]) \/ UNCHANGED schedVars
    BY <1>4 DEF FeedBack
  <2>2. ObjTypes' /\ StateStep(t) /\ state[t] = state'[t] /\ period[Base[t]] \in Classes
    BY <2>1, TestsAssumption DEF IInv, ObjTypes, StateStep, objVars
  <2>3. Kept(t)
    BY <1>1, <2>1, <2>2, KeptBy
  <2> QED
    BY <1>1, <2>3, NotLooping DEF IInv
<1> QED
  BY <1>2, <1>3, <1>4 DEF JobStep

(* A test that is freed was not one of those that are looked at.           *)
LEMMA Collects ==
  ASSUME IInv, NEW t \in Tests, Collect(t)
  PROVE  Kept(t) /\ LoopTypes'
<1>1. /\ state[t] = "DELETED" /\ state' = [state EXCEPT ![t] = "FREED"]
      /\ UNCHANGED <<dflt, cli, period, last, schedVars, spc, loop>> /\ Unlocked
  BY DEF Collect
<1>2. ObjTypes' /\ StateStep(t)
  BY <1>1 DEF IInv, ObjTypes, StateStep, Live, Created
<1> QED
  BY <1>1, <1>2, KeptBy, NotLooping DEF IInv

-----------------------------------------------------------------------------
(* Nothing is queued at first.                                             *)
LEMMA Initially == Init => IInv
<1> SUFFICES ASSUME Init PROVE IInv
  OBVIOUS
<1>1. ObjTypes /\ LoopTypes
  BY TestsAssumption DEF Init, ObjTypes, LoopTypes
<1>2. SchedTypes
  <2>1. <<>> \in Seq(Tests)
    OBVIOUS
  <2>2. queue \in [Queues -> Seq(Tests)]
    BY <2>1, Zenon DEF Init
  <2> QED
    BY <2>2 DEF Init, SchedTypes
<1>3. \A q \in Queues : queue[q] = <<>>
  BY DEF Init
<1>4. \A q \in Queues : \A t : ~Contains(queue[q], t)
  BY <1>3 DEF Contains
<1>5. QueueConsistent /\ NewOffQueue
  BY <1>3, <1>4 DEF Init, QueueConsistent, Recorded, QueuedOnce, NewOffQueue, IsInjective,
                    Live, Created, Queues, Classes
<1>6. QueuesSorted /\ WithinPeriod /\ WakeupPending
  <2>1. \A q \in Queues : 1..Len(queue[q]) = {}
    BY <1>3
  <2> QED
    BY <2>1, <1>4 DEF QueuesSorted, Sorted, WithinPeriod, WakeupPending
<1> QED
  BY <1>1, <1>2, <1>5, <1>6 DEF IInv, SchedInv, QueueInv

(* The timer and the scheduler thread.                                     *)
LEMMA SchedulerSteps ==
  ASSUME IInv, SchedStep \/ TimerExpires \/ Tick
  PROVE  IInv'
<1>1. UNCHANGED <<objVars, loop>>
  BY DEF SchedStep, CreateTimer, FirstCheck, Wakeup, CheckQueues, TimerExpires, Tick
<1>2. ObjTypes' /\ LoopTypes'
  BY <1>1 DEF IInv, ObjTypes, LoopTypes, objVars
<1>3. CASE CreateTimer
  <2>1. UNCHANGED <<objVars, schedVars>> /\ spc' = "check"
    BY <1>3 DEF CreateTimer
  <2> QED
    BY <1>2, <2>1 DEF objVars, schedVars, IInv, SchedInv, SchedTypes, QueueInv,
                QueueConsistent, Recorded, QueuedOnce, QueuesSorted, WithinPeriod,
                NewOffQueue, WakeupPending
<1>4. CASE FirstCheck \/ Wakeup
  <2>1. CheckQueues /\ spc # "create" /\ spc' = "wait" /\ wake' \in BOOLEAN
    BY <1>4 DEF FirstCheck, Wakeup, IInv, SchedInv, SchedTypes
  <2>2. SchedInv'
    BY <2>1, Checked DEF IInv
  <2> QED
    BY <1>2, <2>2 DEF IInv
<1>5. CASE TimerExpires
  <2>1. /\ UNCHANGED <<objVars, queued, queue, due, spc>> /\ timer' = -1 /\ wake' = TRUE
    BY <1>5 DEF TimerExpires
  <2> QED
    BY <1>2, <2>1 DEF objVars, IInv, SchedInv, SchedTypes, QueueInv,
                QueueConsistent, Recorded, QueuedOnce, QueuesSorted, WithinPeriod,
                NewOffQueue, WakeupPending
<1>6. CASE Tick
  BY <1>2, <1>6, Ticked DEF IInv
<1> QED
  BY <1>3, <1>4, <1>5, <1>6 DEF SchedStep

(* A call that names an instance which there is, or makes it.              *)
Named(t) ==
  \/ \E by \in {"API", "CLI"} :
       /\ Alone(t)
       /\ \/ EnableInstance(t, by, Found(t) \in Created)
          \/ DisableInstance(t, by, Found(t) \in Created)
  \/ state[t] \in Created /\ DefaultInstance(t)
  \/ /\ cli' = [cli EXCEPT ![t] = "INITIALIZED"]
     /\ UNCHANGED <<state, dflt, period, last, schedVars>>
  \/ /\ state[t] \in Live /\ state' = [state EXCEPT ![t] = "DELETED"] /\ RemoveTest(t)
     /\ UNCHANGED <<dflt, cli, period, last>>

LEMMA NamedCalls ==
  ASSUME IInv, NEW t \in Tests, UNCHANGED <<spc, loop>>, Unlocked, Named(t)
  PROVE  Kept(t) /\ LoopTypes'
<1>0. UNCHANGED spc /\ UNCHANGED loop
  OBVIOUS
<1>1. LoopTypes'
  BY <1>0, NotLooping DEF IInv
<1>2. Alone(t) => state[t] \in Live \cup {"ABSENT"}
  BY DEF Alone, Live
<1>3. ASSUME Alone(t), NEW by \in {"API", "CLI"},
             \/ EnableInstance(t, by, Found(t) \in Created)
             \/ DisableInstance(t, by, Found(t) \in Created)
      PROVE  Kept(t)
  <2>1. (Found(t) \in Created) \in BOOLEAN
    OBVIOUS
  <2> QED
    BY <1>0, <1>2, <1>3, <2>1, Enables, Disables
<1>4. CASE state[t] \in Created /\ DefaultInstance(t)
  BY <1>0, <1>1, <1>4, Defaults DEF Live
<1>5. CASE /\ cli' = [cli EXCEPT ![t] = "INITIALIZED"]
           /\ UNCHANGED <<state, dflt, period, last, schedVars>>
  <2>1. ObjTypes' /\ StateStep(t)
    BY <1>5 DEF IInv, ObjTypes, StateStep
  <2> QED
    BY <1>0, <1>1, <1>5, <2>1, KeptBy
<1>6. CASE /\ state[t] \in Live /\ state' = [state EXCEPT ![t] = "DELETED"] /\ RemoveTest(t)
           /\ UNCHANGED <<dflt, cli, period, last>>
  BY <1>0, <1>1, <1>6, Deletes
<1> QED
  BY <1>1, <1>3, <1>4, <1>5, <1>6 DEF Named

(* Every call is a step about one instance.                                *)
LEMMA CallSteps ==
  ASSUME "recreate" \notin Calls, IInv, NEW t \in Tests, Call(t)
  PROVE  LoopTypes' /\ \E u \in Tests : Kept(u)
<1>1. UNCHANGED spc /\ Unlocked
  BY DEF Call
<1>2. CASE \E res \in {"PASS", "FAIL"} : Notify(t, res)
  <2>1. UNCHANGED <<objVars, schedVars, loop>>
    BY <1>2 DEF Notify
  <2>2. ObjTypes' /\ StateStep(t)
    BY <2>1 DEF objVars, IInv, ObjTypes, StateStep
  <2> QED
    BY <1>1, <2>1, <2>2, KeptBy, NotLooping DEF IInv
<1>3. CASE CreateTest(t) \/ CreateInstance(t) \/ TestImmediate(t)
  <2>1. UNCHANGED loop
    BY <1>3 DEF CreateTest, CreateInstance, TestImmediate
  <2>2. Kept(t)
    BY <1>1, <1>3, Creates, CreatesInstance, AskedForAtOnce
  <2> QED
    BY <1>1, <2>1, <2>2, NotLooping DEF IInv
<1>4. ASSUME NEW b \in Tests, b \notin Members, NEW op, NEW arg, Proper(op, arg),
             state[b] \in Live \/ op = "forget", OnObject(op, arg, b)
      PROVE  LoopTypes' /\ \E u \in Tests : Kept(u)
  BY <1>1, <1>4, ObjectCalled
<1>5. CASE t \notin Members /\ ChainReady(t)
  <2>1. PICK sys \in {"ENABLED", "DISABLED"} : OnObject("ready", sys, t)
    BY <1>5 DEF ChainReady
  <2>2. Proper("ready", sys) /\ state[t] \in Live
    BY <1>5 DEF Proper, ChainReady, Live
  <2> QED
    BY <1>4, <1>5, <2>1, <2>2
<1>6. ASSUME NEW by \in {"API", "CLI"}, Enable(t, by) \/ Disable(t, by)
      PROVE  LoopTypes' /\ \E u \in Tests : Kept(u)
  <2>1. CASE t \notin Members /\ state[t] \in Created
             /\ (OnObject("enable", by, t) \/ OnObject("disable", by, t))
    <3>1. Proper("enable", by) /\ Proper("disable", by) /\ state[t] \in Live
      BY <2>1 DEF Proper, Live
    <3> QED
      BY <1>4, <2>1, <3>1
  <2>2. CASE /\ Alone(t) /\ UNCHANGED loop
             /\ \/ EnableInstance(t, by, Found(t) \in Created)
                \/ DisableInstance(t, by, Found(t) \in Created)
    BY <1>1, <2>2, NamedCalls DEF Named
  <2> QED
    BY <1>6, <2>1, <2>2 DEF Enable, Disable
<1>7. CASE Default(t)
  <2>1. CASE t \notin Members /\ state[t] \in Created /\ OnObject("default", "none", t)
    <3>1. Proper("default", "none") /\ state[t] \in Live
      BY <2>1 DEF Proper, Live
    <3> QED
      BY <1>4, <2>1, <3>1
  <2>2. CASE OnObject("forget", "none", Base[t])
    <3>1. Base[t] \in Tests /\ Base[t] \notin Members /\ Proper("forget", "none")
      BY TestsAssumption DEF Members, Proper
    <3> QED
      BY <1>4, <2>2, <3>1
  <2>3. CASE \/ state[t] \in Created /\ DefaultInstance(t) /\ UNCHANGED loop
             \/ /\ cli' = [cli EXCEPT ![t] = "INITIALIZED"]
                /\ UNCHANGED <<state, dflt, period, last, schedVars, loop>>
    BY <1>1, <2>3, NamedCalls DEF Named
  <2> QED
    BY <1>7, <2>1, <2>2, <2>3 DEF Default
<1>8. ASSUME NEW p \in Classes, SetPeriod(t, p)
      PROVE  LoopTypes' /\ \E u \in Tests : Kept(u)
  BY <1>4, <1>8 DEF SetPeriod, Proper
<1>9. CASE Delete(t)
  <2>1. CASE t \notin Members /\ state[t] \in Live /\ OnObject("delete", "none", t)
    BY <1>4, <2>1 DEF Proper
  <2>2. CASE /\ state[t] \in Live /\ state' = [state EXCEPT ![t] = "DELETED"] /\ RemoveTest(t)
             /\ UNCHANGED <<dflt, cli, period, last, loop>>
    BY <1>1, <2>2, NamedCalls DEF Named
  <2> QED
    BY <1>9, <2>1, <2>2 DEF Delete
<1> QED
  BY <1>2, <1>3, <1>5, <1>6, <1>7, <1>8, <1>9 DEF Call

(* Every step keeps the invariant.                                         *)
LEMMA Inductive ==
  ASSUME "recreate" \notin Calls
  PROVE  IInv /\ [Next]_vars => IInv'
<1> SUFFICES ASSUME IInv, [Next]_vars PROVE IInv'
  OBVIOUS
<1>1. CASE SchedStep \/ TimerExpires \/ Tick
  BY <1>1, SchedulerSteps
<1>2. CASE \E t \in Tests : Call(t)
  <2>1. LoopTypes' /\ \E u \in Tests : Kept(u)
    BY <1>2, CallSteps
  <2> QED
    BY <2>1 DEF Kept, IInv
<1>3. CASE \E t \in Tests : TestReturns(t) \/ Collect(t) \/ \E e \in Events : JobStep(t, e)
  <2>1. LoopTypes' /\ \E u \in Tests : Kept(u)
    BY <1>3, Returns, Collects, JobTaken
  <2> QED
    BY <2>1 DEF Kept, IInv
<1>4. CASE Continue
  <2>1. LoopTypes' /\ \E u \in loop.left : Kept(u)
    BY <1>4, Continues
  <2> QED
    BY <2>1 DEF Kept, IInv
<1>5. CASE UNCHANGED vars
  BY <1>5 DEF vars, objVars, schedVars, IInv, ObjTypes, LoopTypes, SchedInv, SchedTypes, QueueInv,
              QueueConsistent, Recorded, QueuedOnce, QueuesSorted, WithinPeriod,
              NewOffQueue, WakeupPending
<1> QED
  BY <1>1, <1>2, <1>3, <1>4, <1>5 DEF Next

(* The inductive invariant holds throughout, for any calls that create no  *)
(* test again; the three theorems below are parts of it.                   *)
THEOREM Invariance ==
  ASSUME "recreate" \notin Calls
  PROVE  Spec => []IInv
  BY Initially, Inductive, PTL DEF Spec

(* Whatever the calls, as long as no test is created again: each queue is  *)
(* consistent with what its tests record, so that removing a test works    *)
(* (swdiag_sched_remove_test) and none is queued twice.                    *)
THEOREM QueuesAgree ==
  ASSUME "recreate" \notin Calls
  PROVE  Spec => []QueueConsistent
<1>1. IInv => QueueConsistent
  BY DEF IInv, SchedInv, QueueInv
<1> QED
  BY <1>1, Initially, Inductive, PTL DEF Spec

(* Looking at the heads of the queues, as check_queue_test_times does,     *)
(* misses no test that is due.                                             *)
THEOREM HeadsSuffice ==
  ASSUME "recreate" \notin Calls
  PROVE  Spec => []QueuesSorted
<1>1. IInv => QueuesSorted
  BY DEF IInv, SchedInv, QueueInv
<1> QED
  BY <1>1, Initially, Inductive, PTL DEF Spec

(* The timer that check_test_start_timer leaves running, or the release of *)
(* the scheduler thread, comes in time for every queued test.              *)
THEOREM NoWakeupLost ==
  ASSUME "recreate" \notin Calls
  PROVE  Spec => []WakeupPending
<1>1. IInv => WakeupPending
  BY DEF IInv, SchedInv
<1> QED
  BY <1>1, Initially, Inductive, PTL DEF Spec

-----------------------------------------------------------------------------
(* Counting the jobs.                                                      *)

(* A test has finitely many due entries, and at least one if it is started. *)
LEMMA DueEntriesCounted ==
  ASSUME SchedInv, NEW u \in Tests, DueEntries(u) # {}
  PROVE  Cardinality(DueEntries(u)) - 1 \in Nat
<1> DEFINE E(q) == {<<q, i>> : i \in {k \in 1..DueCount(q) : queue[q][k] = u}}
<1>1. ASSUME NEW q \in Queues
      PROVE  IsFiniteSet(E(q))
  <2>1. DueCount(q) \in Int
    BY DueInFront DEF SchedInv, SchedTypes
  <2>2. IsFiniteSet(1..DueCount(q))
    BY <2>1, FS_Interval
  <2>5. IsFiniteSet({q})
    BY FS_Singleton
  <2>3. IsFiniteSet({q} \X (1..DueCount(q)))
    BY <2>2, <2>5, FS_Product
  <2>4. E(q) \subseteq {q} \X (1..DueCount(q))
    OBVIOUS
  <2> QED
    BY <2>3, <2>4, FS_Subset
<1>2. DueEntries(u) = UNION {E(q) : q \in Queues}
  BY DEF DueEntries
<1> HIDE DEF E
<1>3. DueEntries(u) = E("FAST") \cup E("NORMAL") \cup E("SLOW") \cup E("USER") \cup E("IMMEDIATE")
  BY <1>2 DEF Queues, Classes
<1>4. IsFiniteSet(DueEntries(u))
  <2>1. "FAST" \in Queues /\ "NORMAL" \in Queues /\ "SLOW" \in Queues /\ "USER" \in Queues
        /\ "IMMEDIATE" \in Queues
    BY DEF Queues, Classes
  <2> QED
    BY <1>1, <1>3, <2>1, FS_Union
<1>5. Cardinality(DueEntries(u)) \in Nat /\ Cardinality(DueEntries(u)) # 0
  BY <1>4, FS_CardinalityType, FS_EmptySet
<1> QED
  BY <1>5

(* A call gives the thread pool no job, unless it notifies a result.       *)
LEMMA InstanceJobs ==
  ASSUME NEW t \in Tests, NEW op, NEW arg, OnInstance(op, arg, t)
  PROVE  UNCHANGED jobVars
  BY DEF OnInstance, ReadyInstance, EnableInstance, DisableInstance, DefaultInstance,
         PeriodInstance, DeleteInstance, ForgetInstance

LEMMA CallJobs ==
  ASSUME NEW t \in Tests, Call(t), ~\E res \in {"PASS", "FAIL"} : Notify(t, res)
  PROVE  UNCHANGED jobVars
<1>1. ASSUME NEW op, NEW arg, OnObject(op, arg, t) \/ OnObject(op, arg, Base[t])
      PROVE  UNCHANGED jobVars
  BY <1>1, TestsAssumption, InstanceJobs DEF OnObject
<1>2. ASSUME NEW by, Enable(t, by) \/ Disable(t, by)
      PROVE  UNCHANGED jobVars
  BY <1>1, <1>2 DEF Enable, Disable, EnableInstance, DisableInstance
<1>3. CASE Default(t) \/ ChainReady(t) \/ Delete(t) \/ \E p \in Classes : SetPeriod(t, p)
  BY <1>1, <1>3 DEF Default, DefaultInstance, ChainReady, Delete, SetPeriod
<1>4. CASE CreateTest(t) \/ CreateInstance(t) \/ TestImmediate(t)
  BY <1>4 DEF CreateTest, CreateInstance, TestImmediate
<1> QED
  BY <1>2, <1>3, <1>4 DEF Call

(* No job is begun that was not there, and no function returns twice.      *)
LEMMA JobsCounted ==
  ASSUME IInv, JobTypes, [Next]_vars
  PROVE  JobTypes'
<1> USE DEF JobTypes
<1>1. CASE UNCHANGED <<jobVars, calls>>
  BY <1>1 DEF jobVars
<1>2. CASE FirstCheck \/ Wakeup
  <2>1. /\ UNCHANGED <<running, awaiting, calls>>
        /\ jobs' = [t \in Tests |->
             IF t \notin {u \in Tests : DueEntries(u) # {} /\ state[u] \in Live} THEN jobs[t]
             ELSE [e \in Events |-> jobs[t][e] + StartJobs(t, e)]]
    BY <1>2 DEF FirstCheck, Wakeup, CheckQueues
  <2>2. ASSUME NEW t \in Tests, DueEntries(t) # {}, NEW e \in Events
        PROVE  jobs[t][e] + StartJobs(t, e) \in Nat
    <3>1. Cardinality(DueEntries(t)) - 1 \in Nat
      BY <2>2, DueEntriesCounted DEF IInv
    <3>2. StartJobs(t, e) \in Nat
      BY <3>1 DEF StartJobs
    <3> QED
      BY <3>2
  <2>3. jobs' \in [Tests -> [Events -> Nat]]
    BY <2>1, <2>2
  <2> QED
    BY <2>1, <2>3
<1>3. ASSUME NEW t \in Tests, Call(t)
      PROVE  JobTypes'
  <2>1. calls' \in Nat
    BY <1>3 DEF Call
  <2>2. CASE UNCHANGED jobVars
    BY <2>1, <2>2 DEF jobVars
  <2>3. ASSUME NEW res \in {"PASS", "FAIL"}, Notify(t, res)
        PROVE  JobTypes'
    <3>1. /\ jobs' = [jobs EXCEPT ![t][res] = @ + 1]
          /\ awaiting' = [awaiting EXCEPT ![t] = FALSE] /\ running' = running /\ res \in Events
      BY <2>3 DEF Notify, Events
    <3> QED
      BY <2>1, <3>1
  <2> QED
    BY <1>3, <2>2, <2>3, CallJobs
<1>4. ASSUME NEW t \in Tests, TestReturns(t)
      PROVE  JobTypes'
  <2>1. /\ running[t] > 0 /\ running' = [running EXCEPT ![t] = @ - 1]
        /\ awaiting' = awaiting \/ awaiting' = [awaiting EXCEPT ![t] = TRUE]
        /\ UNCHANGED <<jobs, calls>>
    BY <1>4 DEF TestReturns
  <2>2. running' \in [Tests -> Nat]
    BY <2>1
  <2>3. awaiting' \in [Tests -> BOOLEAN]
    BY <2>1
  <2> QED
    BY <2>1, <2>2, <2>3
<1>5. ASSUME NEW t \in Tests, NEW e \in Events, JobStep(t, e)
      PROVE  JobTypes'
  <2>1. PICK f \in Events :
          /\ Begin(t, f) /\ awaiting' = awaiting
          /\ running' = running \/ running' = [running EXCEPT ![t] = @ + 1]
    BY <1>5 DEF JobStep, RunTest, TakeResult, FeedBack, Events
  <2>2. jobs[t][f] > 0 /\ jobs' = [jobs EXCEPT ![t][f] = @ - 1] /\ calls' = calls
    BY <2>1 DEF Begin
  <2>3. jobs' \in [Tests -> [Events -> Nat]]
    BY <2>2
  <2> QED
    BY <2>1, <2>2, <2>3
<1>6. CASE Continue
  <2>1. loop.left \subseteq Tests
    BY DEF IInv, LoopTypes, NoLoop, Members
  <2> QED
    BY <1>1, <1>6, <2>1, InstanceJobs DEF Continue
<1> QED
  BY <1>1, <1>2, <1>3, <1>4, <1>5, <1>6
     DEF Next, SchedStep, CreateTimer, TimerExpires, Tick, Collect, vars, jobVars

(* Every variable keeps its type: above all no count of jobs or of running *)
(* test functions falls below zero.                                        *)
THEOREM TypeCorrect ==
  ASSUME "recreate" \notin Calls
  PROVE  Spec => []TypeOK
<1>1. Init => JobTypes
  BY CallsAssumption DEF Init, JobTypes
<1>2. IInv /\ JobTypes => TypeOK
  BY DEF IInv, SchedInv, TypeOK
<1>3. IInv /\ JobTypes /\ [Next]_vars => JobTypes'
  BY JobsCounted
<1> QED
  BY <1>1, <1>2, <1>3, Initially, Inductive, PTL DEF Spec

-----------------------------------------------------------------------------
(* Tests and the queues, as the calls of the API leave them.               *)

(* The CLI has asked for nothing, and the state of a test is the one that  *)
(* the API asked for last.                                                 *)
AsAsked ==
  \A t \in Tests :
    /\ cli[t] = "INITIALIZED"
    /\ state[t] \in {"ENABLED", "DISABLED"} => dflt[t] = state[t]

(* Nor has it made the call that is under way.                             *)
ByApi == loop.op \notin {"default", "forget"} /\ loop.arg # "CLI"

ApiInv == AsAsked /\ ByApi /\ DisabledOffQueue

(* What is known of a test before a step about it.                         *)
Before(t) ==
  /\ period[Base[t]] \in Classes
  /\ queued \in [Tests -> Queues \cup {"NONE"}]
  /\ state \in [Tests -> Live \cup {"ABSENT", "DELETED", "FREED"}]
  /\ dflt \in [Tests -> {"INITIALIZED", "ENABLED", "DISABLED"}]
  /\ cli \in [Tests -> {"INITIALIZED", "ENABLED", "DISABLED"}]
  /\ cli[t] = "INITIALIZED"
  /\ state[t] \in {"ENABLED", "DISABLED"} => dflt[t] = state[t]
  /\ t \in Polled /\ state[t] # "ENABLED" => queued[t] = "NONE"

LEMMA IsBefore ==
  ASSUME IInv, ApiInv, NEW t \in Tests
  PROVE  Before(t)
  BY TestsAssumption
     DEF IInv, ObjTypes, SchedInv, SchedTypes, ApiInv, AsAsked, DisabledOffQueue, Before

(* What the step leaves: a test that the API has not enabled is on no      *)
(* queue, neither by its record nor, if it is gone, in any list;           *)
Quiet(t) ==
  /\ \A u \in Tests \ {t} : queued'[u] = queued[u] /\ dflt'[u] = dflt[u] /\ cli'[u] = cli[u]
  /\ cli'[t] = "INITIALIZED"
  /\ state'[t] \in {"ENABLED", "DISABLED"} => dflt'[t] = state'[t]
  /\ t \in Polled /\ state'[t] # "ENABLED" => queued'[t] = "NONE"
  /\ t \in Polled /\ state'[t] \in {"DELETED", "FREED"} =>
       \A q \in Queues : ~Contains(queue'[q], t)

(* and one that is enabled, as its object is, is on one.                   *)
Scheduled(t) ==
  t \in Polled /\ state'[t] = "ENABLED" /\ state'[Base[t]] = "ENABLED" => queued'[t] # "NONE"

(* A step about one test keeps the invariant if it leaves that one so.     *)
LEMMA OneMoved ==
  ASSUME ApiInv, IInv', NEW t \in Tests, StateStep(t), OthersStay(t), Quiet(t), ByApi'
  PROVE  ApiInv'
<1>1. AsAsked'
  BY DEF ApiInv, AsAsked, StateStep, Quiet
<1>2. ASSUME NEW u \in Polled, state'[u] # "ENABLED"
      PROVE  queued'[u] = "NONE" /\ \A q \in Queues : ~Contains(queue'[q], u)
  <2>1. u \in Tests
    BY TestsAssumption
  <2>2. CASE u # t
    BY <1>2, <2>1, <2>2 DEF ApiInv, DisabledOffQueue, StateStep, OthersStay, Quiet
  <2>3. CASE u = t
    <3>1. queued'[u] = "NONE" /\ "NONE" \notin Queues
      BY <1>2, <2>3 DEF Quiet, Queues, Classes
    <3>2. CASE state'[u] \in Live
      BY <2>1, <3>1, <3>2 DEF IInv, SchedInv, QueueInv, QueueConsistent, Recorded
    <3>3. CASE state'[u] = "ABSENT"
      BY <2>1, <3>1, <3>3 DEF IInv, SchedInv, QueueInv, NewOffQueue
    <3>4. CASE state'[u] \in {"DELETED", "FREED"}
      BY <2>3, <3>1, <3>4 DEF Quiet
    <3> QED
      BY <2>1, <3>2, <3>3, <3>4 DEF IInv, ObjTypes
  <2> QED
    BY <2>2, <2>3
<1> QED
  BY <1>1, <1>2 DEF ApiInv, DisabledOffQueue

(* What swdiag_sched_add_test does to the record of each test.             *)
LEMMA AddedRecord ==
  ASSUME queued \in [Tests -> Queues \cup {"NONE"}], NEW t \in Tests,
         NEW st, NEW res, NEW p \in Classes, AddTest(t, st, res, p)
  PROVE  /\ \A u \in Tests \ {t} : queued'[u] = queued[u]
         /\ st # "ENABLED" => UNCHANGED schedVars
         /\ st = "ENABLED" /\ t \in Polled => queued'[t] # "NONE"
<1> DEFINE q == QueueFor(t, p)
<1>1. q \in Queues /\ q # "NONE"
  BY DEF Queues, Classes, QueueFor
<1> HIDE DEF q
<1>2. CASE UNCHANGED schedVars /\ (st = "ENABLED" /\ t \in Polled => queued[t] = q)
  BY <1>1, <1>2 DEF schedVars
<1>3. CASE st = "ENABLED" /\ queued' = [queued EXCEPT ![t] = q]
  BY <1>1, <1>3
<1> QED
  BY <1>2, <1>3 DEF AddTest, Enqueue, Wanted, q

(* What swdiag_sched_remove_test does to it.                               *)
LEMMA RemovedRecord ==
  ASSUME queued \in [Tests -> Queues \cup {"NONE"}], NEW t \in Tests, RemoveTest(t)
  PROVE  queued'[t] = "NONE" /\ \A u \in Tests \ {t} : queued'[u] = queued[u]
  BY DEF RemoveTest

(* Scheduling a test as its new state wants it leaves it so.               *)
LEMMA AddedQuietly ==
  ASSUME NEW t \in Tests, Before(t), NEW st, NEW res, NEW p \in Classes, st = state'[t],
         st \in Live \cup {"ABSENT"}, st # "ENABLED" => state[t] # "ENABLED",
         st \in {"ENABLED", "DISABLED"} => dflt'[t] = st,
         \A u \in Tests \ {t} : dflt'[u] = dflt[u] /\ cli'[u] = cli[u],
         cli'[t] = "INITIALIZED",
         \/ AddTest(t, st, res, p)
         \/ UNCHANGED schedVars /\ ~(t \in Polled /\ st = "ENABLED" /\ state'[Base[t]] = "ENABLED")
  PROVE  Quiet(t) /\ Scheduled(t)
<1>1. CASE AddTest(t, st, res, p)
  <2>1. /\ \A u \in Tests \ {t} : queued'[u] = queued[u]
        /\ st # "ENABLED" => UNCHANGED schedVars
        /\ st = "ENABLED" /\ t \in Polled => queued'[t] # "NONE"
    BY <1>1, AddedRecord DEF Before
  <2> QED
    BY <2>1 DEF Before, Quiet, Scheduled, Live, Created, schedVars
<1>2. CASE UNCHANGED schedVars /\ ~(t \in Polled /\ st = "ENABLED" /\ state'[Base[t]] = "ENABLED")
  BY <1>2 DEF Before, Quiet, Scheduled, Live, Created, schedVars
<1> QED
  BY <1>1, <1>2

(* Taking off its queue a test that is not enabled does.                   *)
LEMMA RemovedQuietly ==
  ASSUME IInv, NEW t \in Tests, Before(t), StateStep(t), state[t] \in Live \cup {"ABSENT"},
         RemoveTest(t), UNCHANGED spc, state'[t] # "ENABLED" \/ t \notin Polled,
         state'[t] \in {"ENABLED", "DISABLED"} => dflt'[t] = state'[t],
         \A u \in Tests \ {t} : dflt'[u] = dflt[u] /\ cli'[u] = cli[u],
         cli'[t] = "INITIALIZED"
  PROVE  Quiet(t) /\ Scheduled(t)
<1>1. queued'[t] = "NONE" /\ \A u \in Tests \ {t} : queued'[u] = queued[u]
  BY RemovedRecord DEF Before
<1>2. \A q \in Queues : ~Contains(queue'[q], t)
  BY Removed DEF IInv
<1> QED
  BY <1>1, <1>2 DEF Quiet, Scheduled

(* The API enables or disables a test, and that takes effect or it is only *)
(* referred to.                                                            *)
LEMMA SetQuietly ==
  ASSUME IInv, ApiInv, NEW t \in Tests, NEW effective \in BOOLEAN,
         effective \/ Found(t) \notin Created, state[t] \in Live \cup {"ABSENT"},
         EnableInstance(t, "API", effective) \/ DisableInstance(t, "API", effective),
         UNCHANGED spc
  PROVE  Quiet(t) /\ Scheduled(t)
<1>1. Before(t)
  BY IsBefore
<1>2. PICK st \in {"ENABLED", "DISABLED"} :
        /\ SetState(t, st, "API", effective)
        /\ \/ st = "ENABLED" /\ EnableInstance(t, "API", effective)
           \/ st = "DISABLED" /\ DisableInstance(t, "API", effective)
  BY DEF EnableInstance, DisableInstance
<1>3. /\ \A u \in Tests \ {t} : dflt'[u] = dflt[u] /\ cli'[u] = cli[u] /\ state'[u] = state[u]
      /\ cli'[t] = "INITIALIZED" /\ dflt'[t] = st
      /\ state'[t] = IF effective THEN st ELSE Found(t)
  BY <1>1, <1>2 DEF SetState, Before
<1>4. CASE effective /\ st = "ENABLED"
  <2>1. IF t \in Polled THEN AddTest(t, state'[t], last[t], period[Base[t]]) ELSE UNCHANGED schedVars
    BY <1>2, <1>4 DEF EnableInstance
  <2> QED
    BY <1>1, <1>3, <1>4, <2>1, AddedQuietly DEF Before, Live, Created
<1>5. CASE effective /\ st = "DISABLED"
  <2>1. IF t \in Polled THEN RemoveTest(t) ELSE UNCHANGED schedVars
    BY <1>2, <1>5 DEF DisableInstance
  <2>2. StateStep(t)
    BY <1>3, <1>5 DEF StateStep
  <2>3. CASE RemoveTest(t)
    BY <1>1, <1>3, <1>5, <2>2, <2>3, RemovedQuietly
  <2>4. CASE t \notin Polled /\ UNCHANGED schedVars
    BY <1>1, <1>3, <1>5, <2>4 DEF Quiet, Scheduled, schedVars
  <2> QED
    BY <2>1, <2>3, <2>4
<1>6. CASE ~effective
  <2>1. UNCHANGED schedVars /\ state'[t] \in {"INITIALIZED", "ABSENT"} /\ state[t] # "ENABLED"
    BY <1>1, <1>2, <1>3, <1>6
       DEF EnableInstance, DisableInstance, Found, Inherited, Live, Created
  <2> QED
    BY <1>1, <1>3, <2>1 DEF Before, Quiet, Scheduled, schedVars
<1> QED
  BY <1>4, <1>5, <1>6

(* Whatever else the API does to an instance of an object.                 *)
LEMMA InstanceQuiet ==
  ASSUME IInv, ApiInv, NEW t \in Tests, state[t] \in Live, NEW op, NEW arg, Proper(op, arg),
         op \notin {"default", "forget"}, arg # "CLI", OnInstance(op, arg, t), UNCHANGED spc
  PROVE  Quiet(t) /\ Scheduled(t)
<1>1. Before(t) /\ Kept(t)
  BY IsBefore, InstanceSteps
<1>2. CASE op = "ready"
  <2> DEFINE d  == IF state[t] \in Created /\ dflt[t] = "INITIALIZED" THEN arg ELSE dflt[t]
             st == IF state[t] \in Created THEN d ELSE state[t]
  <2>1. /\ arg \in {"ENABLED", "DISABLED"} /\ cli' = cli
        /\ state' = [state EXCEPT ![t] = st] /\ dflt' = [dflt EXCEPT ![t] = d]
        /\ IF t \in Polled /\ state'[Base[t]] = "ENABLED"
           THEN AddTest(t, st, last[t], period[Base[t]]) ELSE UNCHANGED schedVars
    BY <1>1, <1>2 DEF Proper, OnInstance, ReadyInstance, Before
  <2>2. /\ st \in Live /\ (state[t] \in Created => st \in {"ENABLED", "DISABLED"})
        /\ st \in {"ENABLED", "DISABLED"} => d = st
        /\ st # "ENABLED" => state[t] # "ENABLED"
    BY <1>1, <2>1 DEF Before, Live, Created
  <2> HIDE DEF d, st
  <2>3. /\ \A u \in Tests \ {t} : dflt'[u] = dflt[u] /\ cli'[u] = cli[u]
        /\ cli'[t] = "INITIALIZED" /\ dflt'[t] = d /\ state'[t] = st
    BY <1>1, <2>1 DEF Before
  <2> QED
    BY <1>1, <2>1, <2>2, <2>3, AddedQuietly DEF Before
<1>3. CASE op \in {"enable", "disable"}
  <2>1. EnableInstance(t, "API", TRUE) \/ DisableInstance(t, "API", TRUE)
    BY <1>3 DEF Proper, OnInstance
  <2> QED
    BY <2>1, SetQuietly
<1>4. CASE op = "period"
  <2>1. /\ UNCHANGED <<state, dflt, cli>> /\ arg \in Classes
        /\ \/ /\ Wanted(t, state[t], last[t])
              /\ Enqueue(t, QueueFor(t, arg), DelayOf(t, arg), timer)
           \/ ~Wanted(t, state[t], last[t]) /\ RemoveTest(t)
    BY <1>4 DEF Proper, OnInstance, PeriodInstance
  <2>2. CASE Wanted(t, state[t], last[t]) /\ Enqueue(t, QueueFor(t, arg), DelayOf(t, arg), timer)
    <3>1. /\ queued' = [queued EXCEPT ![t] = QueueFor(t, arg)]
          /\ QueueFor(t, arg) \in Classes /\ "NONE" \notin Classes /\ state[t] = "ENABLED"
      BY <2>1, <2>2 DEF Enqueue, QueueFor, Classes, Wanted
    <3> QED
      BY <1>1, <2>1, <3>1 DEF Before, Quiet, Scheduled
  <2>3. CASE ~Wanted(t, state[t], last[t]) /\ RemoveTest(t)
    <3>1. state'[t] # "ENABLED" \/ t \notin Polled
      BY <2>1, <2>3 DEF Wanted
    <3> QED
      BY <1>1, <2>1, <2>3, <3>1, RemovedQuietly DEF Before, Kept
  <2> QED
    BY <2>1, <2>2, <2>3
<1>5. CASE op = "delete"
  <2>1. /\ state' = [state EXCEPT ![t] = "DELETED"] /\ UNCHANGED <<dflt, cli>>
        /\ RemoveTest(t) \/ (t \notin Polled /\ UNCHANGED schedVars)
    BY <1>5 DEF Proper, OnInstance, DeleteInstance
  <2>2. state'[t] = "DELETED"
    BY <1>1, <2>1 DEF Before
  <2>3. CASE RemoveTest(t)
    BY <1>1, <2>1, <2>2, <2>3, RemovedQuietly DEF Before, Kept
  <2>4. CASE t \notin Polled /\ UNCHANGED schedVars
    BY <1>1, <2>1, <2>2, <2>4 DEF Before, Quiet, Scheduled, schedVars
  <2> QED
    BY <2>1, <2>3, <2>4
<1> QED
  BY <1>2, <1>3, <1>4, <1>5 DEF Proper

(* The instances that a call has still to come to, after a step about t:   *)
(* those that it had, and those of the object that t has enabled.          *)
GoesOn(t) ==
  \A u \in Tests \ {t} :
    (\/ u \in loop.left
     \/ Base[u] = t /\ state[u] = "ENABLED" /\ state'[t] = "ENABLED" /\ state[t] # "ENABLED")
    => u \in loop'.left

(* All that a step about t does, without the CLI.                          *)
Orderly(t) == StateStep(t) /\ OthersStay(t) /\ Quiet(t) /\ ByApi'

(* A call of the API on a whole object.                                    *)
LEMMA ObjectQuiet ==
  ASSUME IInv, ApiInv, Unlocked, NEW b \in Tests, b \notin Members, state[b] \in Live,
         NEW op, NEW arg, Proper(op, arg), op \notin {"default", "forget"}, arg # "CLI",
         OnObject(op, arg, b), UNCHANGED spc
  PROVE  Orderly(b) /\ Scheduled(b) /\ GoesOn(b)
<1>1. OnInstance(op, arg, b)
  BY DEF OnObject
<1>2. Kept(b) /\ Quiet(b) /\ Scheduled(b)
  BY <1>1, InstanceSteps, InstanceQuiet
<1>3. loop' = LoopFor(op, arg, {t \in Members : Base[t] = b /\ state[t] \in Live})
  BY DEF OnObject
<1>4. ByApi'
  BY <1>3 DEF ByApi, LoopFor, NoLoop
<1>5. GoesOn(b)
  BY <1>3 DEF GoesOn, Unlocked, LoopFor, NoLoop, Members, Live, Created
<1> QED
  BY <1>2, <1>4, <1>5 DEF Orderly, Kept

(* The calls of the API.                                                   *)
LEMMA CallQuiet ==
  ASSUME "cli" \notin Calls, "recreate" \notin Calls, IInv, ApiInv, NEW t \in Tests, Call(t)
  PROVE  Orderly(t) /\ GoesOn(t) /\ (Scheduled(t) \/ \E res \in {"PASS", "FAIL"} : Notify(t, res))
<1>1. UNCHANGED spc /\ Unlocked
  BY DEF Call
<1>2. Before(t)
  BY IsBefore
<1>3. ASSUME UNCHANGED loop, t \in Members \/ state'[t] # "ENABLED" \/ state[t] = "ENABLED"
      PROVE  ByApi' /\ GoesOn(t)
  <2>1. \A u \in Tests : u \notin loop.left
    BY <1>1 DEF Unlocked
  <2>2. \A u \in Tests \ {t} : Base[u] = t => t \notin Members
    BY TestsAssumption DEF Members
  <2> QED
    BY <1>3, <2>1, <2>2 DEF ApiInv, ByApi, GoesOn
<1>4. ASSUME t \notin Members, state[t] \in Live, NEW op, NEW arg, Proper(op, arg),
             op \notin {"default", "forget"}, arg # "CLI", OnObject(op, arg, t)
      PROVE  Orderly(t) /\ GoesOn(t) /\ Scheduled(t)
  BY <1>1, <1>4, ObjectQuiet
<1>5. CASE CreateTest(t)
  <2>1. /\ UNCHANGED <<cli, dflt, loop>> /\ state' = [state EXCEPT ![t] = "CREATED"]
        /\ queued' = [queued EXCEPT ![t] = "NONE"]
    BY <1>5 DEF CreateTest
  <2>2. Kept(t) /\ state'[t] = "CREATED"
    BY <1>1, <1>2, <1>5, <2>1, Creates DEF Before
  <2>3. Quiet(t) /\ Scheduled(t)
    BY <1>2, <2>1, <2>2 DEF Before, Quiet, Scheduled
  <2> QED
    BY <1>3, <2>1, <2>2, <2>3 DEF Orderly, Kept
<1>6. CASE CreateInstance(t)
  <2> DEFINE st == IF Inherited(t) = "INITIALIZED" THEN "CREATED" ELSE Inherited(t)
  <2>1. /\ UNCHANGED <<cli, loop>> /\ state' = [state EXCEPT ![t] = st] /\ t \in Members
        /\ dflt' = [dflt EXCEPT ![t] = dflt[Base[t]]]
        /\ IF t \in Polled THEN AddTest(t, Inherited(t), last[t], period[Base[t]])
           ELSE UNCHANGED schedVars
        /\ state[t] = "ABSENT"
    BY <1>6 DEF CreateInstance
  <2>2. /\ st \in Created /\ (st \in {"ENABLED", "DISABLED"} => dflt[Base[t]] = st)
        /\ Inherited(t) # st => Inherited(t) # "ENABLED" /\ st # "ENABLED"
    BY TestsAssumption DEF Inherited, Created, ApiInv, AsAsked
  <2> HIDE DEF st
  <2>3. t \in Polled => AddTest(t, st, last[t], period[Base[t]])
    BY <2>1, <2>2 DEF AddTest, Wanted
  <2>4. /\ \A u \in Tests \ {t} : dflt'[u] = dflt[u] /\ cli'[u] = cli[u]
        /\ cli'[t] = "INITIALIZED" /\ dflt'[t] = dflt[Base[t]] /\ state'[t] = st
    BY <1>2, <2>1 DEF Before
  <2>5. Quiet(t) /\ Scheduled(t)
    BY <1>2, <2>1, <2>2, <2>3, <2>4, AddedQuietly DEF Before, Live
  <2>6. Kept(t)
    BY <1>1, <1>6, CreatesInstance
  <2> QED
    BY <1>3, <2>1, <2>5, <2>6 DEF Orderly, Kept
<1>7. CASE t \notin Members /\ ChainReady(t)
  <2>1. PICK sys \in {"ENABLED", "DISABLED"} : OnObject("ready", sys, t)
    BY <1>7 DEF ChainReady
  <2>2. Proper("ready", sys) /\ state[t] \in Live /\ sys # "CLI"
    BY <1>7 DEF Proper, ChainReady, Live
  <2> QED
    BY <1>4, <1>7, <2>1, <2>2
<1>8. CASE Enable(t, "API") \/ Disable(t, "API")
  <2>1. CASE t \notin Members /\ state[t] \in Created
             /\ (OnObject("enable", "API", t) \/ OnObject("disable", "API", t))
    <3>1. Proper("enable", "API") /\ Proper("disable", "API") /\ state[t] \in Live
      BY <2>1 DEF Proper, Live
    <3> QED
      BY <1>4, <2>1, <3>1
  <2>2. CASE /\ Alone(t) /\ UNCHANGED loop
             /\ \/ EnableInstance(t, "API", Found(t) \in Created)
                \/ DisableInstance(t, "API", Found(t) \in Created)
    <3>1. Kept(t)
      BY <1>1, <2>2, NamedCalls DEF Named
    <3>2. state[t] \in Live \cup {"ABSENT"}
      BY <2>2 DEF Alone, Live
    <3> DEFINE effective == Found(t) \in Created
    <3>3. /\ effective \in BOOLEAN /\ (effective <=> Found(t) \in Created)
          /\ EnableInstance(t, "API", effective) \/ DisableInstance(t, "API", effective)
      BY <2>2
    <3> HIDE DEF effective
    <3>4. Quiet(t) /\ Scheduled(t)
      BY <1>1, <3>2, <3>3, SetQuietly
    <3>5. t \in Members \/ state'[t] # "ENABLED"
      <4> SUFFICES ASSUME t \notin Members PROVE state'[t] # "ENABLED"
        OBVIOUS
      <4>1. Found(t) = state[t] /\ state[t] \in {"INITIALIZED", "ABSENT"}
        BY <2>2 DEF Alone, Found
      <4>2. ~effective
        BY <3>3, <4>1 DEF Created
      <4> QED
        BY <1>2, <3>3, <4>1, <4>2 DEF EnableInstance, DisableInstance, SetState, Before
    <3> QED
      BY <1>3, <2>2, <3>1, <3>4, <3>5 DEF Orderly, Kept
  <2> QED
    BY <1>8, <2>1, <2>2 DEF Enable, Disable
<1>9. ASSUME NEW p \in Classes, SetPeriod(t, p)
      PROVE  Orderly(t) /\ GoesOn(t) /\ Scheduled(t)
  BY <1>4, <1>9 DEF SetPeriod, Proper, Classes
<1>10. CASE Delete(t)
  <2>1. CASE t \notin Members /\ state[t] \in Live /\ OnObject("delete", "none", t)
    BY <1>4, <2>1 DEF Proper
  <2>2. CASE /\ state[t] \in Live /\ state' = [state EXCEPT ![t] = "DELETED"] /\ RemoveTest(t)
             /\ UNCHANGED <<dflt, cli, period, last, loop>>
    <3>1. Kept(t) /\ state'[t] = "DELETED"
      BY <1>1, <1>2, <2>2, NamedCalls DEF Named, Before
    <3>2. Quiet(t) /\ Scheduled(t)
      BY <1>1, <1>2, <2>2, <3>1, RemovedQuietly DEF Before, Kept
    <3> QED
      BY <1>3, <2>2, <3>1, <3>2 DEF Orderly, Kept
  <2> QED
    BY <1>10, <2>1, <2>2 DEF Delete
<1>11. ASSUME NEW res \in {"PASS", "FAIL"}, Notify(t, res)
       PROVE  Orderly(t) /\ GoesOn(t)
  <2>1. UNCHANGED <<state, dflt, cli, queued, queue, loop>> /\ state[t] = "ENABLED"
    BY <1>11 DEF Notify, objVars, schedVars
  <2>2. StateStep(t) /\ OthersStay(t) /\ Quiet(t)
    BY <1>2, <2>1 DEF Before, StateStep, OthersStay, Quiet
  <2> QED
    BY <1>3, <2>1, <2>2 DEF Orderly
<1>12. CASE TestImmediate(t)
  <2>1. /\ UNCHANGED <<state, dflt, cli, loop>> /\ queued' = [queued EXCEPT ![t] = "IMMEDIATE"]
        /\ t \in Polled => queued[t] # "NONE"
        /\ state[t] \in Live
    BY <1>12 DEF TestImmediate, Enqueue, objVars
  <2>2. Quiet(t) /\ Scheduled(t)
    BY <1>2, <2>1 DEF Before, Quiet, Scheduled, Live, Created
  <2>3. Kept(t)
    BY <1>1, <1>12, AskedForAtOnce
  <2> QED
    BY <1>3, <2>1, <2>2, <2>3 DEF Orderly, Kept
<1> QED
  BY <1>5, <1>6, <1>7, <1>8, <1>9, <1>10, <1>11, <1>12 DEF Call

(* A job leaves a test that the API has not enabled where it is.           *)
LEMMA JobQuiet ==
  ASSUME IInv, ApiInv, NEW t \in Tests,
         TestReturns(t) \/ Collect(t) \/ \E e \in Events : JobStep(t, e)
  PROVE  Orderly(t)
<1>1. Before(t) /\ Kept(t)
  BY IsBefore, Returns, Collects, JobTaken
<1>2. UNCHANGED <<dflt, cli, loop>>
  BY DEF TestReturns, Collect, JobStep, RunTest, TakeResult, FeedBack, Begin, objVars
<1>3. CASE Collect(t)
  <2>1. state[t] = "DELETED" /\ UNCHANGED <<queue, queued>> /\ state' = [state EXCEPT ![t] = "FREED"]
    BY <1>3 DEF Collect, schedVars
  <2>2. t \in Polled => queued[t] = "NONE" /\ \A q \in Queues : ~Contains(queue[q], t)
    BY <2>1 DEF ApiInv, DisabledOffQueue
  <2>3. Quiet(t)
    BY <1>1, <1>2, <2>1, <2>2 DEF Before, Quiet
  <2> QED
    BY <1>1, <1>2, <2>3 DEF Orderly, Kept, ApiInv, ByApi
<1>4. CASE TestReturns(t) \/ \E e \in Events : JobStep(t, e)
  <2>1. /\ state' = state
        /\ UNCHANGED schedVars \/ \E res : AddTest(t, state[t], res, period[Base[t]])
    BY <1>4 DEF TestReturns, JobStep, RunTest, TakeResult, FeedBack, objVars
  <2>2. /\ \A u \in Tests \ {t} : queued'[u] = queued[u]
        /\ state[t] # "ENABLED" => UNCHANGED schedVars
    BY <1>1, <2>1, AddedRecord DEF Before, schedVars
  <2>3. t \in Polled /\ state[t] # "ENABLED" =>
          queued[t] = "NONE" /\ \A q \in Queues : ~Contains(queue[q], t)
    BY DEF ApiInv, DisabledOffQueue
  <2>4. Quiet(t)
    BY <1>1, <1>2, <2>1, <2>2, <2>3 DEF Before, Quiet, schedVars
  <2> QED
    BY <1>1, <1>2, <2>4 DEF Orderly, Kept, ApiInv, ByApi
<1> QED
  BY <1>3, <1>4

(* A call goes on in the same way.                                         *)
LEMMA ContinueQuiet ==
  ASSUME IInv, ApiInv, Continue
  PROVE  \E t \in Members : Orderly(t) /\ Scheduled(t) /\ GoesOn(t)
<1>1. PICK t \in loop.left : /\ OnInstance(loop.op, loop.arg, t)
                            /\ loop' = LoopFor(loop.op, loop.arg, loop.left \ {t})
  BY DEF Continue
<1>2. /\ Proper(loop.op, loop.arg) /\ t \in Members /\ state[t] \in Live /\ t \in Tests
  BY <1>1 DEF IInv, LoopTypes, NoLoop, Members
<1>3. loop.op \notin {"default", "forget"} /\ loop.arg # "CLI"
  BY DEF ApiInv, ByApi
<1>4. Kept(t) /\ Quiet(t) /\ Scheduled(t)
  BY <1>1, <1>2, <1>3, InstanceSteps, InstanceQuiet DEF Continue
<1>5. ByApi'
  BY <1>1, <1>3 DEF ByApi, LoopFor, NoLoop
<1>6. GoesOn(t)
  BY <1>1, <1>2, TestsAssumption DEF GoesOn, LoopFor, NoLoop, Members
<1> QED
  BY <1>2, <1>4, <1>5, <1>6 DEF Orderly, Kept

(* Every step leaves a polled test that the API has not enabled on no      *)
(* queue.                                                                  *)
LEMMA ApiSteps ==
  ASSUME "cli" \notin Calls, "recreate" \notin Calls, IInv, IInv', ApiInv, [Next]_vars
  PROVE  ApiInv'
<1>1. ASSUME NEW t \in Tests, Orderly(t) PROVE ApiInv'
  BY <1>1, OneMoved DEF Orderly
<1>2. CASE FirstCheck \/ Wakeup
  <2>1. /\ UNCHANGED <<state, dflt, cli, loop>>
        /\ \E S : queued' = [t \in Tests |-> IF t \in S THEN "NONE" ELSE queued[t]]
        /\ queue' = [q \in Queues |-> SubSeq(queue[q], DueCount(q) + 1, Len(queue[q]))]
    BY <1>2 DEF FirstCheck, Wakeup, CheckQueues, objVars
  <2>2. \A q \in Queues, u \in Tests : Contains(queue'[q], u) => Contains(queue[q], u)
    BY <2>1, RestOfQueue DEF IInv
  <2> QED
    BY <2>1, <2>2, TestsAssumption DEF ApiInv, AsAsked, ByApi, DisabledOffQueue
<1>3. CASE UNCHANGED <<state, dflt, cli, queued, queue, loop>>
  BY <1>3 DEF ApiInv, AsAsked, ByApi, DisabledOffQueue
<1>4. CASE CreateTimer \/ TimerExpires \/ Tick \/ UNCHANGED vars
  BY <1>3, <1>4 DEF CreateTimer, TimerExpires, Tick, vars, objVars, schedVars
<1>5. CASE Continue
  BY <1>1, <1>5, ContinueQuiet DEF Members
<1>6. CASE \E t \in Tests : Call(t)
  BY <1>1, <1>6, CallQuiet
<1>7. CASE \E t \in Tests : TestReturns(t) \/ Collect(t) \/ \E e \in Events : JobStep(t, e)
  BY <1>1, <1>7, JobQuiet
<1> QED
  BY <1>2, <1>4, <1>5, <1>6, <1>7 DEF Next, SchedStep

LEMMA ApiFirst == Init => ApiInv
  BY TestsAssumption DEF Init, ApiInv, AsAsked, ByApi, NoLoop, DisabledOffQueue, Contains

(* As long as the CLI stays out of it and no test is created again, a      *)
(* polled test that is not enabled, or is gone, is on no queue, by its     *)
(* record or in any list: swdiag_api_test_disable_guts, a deletion and a   *)
(* test that returns late all see to it, for each instance of the object.  *)
THEOREM DisabledNotQueued ==
  ASSUME "cli" \notin Calls, "recreate" \notin Calls
  PROVE  Spec => []DisabledOffQueue
<1>1. ApiInv => DisabledOffQueue
  BY DEF ApiInv
<1>2. IInv /\ ApiInv /\ [Next]_vars => IInv' /\ ApiInv'
  BY Inductive, ApiSteps
<1> QED
  BY <1>1, <1>2, Initially, ApiFirst, PTL DEF Spec

-----------------------------------------------------------------------------
(* No test is forgotten.                                                   *)

(* A step about one test keeps the others in hand, or on the way there,    *)
(* and that one if it leaves it so.                                        *)
LEMMA OneInHand ==
  ASSUME NoTestForgotten, NEW t \in Tests, StateStep(t), Quiet(t), GoesOn(t),
         JobTypes, \A u \in Tests \ {t} :
           jobs'[u] = jobs[u] /\ running'[u] = running[u] /\ awaiting'[u] = awaiting[u],
         t \in Polled /\ state'[t] = "ENABLED" /\ state'[Base[t]] = "ENABLED" =>
           InHand(t)' \/ t \in loop'.left
  PROVE  NoTestForgotten'
<1> SUFFICES ASSUME NEW u \in Polled, state'[u] = "ENABLED", state'[Base[u]] = "ENABLED", u # t
             PROVE  InHand(u)' \/ u \in loop'.left
  BY DEF NoTestForgotten
<1>1. u \in Tests /\ Base[u] \in Tests
  BY TestsAssumption
<1>2. state[u] = "ENABLED" /\ queued'[u] = queued[u]
  BY <1>1 DEF StateStep, Quiet
<1>3. InHand(u)' <=> InHand(u)
  BY <1>1, <1>2 DEF InHand
<1>4. CASE state[Base[u]] = "ENABLED"
  BY <1>1, <1>2, <1>3, <1>4 DEF NoTestForgotten, GoesOn
<1>5. CASE state[Base[u]] # "ENABLED"
  <2>1. Base[u] = t
    BY <1>1, <1>5 DEF StateStep
  <2> QED
    BY <1>1, <1>2, <1>5, <2>1 DEF GoesOn
<1> QED
  BY <1>4, <1>5

(* A call keeps each enabled test in hand.                                 *)
LEMMA CallKeepsInHand ==
  ASSUME "cli" \notin Calls, "recreate" \notin Calls, IInv, ApiInv, JobTypes, NoTestForgotten,
         NEW t \in Tests, Call(t)
  PROVE  NoTestForgotten'
<1>1. StateStep(t) /\ Quiet(t) /\ GoesOn(t)
  BY CallQuiet DEF Orderly
<1>2. ASSUME NEW res \in {"PASS", "FAIL"}, Notify(t, res)
      PROVE  NoTestForgotten'
  <2>1. /\ UNCHANGED running /\ res \in Events
        /\ jobs' = [jobs EXCEPT ![t][res] = @ + 1]
        /\ awaiting' = [awaiting EXCEPT ![t] = FALSE]
    BY <1>2 DEF Notify, Events
  <2>2. /\ jobs'[t][res] > 0
        /\ \A u \in Tests \ {t} :
             jobs'[u] = jobs[u] /\ running'[u] = running[u] /\ awaiting'[u] = awaiting[u]
    BY <2>1 DEF JobTypes
  <2>3. InHand(t)'
    BY <2>1, <2>2 DEF InHand
  <2> QED
    BY <1>1, <2>2, <2>3, OneInHand
<1>3. CASE ~\E res \in {"PASS", "FAIL"} : Notify(t, res)
  <2>1. Scheduled(t)
    BY <1>3, CallQuiet
  <2>2. UNCHANGED jobVars
    BY <1>3, CallJobs
  <2>3. UNCHANGED <<jobs, running, awaiting>>
    BY <2>2 DEF jobVars
  <2> QED
    BY <1>1, <2>1, <2>3, OneInHand DEF Scheduled, InHand
<1> QED
  BY <1>2, <1>3

(* So does each further step of a call on a whole object.                  *)
LEMMA ContinueKeepsInHand ==
  ASSUME IInv, ApiInv, JobTypes, NoTestForgotten, Continue
  PROVE  NoTestForgotten'
<1>1. PICK t \in Members : Orderly(t) /\ Scheduled(t) /\ GoesOn(t)
  BY ContinueQuiet
<1>2. loop.left \subseteq Tests
  BY DEF IInv, LoopTypes, NoLoop, Members
<1>3. UNCHANGED jobVars
  BY <1>2, InstanceJobs DEF Continue
<1>4. UNCHANGED <<jobs, running, awaiting>> /\ t \in Tests
  BY <1>3 DEF jobVars, Members
<1> QED
  BY <1>1, <1>4, OneInHand DEF Orderly, Scheduled, InHand

(* A check of the queues hands a polled test that it takes off to the      *)
(* thread pool.                                                            *)
LEMMA CheckKeepsInHand ==
  ASSUME IInv, JobTypes, NoTestForgotten, CheckQueues
  PROVE  NoTestForgotten'
<1> DEFINE S == {u \in Tests : DueEntries(u) # {} /\ state[u] \in Live}
<1>1. /\ queued' = [t \in Tests |-> IF t \in S THEN "NONE" ELSE queued[t]]
      /\ jobs' = [t \in Tests |-> IF t \notin S THEN jobs[t]
                                 ELSE [e \in Events |-> jobs[t][e] + StartJobs(t, e)]]
      /\ UNCHANGED <<state, running, awaiting, loop>>
  BY DEF CheckQueues, objVars
<1> SUFFICES ASSUME NEW t \in Polled, state[t] = "ENABLED", state[Base[t]] = "ENABLED"
             PROVE  InHand(t)' \/ t \in loop.left
  BY <1>1 DEF NoTestForgotten
<1>2. t \in Tests
  BY TestsAssumption
<1>3. CASE t \in S
  <2>1. "RUN" \in Events
    BY DEF Events
  <2>2. Cardinality(DueEntries(t)) - 1 \in Nat
    BY <1>2, <1>3, DueEntriesCounted DEF IInv
  <2>3. StartJobs(t, "RUN") = 1 + (Cardinality(DueEntries(t)) - 1)
    BY DEF StartJobs, StartEvent
  <2>4. jobs[t]["RUN"] \in Nat
    BY <1>2, <2>1 DEF JobTypes
  <2>5. jobs'[t]["RUN"] = jobs[t]["RUN"] + StartJobs(t, "RUN")
    BY <1>1, <1>2, <1>3, <2>1
  <2>6. jobs'[t]["RUN"] > 0
    BY <2>2, <2>3, <2>4, <2>5
  <2> QED
    BY <2>1, <2>6 DEF InHand
<1>4. CASE t \notin S
  BY <1>1, <1>2, <1>4 DEF NoTestForgotten, InHand
<1> QED
  BY <1>3, <1>4

(* A job keeps its test in hand: it runs the function, or queues the test. *)
LEMMA JobKeepsInHand ==
  ASSUME IInv, ApiInv, JobTypes, NoTestForgotten, NEW t \in Tests,
         TestReturns(t) \/ \E e \in Events : JobStep(t, e)
  PROVE  NoTestForgotten'
<1>1. Before(t) /\ StateStep(t) /\ Quiet(t)
  BY IsBefore, JobQuiet DEF Orderly
<1>2. state' = state /\ loop' = loop
  BY DEF TestReturns, JobStep, RunTest, TakeResult, FeedBack, Begin, objVars
<1>3. GoesOn(t)
  BY <1>2 DEF GoesOn
<1>4. /\ jobs \in [Tests -> [Events -> Nat]] /\ running \in [Tests -> Nat]
      /\ awaiting \in [Tests -> BOOLEAN]
  BY DEF JobTypes
<1>5. \A u \in Tests \ {t} :
        jobs'[u] = jobs[u] /\ running'[u] = running[u] /\ awaiting'[u] = awaiting[u]
  BY <1>4 DEF TestReturns, JobStep, RunTest, TakeResult, FeedBack, Begin
<1>6. t \in Polled /\ state[t] = "ENABLED" => queued'[t] # "NONE" \/ running'[t] > 0 \/ awaiting'[t]
  <2>1. ASSUME NEW res, AddTest(t, state[t], res, period[Base[t]])
        PROVE  t \in Polled /\ state[t] = "ENABLED" => queued'[t] # "NONE"
    BY <1>1, <2>1, AddedRecord DEF Before
  <2>2. "ENABLED" \in Live
    BY DEF Live, Created
  <2>3. CASE TestReturns(t)
    <3>1. \/ state[t] \notin Live
          \/ awaiting'[t]
          \/ AddTest(t, state[t], last[t], period[Base[t]])
      BY <1>4, <2>3 DEF TestReturns
    <3> QED
      BY <2>1, <2>2, <3>1
  <2>4. CASE RunTest(t)
    <3>1. state[t] \in Live => running'[t] = running[t] + 1
      BY <1>4, <2>4 DEF RunTest
    <3> QED
      BY <1>4, <2>2, <3>1
  <2>5. CASE (\E e \in Events : TakeResult(t, e)) \/ FeedBack(t)
    <3>1. state[t] \notin Live \/ \E res : AddTest(t, state[t], res, period[Base[t]])
      BY <2>5 DEF TakeResult, FeedBack
    <3> QED
      BY <2>1, <2>2, <3>1
  <2> QED
    BY <2>3, <2>4, <2>5 DEF JobStep
<1> QED
  BY <1>1, <1>2, <1>3, <1>5, <1>6, OneInHand DEF InHand

(* Every step keeps each enabled test in hand.                             *)
LEMMA StepsKeepInHand ==
  ASSUME "cli" \notin Calls, "recreate" \notin Calls, IInv, JobTypes, ApiInv, NoTestForgotten,
         [Next]_vars
  PROVE  NoTestForgotten'
<1>1. CASE UNCHANGED <<state, queued, jobVars, loop>>
  BY <1>1 DEF NoTestForgotten, InHand, jobVars
<1>2. CASE FirstCheck \/ Wakeup
  BY <1>2, CheckKeepsInHand DEF FirstCheck, Wakeup
<1>3. CASE CreateTimer \/ TimerExpires \/ Tick \/ UNCHANGED vars
  BY <1>1, <1>3 DEF CreateTimer, TimerExpires, Tick, vars, objVars, schedVars, jobVars
<1>4. ASSUME NEW t \in Tests, Call(t) PROVE NoTestForgotten'
  BY <1>4, CallKeepsInHand
<1>5. ASSUME NEW t \in Tests, TestReturns(t) \/ \E e \in Events : JobStep(t, e)
      PROVE  NoTestForgotten'
  BY <1>5, JobKeepsInHand
<1>6. ASSUME NEW t \in Tests, Collect(t) PROVE NoTestForgotten'
  <2>1. /\ state' = [state EXCEPT ![t] = "FREED"] /\ UNCHANGED <<queued, jobs, running, awaiting, loop>>
        /\ state \in [Tests -> Live \cup {"ABSENT", "DELETED", "FREED"}]
    BY <1>6 DEF Collect, schedVars, jobVars, IInv, ObjTypes
  <2> QED
    BY <2>1, TestsAssumption DEF NoTestForgotten, InHand
<1>7. CASE Continue
  BY <1>7, ContinueKeepsInHand
<1> QED
  BY <1>2, <1>3, <1>4, <1>5, <1>6, <1>7 DEF Next, SchedStep

(* As long as the CLI stays out of it and no test is created again, a      *)
(* polled test that is enabled, and whose base instance is, is never       *)
(* forgotten: whatever it is asked and whenever its function returns, it   *)
(* is queued, handed to the thread pool, running, or its late result is    *)
(* waited for; or the call under way has still to come to it.              *)
THEOREM NoneForgotten ==
  ASSUME "cli" \notin Calls, "recreate" \notin Calls
  PROVE  Spec => []NoTestForgotten
<1> DEFINE Inv == IInv /\ JobTypes /\ ApiInv /\ NoTestForgotten
<1>1. Init => Inv
  <2>1. Init => JobTypes /\ NoTestForgotten
    BY TestsAssumption, CallsAssumption DEF Init, JobTypes, NoTestForgotten
  <2> QED
    BY <2>1, Initially, ApiFirst
<1>2. Inv /\ [Next]_vars => Inv'
  <2> SUFFICES ASSUME Inv, [Next]_vars PROVE Inv'
    OBVIOUS
  <2>1. IInv'
    BY Inductive
  <2>2. JobTypes'
    BY JobsCounted
  <2>3. ApiInv'
    BY <2>1, ApiSteps
  <2>4. NoTestForgotten'
    BY StepsKeepInHand
  <2> QED
    BY <2>1, <2>2, <2>3, <2>4
<1> QED
  BY <1>1, <1>2, PTL DEF Spec
=============================================================================
