---------------------- MODULE ThreadPoolRefinement_proofs ----------------------
(***************************************************************************)
(* The thread pool implements the abstract pool of JobPool: every step of  *)
(* swdiag_thread.c is one of accepting, refusing, starting, finishing or   *)
(* giving up jobs, or changes nothing that JobPool speaks of.              *)
(***************************************************************************)
EXTENDS ThreadPool_proofs

(* Where a job can still be found, one holder at a time.                   *)
HeldBy(j) == \/ \E r \in Requesters : rjob[r] = j
             \/ \E i \in 1..Len(pending) : pending[i] = j
             \/ \E w \in Workers : job[w] = j

(* A job is in the set Held when someone holds it.                         *)
LEMMA HeldDef == ASSUME PoolParts, NEW j PROVE j \in Held <=> HeldBy(j)
<1>1. ToSet(pending) = {pending[i] : i \in 1..Len(pending)}
  BY DEF ToSet, PoolParts, TypeOK
<1> QED
  BY <1>1 DEF Held, HeldBy

LEMMA HeldDefNext == ASSUME PoolParts', NEW j PROVE j \in Held' <=> HeldBy(j)'
<1>1. ToSet(pending') = {pending'[i] : i \in 1..Len(pending')}
  BY DEF ToSet, PoolParts, TypeOK
<1> QED
  BY <1>1 DEF Held, HeldBy

(* The jobs of the abstract pool are jobs that were asked for; one that is *)
(* waiting did not run, one that is on a thread did.                       *)
LEMMA BarTypes ==
  ASSUME IInv
  PROVE  /\ waitingBar \subseteq asked
         /\ onBar \in [Workers -> Jobs \cup {NoJob}]
         /\ \A w \in Workers : onBar[w] # NoJob =>
              /\ onBar[w] \in asked /\ runs[onBar[w]] > 0
              /\ \A v \in Workers : v # w => onBar[v] # onBar[w]
         /\ \A j \in waitingBar : runs[j] = 0
<1> USE DEF IInv, PoolParts, TypeOK
<1>1. onBar \in [Workers -> Jobs \cup {NoJob}]
  BY DEF onBar
<1>2. ASSUME NEW j \in waitingBar PROVE j \in asked /\ runs[j] = 0
  <2>1. j \in Jobs /\ runs[j] = 0 /\ j \in Held
    BY DEF waitingBar
  <2>2. CASE \E r \in Requesters : rjob[r] = j
    BY <2>1, <2>2, NullAssumption DEF HandOffParts
  <2>3. CASE \E i \in 1..Len(pending) : pending[i] = j
    BY <2>1, <2>3 DEF JobParts, JobsPending
  <2>4. CASE \E w \in Workers : job[w] = j
    BY <2>1, <2>4, NullAssumption DEF JobParts, JobsAtThreads
  <2> QED
    BY <2>1, <2>2, <2>3, <2>4, HeldDef DEF HeldBy
<1>3. ASSUME NEW w \in Workers, onBar[w] # NoJob
      PROVE  /\ onBar[w] \in asked /\ runs[onBar[w]] > 0
             /\ \A v \in Workers : v # w => onBar[v] # onBar[w]
  <2>1. pc[w] = "execute" /\ onBar[w] = job[w] /\ job[w] # NoJob
    BY <1>3 DEF onBar
  <2>2. job[w] \in asked /\ \A v \in Workers : v # w => job[v] # job[w]
    BY <2>1 DEF JobParts, JobsAtThreads
  <2>3. runs[job[w]] > 0
    BY <2>1 DEF HolderParts
  <2> QED
    BY <1>3, <2>1, <2>2, <2>3 DEF onBar
<1> QED
  BY <1>1, <1>2, <1>3

(* The initial states map to the initial state of JobPool.                 *)
LEMMA InitRefines == Init => Pool!Init
<1> SUFFICES ASSUME Init PROVE Pool!Init
  OBVIOUS
<1>1. Held \subseteq {NoJob}
  BY DEF Init, Held, ToSet
<1> QED
  BY <1>1, NullAssumption DEF Init, Pool!Init, waitingBar, onBar, overBar
-----------------------------------------------------------------------------
(* The kinds of step, by what they do to the mapped variables.              *)

(* A step that JobPool does not see.                                        *)
LEMMA StutterStep ==
  ASSUME UNCHANGED <<asked, onBar, waitingBar>>
  PROVE  [Pool!Next]_(Pool!vars)
  BY DEF Pool!vars, overBar

(* Jobs that are no longer held were given up.                              *)
LEMMA GiveUpStep ==
  ASSUME IInv, MayStop, UNCHANGED <<asked, onBar>>, waitingBar' \subseteq waitingBar
  PROVE  [Pool!Next]_(Pool!vars)
<1> DEFINE S == waitingBar \ waitingBar'
<1>1. overBar' = overBar \cup S
  <2>1. ASSUME NEW j \in S PROVE j \in asked /\ \A w \in Workers : onBar[w] # j
    <3>1. j \in asked /\ runs[j] = 0 /\ j # NoJob
      BY BarTypes, NullAssumption DEF IInv, PoolParts, TypeOK
    <3> QED
      BY <3>1, BarTypes
  <2> QED
    BY <2>1 DEF overBar
<1>2. waitingBar' = waitingBar \ S
  OBVIOUS
<1>3. Pool!GiveUp
  BY <1>1, <1>2 DEF Pool!GiveUp
<1> QED
  BY <1>3 DEF Pool!Next

(* A thread that was running a job no longer does.                          *)
LEMMA FinishStep ==
  ASSUME IInv, NEW w \in Workers, onBar[w] # NoJob,
         onBar' = [onBar EXCEPT ![w] = NoJob], UNCHANGED <<asked, waitingBar>>
  PROVE  [Pool!Next]_(Pool!vars)
<1>1. onBar[w] \in asked \ waitingBar
  BY BarTypes
<1>2. {onBar'[v] : v \in Workers} \ {NoJob} = ({onBar[v] : v \in Workers} \ {NoJob}) \ {onBar[w]}
  BY BarTypes
<1>3. NoJob \notin asked
  BY NullAssumption DEF IInv, PoolParts, TypeOK
<1>4. overBar' = overBar \cup {onBar[w]}
  BY <1>1, <1>2, <1>3 DEF overBar
<1>5. Pool!Finish(w)
  BY <1>4 DEF Pool!Finish
<1> QED
  BY <1>5 DEF Pool!Next

(* The three kinds of step that only move, drop or end what is held.        *)
LEMMA HoldersStep ==
  ASSUME IInv, IInv', UNCHANGED <<asked, runs, onBar>>,
         \A j \in Jobs : HeldBy(j)' /\ runs[j] = 0 => HeldBy(j),
         MayStop \/ \A j \in Jobs : HeldBy(j) /\ runs[j] = 0 => HeldBy(j)'
  PROVE  [Pool!Next]_(Pool!vars)
<1>1. waitingBar' \subseteq waitingBar
  BY HeldDef, HeldDefNext DEF waitingBar, IInv
<1>2. CASE MayStop
  BY <1>1, <1>2, GiveUpStep
<1>3. CASE ~MayStop
  <2>1. waitingBar' = waitingBar
    BY <1>1, <1>3, HeldDef, HeldDefNext DEF waitingBar, IInv
  <2> QED
    BY <2>1, StutterStep
<1> QED
  BY <1>2, <1>3

(* Neither a job changes hands nor a thread begins or ends one.             *)
LEMMA SilentStep ==
  ASSUME IInv, IInv', UNCHANGED <<asked, runs, rjob, pending, job>>,
         \A w \in Workers : (pc'[w] = "execute") <=> (pc[w] = "execute")
  PROVE  [Pool!Next]_(Pool!vars)
<1>1. onBar' = onBar
  BY DEF onBar
<1>2. waitingBar' = waitingBar
  BY DEF waitingBar, Held
<1> QED
  BY <1>1, <1>2, StutterStep

-----------------------------------------------------------------------------
(* Every step of the pool is a step of JobPool, or none.                    *)

LEMMA RequestRefines ==
  ASSUME IInv, IInv', NEW r \in Requesters, NEW j \in Jobs, Request(r, j)
  PROVE  [Pool!Next]_(Pool!vars)
<1> USE NullAssumption DEF IInv, PoolParts, TypeOK
<1>1. /\ rpc[r] = "idle" /\ rjob[r] = NoJob /\ runs[j] = 0
      /\ UNCHANGED <<runs, pending, job, pc>>
      /\ rjob' = [rjob EXCEPT ![r] = j] /\ asked' = asked \cup {j}
  BY DEF Request, HandOffParts, JobParts, workerVars
<1>2. onBar' = onBar
  BY <1>1 DEF onBar
<1>3. \A k \in Jobs : HeldBy(k)' <=> HeldBy(k) \/ k = j
  <2>1. \A k \in Jobs : (\E s \in Requesters : rjob'[s] = k)
                       <=> k = j \/ \E s \in Requesters : rjob[s] = k
    <3>1. rjob'[r] = j /\ rjob[r] \notin Jobs
          /\ \A s \in Requesters : s # r => rjob'[s] = rjob[s]
      BY <1>1
    <3> HIDE DEF IInv
    <3> QED
      BY <3>1
  <2>2. UNCHANGED <<pending, job>>
    BY <1>1
  <2> HIDE DEF IInv
  <2> QED
    BY <2>1, <2>2 DEF HeldBy
<1>4. waitingBar' = waitingBar \cup {j}
  <2>1. \A k \in Jobs : k \in Held' <=> k \in Held \/ k = j
    BY <1>3, HeldDef, HeldDefNext
  <2>2. runs' = runs /\ runs[j] = 0
    BY <1>1
  <2> HIDE DEF IInv
  <2> QED
    BY <2>1, <2>2 DEF waitingBar
<1>5. j \notin asked /\ waitingBar \subseteq asked /\ overBar \subseteq asked
  <2>1. j \notin asked
    BY DEF Request
  <2>2. waitingBar \subseteq asked
    BY BarTypes
  <2>3. overBar \subseteq asked
    BY DEF overBar
  <2> QED
    BY <2>1, <2>2, <2>3
<1>6. \A w \in Workers : onBar[w] # j
  <2>1. \A w \in Workers : onBar[w] # NoJob => onBar[w] \in asked
    BY BarTypes
  <2>2. j # NoJob
    OBVIOUS
  <2> HIDE DEF IInv
  <2> QED
    BY <1>5, <2>1, <2>2
<1>7. overBar' = overBar
  <2>1. asked' = asked \cup {j}
    BY <1>1
  <2> HIDE DEF IInv
  <2> QED
    BY <1>2, <1>4, <1>5, <2>1 DEF overBar
<1>8. Pool!Accept(j)
  BY <1>2, <1>4, <1>5, <1>6, <1>7 DEF Pool!Accept, Pool!Running
<1> QED
  BY <1>8 DEF Pool!Next

LEMMA DiscardRefines ==
  ASSUME IInv, IInv', NEW r \in Requesters, NEW j \in Jobs, Discard(r, j)
  PROVE  [Pool!Next]_(Pool!vars)
<1> USE NullAssumption DEF IInv, PoolParts, TypeOK
<1>1. /\ UNCHANGED <<runs, pending, job, pc, rjob>> /\ asked' = asked \cup {j}
      /\ j \notin asked
  BY DEF Discard, workerVars
<1>2. onBar' = onBar /\ waitingBar' = waitingBar
  BY <1>1 DEF onBar, waitingBar, Held
<1>3. waitingBar \subseteq asked /\ overBar \subseteq asked
  BY BarTypes DEF overBar
<1>4. \A w \in Workers : onBar[w] # j
  BY <1>1, BarTypes
<1>5. overBar' = overBar \cup {j}
  BY <1>1, <1>2, <1>3, <1>4 DEF overBar
<1>6. Pool!Refuse(j)
  BY <1>1, <1>2, <1>3, <1>4, <1>5 DEF Pool!Refuse, Pool!Running
<1> QED
  BY <1>6 DEF Pool!Next

LEMMA AssignRefines ==
  ASSUME IInv, IInv', NEW r \in Requesters, Assign(r)
  PROVE  [Pool!Next]_(Pool!vars)
<1> USE NullAssumption DEF IInv, PoolParts, TypeOK
<1> PICK w \in Workers : w = rthread[r]
  BY DEF Assign, ThreadParts, ReservedThreads, Reserving
<1>1. /\ job[w] = NoJob /\ pc[w] # "execute" /\ rjob[r] # NoJob
      /\ job' = [job EXCEPT ![w] = rjob[r]]
      /\ UNCHANGED <<asked, runs, rjob, pending, pc>>
  <2>1. /\ job' = [job EXCEPT ![w] = rjob[r]]
        /\ UNCHANGED <<asked, runs, rjob, pending, pc>>
    BY DEF Assign
  <2>2. rjob[r] # NoJob
    BY DEF Assign, HolderParts, HandOffParts, ThreadParts, ReservedThreads, Reserving
  <2>3. job[w] = NoJob /\ pc[w] # "execute"
    BY DEF Assign, HolderParts, HandOffParts, ThreadParts, ReservedThreads, Reserving
  <2> QED
    BY <2>1, <2>2, <2>3
<1>2. onBar' = onBar
  BY <1>1 DEF onBar
<1>3. \A k \in Jobs : HeldBy(k)' <=> HeldBy(k)
  BY <1>1 DEF HeldBy
<1> QED
  BY <1>1, <1>2, <1>3, HoldersStep

(* swdiag_thread_request gives up the job of the thread it kills.           *)
LEMMA KillPoppedRefines ==
  ASSUME IInv, IInv', NEW r \in Requesters, KillPopped(r)
  PROVE  [Pool!Next]_(Pool!vars)
<1> USE NullAssumption DEF IInv, PoolParts, TypeOK
<1> PICK w \in Workers : w = rthread[r]
  BY DEF KillPopped, ThreadParts, ReservedThreads, Reserving, Killing
<1>1. MayStop /\ pc[w] # "execute" /\ rpc[r] \in {"clear", "quit", "signal"}
  BY DEF KillPopped, HandOffParts, ThreadParts, ReservedThreads, Reserving, Killing
<1>2. /\ job' \in [Workers -> Jobs \cup {NoJob}]
      /\ \A v \in Workers : job'[v] = IF v = w /\ rpc[r] = "clear" THEN NoJob ELSE job[v]
  BY <1>1, KillEffect DEF KillPopped
<1>3. /\ UNCHANGED <<asked, runs, pending, pc>>
      /\ \A s \in Requesters : rjob'[s] = rjob[s] \/ rjob'[s] = NoJob
  BY DEF KillPopped, Return
<1>4. onBar' = onBar
  BY <1>1, <1>2, <1>3 DEF onBar
<1>5. \A k \in Jobs : HeldBy(k)' => HeldBy(k)
  BY <1>2, <1>3 DEF HeldBy
<1> QED
  BY <1>1, <1>3, <1>4, <1>5, HoldersStep

LEMMA PushExecutingRefines ==
  ASSUME IInv, IInv', NEW r \in Requesters, PushExecuting(r)
  PROVE  [Pool!Next]_(Pool!vars)
<1> USE NullAssumption DEF IInv, PoolParts, TypeOK
<1>1. /\ UNCHANGED <<asked, runs, pending, job, pc>> /\ rjob' = [rjob EXCEPT ![r] = NoJob]
      /\ rpc[r] = "push"
  BY DEF PushExecuting, Return, workerVars
<1>2. onBar' = onBar
  BY <1>1 DEF onBar
<1>3. \A k \in Jobs : HeldBy(k)' => HeldBy(k)
  BY <1>1 DEF HeldBy
<1>4. ASSUME ~MayStop, NEW k \in Jobs, HeldBy(k), runs[k] = 0 PROVE HeldBy(k)'
  <2>1. CASE k = rjob[r]
    <3>1. \E v \in Workers : job[v] = k
      <4>1. HolderParts
        OBVIOUS
      <4> HIDE DEF IInv
      <4> QED
        BY <1>1, <1>4, <2>1, <4>1 DEF HolderParts
    <3> QED
      BY <1>1, <3>1 DEF HeldBy
  <2>2. CASE k # rjob[r]
    BY <1>1, <1>4, <2>2 DEF HeldBy
  <2> QED
    BY <2>1, <2>2
<1> QED
  BY <1>1, <1>2, <1>3, <1>4, HoldersStep

LEMMA DeferRefines ==
  ASSUME IInv, IInv', NEW r \in Requesters, Defer(r)
  PROVE  [Pool!Next]_(Pool!vars)
<1> USE NullAssumption DEF IInv, PoolParts, TypeOK
<1>1. /\ UNCHANGED <<asked, runs, job, pc>> /\ rjob' = [rjob EXCEPT ![r] = NoJob]
      /\ rjob[r] \in Jobs
  BY DEF Defer, Return, workerVars, HandOffParts
<1>2. onBar' = onBar
  BY <1>1 DEF onBar
<1>3. CASE pending' = Append(pending, rjob[r])
  <2>1. /\ Len(pending) \in Nat /\ Len(pending') = Len(pending) + 1
        /\ pending'[Len(pending')] = rjob[r]
        /\ \A i \in 1..Len(pending) : pending'[i] = pending[i]
    BY <1>1, <1>3
  <2>2. \A k : (\E i \in 1..Len(pending') : pending'[i] = k)
              <=> (k = rjob[r] \/ \E i \in 1..Len(pending) : pending[i] = k)
    <3>1. \A i \in 1..Len(pending') : i = Len(pending') \/ i \in 1..Len(pending)
      BY <2>1
    <3>2. \A i \in 1..Len(pending) : i \in 1..Len(pending')
      BY <2>1
    <3>3. Len(pending') \in 1..Len(pending')
      BY <2>1
    <3> QED
      BY <2>1, <3>1, <3>2, <3>3
  <2>3. \A k \in Jobs : (\E s \in Requesters : rjob'[s] = k) \/ k = rjob[r]
                   <=> (\E s \in Requesters : rjob[s] = k)
    BY <1>1
  <2>4. \A k \in Jobs : HeldBy(k)' <=> HeldBy(k)
    BY <1>1, <2>2, <2>3 DEF HeldBy
  <2> QED
    BY <1>1, <1>2, <2>4, HoldersStep
<1>4. CASE PendList = "null" /\ pending' = pending
  <2>1. MayStop
    BY <1>4 DEF PendList, ListStatus, HandOffParts
  <2>2. \A k \in Jobs : HeldBy(k)' => HeldBy(k)
    BY <1>1, <1>4 DEF HeldBy
  <2> QED
    BY <1>1, <1>2, <2>1, <2>2, HoldersStep
<1> QED
  BY <1>3, <1>4 DEF Defer

LEMMA CallJobRefines ==
  ASSUME IInv, IInv', NEW w \in Workers, CallJob(w)
  PROVE  [Pool!Next]_(Pool!vars)
<1> USE NullAssumption DEF IInv, PoolParts, TypeOK
<1> DEFINE j == job[w]
<1>1. /\ j \in Jobs /\ j \in asked /\ runs[j] = 0 /\ pc[w] = "call"
      /\ runs' = [runs EXCEPT ![j] = 1] /\ pc' = [pc EXCEPT ![w] = "execute"]
      /\ UNCHANGED <<asked, pending, rjob, job>>
  <2>1. j \in Jobs /\ j \in asked /\ runs[j] = 0 /\ pc[w] = "call"
    BY DEF CallJob, JobParts, JobsAtThreads
  <2>2. runs' = [runs EXCEPT ![j] = 1] /\ pc' = [pc EXCEPT ![w] = "execute"]
    BY <2>1 DEF CallJob
  <2>3. UNCHANGED <<asked, pending, rjob, job>>
    BY DEF CallJob, requestVars
  <2> QED
    BY <2>1, <2>2, <2>3
<1>2. onBar[w] = NoJob /\ onBar' = [onBar EXCEPT ![w] = j]
  <2>1. \A v \in Workers : onBar'[v] = IF v = w THEN j ELSE onBar[v]
    BY <1>1 DEF onBar
  <2>2. onBar[w] = NoJob
    BY <1>1 DEF onBar
  <2>3. onBar \in [Workers -> Jobs \cup {NoJob}] /\ onBar' \in [Workers -> Jobs \cup {NoJob}]
    BY <1>1 DEF onBar
  <2> QED
    BY <2>1, <2>2, <2>3
<1>3. j \in waitingBar
  BY <1>1 DEF waitingBar, Held
<1>4. waitingBar' = waitingBar \ {j}
  <2>1. Held' = Held
    BY <1>1 DEF Held
  <2> QED
    BY <1>1, <2>1 DEF waitingBar
<1>5. \A k \in asked : (\E v \in Workers : onBar'[v] = k) <=> (k = j \/ \E v \in Workers : onBar[v] = k)
  BY <1>1, <1>2, BarTypes
<1>6. overBar' = overBar
  <2>1. \A k \in asked : k \in waitingBar' \/ (\E v \in Workers : onBar'[v] = k)
                   <=> k \in waitingBar \/ (\E v \in Workers : onBar[v] = k)
    BY <1>3, <1>4, <1>5
  <2>2. asked' = asked
    BY <1>1
  <2>3. overBar = {k \in asked : ~(k \in waitingBar \/ \E v \in Workers : onBar[v] = k)}
    BY DEF overBar
  <2>4. overBar' = {k \in asked' : ~(k \in waitingBar' \/ \E v \in Workers : onBar'[v] = k)}
    BY DEF overBar
  <2> HIDE DEF IInv, overBar, waitingBar, onBar
  <2> QED
    BY <2>1, <2>2, <2>3, <2>4
<1>7. Pool!Start(w, j)
  BY <1>2, <1>3, <1>4, <1>6 DEF Pool!Start
<1> QED
  BY <1>1, <1>7 DEF Pool!Next

LEMMA JobReturnsRefines ==
  ASSUME IInv, IInv', NEW w \in Workers, JobReturns(w)
  PROVE  [Pool!Next]_(Pool!vars)
<1> USE NullAssumption DEF IInv, PoolParts, TypeOK
<1>1. /\ pc[w] = "execute" /\ pc' = [pc EXCEPT ![w] = "next"]
      /\ UNCHANGED <<asked, runs, pending, rjob, job>>
  BY DEF JobReturns, requestVars
<1>2. onBar' = [onBar EXCEPT ![w] = NoJob] /\ waitingBar' = waitingBar
  <2>1. \A v \in Workers : onBar'[v] = IF v = w THEN NoJob ELSE onBar[v]
    BY <1>1 DEF onBar
  <2>2. onBar \in [Workers -> Jobs \cup {NoJob}] /\ onBar' \in [Workers -> Jobs \cup {NoJob}]
    BY <1>1 DEF onBar
  <2>3. waitingBar' = waitingBar
    BY <1>1 DEF waitingBar, Held
  <2> QED
    BY <2>1, <2>2, <2>3
<1>3. CASE onBar[w] = NoJob
  <2>1. onBar' = onBar
    BY <1>2, <1>3, BarTypes
  <2> QED
    BY <1>1, <1>2, <2>1, StutterStep
<1>4. CASE onBar[w] # NoJob
  BY <1>1, <1>2, <1>4, FinishStep
<1> QED
  BY <1>3, <1>4

LEMMA NextJobRefines ==
  ASSUME IInv, IInv', NEW w \in Workers, NextJob(w)
  PROVE  [Pool!Next]_(Pool!vars)
<1> USE NullAssumption DEF IInv, PoolParts, TypeOK
<1>1. /\ pc[w] = "next" /\ pc' = [pc EXCEPT ![w] = "loop"]
      /\ UNCHANGED <<asked, runs, rjob>>
      /\ job[w] # NoJob => runs[job[w]] > 0
  BY DEF NextJob, requestVars, HolderParts
<1>2. CASE job' = [job EXCEPT ![w] = NoJob] /\ UNCHANGED pending
  <2>1. onBar' = onBar
    BY <1>1, <1>2 DEF onBar
  <2>2. \A k \in Jobs : runs[k] = 0 => (HeldBy(k)' <=> HeldBy(k))
    BY <1>1, <1>2 DEF HeldBy
  <2> QED
    BY <1>1, <2>1, <2>2, HoldersStep
<1>3. CASE /\ pending # <<>>
           /\ job' = [job EXCEPT ![w] = Head(pending)]
           /\ pending' = Tail(pending)
  <2>1. onBar' = onBar
    BY <1>1, <1>3 DEF onBar
  <2>2. /\ Head(pending) = pending[1] /\ Len(pending') = Len(pending) - 1
        /\ Len(pending) \in Nat /\ 1 \in 1..Len(pending)
        /\ \A i \in 1..Len(pending') : pending'[i] = pending[i+1]
    BY <1>3, HeadTailProperties
  <2>3. \A k : (\E i \in 1..Len(pending) : pending[i] = k)
              <=> (k = pending[1] \/ \E i \in 1..Len(pending') : pending'[i] = k)
    <3>1. \A i \in 1..Len(pending) : i = 1 \/ (i-1 \in 1..Len(pending') /\ pending'[i-1] = pending[i])
      BY <2>2
    <3>2. \A i \in 1..Len(pending') :
            pending'[i] = pending[i+1] /\ i+1 \in 1..Len(pending)
      BY <1>3, HeadTailProperties
    <3>3. pending[1] = pending[1] /\ 1 \in 1..Len(pending)
      BY <2>2
    <3> HIDE DEF PoolParts
    <3> QED
      BY <3>1, <3>2, <3>3, Zenon
  <2>4. \A k \in Jobs : runs[k] = 0 =>
          ((\E v \in Workers : job'[v] = k)
             <=> (k = pending[1] \/ \E v \in Workers : job[v] = k))
    BY <1>1, <1>3, <2>2
  <2>5. \A k \in Jobs : runs[k] = 0 => (HeldBy(k)' <=> HeldBy(k))
    BY <1>1, <2>3, <2>4 DEF HeldBy
  <2> QED
    BY <1>1, <2>1, <2>5, HoldersStep
<1> QED
  BY <1>2, <1>3 DEF NextJob

(* The teardown takes the job from a thread, which may be running it.       *)
LEMMA KillVictimRefines ==
  ASSUME IInv, IInv', KillVictim
  PROVE  [Pool!Next]_(Pool!vars)
<1> USE NullAssumption DEF IInv, PoolParts, TypeOK
<1>1. /\ UNCHANGED <<asked, runs, rjob, pending, pc>> /\ victim \in Workers
      /\ kill \in {"clear", "quit", "signal"} /\ MayStop
  BY DEF KillVictim, requestVars, ThreadParts, Victim, HandOffParts
<1>2. ASSUME NEW w \in Workers, job' = [job EXCEPT ![w] = NoJob]
      PROVE  [Pool!Next]_(Pool!vars)
  <2>1. MayStop
    BY <1>1
  <2>2. \A k \in Jobs : HeldBy(k)' => HeldBy(k)
    BY <1>1, <1>2 DEF HeldBy
  <2>3. CASE onBar[w] = NoJob
    <3>1. onBar' = onBar
      BY <1>1, <1>2, <2>3 DEF onBar
    <3> QED
      BY <1>1, <2>1, <2>2, <3>1, HoldersStep
  <2>4. CASE onBar[w] # NoJob
    <3>1. \A v \in Workers : onBar'[v] = IF v = w THEN NoJob ELSE onBar[v]
      BY <1>1, <1>2 DEF onBar
    <3>2. onBar \in [Workers -> Jobs \cup {NoJob}] /\ onBar' \in [Workers -> Jobs \cup {NoJob}]
      BY DEF onBar
    <3>3. onBar' = [onBar EXCEPT ![w] = NoJob]
      BY <3>1, <3>2
    <3>4. job[w] = onBar[w] /\ runs[job[w]] > 0
      BY <2>4, BarTypes DEF onBar
    <3>5. \A k \in Jobs : runs[k] = 0 => (HeldBy(k)' <=> HeldBy(k))
      BY <1>1, <1>2, <3>4 DEF HeldBy
    <3>6. waitingBar' = waitingBar
      BY <1>1, <3>5, HeldDef, HeldDefNext DEF waitingBar
    <3> QED
      BY <1>1, <2>4, <3>3, <3>6, FinishStep
  <2> QED
    BY <2>3, <2>4
<1>3. CASE UNCHANGED job
  BY <1>1, <1>3, SilentStep
<1> QED
  BY <1>1, <1>2, <1>3 DEF KillVictim, Kill

LEMMA DropPendingRefines ==
  ASSUME IInv, IInv', DropPending
  PROVE  [Pool!Next]_(Pool!vars)
<1> USE NullAssumption DEF IInv, PoolParts, TypeOK
<1>1. UNCHANGED <<asked, runs, rjob, job, pc>> /\ MayStop
  BY DEF DropPending, workerVars, requestVars, HandOffParts
<1>2. onBar' = onBar
  BY <1>1 DEF onBar
<1>3. CASE pending' = pending
  BY <1>1, <1>3, SilentStep
<1>4. CASE pending # <<>> /\ pending' = Tail(pending)
  <2>1. \A i \in 1..Len(pending') :
          pending'[i] = pending[i+1] /\ i+1 \in 1..Len(pending)
    BY <1>4, HeadTailProperties
  <2>2. \A k \in Jobs : HeldBy(k)' => HeldBy(k)
    BY <1>1, <2>1 DEF HeldBy
  <2> QED
    BY <1>1, <1>2, <2>2, HoldersStep
<1> QED
  BY <1>3, <1>4 DEF DropPending

LEMMA FreeListsRefines ==
  ASSUME IInv, IInv', FreeLists
  PROVE  [Pool!Next]_(Pool!vars)
<1> USE NullAssumption DEF IInv, PoolParts, TypeOK
<1>1. UNCHANGED <<asked, runs, rjob, job, pc>> /\ MayStop
  BY DEF FreeLists, workerVars, requestVars, HandOffParts
<1>2. CASE pending' = pending
  BY <1>1, <1>2, SilentStep
<1>3. CASE pending' = <<>>
  <2>1. onBar' = onBar
    BY <1>1 DEF onBar
  <2>2. \A k \in Jobs : HeldBy(k)' => HeldBy(k)
    BY <1>1, <1>3 DEF HeldBy
  <2> QED
    BY <1>1, <2>1, <2>2, HoldersStep
<1> QED
  BY <1>2, <1>3 DEF FreeLists

(* The steps that neither give, take, start nor end a job.                  *)
LEMMA SilentRefines ==
  ASSUME IInv, IInv',
         \/ \E r \in Requesters : PopThread(r) \/ Release(r)
         \/ \E w \in Workers : \/ Wake(w) \/ TestJob(w) \/ LeaveExecuting(w)
                              \/ EnterFree(w) \/ Exit(w)
         \/ Terminate \/ KillFree \/ KillExecuting \/ ClearPointers
         \/ \E f : Fault(f)
  PROVE  [Pool!Next]_(Pool!vars)
<1>1. UNCHANGED <<asked, runs, rjob, pending, job>>
  BY DEF PopThread, Release, Wake, TestJob, LeaveExecuting, EnterFree, Exit, Terminate,
         KillFree, KillExecuting, ClearPointers, Fault, workerVars, requestVars
<1>2. \A w \in Workers : (pc'[w] = "execute") <=> (pc[w] = "execute")
  BY DEF PopThread, Release, Wake, TestJob, LeaveExecuting, EnterFree, Exit, Terminate,
         KillFree, KillExecuting, ClearPointers, Fault, workerVars, requestVars, IInv, PoolParts, TypeOK
<1> QED
  BY <1>1, <1>2, SilentStep

LEMMA NextRefines == IInv /\ IInv' /\ [Next]_vars => [Pool!Next]_(Pool!vars)
<1> SUFFICES ASSUME IInv, IInv', [Next]_vars PROVE [Pool!Next]_(Pool!vars)
  OBVIOUS
<1>1. ASSUME NEW r \in Requesters, RequesterStep(r) PROVE [Pool!Next]_(Pool!vars)
  BY <1>1, SilentRefines, AssignRefines, KillPoppedRefines, PushExecutingRefines, DeferRefines
     DEF RequesterStep, UseFreedThread, PopFreedThreadList, PushFreedExecutingList, DeferToFreedList
<1>2. ASSUME NEW r \in Requesters, NEW j \in Jobs, Request(r, j) \/ Discard(r, j)
      PROVE  [Pool!Next]_(Pool!vars)
  BY <1>2, RequestRefines, DiscardRefines
<1>3. ASSUME NEW w \in Workers, WorkerStep(w) PROVE [Pool!Next]_(Pool!vars)
  BY <1>3, SilentRefines, CallJobRefines, JobReturnsRefines, NextJobRefines
     DEF WorkerStep, CallNullJob, NextFromFreedList, LeaveFreedList, EnterFreedList
<1>4. ASSUME Terminate \/ StopStep PROVE [Pool!Next]_(Pool!vars)
  BY <1>4, SilentRefines, KillVictimRefines, DropPendingRefines,
     FreeListsRefines
     DEF StopStep, KillGoneThread
<1>5. CASE UNCHANGED vars
  BY <1>5, SilentStep DEF vars, workerVars, requestVars
<1> QED
  BY <1>1, <1>2, <1>3, <1>4, <1>5 DEF Next

(* The pool of swdiag_thread.c does what JobPool promises, for any number   *)
(* of threads, requesters and jobs and with a teardown at any moment: each  *)
(* job it accepts is started at most once, on a thread that runs no other,  *)
(* and unless the pool may be torn down none is ever given up.              *)
THEOREM PoolImplementsJobPool == Spec => ImplementsJobPool
<1>1. Spec => []IInv
  BY Invariance
<1> QED
  BY <1>1, InitRefines, NextRefines, PTL DEF Spec, ImplementsJobPool, Pool!Spec
=============================================================================
