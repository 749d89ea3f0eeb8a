-------------------------- MODULE ThreadPool_proofs --------------------------
(***************************************************************************)
(* Proofs about the thread pool, for any number of threads, requesters and *)
(* jobs, with or without the DB lock, and with the pool being torn down.   *)
(***************************************************************************)
EXTENDS ThreadPoolProps, SequenceTheorems, TLAPS

(* The invariant's parts are expanded throughout: most steps need several.  *)
USE NullAssumption DEF PoolParts, TypeOK, StopStages,
    JobParts, RunOnce, JobsToPlace, JobsPending, JobsAtThreads, Placing,
    ThreadParts, FreeThreadsReady, ReservedThreads, ReleasedThreads, QuitThreads, Victim,
    Reserving, Killing, NextOf, FreeList, ExecList, PendList, ListStatus, workerVars,
    requestVars, stopVars

LEMMA InitPool == Init => PoolParts
  BY DEF Init

-----------------------------------------------------------------------------
(* The requester.                                                          *)
LEMMA RequestInv == ASSUME PoolParts, NEW r \in Requesters, NEW j \in Jobs, Request(r, j) PROVE PoolParts'
  BY DEF Request

LEMMA DiscardInv == ASSUME PoolParts, NEW r \in Requesters, NEW j \in Jobs, Discard(r, j) PROVE PoolParts'
  BY DEF Discard

(* Jobs are only taken from threads, and no requester begins to place one.  *)
LEMMA JobsKept ==
  ASSUME PoolParts, UNCHANGED <<pending, pc, asked, runs>>,
         \A w \in Workers : job'[w] = job[w] \/ job'[w] = NoJob,
         \A r \in Requesters : Placing(r)' => Placing(r) /\ rjob'[r] = rjob[r]
  PROVE  JobParts'
<1>1. NoJob \notin asked
  OBVIOUS
<1>2. RunOnce' /\ (\A j \in Jobs \ asked : runs[j] = 0)'
  OBVIOUS
<1>3. JobsToPlace'
  BY <1>1
<1>4. JobsPending'
  BY <1>1
<1>5. JobsAtThreads'
  OBVIOUS
<1> QED
  BY <1>2, <1>3, <1>4, <1>5

LEMMA PopThreadInv == ASSUME PoolParts, NEW r \in Requesters, PopThread(r) PROVE PoolParts'
<1>1. ASSUME FreeList = "good", NEW w \in free,
             free' = free \ {w},
             rthread' = [rthread EXCEPT ![r] = w],
             rpc' = [rpc EXCEPT ![r] = IF quit[w] THEN "defer" ELSE "assign"]
      PROVE  PoolParts'
  <2>1. TypeOK'
    BY <1>1 DEF PopThread
  <2>2. JobParts'
    BY <1>1 DEF PopThread
  <2>3. ThreadParts'
    BY <1>1 DEF PopThread
  <2> QED
    BY <2>1, <2>2, <2>3
<1>2. CASE rpc' = [rpc EXCEPT ![r] = "defer"] /\ UNCHANGED <<free, rthread>>
  BY <1>2 DEF PopThread
<1> QED
  BY <1>1, <1>2 DEF PopThread

LEMMA AssignInv == ASSUME PoolParts, NEW r \in Requesters, Assign(r) PROVE PoolParts'
<1>1. TypeOK'
  BY DEF Assign
<1>2. RunOnce' /\ (\A j \in Jobs \ asked : runs[j] = 0)'
  BY DEF Assign
<1>3. JobsToPlace'
  BY DEF Assign
<1>4. JobsPending'
  BY DEF Assign
<1>5. JobsAtThreads'
  <2>1. /\ rthread[r] \in Workers /\ pc[rthread[r]] \in {"wait", "exit"}
        /\ rjob[r] \in asked /\ runs[rjob[r]] = 0
        /\ \A w \in Workers : job[w] # rjob[r]
    BY DEF Assign
  <2>2. /\ \A w \in Workers : job'[w] = IF w = rthread[r] THEN rjob[r] ELSE job[w]
        /\ UNCHANGED <<pc, asked, runs>>
    BY DEF Assign
  <2> QED
    BY <2>1, <2>2
<1>6. ThreadParts'
  <2>1. /\ rpc[r] = "assign" /\ rthread[r] \in Workers \ free
        /\ kill # "none" /\ FreeList = "good" => victim # rthread[r]
    BY DEF Assign
  <2>2. FreeThreadsReady' /\ (FreeList # "good" => free = {})' /\ QuitThreads'
        /\ ReleasedThreads'
    BY <2>1 DEF Assign
  <2>3. ReservedThreads'
    BY <2>1 DEF Assign
  <2>4. Victim'
    BY <2>1 DEF Assign
  <2> QED
    BY <2>2, <2>3, <2>4
<1> QED
  BY <1>1, <1>2, <1>3, <1>4, <1>5, <1>6

LEMMA ReleaseInv == ASSUME PoolParts, NEW r \in Requesters, Release(r) PROVE PoolParts'
<1> PICK w \in Workers : w = rthread[r]
  BY DEF Release
<1>0. /\ rpc[r] = "release" /\ w \notin free
      /\ pc[w] \in {"wait", "exit"} /\ (work[w] => quit[w])
      /\ \A s \in Requesters : Reserving(s) /\ s # r => rthread[s] # w
      /\ kill # "none" /\ FreeList = "good" => victim # w
  <2>1. Reserving(r) /\ rpc[r] = "release" /\ pc[w] # "gone"
    BY DEF Release
  <2> QED
    BY <2>1
<1>1. TypeOK'
  <2>1. CASE work' = [work EXCEPT ![w] = TRUE] /\ rpc' = [rpc EXCEPT ![r] = "push"]
    BY <2>1 DEF Release
  <2>2. CASE rpc' = [rpc EXCEPT ![r] = "clear"] /\ UNCHANGED work
    BY <2>2 DEF Release
  <2> QED
    BY <2>1, <2>2 DEF Release
<1>2. JobParts'
  <2>1. /\ UNCHANGED <<pending, pc, job, rjob, asked, runs>>
        /\ \A s \in Requesters : rpc'[s] = rpc[s] \/ rpc'[s] \in {"push", "clear"}
    BY DEF Release
  <2> QED
    BY <2>1, JobsKept
<1>3. CASE work' = [work EXCEPT ![w] = TRUE] /\ rpc' = [rpc EXCEPT ![r] = "push"]
  <2>1. ThreadParts'
    BY <1>0, <1>3 DEF Release
  <2> QED
    BY <1>1, <1>2, <2>1
<1>4. CASE work[w] /\ rpc' = [rpc EXCEPT ![r] = "clear"] /\ UNCHANGED work
  <2>1. ThreadParts'
    BY <1>0, <1>4 DEF Release
  <2> QED
    BY <1>1, <1>2, <2>1
<1> QED
  BY <1>3, <1>4 DEF Release

(* A step of swdiag_thread_kill clears a job, or sets quit or work_to_do.   *)
LEMMA KillEffect ==
  ASSUME TypeOK, NEW w \in Workers, NEW stage \in {"clear", "quit", "signal"}, Kill(w, stage)
  PROVE  /\ job' \in [Workers -> Jobs \cup {NoJob}]
         /\ quit' \in [Workers -> BOOLEAN] /\ work' \in [Workers -> BOOLEAN]
         /\ \A v \in Workers :
              /\ job'[v] = IF v = w /\ stage = "clear" THEN NoJob ELSE job[v]
              /\ quit'[v] <=> quit[v] \/ (v = w /\ stage = "quit")
              /\ work'[v] <=> work[v] \/ (v = w /\ stage = "signal")
BY DEF Kill

LEMMA KillPoppedInv == ASSUME PoolParts, NEW r \in Requesters, KillPopped(r) PROVE PoolParts'
<1> PICK w \in Workers : w = rthread[r]
  BY DEF KillPopped
<1>0. /\ rpc[r] \in {"clear", "quit", "signal"} /\ w \notin free /\ quit[w]
      /\ \A s \in Requesters : Reserving(s) /\ s # r => rthread[s] # w
      /\ kill # "none" /\ FreeList = "good" => victim # w
  <2>1. Killing(r)
    BY DEF KillPopped
  <2> QED
    BY <2>1
<1>1. /\ job' \in [Workers -> Jobs \cup {NoJob}]
      /\ quit' \in [Workers -> BOOLEAN] /\ work' \in [Workers -> BOOLEAN]
      /\ \A v \in Workers : /\ job'[v] = job[v] \/ job'[v] = NoJob
                            /\ quit'[v] <=> quit[v]
                            /\ v # w => (work'[v] <=> work[v])
  <2>1. Kill(w, rpc[r])
    BY DEF KillPopped
  <2>2. /\ job' \in [Workers -> Jobs \cup {NoJob}]
        /\ quit' \in [Workers -> BOOLEAN] /\ work' \in [Workers -> BOOLEAN]
        /\ \A v \in Workers :
             /\ job'[v] = IF v = w /\ rpc[r] = "clear" THEN NoJob ELSE job[v]
             /\ quit'[v] <=> quit[v] \/ (v = w /\ rpc[r] = "quit")
             /\ work'[v] <=> work[v] \/ (v = w /\ rpc[r] = "signal")
    BY <1>0, <2>1, KillEffect
  <2> QED
    BY <1>0, <2>2
<1>2. /\ UNCHANGED <<free, executing, pending, pc, asked, stopVars, runs, fault>>
      /\ \A s \in Requesters : /\ s # r => /\ rpc'[s] = rpc[s] /\ rjob'[s] = rjob[s]
                                           /\ rthread'[s] = rthread[s]
      /\ \/ rpc'[r] \in {"quit", "signal"} /\ rjob'[r] = rjob[r] /\ rthread'[r] = w
         \/ rpc'[r] = "idle"
  BY DEF KillPopped, Return
<1>3. TypeOK'
  <2>1. rpc' \in [Requesters -> {"idle", "pop", "assign", "release", "push", "defer",
                                 "clear", "quit", "signal"}]
    <3>1. CASE rpc' = [rpc EXCEPT ![r] = NextOf(rpc[r])]
      BY <3>1
    <3>2. CASE rpc' = [rpc EXCEPT ![r] = "idle"]
      BY <3>2
    <3> QED
      BY <3>1, <3>2 DEF KillPopped, Return
  <2>2. /\ rjob' \in [Requesters -> Jobs \cup {NoJob}]
        /\ rthread' \in [Requesters -> Workers \cup {Nobody}]
        /\ db' \in Requesters \cup {Nobody}
    <3>1. CASE UNCHANGED <<rjob, rthread, db>>
      BY <3>1
    <3>2. CASE Return(r)
      BY <3>2 DEF Return
    <3> QED
      BY <3>1, <3>2 DEF KillPopped
  <2> QED
    BY <1>1, <1>2, <2>1, <2>2
<1>4. JobParts'
  <2>1. \A s \in Requesters : Placing(s)' => Placing(s) /\ rjob'[s] = rjob[s]
    BY <1>2
  <2> QED
    BY <1>1, <1>2, <2>1, JobsKept
<1>5. ThreadParts'
  <2>1. FreeThreadsReady' /\ (FreeList # "good" => free = {})'
    BY <1>0, <1>1, <1>2
  <2>2. QuitThreads'
    BY <1>0, <1>1, <1>2
  <2>3. \A s \in Requesters : Reserving(s)' => Reserving(s) /\ rthread'[s] = rthread[s]
    BY <1>0, <1>2
  <2>4. ASSUME NEW s \in Requesters, Reserving(s)'
        PROVE  /\ rthread'[s] \in Workers \ free' /\ pc'[rthread'[s]] \in {"wait", "exit", "gone"}
               /\ work'[rthread'[s]] \/ Killing(s)' => quit'[rthread'[s]]
    <3>1. Reserving(s) /\ rthread'[s] = rthread[s]
      BY <2>3, <2>4
    <3>2. CASE s = r
      BY <1>0, <1>1, <1>2, <3>1, <3>2
    <3>3. CASE s # r
      <4>1. rthread[s] # w /\ (Killing(s)' => Killing(s))
        BY <1>0, <1>2, <3>1, <3>3
      <4> QED
        BY <1>1, <1>2, <3>1, <4>1
    <3> QED
      BY <3>2, <3>3
  <2>5. ReservedThreads'
    BY <2>3, <2>4
  <2>6. ReleasedThreads'
    BY <1>0, <1>2
  <2>7. Victim'
    BY <1>0, <1>1, <1>2, <2>3
  <2> QED
    BY <2>1, <2>2, <2>5, <2>6, <2>7
<1> QED
  BY <1>3, <1>4, <1>5

LEMMA PushExecutingInv == ASSUME PoolParts, NEW r \in Requesters, PushExecuting(r) PROVE PoolParts'
<1>1. executing' \in [Workers -> Nat]
  <2>1. rthread[r] \in Workers
    BY DEF PushExecuting
  <2> QED
    BY <2>1 DEF PushExecuting
<1>2. TypeOK'
  BY <1>1 DEF PushExecuting, Return
<1>3. JobParts' /\ ThreadParts'
  BY DEF PushExecuting, Return
<1> QED
  BY <1>2, <1>3

LEMMA DeferInv == ASSUME PoolParts, NEW r \in Requesters, Defer(r) PROVE PoolParts'
  BY DEF Defer, Return

-----------------------------------------------------------------------------
(* The worker thread.                                                      *)

LEMMA WakeInv == ASSUME PoolParts, NEW w \in Workers, Wake(w) PROVE PoolParts'
  BY DEF Wake

LEMMA TestJobInv == ASSUME PoolParts, NEW w \in Workers, TestJob(w) PROVE PoolParts'
  BY DEF TestJob

LEMMA CallJobInv == ASSUME PoolParts, NEW w \in Workers, CallJob(w) PROVE PoolParts'
<1>0. job[w] \in asked /\ runs[job[w]] = 0 /\ pc[w] = "call"
  BY DEF CallJob
<1>1. /\ runs' = [runs EXCEPT ![job[w]] = 1] /\ pc' = [pc EXCEPT ![w] = "execute"]
      /\ UNCHANGED <<free, executing, pending, job, work, quit, requestVars, stopVars, fault>>
  BY <1>0 DEF CallJob
<1>2. TypeOK'
  BY <1>0, <1>1
<1>3. JobParts'
  BY <1>0, <1>1
<1>4. ThreadParts'
  BY <1>0, <1>1
<1> QED
  BY <1>2, <1>3, <1>4

LEMMA JobReturnsInv == ASSUME PoolParts, NEW w \in Workers, JobReturns(w) PROVE PoolParts'
<1>1. TypeOK'
  BY DEF JobReturns
<1>2. JobParts'
  BY DEF JobReturns
<1>3. ThreadParts'
  BY DEF JobReturns
<1> QED
  BY <1>1, <1>2, <1>3

LEMMA NextJobInv == ASSUME PoolParts, NEW w \in Workers, NextJob(w) PROVE PoolParts'
<1>1. CASE job' = [job EXCEPT ![w] = NoJob] /\ UNCHANGED pending
  BY <1>1 DEF NextJob
<1>2. CASE /\ pending # <<>>
           /\ job' = [job EXCEPT ![w] = Head(pending)]
           /\ pending' = Tail(pending)
  <2>1. /\ Head(pending) = pending[1] /\ 1 \in 1..Len(pending)
        /\ pending' \in Seq(Jobs)
        /\ \A i \in 1..Len(pending') :
             pending'[i] = pending[i+1] /\ i+1 \in 1..Len(pending) /\ i+1 # 1
    BY <1>2, HeadTailProperties
  <2>2. TypeOK'
    BY <1>2, <2>1 DEF NextJob
  <2>3. RunOnce' /\ (\A j \in Jobs \ asked : runs[j] = 0)'
    BY DEF NextJob
  <2>4. JobsToPlace'
    BY <1>2, <2>1 DEF NextJob
  <2>5. JobsPending'
    BY <1>2, <2>1 DEF NextJob
  <2>6. JobsAtThreads'
    BY <1>2, <2>1 DEF NextJob
  <2>7. ThreadParts'
    BY <1>2 DEF NextJob
  <2> QED
    BY <2>2, <2>3, <2>4, <2>5, <2>6, <2>7
<1> QED
  BY <1>1, <1>2 DEF NextJob

LEMMA LeaveExecutingInv == ASSUME PoolParts, NEW w \in Workers, LeaveExecuting(w) PROVE PoolParts'
  BY DEF LeaveExecuting

LEMMA EnterFreeInv == ASSUME PoolParts, NEW w \in Workers, EnterFree(w) PROVE PoolParts'
  BY DEF EnterFree

LEMMA ExitInv == ASSUME PoolParts, NEW w \in Workers, Exit(w) PROVE PoolParts'
  BY DEF Exit

-----------------------------------------------------------------------------
(* The teardown of the pool.                                               *)

LEMMA TerminateInv == ASSUME PoolParts, Terminate PROVE PoolParts'
  BY DEF Terminate

LEMMA KillFreeInv == ASSUME PoolParts, KillFree PROVE PoolParts'
<1>1. TypeOK'
  BY DEF KillFree, Pop, Popped
<1>2. JobParts'
  BY DEF KillFree
<1>3. ThreadParts'
  BY DEF KillFree, Pop, Popped
<1> QED
  BY <1>1, <1>2, <1>3

LEMMA KillExecutingInv == ASSUME PoolParts, KillExecuting PROVE PoolParts'
<1>1. executing' \in [Workers -> Nat]
  BY DEF KillExecuting
<1>2. TypeOK'
  BY <1>1 DEF KillExecuting, Pop, Popped
<1>3. JobParts'
  BY DEF KillExecuting
<1>4. ThreadParts'
  BY DEF KillExecuting, Pop, Popped
<1> QED
  BY <1>2, <1>3, <1>4

LEMMA KillVictimInv == ASSUME PoolParts, KillVictim PROVE PoolParts'
<1> DEFINE w == victim
<1>0. /\ w \in Workers \ free /\ kill \in {"clear", "quit", "signal"}
      /\ kill = "signal" => quit[w]
      /\ FreeList = "good" => /\ pc[w] = "wait"
                              /\ \A r \in Requesters : Reserving(r) => rthread[r] # w
  BY DEF KillVictim
<1> HIDE DEF w
<1>1. /\ job' \in [Workers -> Jobs \cup {NoJob}]
      /\ quit' \in [Workers -> BOOLEAN] /\ work' \in [Workers -> BOOLEAN]
      /\ \A v \in Workers :
           /\ job'[v] = IF v = w /\ kill = "clear" THEN NoJob ELSE job[v]
           /\ quit'[v] <=> quit[v] \/ (v = w /\ kill = "quit")
           /\ work'[v] <=> work[v] \/ (v = w /\ kill = "signal")
  BY <1>0, KillEffect DEF KillVictim, w
<1>2. /\ UNCHANGED <<free, executing, pending, pc, requestVars, stop, runs, fault>>
      /\ \/ kill = "signal" /\ victim' = Nobody /\ kill' = "none"
         \/ kill = "clear" /\ victim' = w /\ kill' = "quit"
         \/ kill = "quit" /\ victim' = w /\ kill' = "signal"
  BY <1>0 DEF KillVictim, w
<1>3. TypeOK'
  BY <1>0, <1>1, <1>2
<1>4. JobParts'
  BY <1>1, <1>2
<1>5. ThreadParts'
  <2>1. FreeThreadsReady' /\ (FreeList # "good" => free = {})' /\ QuitThreads' /\ ReleasedThreads'
    BY <1>0, <1>1, <1>2
  <2>2. ReservedThreads'
    BY <1>0, <1>1, <1>2
  <2>3. Victim'
    BY <1>0, <1>1, <1>2 DEF w
  <2> QED
    BY <2>1, <2>2, <2>3
<1> QED
  BY <1>3, <1>4, <1>5

LEMMA DropPendingInv == ASSUME PoolParts, DropPending PROVE PoolParts'
<1>1. CASE pending = <<>>
  BY <1>1 DEF DropPending
<1>2. ASSUME pending # <<>>, pending' = Tail(pending),
             UNCHANGED <<free, executing, workerVars, requestVars, stopVars, runs, fault>>
      PROVE  PoolParts'
  <2>1. /\ pending' \in Seq(Jobs)
        /\ \A i \in 1..Len(pending') :
             pending'[i] = pending[i+1] /\ i+1 \in 1..Len(pending)
    BY <1>2, HeadTailProperties
  <2>2. TypeOK'
    BY <1>2, <2>1
  <2>3. JobsPending'
    BY <1>2, <2>1
  <2>4. JobsToPlace'
    BY <1>2, <2>1
  <2>5. ThreadParts'
    BY <1>2
  <2> QED
    BY <1>2, <2>2, <2>3, <2>4, <2>5
<1> QED
  BY <1>1, <1>2 DEF DropPending

LEMMA FreeListsInv == ASSUME PoolParts, FreeLists PROVE PoolParts'
<1>1. CASE stop = "free_free"
  BY <1>1 DEF FreeLists
<1>2. CASE stop = "free_exec"
  BY <1>2 DEF FreeLists
<1>3. CASE stop = "free_pending"
  BY <1>3 DEF FreeLists
<1> QED
  BY <1>1, <1>2, <1>3 DEF FreeLists

(* ClearPointers changes stop only. *)
LEMMA ClearPointersInv == ASSUME PoolParts, ClearPointers PROVE PoolParts'
  BY DEF ClearPointers

(* Undefined behaviour leaves a state the model no longer continues from.  *)
LEMMA FaultInv ==
  ASSUME PoolParts, NEW f \in {"null_job", "freed_list", "freed_thread"}, Fault(f)
  PROVE  PoolParts'
<1>1. TypeOK'
  BY DEF Fault
<1>2. JobParts'
  BY DEF Fault
<1>3. ThreadParts'
  BY DEF Fault
<1> QED
  BY <1>1, <1>2, <1>3

-----------------------------------------------------------------------------
(* Every step preserves the parts about jobs and threads.                   *)
LEMMA NextPool == PoolParts /\ [Next]_vars => PoolParts'
<1> SUFFICES ASSUME PoolParts, [Next]_vars PROVE PoolParts'
  OBVIOUS
<1>1. ASSUME NEW r \in Requesters, RequesterStep(r) PROVE PoolParts'
  BY <1>1, PopThreadInv, AssignInv, ReleaseInv, KillPoppedInv, PushExecutingInv, DeferInv,
     FaultInv
     DEF RequesterStep, UseFreedThread, PopFreedThreadList, PushFreedExecutingList,
         DeferToFreedList
<1>2. ASSUME NEW r \in Requesters, NEW j \in Jobs, Request(r, j) \/ Discard(r, j)
      PROVE  PoolParts'
  BY <1>2, RequestInv, DiscardInv
<1>3. ASSUME NEW w \in Workers, WorkerStep(w) PROVE PoolParts'
  BY <1>3, WakeInv, TestJobInv, CallJobInv, JobReturnsInv, NextJobInv, LeaveExecutingInv,
     EnterFreeInv, ExitInv, FaultInv
     DEF WorkerStep, CallNullJob, NextFromFreedList, LeaveFreedList, EnterFreedList
<1>4. ASSUME Terminate \/ StopStep PROVE PoolParts'
  BY <1>4, TerminateInv, KillFreeInv, KillExecutingInv, KillVictimInv, DropPendingInv,
     FreeListsInv, ClearPointersInv, FaultInv DEF StopStep, KillGoneThread
<1>5. CASE UNCHANGED vars
  <2>1. TypeOK'
    BY <1>5 DEF vars
  <2>2. JobParts'
    BY <1>5 DEF vars
  <2>3. ThreadParts'
    BY <1>5 DEF vars
  <2> QED
    BY <2>1, <2>2, <2>3
<1> QED
  BY <1>1, <1>2, <1>3, <1>4, <1>5 DEF Next

-----------------------------------------------------------------------------
(* The hand-off of a job to a thread.                                       *)
HIDE DEF JobParts
USE DbLockedAssumption, MayStopAssumption DEF HandOffParts

LEMMA InitHandOff == Init => HandOffParts
  BY DEF Init

(* Every step keeps the part of the invariant about the hand-off.           *)
LEMMA RequestHandOff ==
  ASSUME PoolParts, HandOffParts,
         NEW r \in Requesters, NEW j \in Jobs, Request(r, j)
  PROVE  HandOffParts'
  BY DEF Request

LEMMA DiscardHandOff ==
  ASSUME PoolParts, HandOffParts,
         NEW r \in Requesters, NEW j \in Jobs, Discard(r, j)
  PROVE  HandOffParts'
  BY DEF Discard

LEMMA PopThreadHandOff ==
  ASSUME PoolParts, HandOffParts,
         NEW r \in Requesters, PopThread(r)
  PROVE  HandOffParts'
  BY DEF PopThread

LEMMA AssignHandOff ==
  ASSUME PoolParts, HandOffParts,
         NEW r \in Requesters, Assign(r)
  PROVE  HandOffParts'
  BY DEF Assign

LEMMA ReleaseHandOff ==
  ASSUME PoolParts, HandOffParts,
         NEW r \in Requesters, Release(r)
  PROVE  HandOffParts'
  BY DEF Release

LEMMA KillPoppedHandOff ==
  ASSUME PoolParts, HandOffParts,
         NEW r \in Requesters, KillPopped(r)
  PROVE  HandOffParts'
<1> PICK w \in Workers : w = rthread[r]
  BY DEF KillPopped
<1>1. /\ Killing(r) /\ quit[w]
      /\ \A s \in Requesters : Reserving(s) /\ s # r => rthread[s] # w
  BY DEF KillPopped
<1>2. \A v \in Workers : v # w => job'[v] = job[v] /\ quit'[v] = quit[v]
  BY <1>1 DEF KillPopped, Kill
<1>3. /\ UNCHANGED <<asked, stop, kill, victim>>
      /\ \A s \in Requesters : /\ s # r => /\ rpc'[s] = rpc[s] /\ rjob'[s] = rjob[s]
                                           /\ rthread'[s] = rthread[s]
                               /\ rpc'[r] # "release"
                               /\ IF rpc'[r] = "idle" THEN rjob'[r] = NoJob
                                  ELSE rjob'[r] = rjob[r]
  <2>1. CASE rpc[r] = "signal" /\ Return(r)
    BY <1>1, <2>1 DEF KillPopped, Return
  <2>2. CASE rpc[r] # "signal"
    BY <1>1, <2>2 DEF KillPopped
  <2> QED
    BY <2>1, <2>2 DEF KillPopped
<1> QED
  BY <1>1, <1>2, <1>3

LEMMA PushExecutingHandOff ==
  ASSUME PoolParts, HandOffParts,
         NEW r \in Requesters, PushExecuting(r)
  PROVE  HandOffParts'
  BY DEF PushExecuting, Return

LEMMA DeferHandOff ==
  ASSUME PoolParts, HandOffParts,
         NEW r \in Requesters, Defer(r)
  PROVE  HandOffParts'
  BY DEF Defer, Return

LEMMA WakeHandOff ==
  ASSUME PoolParts, HandOffParts,
         NEW w \in Workers, Wake(w)
  PROVE  HandOffParts'
  BY DEF Wake

LEMMA TestJobHandOff ==
  ASSUME PoolParts, HandOffParts,
         NEW w \in Workers, TestJob(w)
  PROVE  HandOffParts'
  BY DEF TestJob

LEMMA CallJobHandOff ==
  ASSUME PoolParts, HandOffParts,
         NEW w \in Workers, CallJob(w)
  PROVE  HandOffParts'
  BY DEF CallJob

LEMMA JobReturnsHandOff ==
  ASSUME PoolParts, HandOffParts,
         NEW w \in Workers, JobReturns(w)
  PROVE  HandOffParts'
  BY DEF JobReturns

LEMMA NextJobHandOff ==
  ASSUME PoolParts, HandOffParts,
         NEW w \in Workers, NextJob(w)
  PROVE  HandOffParts'
  BY DEF NextJob

LEMMA LeaveExecutingHandOff ==
  ASSUME PoolParts, HandOffParts,
         NEW w \in Workers, LeaveExecuting(w)
  PROVE  HandOffParts'
  BY DEF LeaveExecuting

LEMMA EnterFreeHandOff ==
  ASSUME PoolParts, HandOffParts,
         NEW w \in Workers, EnterFree(w)
  PROVE  HandOffParts'
  BY DEF EnterFree

LEMMA ExitHandOff ==
  ASSUME PoolParts, HandOffParts,
         NEW w \in Workers, Exit(w)
  PROVE  HandOffParts'
  BY DEF Exit

LEMMA StopHandOff ==
  ASSUME PoolParts, HandOffParts,
         Terminate \/ DropPending \/ FreeLists \/ ClearPointers
  PROVE  HandOffParts'
  BY DEF Terminate, DropPending, FreeLists, ClearPointers

LEMMA KillFreeHandOff ==
  ASSUME PoolParts, HandOffParts,
         KillFree \/ KillExecuting
  PROVE  HandOffParts'
  BY DEF KillFree, KillExecuting, Pop, Popped

LEMMA KillVictimHandOff ==
  ASSUME PoolParts, HandOffParts,
         KillVictim
  PROVE  HandOffParts'
<1>1. /\ MayStop /\ victim \in Workers /\ kill \in {"clear", "quit", "signal"}
      /\ UNCHANGED <<rpc, rjob, rthread, asked>>
  BY DEF KillVictim
<1>2. Kill(victim, kill)
  BY DEF KillVictim
<1>3. \A v \in Workers :
        /\ quit[v] => quit'[v]
        /\ job'[v] = job[v] \/ (kill = "clear" /\ v = victim)
        /\ kill = "quit" /\ v = victim => quit'[v]
  <2>1. \A v \in Workers :
          /\ job'[v] = IF v = victim /\ kill = "clear" THEN NoJob ELSE job[v]
          /\ quit'[v] <=> quit[v] \/ (v = victim /\ kill = "quit")
    BY <1>1, <1>2, KillEffect
  <2> QED
    BY <2>1
<1>4. kill = "clear" => kill' = "quit" /\ victim' = victim
  BY DEF KillVictim
<1>5. ASSUME NEW r \in Requesters, rpc'[r] = "release"
      PROVE  \/ quit'[rthread'[r]]
             \/ job'[rthread'[r]] = rjob'[r]
             \/ kill' = "quit" /\ victim' = rthread'[r]
  <2>1. rthread[r] \in Workers /\ rpc[r] = "release"
    BY <1>1, <1>5
  <2> QED
    BY <1>1, <1>3, <1>4, <2>1
<1> QED
  BY <1>1, <1>5

LEMMA FaultHandOff ==
  ASSUME PoolParts, HandOffParts,
         NEW f, Fault(f)
  PROVE  HandOffParts'
  BY DEF Fault

-----------------------------------------------------------------------------
(* The lists that tell where a thread is.                                   *)
USE DEF LockedParts, HandingOff, Released, Busy

LEMMA InitLocked == Init => LockedParts
  BY DEF Init

(* Every step keeps the part of the invariant about the DB lock.            *)
LEMMA RequestLocked ==
  ASSUME PoolParts, HandOffParts, LockedParts,
         NEW r \in Requesters, NEW j \in Jobs, Request(r, j)
  PROVE  LockedParts'
  BY DEF Request

LEMMA DiscardLocked ==
  ASSUME PoolParts, HandOffParts, LockedParts,
         NEW r \in Requesters, NEW j \in Jobs, Discard(r, j)
  PROVE  LockedParts'
  BY DEF Discard

LEMMA PopThreadLocked ==
  ASSUME PoolParts, HandOffParts, LockedParts,
         NEW r \in Requesters, PopThread(r)
  PROVE  LockedParts'
  BY DEF PopThread

LEMMA AssignLocked ==
  ASSUME PoolParts, HandOffParts, LockedParts,
         NEW r \in Requesters, Assign(r)
  PROVE  LockedParts'
  BY DEF Assign

LEMMA ReleaseLocked ==
  ASSUME PoolParts, HandOffParts, LockedParts,
         NEW r \in Requesters, Release(r)
  PROVE  LockedParts'
<1> PICK w \in Workers : w = rthread[r]
  BY DEF Release
<1> SUFFICES ASSUME DbLocked PROVE LockedParts'
  OBVIOUS
<1>1. /\ ~work[w] /\ pc[w] = "wait" /\ job[w] # NoJob /\ db = r
      /\ \A s \in Requesters : s # r => rpc[s] = "idle"
  BY DEF Release
<1>2. /\ work' = [work EXCEPT ![w] = TRUE]
      /\ rpc' = [rpc EXCEPT ![r] = "push"]
      /\ UNCHANGED <<free, executing, pc, job, quit, rjob, rthread, db, stop>>
  BY <1>1 DEF Release
<1>3. ASSUME NEW s \in Requesters, rpc'[s] # "idle"
      PROVE  /\ db' = s
             /\ executing'[rthread'[s]] = 0 /\ ~quit'[rthread'[s]]
             /\ kill' # "none" => victim' # rthread'[s]
             /\ Released(rthread[s])' /\ job'[rthread'[s]] # NoJob
  <2>1. s = r /\ rthread'[s] = w
    BY <1>1, <1>2, <1>3
  <2>2. db' = s /\ executing'[w] = 0 /\ ~quit'[w] /\ job'[w] # NoJob
        /\ (kill' # "none" => victim' # w)
    BY <1>1, <1>2, <2>1 DEF Release
  <2>3. pc'[w] = "wait" /\ work'[w]
    BY <1>1, <1>2
  <2> QED
    BY <2>1, <2>2, <2>3
<1>4. \A v \in Workers :
        /\ executing'[v] <= 1
        /\ v \in free' \/ pc'[v] = "enter" \/ ExecList' # "good" => executing'[v] = 0
  BY <1>2
<1>5. \A v \in Workers : stop' = "off" /\ Busy(v)' =>
        executing'[v] = 1 \/ \E s \in Requesters : rpc'[s] = "push" /\ rthread'[s] = v
  BY <1>1, <1>2
<1> QED
  BY <1>3, <1>4, <1>5

(* Under the lock no hand-off fails, so none is followed by a kill.         *)
LEMMA KillPoppedLocked ==
  ASSUME PoolParts, HandOffParts, LockedParts,
         NEW r \in Requesters, KillPopped(r)
  PROVE  LockedParts'
<1>1. ~DbLocked
  BY DEF KillPopped
<1> QED
  BY <1>1

LEMMA PushExecutingLocked ==
  ASSUME PoolParts, HandOffParts, LockedParts,
         NEW r \in Requesters, PushExecuting(r)
  PROVE  LockedParts'
<1> SUFFICES ASSUME DbLocked PROVE LockedParts'
  OBVIOUS
<1>1. /\ rthread[r] \in Workers /\ executing[rthread[r]] = 0 /\ Released(rthread[r])
      /\ rpc[r] = "push" /\ \A s \in Requesters : s # r => rpc[s] = "idle"
      /\ rthread[r] \notin free
  BY DEF PushExecuting
<1>2. /\ rpc' = [rpc EXCEPT ![r] = "idle"]
      /\ UNCHANGED <<free, pc, job, work, quit, stop>>
      /\ IF ExecList = "null" THEN executing' = executing
         ELSE ExecList = "good" /\ executing' = [executing EXCEPT ![rthread[r]] = 1]
  BY <1>1 DEF PushExecuting, Return
<1>3. \A s \in Requesters : rpc'[s] = "idle"
  BY <1>1, <1>2
<1>4. \A w \in Workers :
        /\ executing'[w] <= 1
        /\ w \in free' \/ pc'[w] = "enter" \/ ExecList' # "good" => executing'[w] = 0
  <2>1. CASE ExecList = "null"
    BY <1>2, <2>1
  <2>2. CASE ExecList = "good" /\ executing' = [executing EXCEPT ![rthread[r]] = 1]
    <3>1. pc[rthread[r]] # "enter"
      BY <1>1
    <3> QED
      BY <1>1, <1>2, <2>2, <3>1
  <2> QED
    BY <1>2, <2>1, <2>2
<1>5. ASSUME NEW w \in Workers, stop' = "off", Busy(w)' PROVE executing'[w] = 1
  <2>1. ExecList = "good" /\ stop = "off" /\ Busy(w)
    BY <1>2, <1>5
  <2>2. executing' = [executing EXCEPT ![rthread[r]] = 1]
    BY <1>2, <2>1
  <2>3. executing[w] = 1 \/ w = rthread[r]
    <3>1. executing[w] = 1 \/ \E s \in Requesters : rpc[s] = "push" /\ rthread[s] = w
      BY <2>1
    <3> QED
      BY <1>1, <3>1
  <2> QED
    BY <2>2, <2>3
<1> QED
  BY <1>3, <1>4, <1>5

LEMMA DeferLocked ==
  ASSUME PoolParts, HandOffParts, LockedParts,
         NEW r \in Requesters, Defer(r)
  PROVE  LockedParts'
  BY DEF Defer, Return

LEMMA WakeLocked ==
  ASSUME PoolParts, HandOffParts, LockedParts,
         NEW w \in Workers, Wake(w)
  PROVE  LockedParts'
  BY DEF Wake

LEMMA TestJobLocked ==
  ASSUME PoolParts, HandOffParts, LockedParts,
         NEW w \in Workers, TestJob(w)
  PROVE  LockedParts'
  BY DEF TestJob

LEMMA CallJobLocked ==
  ASSUME PoolParts, HandOffParts, LockedParts,
         NEW w \in Workers, CallJob(w)
  PROVE  LockedParts'
  BY DEF CallJob

LEMMA JobReturnsLocked ==
  ASSUME PoolParts, HandOffParts, LockedParts,
         NEW w \in Workers, JobReturns(w)
  PROVE  LockedParts'
<1>1. DbLocked => \A r \in Requesters : rpc[r] = "idle"
  BY DEF JobReturns
<1> QED
  BY <1>1 DEF JobReturns

LEMMA NextJobLocked ==
  ASSUME PoolParts, HandOffParts, LockedParts,
         NEW w \in Workers, NextJob(w)
  PROVE  LockedParts'
  BY DEF NextJob

LEMMA LeaveExecutingLocked ==
  ASSUME PoolParts, HandOffParts, LockedParts,
         NEW w \in Workers, LeaveExecuting(w)
  PROVE  LockedParts'
  BY DEF LeaveExecuting

LEMMA EnterFreeLocked ==
  ASSUME PoolParts, HandOffParts, LockedParts,
         NEW w \in Workers, EnterFree(w)
  PROVE  LockedParts'
  BY DEF EnterFree

LEMMA ExitLocked ==
  ASSUME PoolParts, HandOffParts, LockedParts,
         NEW w \in Workers, Exit(w)
  PROVE  LockedParts'
  BY DEF Exit

LEMMA StopLocked ==
  ASSUME PoolParts, HandOffParts, LockedParts,
         Terminate \/ DropPending \/ FreeLists \/ ClearPointers
  PROVE  LockedParts'
  BY DEF Terminate, DropPending, FreeLists, ClearPointers

LEMMA KillFreeLocked ==
  ASSUME PoolParts, HandOffParts, LockedParts,
         KillFree
  PROVE  LockedParts'
  BY DEF KillFree, Pop, Popped

LEMMA KillExecutingLocked ==
  ASSUME PoolParts, HandOffParts, LockedParts,
         KillExecuting
  PROVE  LockedParts'
  BY DEF KillExecuting, Pop, Popped

LEMMA KillVictimLocked ==
  ASSUME PoolParts, HandOffParts, LockedParts,
         KillVictim
  PROVE  LockedParts'
<1> SUFFICES ASSUME DbLocked PROVE LockedParts'
  OBVIOUS
<1>1. /\ victim \in Workers /\ kill \in {"clear", "quit", "signal"}
      /\ stop # "off" /\ stop' = stop
      /\ UNCHANGED <<free, executing, pc, rpc, rjob, rthread, db>>
      /\ kill' = "none" \/ victim' = victim
  BY DEF KillVictim
<1>2. Kill(victim, kill)
  BY DEF KillVictim
<1>3. \A v \in Workers : v # victim =>
        job'[v] = job[v] /\ (quit'[v] <=> quit[v]) /\ (work'[v] <=> work[v])
  BY <1>1, <1>2, KillEffect
<1>4. ASSUME NEW r \in Requesters, HandingOff(r)'
      PROVE  /\ executing'[rthread'[r]] = 0 /\ ~quit'[rthread'[r]]
             /\ kill' # "none" => victim' # rthread'[r]
             /\ rpc'[r] = "push" => Released(rthread[r])' /\ job'[rthread'[r]] # NoJob
  <2>1. HandingOff(r) /\ rthread[r] \in Workers /\ rthread[r] # victim
    BY <1>1, <1>4 DEF KillVictim
  <2> QED
    BY <1>1, <1>3, <2>1
<1>5. \A r \in Requesters : rpc'[r] # "idle" => db' = r
  BY <1>1
<1>6. \A w \in Workers :
        /\ executing'[w] <= 1
        /\ w \in free' \/ pc'[w] = "enter" \/ ExecList' # "good" => executing'[w] = 0
  BY <1>1
<1> QED
  BY <1>1, <1>4, <1>5, <1>6

LEMMA FaultLocked ==
  ASSUME PoolParts, HandOffParts, LockedParts,
         NEW f, Fault(f)
  PROVE  LockedParts'
  BY DEF Fault

-----------------------------------------------------------------------------
(* Who holds a job.                                                         *)
HIDE DEF LockedParts
USE DEF HolderParts

LEMMA InitHolder == Init => HolderParts
  BY DEF Init

(* Every step keeps the part of the invariant about who holds a job.        *)
LEMMA RequestHolder ==
  ASSUME PoolParts, HandOffParts, HolderParts,
         NEW r \in Requesters, NEW j \in Jobs, Request(r, j)
  PROVE  HolderParts'
  BY DEF Request

LEMMA DiscardHolder ==
  ASSUME PoolParts, HandOffParts, HolderParts,
         NEW r \in Requesters, NEW j \in Jobs, Discard(r, j)
  PROVE  HolderParts'
  BY DEF Discard

LEMMA PopThreadHolder ==
  ASSUME PoolParts, HandOffParts, HolderParts,
         NEW r \in Requesters, PopThread(r)
  PROVE  HolderParts'
<1>1. UNCHANGED <<pc, job, runs>>
  BY DEF PopThread
<1>2. \A s \in Requesters : /\ rpc'[s] = "push" => rpc[s] = "push"
                           /\ rjob'[s] = rjob[s]
  BY DEF PopThread
<1>3. ASSUME NEW s \in Requesters, rpc'[s] = "assign" PROVE job'[rthread'[s]] = NoJob
  <2>1. CASE s = r
    <3>1. rthread'[r] \in free
      BY <1>3, <2>1 DEF PopThread
    <3> QED
      BY <1>1, <2>1, <3>1
  <2>2. CASE s # r
    BY <1>1, <1>3, <2>2 DEF PopThread
  <2> QED
    BY <2>1, <2>2
<1> QED
  BY <1>1, <1>2, <1>3

LEMMA AssignHolder ==
  ASSUME PoolParts, HandOffParts, HolderParts,
         NEW r \in Requesters, Assign(r)
  PROVE  HolderParts'
<1>1. /\ rthread[r] \in Workers /\ pc[rthread[r]] \in {"wait", "exit"}
      /\ \A s \in Requesters : rpc[s] = "assign" /\ s # r => rthread[s] # rthread[r]
  BY DEF Assign
<1>2. /\ rpc' = [rpc EXCEPT ![r] = "release"]
      /\ job' = [job EXCEPT ![rthread[r]] = rjob[r]]
      /\ UNCHANGED <<pc, rthread, rjob, runs>>
  BY DEF Assign
<1>3. job[rthread[r]] = NoJob
  BY DEF Assign
<1>4. \A s \in Requesters : rpc'[s] = "assign" => job'[rthread'[s]] = NoJob
  BY <1>1, <1>2
<1>5. \A s \in Requesters : ~MayStop /\ rpc'[s] = "push" =>
        runs'[rjob'[s]] > 0 \/ \E w \in Workers : job'[w] = rjob'[s]
  BY <1>1, <1>2, <1>3, NullAssumption
<1>6. \A w \in Workers : pc'[w] \in {"execute", "next"} /\ job'[w] # NoJob => runs'[job'[w]] > 0
  BY <1>1, <1>2
<1> QED
  BY <1>4, <1>5, <1>6

LEMMA ReleaseHolder ==
  ASSUME PoolParts, HandOffParts, HolderParts,
         NEW r \in Requesters, Release(r)
  PROVE  HolderParts'
<1>1. /\ rpc' = [rpc EXCEPT ![r] = "push"] \/ rpc' = [rpc EXCEPT ![r] = "clear"]
      /\ UNCHANGED <<pc, job, rjob, rthread, runs>> /\ rthread[r] \in Workers
  BY DEF Release
<1>2. ~MayStop => job[rthread[r]] = rjob[r]
  BY DEF Release
<1> QED
  BY <1>1, <1>2

LEMMA KillPoppedHolder ==
  ASSUME PoolParts, HandOffParts, HolderParts,
         NEW r \in Requesters, KillPopped(r)
  PROVE  HolderParts'
<1> PICK w \in Workers : w = rthread[r]
  BY DEF KillPopped
<1>1. MayStop /\ Killing(r) /\ UNCHANGED <<pc, runs>>
  BY DEF KillPopped
<1>2. \A v \in Workers : job'[v] = job[v] \/ job'[v] = NoJob
  BY <1>1, KillEffect DEF KillPopped
<1>3. \A s \in Requesters : rpc'[s] = "assign" => rpc[s] = "assign" /\ rthread'[s] = rthread[s]
  BY <1>1 DEF KillPopped, Return
<1>4. \A s \in Requesters : rpc[s] = "assign" => rthread[s] \in Workers
  OBVIOUS
<1> QED
  BY <1>1, <1>2, <1>3, <1>4

LEMMA PushExecutingHolder ==
  ASSUME PoolParts, HandOffParts, HolderParts,
         NEW r \in Requesters, PushExecuting(r)
  PROVE  HolderParts'
  BY DEF PushExecuting, Return

LEMMA DeferHolder ==
  ASSUME PoolParts, HandOffParts, HolderParts,
         NEW r \in Requesters, Defer(r)
  PROVE  HolderParts'
  BY DEF Defer, Return

LEMMA WakeHolder ==
  ASSUME PoolParts, HandOffParts, HolderParts,
         NEW w \in Workers, Wake(w)
  PROVE  HolderParts'
  BY DEF Wake

LEMMA TestJobHolder ==
  ASSUME PoolParts, HandOffParts, HolderParts,
         NEW w \in Workers, TestJob(w)
  PROVE  HolderParts'
  BY DEF TestJob

LEMMA CallJobHolder ==
  ASSUME PoolParts, HandOffParts, HolderParts,
         NEW w \in Workers, CallJob(w)
  PROVE  HolderParts'
  BY DEF CallJob, JobParts

LEMMA JobReturnsHolder ==
  ASSUME PoolParts, HandOffParts, HolderParts,
         NEW w \in Workers, JobReturns(w)
  PROVE  HolderParts'
  BY DEF JobReturns

LEMMA NextJobHolder ==
  ASSUME PoolParts, HandOffParts, HolderParts,
         NEW w \in Workers, NextJob(w)
  PROVE  HolderParts'
  BY DEF NextJob

LEMMA LeaveExecutingHolder ==
  ASSUME PoolParts, HandOffParts, HolderParts,
         NEW w \in Workers, LeaveExecuting(w)
  PROVE  HolderParts'
  BY DEF LeaveExecuting

LEMMA EnterFreeHolder ==
  ASSUME PoolParts, HandOffParts, HolderParts,
         NEW w \in Workers, EnterFree(w)
  PROVE  HolderParts'
  BY DEF EnterFree

LEMMA ExitHolder ==
  ASSUME PoolParts, HandOffParts, HolderParts,
         NEW w \in Workers, Exit(w)
  PROVE  HolderParts'
  BY DEF Exit

LEMMA StopHolder ==
  ASSUME PoolParts, HandOffParts, HolderParts,
         Terminate \/ DropPending \/ FreeLists \/ ClearPointers
  PROVE  HolderParts'
  BY DEF Terminate, DropPending, FreeLists, ClearPointers

LEMMA KillFreeHolder ==
  ASSUME PoolParts, HandOffParts, HolderParts,
         KillFree \/ KillExecuting
  PROVE  HolderParts'
  BY DEF KillFree, KillExecuting

LEMMA KillVictimHolder ==
  ASSUME PoolParts, HandOffParts, HolderParts,
         KillVictim
  PROVE  HolderParts'
<1>1. /\ MayStop /\ victim \in Workers /\ kill \in {"clear", "quit", "signal"}
      /\ UNCHANGED <<pc, runs, rpc, rjob, rthread>>
  BY DEF KillVictim
<1>2. \A v \in Workers : job'[v] = job[v] \/ job'[v] = NoJob
  BY <1>1, KillEffect DEF KillVictim
<1>3. \A s \in Requesters : rpc[s] = "assign" => rthread[s] \in Workers
  OBVIOUS
<1> QED
  BY <1>1, <1>2, <1>3

LEMMA FaultHolder ==
  ASSUME PoolParts, HandOffParts, HolderParts,
         NEW f, Fault(f)
  PROVE  HolderParts'
  BY DEF Fault

-----------------------------------------------------------------------------
(* Every step preserves the invariant.                                      *)
LEMMA NextInv == IInv /\ [Next]_vars => IInv'
<1> DEFINE Parts == HandOffParts /\ LockedParts /\ HolderParts
<1> SUFFICES ASSUME PoolParts, HandOffParts, LockedParts, HolderParts, [Next]_vars
             PROVE  PoolParts' /\ Parts'
  BY DEF IInv
<1> HIDE DEF PoolParts, HandOffParts, LockedParts, HolderParts
<1>1. PoolParts'
  BY NextPool
<1>2. ASSUME NEW r \in Requesters, RequesterStep(r) PROVE Parts'
  BY <1>2, PopThreadHandOff, AssignHandOff, ReleaseHandOff, KillPoppedHandOff, PushExecutingHandOff,
     DeferHandOff, FaultHandOff, PopThreadLocked, AssignLocked, ReleaseLocked, KillPoppedLocked,
     PushExecutingLocked, DeferLocked, FaultLocked, PopThreadHolder, AssignHolder,
     ReleaseHolder, KillPoppedHolder, PushExecutingHolder, DeferHolder, FaultHolder
     DEF RequesterStep, UseFreedThread, PopFreedThreadList, PushFreedExecutingList, DeferToFreedList
<1>3. ASSUME NEW r \in Requesters, NEW j \in Jobs, Request(r, j) \/ Discard(r, j)
      PROVE  Parts'
  BY <1>3, RequestHandOff, DiscardHandOff, RequestLocked, DiscardLocked, RequestHolder,
     DiscardHolder
<1>4. ASSUME NEW w \in Workers, WorkerStep(w) PROVE Parts'
  BY <1>4, WakeHandOff, TestJobHandOff, CallJobHandOff, JobReturnsHandOff, NextJobHandOff,
     LeaveExecutingHandOff, EnterFreeHandOff, ExitHandOff, FaultHandOff, WakeLocked, TestJobLocked,
     CallJobLocked, JobReturnsLocked, NextJobLocked, LeaveExecutingLocked,
     EnterFreeLocked, ExitLocked, FaultLocked, WakeHolder, TestJobHolder, CallJobHolder,
     JobReturnsHolder, NextJobHolder, LeaveExecutingHolder, EnterFreeHolder, ExitHolder, FaultHolder
     DEF WorkerStep, CallNullJob, NextFromFreedList, LeaveFreedList, EnterFreedList
<1>5. ASSUME Terminate \/ StopStep PROVE Parts'
  BY <1>5, StopHandOff, KillFreeHandOff, KillVictimHandOff, FaultHandOff, StopLocked,
     KillFreeLocked, KillExecutingLocked, KillVictimLocked, FaultLocked, StopHolder,
     KillFreeHolder, KillVictimHolder, FaultHolder
     DEF StopStep, KillGoneThread
<1>6. ASSUME UNCHANGED vars PROVE Parts'
  <2>1. HandOffParts'
    BY <1>6 DEF vars, HandOffParts
  <2>2. LockedParts'
    BY <1>6 DEF vars, LockedParts
  <2>3. HolderParts'
    BY <1>6 DEF vars, HolderParts
  <2> QED
    BY <2>1, <2>2, <2>3
<1> QED
  BY <1>1, <1>2, <1>3, <1>4, <1>5, <1>6 DEF Next

(* The inductive invariant holds of every behaviour of the pool.            *)
THEOREM Invariance == Spec => []IInv
<1>1. Init => IInv
  BY InitPool, InitHandOff, InitLocked, InitHolder DEF IInv
<1> QED
  BY <1>1, NextInv, PTL DEF Spec

(* The types of the variables.                                             *)
THEOREM TypeCorrect == Spec => []TypeOK
<1>1. IInv => TypeOK
  BY DEF IInv
<1> QED
  BY <1>1, Invariance, PTL

(* However requests, threads and the teardown interleave, no job is run    *)
(* twice: the pointer that swdiag_thread_request stores is read by one     *)
(* thread, and a pending job leaves the list once.                         *)
THEOREM JobsRunOnce == Spec => []RunOnce
<1>1. IInv => RunOnce
  BY DEF IInv, JobParts
<1> QED
  BY <1>1, Invariance, PTL

(* The free list of swdiag_thread.c holds parked threads only, so a thread *)
(* popped from it can be given a job without looking at its state.         *)
THEOREM FreeListIsParked == Spec => []FreeThreadsReady
<1>1. IInv => FreeThreadsReady
  BY DEF IInv
<1> QED
  BY <1>1, Invariance, PTL

(* The error branch of swdiag_thread_request that kills the thread it just *)
(* popped is dead when every request holds the DB lock, torn down or not,  *)
(* and without the lock as long as the pool is not torn down.              *)
THEOREM HandOffNeverFails == DbLocked \/ ~MayStop => (Spec => []HandOffSucceeds)
<1> SUFFICES ASSUME DbLocked \/ ~MayStop PROVE Spec => []HandOffSucceeds
  OBVIOUS
<1>1. IInv => HandOffSucceeds
  BY DEF IInv, LockedParts, HandOffSucceeds
<1> QED
  BY <1>1, Invariance, PTL

(* With the DB lock the lists tell where a thread is, also while the pool  *)
(* is torn down: what swdiag_thread_cpu sums over is each thread once.     *)
THEOREM ListsTell == DbLocked => (Spec => []ListsTellThreadState)
<1> SUFFICES ASSUME DbLocked PROVE Spec => []ListsTellThreadState
  OBVIOUS
<1>1. IInv => ListsTellThreadState
  BY DEF IInv, LockedParts, ListsTellThreadState
<1> QED
  BY <1>1, Invariance, PTL

=============================================================================
