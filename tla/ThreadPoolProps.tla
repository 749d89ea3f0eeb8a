--------------------------- MODULE ThreadPoolProps ---------------------------
(***************************************************************************)
(* What the thread pool guarantees, and what it was meant to guarantee.    *)
(***************************************************************************)
EXTENDS ThreadPool, SequencesExt

StopStages == {"off", "kill_free", "free_free", "null_free", "kill_exec", "free_exec",
               "null_exec", "drain", "free_pending", "null_pending", "done"}

(* The variables have their types.                                         *)
TypeOK ==
  /\ free \subseteq Workers
  /\ executing \in [Workers -> Nat]
  /\ pending \in Seq(Jobs)
  /\ pc \in [Workers -> {"wait", "loop", "call", "execute", "next", "remove", "enter", "exit",
                       "gone"}]
  /\ job \in [Workers -> Jobs \cup {NoJob}]
  /\ work \in [Workers -> BOOLEAN]
  /\ quit \in [Workers -> BOOLEAN]
  /\ rpc \in [Requesters -> {"idle", "pop", "assign", "release", "push", "defer",
                             "clear", "quit", "signal"}]
  /\ rjob \in [Requesters -> Jobs \cup {NoJob}]
  /\ rthread \in [Requesters -> Workers \cup {Nobody}]
  /\ db \in Requesters \cup {Nobody}
  /\ stop \in StopStages
  /\ victim \in Workers \cup {Nobody}
  /\ kill \in {"none", "clear", "quit", "signal"}
  /\ asked \subseteq Jobs
  /\ runs \in [Jobs -> Nat]
  /\ fault \in {"none", "null_job", "freed_list", "freed_thread"}

(* No job is started twice, although it is passed by pointer from the      *)
(* requester to a thread or to the pending list and on from there, while   *)
(* the pool may be torn down under all of them.                            *)
RunOnce == \A j \in Jobs : runs[j] <= 1

(* A thread found on the free list is parked in its wait, holds no job and *)
(* has no wake-up left over: a request may hand it a job at once.          *)
FreeThreadsReady ==
  \A w \in free : pc[w] = "wait" /\ job[w] = NoJob /\ ~work[w] /\ ~quit[w]

(* The inductive invariant behind RunOnce, FreeThreadsReady, the two        *)
(* properties stated after it and the refinement of JobPool.                *)

(* A job still to be placed by its requester.                              *)
Placing(r) == rpc[r] \in {"pop", "assign", "defer"}

(* A requester took the thread from the free list and has not released it, *)
(* or could not and kills it.                                              *)
Killing(r) == rpc[r] \in {"clear", "quit", "signal"}
Reserving(r) == rpc[r] \in {"assign", "release"} \/ Killing(r)

JobsToPlace ==
  \A r \in Requesters : Placing(r) =>
    /\ rjob[r] \in asked /\ runs[rjob[r]] = 0
    /\ \A w \in Workers : job[w] # rjob[r]
    /\ \A i \in 1..Len(pending) : pending[i] # rjob[r]
    /\ \A s \in Requesters : Placing(s) /\ s # r => rjob[s] # rjob[r]

JobsPending ==
  \A i \in 1..Len(pending) :
    /\ pending[i] \in asked /\ runs[pending[i]] = 0
    /\ \A w \in Workers : job[w] # pending[i]
    /\ \A k \in 1..Len(pending) : k # i => pending[k] # pending[i]

JobsAtThreads ==
  \A w \in Workers : job[w] # NoJob =>
    /\ job[w] \in asked
    /\ pc[w] \notin {"execute", "next"} => runs[job[w]] = 0
    /\ pc[w] \notin {"remove", "enter"}
    /\ \A v \in Workers : v # w => job[v] # job[w]

ReservedThreads ==
  \A r \in Requesters : Reserving(r) =>
    /\ rthread[r] \in Workers \ free
    /\ pc[rthread[r]] \in {"wait", "exit", "gone"}
    /\ work[rthread[r]] \/ Killing(r) => quit[rthread[r]]
    /\ \A s \in Requesters : Reserving(s) /\ s # r => rthread[s] # rthread[r]

ReleasedThreads == \A r \in Requesters : rpc[r] = "push" => rthread[r] \in Workers

QuitThreads ==
  \A w \in Workers :
    /\ pc[w] \in {"exit", "gone"} => quit[w]
    /\ work[w] => pc[w] = "wait" \/ quit[w]
    /\ quit[w] => FreeList # "good" \/ pc[w] \in {"wait", "exit", "gone"}

(* The thread that the teardown kills was on no list but the free one, or  *)
(* that list is gone.                                                      *)
Victim ==
  /\ kill # "none" => /\ victim \in Workers \ free
                      /\ kill = "signal" => quit[victim]
  /\ kill # "none" /\ FreeList = "good" =>
       /\ stop = "kill_free"
       /\ pc[victim] = "wait" /\ job[victim] = NoJob /\ ~work[victim]
       /\ \A r \in Requesters : Reserving(r) => rthread[r] # victim

JobParts ==
  /\ RunOnce
  /\ \A j \in Jobs \ asked : runs[j] = 0
  /\ JobsToPlace /\ JobsPending /\ JobsAtThreads

ThreadParts ==
  /\ FreeThreadsReady
  /\ FreeList # "good" => free = {}
  /\ ReservedThreads /\ ReleasedThreads /\ QuitThreads /\ Victim

PoolParts == TypeOK /\ JobParts /\ ThreadParts

(* The hand-off: the requester holds the job until the thread has it, and  *)
(* only a teardown beside the lock can get at the thread in between.       *)
HandOffParts ==
  /\ ~MayStop => stop = "off" /\ kill = "none" /\ \A w \in Workers : ~quit[w]
  /\ \A r \in Requesters :
       /\ IF rpc[r] = "idle" THEN rjob[r] = NoJob ELSE rjob[r] \in asked
       /\ rpc[r] = "release" =>
            \/ quit[rthread[r]] \/ job[rthread[r]] = rjob[r]
            \/ kill = "quit" /\ victim = rthread[r]

(* A requester has the thread, and has not yet put it on the executing     *)
(* list.                                                                   *)
HandingOff(r) == rpc[r] \in {"assign", "release", "push"} \/ Killing(r)

(* The thread was released with a job, or runs one.                        *)
Released(w) == \/ pc[w] = "wait" /\ work[w]
               \/ pc[w] \in {"loop", "call", "execute"}
Busy(w) == Released(w) \/ pc[w] = "next"

(* With the DB lock the whole request is one critical section, and a job   *)
(* does not return within it: a thread cannot leave the executing list     *)
(* before it was put there.                                                *)
LockedParts ==
  DbLocked =>
    /\ \A r \in Requesters :
         /\ rpc[r] # "idle" => db = r
         /\ HandingOff(r) =>
              /\ executing[rthread[r]] = 0 /\ ~quit[rthread[r]]
              /\ kill # "none" => victim # rthread[r]
         /\ rpc[r] = "push" => Released(rthread[r]) /\ job[rthread[r]] # NoJob
    /\ \A w \in Workers :
         /\ executing[w] <= 1
         /\ w \in free \/ pc[w] = "enter" \/ ExecList # "good" => executing[w] = 0
         /\ stop = "off" /\ Busy(w) =>
              \/ executing[w] = 1
              \/ \E r \in Requesters : rpc[r] = "push" /\ rthread[r] = w

(* Who holds a job: what relates the pool to the abstract one.              *)
HolderParts ==
  /\ \A r \in Requesters :
       /\ rpc[r] = "assign" => job[rthread[r]] = NoJob
       /\ ~MayStop /\ rpc[r] = "push" =>
            \/ runs[rjob[r]] > 0
            \/ \E w \in Workers : job[w] = rjob[r]
  /\ \A w \in Workers :
       pc[w] \in {"execute", "next"} /\ job[w] # NoJob => runs[job[w]] > 0

IInv == PoolParts /\ HandOffParts /\ LockedParts /\ HolderParts

(* The branch of swdiag_thread_request that kills the thread it just       *)
(* popped ("Failed to release thread") and loses the job is dead code.     *)
HandOffSucceeds ==
  \A r \in Requesters :
    rpc[r] = "release" => /\ ~work[rthread[r]] /\ ~quit[rthread[r]]
                          /\ job[rthread[r]] = rjob[r]

(* A thread is on one of the two thread lists only, once, and one that     *)
(* runs a job is on the executing list, unless the request that released   *)
(* it has not yet put it there: what swdiag_thread_cpu sums over.          *)
ListsTellThreadState ==
  \A w \in Workers :
    /\ executing[w] <= 1
    /\ w \in free => executing[w] = 0
    /\ stop = "off" /\ pc[w] \in {"loop", "call", "execute", "next"} =>
         \/ executing[w] = 1
         \/ \E r \in Requesters : rpc[r] = "push" /\ rthread[r] = w

(* The pool implements the abstract pool of JobPool.                       *)
Held == {rjob[r] : r \in Requesters} \cup ToSet(pending) \cup {job[w] : w \in Workers}
waitingBar == {j \in Jobs : runs[j] = 0 /\ j \in Held}
onBar == [w \in Workers |-> IF pc[w] = "execute" THEN job[w] ELSE NoJob]
overBar == asked \ (waitingBar \cup {onBar[w] : w \in Workers})

Pool == INSTANCE JobPool WITH waiting <- waitingBar, on <- onBar, over <- overBar
ImplementsJobPool == Pool!Spec

(* A job on the pending list is run, however many are before it, as long   *)
(* as some thread has yet to look at that list.                            *)
Looking(w) == \/ pc[w] \in {"call", "execute", "next"}
              \/ /\ pc[w] = "loop" \/ (pc[w] = "wait" /\ work[w])
                 /\ job[w] # NoJob
PendingJobsAreDrained ==
  \A j \in Jobs :
    (j \in ToSet(pending) /\ \E w \in Workers : Looking(w)) ~> (runs[j] > 0)

(* A job that was handed to a thread is run.                               *)
HandedJobsRun ==
  \A j \in Jobs :
    (\E r \in Requesters : rpc[r] = "assign" /\ rjob[r] = j) ~> (runs[j] > 0)

(* "If there are no threads available then defer the request to the        *)
(* pending queue until one becomes available" (swdiag_thread.c:422-423):   *)
(* no job waits while every thread is idle and nobody is in a request.     *)
NoStrandedJob ==
  ~ /\ pending # <<>>
    /\ free = Workers
    /\ \A r \in Requesters : rpc[r] = "idle"

(* A thread told to quit does exit, even though the wake-up sent with it   *)
(* is refused when one is already under way.                               *)
QuittersExit ==
  \A w \in Workers : quit[w] ~> (pc[w] = "gone" \/ fault # "none")
=============================================================================
