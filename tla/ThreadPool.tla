----------------------------- MODULE ThreadPool -----------------------------
(***************************************************************************)
(* The job thread pool of src/src/swdiag_thread.c, over the wait/release   *)
(* pair of src/src/swdiag_posix.c.                                         *)
(*                                                                         *)
(* Each list is protected by its own lock, taken inside the list call, so  *)
(* one list call is one step and everything between two list calls may     *)
(* interleave.  The lists of threads are read only for membership, so the  *)
(* free list is a set and the executing list (which accepts an element     *)
(* twice) a multiplicity; the pending list is a queue of jobs.             *)
(***************************************************************************)
EXTENDS Naturals, Sequences, FiniteSets

CONSTANTS Workers,      \* the worker threads, NBR_THREADS of them
          Jobs,         \* the jobs that may be requested, each at most once
          Requesters,   \* the threads that call swdiag_thread_request
          NoJob,        \* the NULL job pointer
          Nobody,       \* no owner (of the DB lock), no thread
          DbLocked,     \* requests are made, and jobs run, under the DB lock
          MayStop       \* swdiag_thread_terminate may be called

ASSUME DbLockedAssumption == DbLocked \in BOOLEAN
ASSUME MayStopAssumption  == MayStop \in BOOLEAN
ASSUME NullAssumption     == /\ NoJob \notin Jobs
                             /\ Nobody \notin Workers \cup Requesters

VARIABLES
  free,       \* thread_free_queue
  executing,  \* thread_executing_queue: how many entries each thread has
  pending,    \* job_pending_queue
  pc,         \* where each worker is in thread_main
  job,        \* thread->job
  work,       \* thread->xos->work_to_do
  quit,       \* thread->quit
  rpc,        \* where each requester is in swdiag_thread_request
  rjob,       \* its local variable job
  rthread,    \* its local variable thread
  db,         \* the owner of the object DB lock
  stop,       \* where swdiag_thread_terminate is
  victim,     \* the thread it popped from a list and kills
  kill,       \* where it is in swdiag_thread_kill
  asked,      \* history: the jobs whose request was made
  runs,       \* history: how many times each job was started
  fault       \* history: the first undefined behaviour executed, if any

workerVars  == <<pc, job, work, quit>>
requestVars == <<rpc, rjob, rthread, db, asked>>
stopVars == <<stop, victim, kill>>
vars == <<free, executing, pending, workerVars, requestVars, stopVars, runs, fault>>

-----------------------------------------------------------------------------
(* A list pointer is good until its list is freed, dangles until the next   *)
(* statement, and is then NULL: the list calls ignore a NULL list.          *)
ListStatus(gone, dangling) ==
  IF stop \in gone THEN "null" ELSE IF stop = dangling THEN "freed" ELSE "good"

FreeList == ListStatus({"kill_exec", "free_exec", "null_exec", "drain", "free_pending",
                        "null_pending", "done"}, "null_free")
ExecList == ListStatus({"drain", "free_pending", "null_pending", "done"}, "null_exec")
PendList == ListStatus({"done"}, "null_pending")

Fault(f) == /\ fault' = f
            /\ UNCHANGED <<free, executing, pending, workerVars, requestVars, stopVars, runs>>

-----------------------------------------------------------------------------
Init ==
  /\ free = Workers
  /\ executing = [w \in Workers |-> 0]
  /\ pending = <<>>
  /\ pc = [w \in Workers |-> "wait"]
  /\ job = [w \in Workers |-> NoJob]
  /\ work = [w \in Workers |-> FALSE]
  /\ quit = [w \in Workers |-> FALSE]
  /\ rpc = [r \in Requesters |-> "idle"]
  /\ rjob = [r \in Requesters |-> NoJob]
  /\ rthread = [r \in Requesters |-> Nobody]
  /\ db = Nobody
  /\ stop = "off"
  /\ victim = Nobody
  /\ kill = "none"
  /\ asked = {}
  /\ runs = [j \in Jobs |-> 0]
  /\ fault = "none"

-----------------------------------------------------------------------------
(* swdiag_thread_kill, a step at a time and without a lock: the job is      *)
(* cleared, then quit set, then the thread released, if it was not yet.     *)
NextOf(stage) == IF stage = "clear" THEN "quit" ELSE "signal"

(* Mutant: the thread is told to quit, but not woken.                       *)
KillUnsignalled(w, stage) ==
  /\ job' = IF stage = "clear" THEN [job EXCEPT ![w] = NoJob] ELSE job
  /\ quit' = IF stage = "quit" THEN [quit EXCEPT ![w] = TRUE] ELSE quit
  /\ UNCHANGED work

Kill(w, stage) ==
  /\ job' = IF stage = "clear" THEN [job EXCEPT ![w] = NoJob] ELSE job
  /\ quit' = IF stage = "quit" THEN [quit EXCEPT ![w] = TRUE] ELSE quit
  /\ work' = IF stage = "signal" THEN [work EXCEPT ![w] = TRUE] ELSE work

-----------------------------------------------------------------------------
(* swdiag_thread_request                                                    *)

(* The caller takes the DB lock (when it is one that does) and the job is   *)
(* allocated.                                                               *)
Request(r, j) ==
  /\ rpc[r] = "idle" /\ j \notin asked
  /\ DbLocked => db = Nobody
  /\ db' = IF DbLocked THEN r ELSE db
  /\ rpc' = [rpc EXCEPT ![r] = "pop"]
  /\ rjob' = [rjob EXCEPT ![r] = j]
  /\ asked' = asked \cup {j}
  /\ UNCHANGED <<free, executing, pending, workerVars, rthread, stopVars, runs, fault>>

(* The allocation fails: "Could not execute job, discarded".                *)
Discard(r, j) ==
  /\ rpc[r] = "idle" /\ j \notin asked
  /\ DbLocked => db = Nobody
  /\ asked' = asked \cup {j}
  /\ UNCHANGED <<free, executing, pending, workerVars, rpc, rjob, rthread, db,
                 stopVars, runs, fault>>

(* Return from the request, and release the DB lock.                        *)
Return(r) ==
  /\ rpc' = [rpc EXCEPT ![r] = "idle"]
  /\ rjob' = [rjob EXCEPT ![r] = NoJob]
  /\ rthread' = [rthread EXCEPT ![r] = Nobody]
  /\ db' = IF DbLocked THEN Nobody ELSE db

(* Pop a free thread: it gets the job unless it is quitting.                *)
PopThread(r) ==
  /\ rpc[r] = "pop"
  /\ FreeList # "freed"
  /\ \/ /\ FreeList = "good"
        /\ \E w \in free :
             /\ free' = free \ {w}
             /\ rthread' = [rthread EXCEPT ![r] = w]
             /\ rpc' = [rpc EXCEPT ![r] = IF quit[w] THEN "defer" ELSE "assign"]
     \/ /\ FreeList = "null" \/ free = {}
        /\ rpc' = [rpc EXCEPT ![r] = "defer"]
        /\ UNCHANGED <<free, rthread>>
  /\ UNCHANGED <<executing, pending, workerVars, rjob, db, asked, stopVars, runs, fault>>

PopFreedThreadList(r) == rpc[r] = "pop" /\ FreeList = "freed" /\ Fault("freed_list")

Assign(r) ==
  /\ rpc[r] = "assign" /\ pc[rthread[r]] # "gone"
  /\ job' = [job EXCEPT ![rthread[r]] = rjob[r]]
  /\ rpc' = [rpc EXCEPT ![r] = "release"]
  /\ UNCHANGED <<free, executing, pending, pc, work, quit, rjob, rthread, db, asked,
                 stopVars, runs, fault>>

(* Mutant: the thread is not signalled.                                     *)
ReleaseUnsignalled(r) ==
  /\ rpc[r] = "release" /\ pc[rthread[r]] # "gone"
  /\ rpc' = [rpc EXCEPT ![r] = "push"]
  /\ UNCHANGED <<free, executing, pending, workerVars, rjob, rthread, db, asked,
                 stopVars, runs, fault>>

(* swdiag_xos_thread_release succeeds unless work_to_do is already set; on  *)
(* failure the thread is killed and the request is over.                    *)
Release(r) ==
  /\ rpc[r] = "release" /\ pc[rthread[r]] # "gone"
  /\ \/ /\ ~work[rthread[r]]
        /\ work' = [work EXCEPT ![rthread[r]] = TRUE]
        /\ rpc' = [rpc EXCEPT ![r] = "push"]
     \/ /\ work[rthread[r]]
        /\ rpc' = [rpc EXCEPT ![r] = "clear"]
        /\ UNCHANGED work
  /\ UNCHANGED <<free, executing, pending, pc, job, quit, rjob, rthread, db, asked,
                 stopVars, runs, fault>>

KillPopped(r) ==
  /\ rpc[r] \in {"clear", "quit", "signal"} /\ pc[rthread[r]] # "gone"
  /\ Kill(rthread[r], rpc[r])
  /\ \/ /\ rpc[r] # "signal"
        /\ rpc' = [rpc EXCEPT ![r] = NextOf(rpc[r])]
        /\ UNCHANGED <<rjob, rthread, db>>
     \/ rpc[r] = "signal" /\ Return(r)
  /\ UNCHANGED <<free, executing, pending, pc, asked, stopVars, runs, fault>>

(* A thread that exited freed its own structure.                            *)
UseFreedThread(r) ==
  /\ rpc[r] \in {"assign", "release", "clear", "quit", "signal"}
  /\ pc[rthread[r]] = "gone"
  /\ Fault("freed_thread")

PushExecuting(r) ==
  /\ rpc[r] = "push"
  /\ ExecList # "freed"
  /\ executing' = IF ExecList = "null" THEN executing
                  ELSE [executing EXCEPT ![rthread[r]] = @ + 1]
  /\ Return(r)
  /\ UNCHANGED <<free, pending, workerVars, asked, stopVars, runs, fault>>

PushFreedExecutingList(r) == rpc[r] = "push" /\ ExecList = "freed" /\ Fault("freed_list")

(* No thread was free: the job goes on the pending queue.                   *)
Defer(r) ==
  /\ rpc[r] = "defer"
  /\ PendList # "freed"
  /\ pending' = IF PendList = "null" THEN pending ELSE Append(pending, rjob[r])
  /\ Return(r)
  /\ UNCHANGED <<free, executing, workerVars, asked, stopVars, runs, fault>>

DeferToFreedList(r) == rpc[r] = "defer" /\ PendList = "freed" /\ Fault("freed_list")

RequesterStep(r) ==
  \/ PopThread(r) \/ PopFreedThreadList(r)
  \/ Assign(r) \/ Release(r) \/ KillPopped(r) \/ UseFreedThread(r)
  \/ PushExecuting(r) \/ PushFreedExecutingList(r)
  \/ Defer(r) \/ DeferToFreedList(r)

-----------------------------------------------------------------------------
(* thread_main                                                              *)

(* Mutant: work_to_do is not reset.                                         *)
WakeUnreset(w) ==
  /\ pc[w] = "wait" /\ work[w]
  /\ pc' = [pc EXCEPT ![w] = IF quit[w] THEN "exit" ELSE "loop"]
  /\ UNCHANGED <<free, executing, pending, job, work, quit, requestVars, stopVars, runs, fault>>

(* swdiag_xos_thread_wait returns once work_to_do is set, and clears it.    *)
Wake(w) ==
  /\ pc[w] = "wait" /\ work[w]
  /\ work' = [work EXCEPT ![w] = FALSE]
  /\ pc' = [pc EXCEPT ![w] = IF quit[w] THEN "exit" ELSE "loop"]
  /\ UNCHANGED <<free, executing, pending, job, quit, requestVars, stopVars, runs, fault>>

(* while (thread->job).  A throttled thread sleeps between this test and    *)
(* the call of the job.                                                     *)
TestJob(w) ==
  /\ pc[w] = "loop"
  /\ pc' = [pc EXCEPT ![w] = IF job[w] # NoJob THEN "call" ELSE "remove"]
  /\ UNCHANGED <<free, executing, pending, job, work, quit, requestVars, stopVars, runs, fault>>

(* thread->job->execute(thread, thread->job->context)                       *)
CallJob(w) ==
  /\ pc[w] = "call" /\ job[w] # NoJob
  /\ pc' = [pc EXCEPT ![w] = "execute"]
  /\ runs' = [runs EXCEPT ![job[w]] = @ + 1]
  /\ UNCHANGED <<free, executing, pending, job, work, quit, requestVars, stopVars, fault>>

CallNullJob(w) == pc[w] = "call" /\ job[w] = NoJob /\ Fault("null_job")

(* The job returns.  One that takes the DB lock (seq_thread_fn does, first  *)
(* thing) gets nowhere while a requester holds it.                          *)
JobReturns(w) ==
  /\ pc[w] = "execute"
  /\ DbLocked => db = Nobody
  /\ pc' = [pc EXCEPT ![w] = "next"]
  /\ UNCHANGED <<free, executing, pending, job, work, quit, requestVars, stopVars, runs, fault>>

(* Mutants: the pending list is peeked, or not looked at, or thread->job is *)
(* not reset when the list is empty.                                        *)
NextJobPeeks(w) ==
  /\ pc[w] = "next" /\ PendList # "freed"
  /\ job' = [job EXCEPT ![w] = IF PendList = "good" /\ pending # <<>>
                               THEN Head(pending) ELSE NoJob]
  /\ pc' = [pc EXCEPT ![w] = "loop"]
  /\ UNCHANGED <<free, executing, pending, work, quit, requestVars, stopVars, runs, fault>>

NextJobLooksAway(w) ==
  /\ pc[w] = "next" /\ PendList # "freed"
  /\ job' = [job EXCEPT ![w] = NoJob]
  /\ pc' = [pc EXCEPT ![w] = "loop"]
  /\ UNCHANGED <<free, executing, pending, work, quit, requestVars, stopVars, runs, fault>>

NextJobKeepsOld(w) ==
  /\ pc[w] = "next" /\ PendList # "freed"
  /\ IF PendList = "good" /\ pending # <<>>
     THEN job' = [job EXCEPT ![w] = Head(pending)] /\ pending' = Tail(pending)
     ELSE UNCHANGED <<job, pending>>
  /\ pc' = [pc EXCEPT ![w] = "loop"]
  /\ UNCHANGED <<free, executing, work, quit, requestVars, stopVars, runs, fault>>

(* The job is recycled, and the next pending one taken.                     *)
NextJob(w) ==
  /\ pc[w] = "next"
  /\ PendList # "freed"
  /\ \/ /\ PendList = "good" /\ pending # <<>>
        /\ job' = [job EXCEPT ![w] = Head(pending)]
        /\ pending' = Tail(pending)
     \/ /\ PendList = "null" \/ pending = <<>>
        /\ job' = [job EXCEPT ![w] = NoJob]
        /\ UNCHANGED pending
  /\ pc' = [pc EXCEPT ![w] = "loop"]
  /\ UNCHANGED <<free, executing, work, quit, requestVars, stopVars, runs, fault>>

NextFromFreedList(w) == pc[w] = "next" /\ PendList = "freed" /\ Fault("freed_list")

(* Mutants: an entry is counted off that is not there, or none is.          *)
LeaveUnguarded(w) ==
  /\ pc[w] = "remove" /\ ExecList # "freed"
  /\ executing' = [executing EXCEPT ![w] = @ - 1]
  /\ pc' = [pc EXCEPT ![w] = "enter"]
  /\ UNCHANGED <<free, pending, job, work, quit, requestVars, stopVars, runs, fault>>

LeaveNothing(w) ==
  /\ pc[w] = "remove" /\ ExecList # "freed"
  /\ pc' = [pc EXCEPT ![w] = "enter"]
  /\ UNCHANGED <<free, executing, pending, job, work, quit, requestVars, stopVars, runs, fault>>

(* swdiag_list_remove takes one entry off the executing list, if any.       *)
LeaveExecuting(w) ==
  /\ pc[w] = "remove"
  /\ ExecList # "freed"
  /\ executing' = IF ExecList = "good" /\ executing[w] > 0
                  THEN [executing EXCEPT ![w] = @ - 1] ELSE executing
  /\ pc' = [pc EXCEPT ![w] = "enter"]
  /\ UNCHANGED <<free, pending, job, work, quit, requestVars, stopVars, runs, fault>>

LeaveFreedList(w) == pc[w] = "remove" /\ ExecList = "freed" /\ Fault("freed_list")

(* Back on the free list, and either wait or, when quit was set, exit.      *)
EnterFree(w) ==
  /\ pc[w] = "enter"
  /\ FreeList # "freed"
  /\ free' = IF FreeList = "good" THEN free \cup {w} ELSE free
  /\ pc' = [pc EXCEPT ![w] = IF quit[w] THEN "exit" ELSE "wait"]
  /\ UNCHANGED <<executing, pending, job, work, quit, requestVars, stopVars, runs, fault>>

EnterFreedList(w) == pc[w] = "enter" /\ FreeList = "freed" /\ Fault("freed_list")

(* The thread frees its structures.                                         *)
Exit(w) ==
  /\ pc[w] = "exit"
  /\ pc' = [pc EXCEPT ![w] = "gone"]
  /\ UNCHANGED <<free, executing, pending, job, work, quit, requestVars, stopVars, runs, fault>>

WorkerStep(w) ==
  \/ Wake(w) \/ TestJob(w)
  \/ CallJob(w) \/ CallNullJob(w) \/ JobReturns(w)
  \/ NextJob(w) \/ NextFromFreedList(w)
  \/ LeaveExecuting(w) \/ LeaveFreedList(w)
  \/ EnterFree(w) \/ EnterFreedList(w)
  \/ Exit(w)

-----------------------------------------------------------------------------
(* swdiag_thread_terminate: swdiag_thread_kill_threads, then                *)
(* thread_free_jobs.  swdiag_start calls it without the DB lock.            *)

Terminate ==
  /\ MayStop /\ stop = "off"
  /\ stop' = "kill_free"
  /\ UNCHANGED <<free, executing, pending, workerVars, requestVars, victim, kill, runs, fault>>

(* The threads on a list are popped and killed.                             *)
Pop(w) ==
  /\ victim' = w /\ kill' = "clear"
  /\ UNCHANGED stop

Popped(s) ==
  /\ stop' = s
  /\ UNCHANGED <<victim, kill>>

KillFree ==
  /\ stop = "kill_free" /\ kill = "none"
  /\ \/ \E w \in free :
          /\ free' = free \ {w}
          /\ Pop(w)
     \/ /\ free = {}
        /\ Popped("free_free")
        /\ UNCHANGED free
  /\ UNCHANGED <<executing, pending, workerVars, requestVars, runs, fault>>

KillExecuting ==
  /\ stop = "kill_exec" /\ kill = "none"
  /\ \/ \E w \in Workers :
          /\ executing[w] > 0
          /\ executing' = [executing EXCEPT ![w] = @ - 1]
          /\ Pop(w)
     \/ /\ \A w \in Workers : executing[w] = 0
        /\ Popped("free_exec")
        /\ UNCHANGED executing
  /\ UNCHANGED <<free, pending, workerVars, requestVars, runs, fault>>

KillVictim ==
  /\ kill # "none" /\ pc[victim] # "gone"
  /\ Kill(victim, kill)
  /\ IF kill = "signal" THEN victim' = Nobody /\ kill' = "none"
     ELSE kill' = NextOf(kill) /\ UNCHANGED victim
  /\ UNCHANGED <<free, executing, pending, pc, requestVars, stop, runs, fault>>

KillGoneThread ==
  /\ kill # "none" /\ pc[victim] = "gone"
  /\ Fault("freed_thread")

DropPending ==
  /\ stop = "drain"
  /\ IF pending # <<>>
     THEN pending' = Tail(pending) /\ UNCHANGED stop
     ELSE stop' = "free_pending" /\ UNCHANGED pending
  /\ UNCHANGED <<free, executing, workerVars, requestVars, victim, kill, runs, fault>>

(* swdiag_list_free frees what the list still holds.                        *)
FreeLists ==
  /\ \/ stop = "free_free" /\ stop' = "null_free" /\ free' = {}
        /\ UNCHANGED <<executing, pending>>
     \/ stop = "free_exec" /\ stop' = "null_exec"
        /\ executing' = [w \in Workers |-> 0] /\ UNCHANGED <<free, pending>>
     \/ stop = "free_pending" /\ stop' = "null_pending" /\ pending' = <<>>
        /\ UNCHANGED <<free, executing>>
  /\ UNCHANGED <<workerVars, requestVars, victim, kill, runs, fault>>

ClearPointers ==
  /\ \/ stop = "null_free" /\ stop' = "kill_exec"
     \/ stop = "null_exec" /\ stop' = "drain"
     \/ stop = "null_pending" /\ stop' = "done"
  /\ UNCHANGED <<free, executing, pending, workerVars, requestVars, victim, kill, runs, fault>>

StopStep == KillFree \/ KillExecuting \/ KillVictim \/ KillGoneThread \/ DropPending
            \/ FreeLists \/ ClearPointers

-----------------------------------------------------------------------------
(* After undefined behaviour nothing more is said of the program.           *)
Next ==
  /\ fault = "none"
  /\ \/ \E r \in Requesters :
          \/ RequesterStep(r)
          \/ \E j \in Jobs : Request(r, j) \/ Discard(r, j)
     \/ \E w \in Workers : WorkerStep(w)
     \/ Terminate
     \/ StopStep

Spec == Init /\ [][Next]_vars

(* A call that was entered goes on and a released thread runs: the          *)
(* operating system schedules every runnable thread.  Whether anyone makes  *)
(* another request, or terminates the pool, is up to the callers.           *)
Fairness ==
  /\ \A r \in Requesters : WF_vars(fault = "none" /\ RequesterStep(r))
  /\ \A w \in Workers : WF_vars(fault = "none" /\ WorkerStep(w))
  /\ WF_vars(fault = "none" /\ StopStep)

FairSpec == Spec /\ Fairness
=============================================================================
