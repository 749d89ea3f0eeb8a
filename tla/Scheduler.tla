------------------------------ MODULE Scheduler ------------------------------
(***************************************************************************)
(* The test scheduler of src/src/swdiag_sched.c, with the callers of       *)
(* swdiag_api.c and swdiag_sequence.c that put tests on its queues.        *)
(*                                                                         *)
(* Every API call, every check of the queues and every part of a job       *)
(* between two calls of user functions runs under the object DB lock and   *)
(* is one step; a test function runs without the lock, between two steps.  *)
(* Only a call on a whole test object is a step for each of its instances, *)
(* the base instance first, with the lock held from the first to the last. *)
(*                                                                         *)
(* Time is relative: due[t] is how long until t's next_time has passed.    *)
(***************************************************************************)
EXTENDS Integers, SequencesExt, FiniteSetsExt

CONSTANTS Tests,          \* the test instances
          Polled,         \* those of polled tests; the others are notifications
          Autopass,       \* the notifications that have an autopass delay
          Base,           \* the base instance of the object each belongs to
          DefaultPeriod,  \* the queue each polled test was created for
          Length,         \* how long the period of each queue is
          AutopassDelay,  \* how long a failure lasts without being repeated
          Calls,          \* the kinds of call that are made
          MaxCalls        \* how many calls are made

Classes == {"FAST", "NORMAL", "SLOW", "USER"}
Queues  == Classes \cup {"IMMEDIATE"}
Created == {"CREATED", "ENABLED", "DISABLED"}
Live    == Created \cup {"INITIALIZED"}
Members == {t \in Tests : Base[t] # t}   \* the instances besides the base ones
Events  == {"RUN", "PASS", "FAIL", "AUTOPASS", "RCI"}

ASSUME TestsAssumption ==
  /\ Base \in [Tests -> Tests] /\ \A t \in Tests : Base[Base[t]] = Base[t]
  /\ Polled \subseteq Tests /\ Autopass \subseteq Tests \ Polled
  /\ \A t \in Tests : (t \in Polled <=> Base[t] \in Polled) /\ (t \in Autopass <=> Base[t] \in Autopass)
  /\ DefaultPeriod \in [Tests -> Classes]
ASSUME TimeAssumption ==
  /\ Length \in [Classes -> Nat \ {0}]
  /\ AutopassDelay \in Nat \ {0}
ASSUME CallsAssumption == MaxCalls \in Nat

VARIABLES
  state,     \* instance->state, "ABSENT" before the client creates it (there may
             \* be a forward reference), "FREED" once its memory is freed
  dflt,      \* instance->default_state
  cli,       \* instance->cli_state
  period,    \* the queue that test->period stands for, for the base instance
  last,      \* instance->last_result of a notification
  queued,    \* sched_test->queued
  queue,     \* test_queues
  due,       \* sched_test->next_time, relative to now; 0 once it has passed
  timer,     \* test_start_timer: -1 when it is not running
  wake,      \* the scheduler thread's work_to_do
  spc,       \* where the scheduler thread is
  jobs,      \* the jobs handed to the thread pool and not begun
  running,   \* how many calls of each test function are under way
  awaiting,  \* a test returned IN_PROGRESS and its result is not in yet
  loop,      \* the call on a whole object that is under way, and holds the lock:
             \* what it does, and the instances it has still to do it for
  calls      \* the calls made so far

objVars   == <<state, dflt, cli, period, last>>
schedVars == <<queued, queue, due, timer, wake>>
jobVars   == <<jobs, running, awaiting>>
vars      == <<objVars, schedVars, spc, jobVars, loop, calls>>

NoLoop   == [op |-> "none", arg |-> "none", left |-> {}]
Unlocked == loop.left = {}

Init ==
  /\ state = [t \in Tests |-> "ABSENT"]
  /\ dflt = [t \in Tests |-> "INITIALIZED"]
  /\ cli = [t \in Tests |-> "INITIALIZED"]
  /\ period = DefaultPeriod
  /\ last = [t \in Tests |-> "PASS"]
  /\ queued = [t \in Tests |-> "NONE"]
  /\ queue = [q \in Queues |-> <<>>]
  /\ due = [t \in Tests |-> 0]
  /\ timer = -1
  /\ wake = FALSE
  /\ spc = "create"
  /\ jobs = [t \in Tests |-> [e \in Events |-> 0]]
  /\ running = [t \in Tests |-> 0]
  /\ awaiting = [t \in Tests |-> FALSE]
  /\ loop = NoLoop
  /\ calls = 0

-----------------------------------------------------------------------------
(* The queues.                                                              *)

(* check_test_start_timer: the soonest head, over queues qs and times d.    *)
HeadTimes(qs, d) == {d[Head(qs[q])] : q \in {p \in Queues : qs[p] # <<>>}}

(* Without a timer nothing is done; with nothing queued, or something due,  *)
(* the timer is left as it is.                                              *)
TimerAfterRunning(tm, times) ==  \* mutant: a timer that runs is left alone
  IF tm # -1 \/ spc = "create" \/ times = {} \/ 0 \in times THEN tm ELSE Min(times)

TimerAfter(tm, times) ==
  IF spc = "create" \/ times = {} \/ 0 \in times THEN tm ELSE Min(times)

(* Something due releases the scheduler thread at once.                     *)
WakeAfter(times) == wake \/ (spc # "create" /\ 0 \in times)

(* Take t off the queue it is recorded on.                                  *)
QueuesWithout(t) ==
  IF queued[t] = "NONE" THEN queue
  ELSE [queue EXCEPT ![queued[t]] = RemoveFirst(@, t)]

(* The USER queue is ordered by time and takes a test once; the others,     *)
(* whose tests all have one period, are appended to.                        *)
InsertLast(s, q, t, d) == Append(s, t)  \* mutant: no order

Insert(s, q, t, d) ==
  IF q # "USER" THEN Append(s, t)
  ELSE IF Contains(s, t) THEN s
  ELSE InsertAt(s, Min({i \in 1..Len(s) : d[t] < d[s[i]]} \cup {Len(s) + 1}), t)

(* t goes from the queue it is recorded on, if any, to queue q; tm is the   *)
(* timer as it stands when t is inserted.                                   *)
EnqueueTwice(t, q, delay, tm) ==  \* mutant: it stays where it was too
  LET d  == [due EXCEPT ![t] = delay]
      qs == [queue EXCEPT ![q] = Insert(@, q, t, d)]
  IN  /\ queued' = [queued EXCEPT ![t] = q]
      /\ due' = d
      /\ queue' = qs
      /\ timer' = TimerAfter(tm, HeadTimes(qs, d))
      /\ wake' = WakeAfter(HeadTimes(qs, d))

EnqueueInPlace(t, q, delay, tm) ==  \* mutant: it keeps its place
  LET d  == [due EXCEPT ![t] = delay]
      qs == IF queued[t] = q THEN queue ELSE [QueuesWithout(t) EXCEPT ![q] = Insert(@, q, t, d)]
  IN  /\ queued' = [queued EXCEPT ![t] = q]
      /\ due' = d
      /\ queue' = qs
      /\ timer' = TimerAfter(tm, HeadTimes(qs, d))
      /\ wake' = WakeAfter(HeadTimes(qs, d))

Enqueue(t, q, delay, tm) ==
  LET d  == [due EXCEPT ![t] = delay]
      qs == [QueuesWithout(t) EXCEPT ![q] = Insert(@, q, t, d)]
  IN  /\ queued' = [queued EXCEPT ![t] = q]
      /\ due' = d
      /\ queue' = qs
      /\ timer' = TimerAfter(tm, HeadTimes(qs, d))
      /\ wake' = WakeAfter(HeadTimes(qs, d))

(* What swdiag_sched_add_test schedules, for an instance in state st whose   *)
(* last result is res, and where, for a test of period p.                   *)
Wanted(t, st, res) == st = "ENABLED" /\ (t \in Polled \/ (t \in Autopass /\ res = "FAIL"))
QueueFor(t, p) == IF t \in Polled THEN p ELSE "USER"
DelayOf(t, p) == IF t \in Polled THEN Length[p] ELSE AutopassDelay

(* swdiag_sched_add_test                                                    *)
AddTestAny(t, st, res, p) ==  \* mutant: in any state
  IF /\ t \in Polled \/ (t \in Autopass /\ res = "FAIL")
     /\ queued[t] = QueueFor(t, p) => QueueFor(t, p) = "USER"
  THEN Enqueue(t, QueueFor(t, p), DelayOf(t, p), timer)
  ELSE UNCHANGED schedVars

AddTest(t, st, res, p) ==
  IF /\ Wanted(t, st, res)
     /\ queued[t] = QueueFor(t, p) => QueueFor(t, p) = "USER"
  THEN Enqueue(t, QueueFor(t, p), DelayOf(t, p), timer)
  ELSE UNCHANGED schedVars

(* swdiag_sched_remove_test                                                 *)
RemoveTest(t) ==
  LET qs == QueuesWithout(t) IN
  /\ queued' = [queued EXCEPT ![t] = "NONE"]
  /\ queue' = qs
  /\ UNCHANGED due
  /\ timer' = TimerAfter(timer, HeadTimes(qs, due))
  /\ wake' = WakeAfter(HeadTimes(qs, due))

-----------------------------------------------------------------------------
(* What a call does to one instance of its object.                          *)

(* An instance that is made has the state of its object, if that was made   *)
(* ready, and its default state.                                            *)
Inherited(t) ==
  IF state[Base[t]] \in {"ENABLED", "DISABLED"} THEN state[Base[t]] ELSE "INITIALIZED"

(* The state in which a call finds the instance it names: one that does not *)
(* exist is made, as a forward reference.                                   *)
Found(t) == IF t \in Members /\ state[t] = "ABSENT" THEN Inherited(t) ELSE state[t]

(* swdiag_test_chain_ready: the CLI's state, or else the API's, or else the *)
(* system's or the parent component's; a forward reference has only the     *)
(* CLI's.  The state of the base instance tells whether any is scheduled.   *)
ReadyInstance(t, sys) ==
  LET d  == IF state[t] \in Created /\ dflt[t] = "INITIALIZED" /\ cli[t] = "INITIALIZED"
            THEN sys ELSE dflt[t]
      st == IF cli[t] # "INITIALIZED" THEN cli[t]
            ELSE IF state[t] \in Created THEN d ELSE state[t]
  IN  /\ state' = [state EXCEPT ![t] = st]
      /\ dflt' = [dflt EXCEPT ![t] = d]
      /\ IF t \in Polled /\ state'[Base[t]] = "ENABLED"
         THEN AddTest(t, st, last[t], period[Base[t]])
         ELSE UNCHANGED schedVars
      /\ UNCHANGED <<cli, period, last, jobVars>>

(* The state that the API or the CLI asks for is noted, and takes effect    *)
(* unless the CLI has asked for the opposite.                               *)
SetState(t, st, by, effective) ==
  LET c == IF by = "CLI" THEN st ELSE cli[t] IN
  /\ cli' = [cli EXCEPT ![t] = c]
  /\ dflt' = [dflt EXCEPT ![t] = IF by = "API" THEN st
                                 ELSE IF state[t] = "ABSENT" THEN dflt[Base[t]] ELSE @]
  /\ state' = [state EXCEPT ![t] =
                 IF effective /\ c \in {"INITIALIZED", st} THEN st ELSE Found(t)]

EnableInstance(t, by, effective) ==
  /\ SetState(t, "ENABLED", by, effective)
  /\ IF t \in Polled /\ effective THEN AddTest(t, state'[t], last[t], period[Base[t]])
     ELSE UNCHANGED schedVars
  /\ UNCHANGED <<period, last, jobVars>>

DisableInstance(t, by, effective) ==
  /\ SetState(t, "DISABLED", by, effective)
  /\ IF t \in Polled /\ effective THEN RemoveTest(t) ELSE UNCHANGED schedVars
  /\ UNCHANGED <<period, last, jobVars>>

(* swdiag_api_test_default: the CLI withdraws what it asked for.            *)
DefaultInstance(t) ==
  /\ state' = [state EXCEPT ![t] = IF @ \in {"ENABLED", "DISABLED"} THEN dflt[t] ELSE @]
  /\ cli' = [cli EXCEPT ![t] = "INITIALIZED"]
  /\ period' = IF t \in Members THEN period ELSE [period EXCEPT ![t] = DefaultPeriod[t]]
  /\ IF t \in Polled THEN AddTest(t, state'[t], last[t], period'[Base[t]])
     ELSE UNCHANGED schedVars
  /\ UNCHANGED <<dflt, last, jobVars>>

(* swdiag_cli_local_config_test_param: off its queue, and onto the queue of *)
(* the new period.                                                          *)
PeriodInstance(t, p) ==
  /\ period' = [period EXCEPT ![Base[t]] = p]
  /\ IF Wanted(t, state[t], last[t]) THEN Enqueue(t, QueueFor(t, p), DelayOf(t, p), timer)
     ELSE RemoveTest(t)
  /\ UNCHANGED <<state, dflt, cli, last, jobVars>>

(* swdiag_test_delete, which takes the base instance of a notification off  *)
(* its queue, and not the others.                                           *)
DeleteInstance(t) ==
  /\ state' = [state EXCEPT ![t] = "DELETED"]
  /\ IF t \in Members \ Polled THEN UNCHANGED schedVars ELSE RemoveTest(t)
  /\ UNCHANGED <<dflt, cli, period, last, jobVars>>

(* swdiag_obj_delete alone: nothing is taken off a queue.  What was only    *)
(* referred to may be referred to again.                                    *)
ForgetInstance(t) ==
  /\ IF state[t] = "ABSENT"
     THEN /\ dflt' = [dflt EXCEPT ![t] = "INITIALIZED"]
          /\ cli' = [cli EXCEPT ![t] = "INITIALIZED"]
          /\ UNCHANGED state
     ELSE /\ state' = [state EXCEPT ![t] = "DELETED"]
          /\ UNCHANGED <<dflt, cli>>
  /\ UNCHANGED <<period, last, schedVars, jobVars>>

-----------------------------------------------------------------------------
(* Calls.                                                                   *)

OnInstance(op, arg, t) ==
  \/ op = "ready" /\ ReadyInstance(t, arg)
  \/ op = "enable" /\ EnableInstance(t, arg, TRUE)
  \/ op = "disable" /\ DisableInstance(t, arg, TRUE)
  \/ op = "default" /\ DefaultInstance(t)
  \/ op = "period" /\ PeriodInstance(t, arg)
  \/ op = "delete" /\ DeleteInstance(t)
  \/ op = "forget" /\ ForgetInstance(t)

(* A call on the object of base instance b, and its steps for the others.   *)
LoopFor(op, arg, left) == IF left = {} THEN NoLoop ELSE [op |-> op, arg |-> arg, left |-> left]

OnObject(op, arg, b) ==
  /\ OnInstance(op, arg, b)
  /\ loop' = LoopFor(op, arg, {t \in Members : Base[t] = b /\ state[t] \in Live})

Continue ==
  /\ \E t \in loop.left :
       /\ OnInstance(loop.op, loop.arg, t)
       /\ loop' = LoopFor(loop.op, loop.arg, loop.left \ {t})
  /\ UNCHANGED <<spc, calls>>

(* swdiag_test_create_polled and swdiag_test_create_notification, for a new *)
(* test, a forward reference, or a test that exists.                        *)
CreateTest(t) ==
  /\ t \notin Members
  /\ state[t] = "ABSENT" \/ ("recreate" \in Calls /\ state[t] \in Live)
  /\ state' = [state EXCEPT ![t] = "CREATED"]
  /\ period' = [period EXCEPT ![t] = DefaultPeriod[t]]
  /\ queued' = [queued EXCEPT ![t] = "NONE"]
  /\ UNCHANGED <<dflt, cli, last, queue, due, timer, wake, jobVars, loop>>

(* swdiag_instance_create                                                   *)
CreateInstance(t) ==
  /\ t \in Members /\ state[t] = "ABSENT" /\ state[Base[t]] \in Live \cup {"ABSENT"}
  /\ state' = [state EXCEPT ![t] = IF Inherited(t) = "INITIALIZED" THEN "CREATED" ELSE Inherited(t)]
  /\ dflt' = [dflt EXCEPT ![t] = dflt[Base[t]]]
  /\ IF t \in Polled THEN AddTest(t, Inherited(t), last[t], period[Base[t]])
     ELSE UNCHANGED schedVars
  /\ UNCHANGED <<cli, period, last, jobVars, loop>>

ChainReady(b) == state[b] \in Created /\ \E sys \in {"ENABLED", "DISABLED"} : OnObject("ready", sys, b)

(* What is asked for takes effect, on an object or an instance, unless it   *)
(* is taken for a forward reference; the other instances of an object that  *)
(* is are not touched.                                                      *)
Alone(t) ==
  IF t \in Members THEN state[t] \in Live \cup {"ABSENT"} /\ state[Base[t]] \in Live
  ELSE state[t] \in {"INITIALIZED", "ABSENT"}

(* swdiag_api_test_enable_guts                                              *)
Enable(t, by) ==
  \/ t \notin Members /\ state[t] \in Created /\ OnObject("enable", by, t)
  \/ Alone(t) /\ EnableInstance(t, by, Found(t) \in Created) /\ UNCHANGED loop

(* swdiag_api_test_disable_guts                                             *)
Disable(t, by) ==
  \/ t \notin Members /\ state[t] \in Created /\ OnObject("disable", by, t)
  \/ Alone(t) /\ DisableInstance(t, by, Found(t) \in Created) /\ UNCHANGED loop

(* swdiag_api_test_default deletes the object of what it takes for a forward *)
(* reference, if its period is the default one.                             *)
Default(t) ==
  \/ t \notin Members /\ state[t] \in Created /\ OnObject("default", "none", t)
  \/ /\ t \in Members /\ state[t] \in Created /\ state[Base[t]] \in Live
     /\ DefaultInstance(t) /\ UNCHANGED loop
  \/ /\ state[t] = "INITIALIZED" \/ (state[t] = "ABSENT" /\ t \notin Members)
     /\ IF period[Base[t]] = DefaultPeriod[Base[t]] THEN OnObject("forget", "none", Base[t])
        ELSE /\ cli' = [cli EXCEPT ![t] = "INITIALIZED"]
             /\ UNCHANGED <<state, dflt, period, last, schedVars, jobVars, loop>>

SetPeriod(b, p) == b \notin Members /\ state[b] \in Live /\ OnObject("period", p, b)

(* swdiag_test_delete, and swdiag_instance_delete.                          *)
Delete(t) ==
  /\ state[t] \in Live
  /\ \/ t \notin Members /\ OnObject("delete", "none", t)
     \/ /\ t \in Members
        /\ state' = [state EXCEPT ![t] = "DELETED"] /\ RemoveTest(t)
        /\ UNCHANGED <<dflt, cli, period, last, jobVars, loop>>

(* swdiag_test_notify                                                       *)
Notify(t, res) ==
  /\ state[t] = "ENABLED"
  /\ jobs' = [jobs EXCEPT ![t][res] = @ + 1]
  /\ awaiting' = [awaiting EXCEPT ![t] = FALSE]
  /\ UNCHANGED <<objVars, schedVars, running, loop>>

(* swdiag_sched_test_immediate, asked for by root cause identification.     *)
TestImmediate(t) ==
  /\ state[t] \in Live
  /\ queued[t] # "IMMEDIATE" /\ (queued[t] = "NONE" => t \notin Polled)
  /\ Enqueue(t, "IMMEDIATE", 0,
             IF queued[t] = "NONE" THEN timer
             ELSE TimerAfter(timer, HeadTimes(QueuesWithout(t), due)))
  /\ UNCHANGED <<objVars, jobVars, loop>>

Call(t) ==
  /\ Unlocked
  /\ calls < MaxCalls
  /\ calls' = calls + 1
  /\ \/ CreateTest(t) \/ CreateInstance(t)
     \/ t \notin Members /\ ChainReady(t)
     \/ "enable" \in Calls /\ Enable(t, "API")
     \/ "disable" \in Calls /\ Disable(t, "API")
     \/ "cli" \in Calls /\ (Enable(t, "CLI") \/ Disable(t, "CLI") \/ Default(t))
     \/ "period" \in Calls /\ \E p \in Classes : SetPeriod(t, p)
     \/ "delete" \in Calls /\ Delete(t)
     \/ "notify" \in Calls /\ \E res \in {"PASS", "FAIL"} : Notify(t, res)
     \/ "immediate" \in Calls /\ TestImmediate(t)
  /\ UNCHANGED spc

-----------------------------------------------------------------------------
(* The scheduler thread.                                                    *)

(* sched_thread_main creates the timer, and checks the queues once before   *)
(* its loop.                                                                *)
CreateTimer ==
  /\ spc = "create"
  /\ spc' = "check"
  /\ UNCHANGED <<objVars, schedVars, jobVars, loop, calls>>

(* What dequeue_test_for_start makes of t: a run, or for a notification its *)
(* autopass when it is recorded on the USER queue, and otherwise feedback   *)
(* to root cause identification.                                            *)
StartEvent(t) ==
  IF t \in Polled THEN "RUN" ELSE IF queued[t] = "USER" THEN "AUTOPASS" ELSE "RCI"

(* How many tests at the front of queue q are due.                          *)
DueCount(q) ==
  Max({n \in 0..Len(queue[q]) : \A i \in 1..n : due[queue[q][i]] = 0})

(* The due entries of t, taken off in one check of the queues.              *)
DueEntries(t) ==
  UNION {{<<q, i>> : i \in {k \in 1..DueCount(q) : queue[q][k] = t}} : q \in Queues}

(* The jobs that they make; an entry that t has left besides the first      *)
(* finds it recorded on no queue.                                           *)
StartJobs(t, e) ==
  LET later == IF t \in Polled THEN "RUN" ELSE "RCI" IN
  (IF e = StartEvent(t) THEN 1 ELSE 0)
    + (IF e = later THEN Cardinality(DueEntries(t)) - 1 ELSE 0)

(* check_queue_test_times.  Every due test at the head of a queue is handed *)
(* to the thread pool, unless it is gone, and the timer restarted.          *)
CheckQueues ==
  LET started == {t \in Tests : DueEntries(t) # {} /\ state[t] \in Live}
      qs == [q \in Queues |-> SubSeq(queue[q], DueCount(q) + 1, Len(queue[q]))]
  IN  /\ queue' = qs
      /\ queued' = [t \in Tests |-> IF t \in started THEN "NONE" ELSE queued[t]]
      /\ jobs' = [t \in Tests |->
                    IF t \notin started THEN jobs[t]
                    ELSE [e \in Events |-> jobs[t][e] + StartJobs(t, e)]]
      /\ timer' = TimerAfter(timer, HeadTimes(qs, due))
      /\ UNCHANGED <<objVars, due, running, awaiting, loop, calls>>

FirstCheck ==
  /\ Unlocked /\ spc = "check"
  /\ spc' = "wait"
  /\ CheckQueues
  /\ UNCHANGED wake

(* swdiag_xos_thread_wait clears work_to_do when it returns.                *)
Wakeup ==
  /\ Unlocked /\ spc = "wait" /\ wake
  /\ wake' = FALSE
  /\ CheckQueues
  /\ UNCHANGED spc

(* test_start_timer_expired                                                 *)
TimerExpiresUnseen ==  \* mutant: nobody is released
  /\ timer = 0
  /\ timer' = -1
  /\ UNCHANGED <<wake, objVars, queued, queue, due, spc, jobVars, loop, calls>>

TimerExpires ==
  /\ timer = 0
  /\ timer' = -1
  /\ wake' = TRUE
  /\ UNCHANGED <<objVars, queued, queue, due, spc, jobVars, loop, calls>>

Tick ==
  /\ due' = [t \in Tests |-> IF due[t] > 0 THEN due[t] - 1 ELSE 0]
  /\ timer' = IF timer > 0 THEN timer - 1 ELSE timer
  /\ UNCHANGED <<objVars, queued, queue, wake, spc, jobVars, loop, calls>>

-----------------------------------------------------------------------------
(* The jobs: seq_thread_fn and seq_sequencer, as far as they concern the    *)
(* scheduler.                                                               *)

(* The job is begun; the job of a test that is gone does nothing more.      *)
Begin(t, e) ==
  /\ Unlocked /\ jobs[t][e] > 0
  /\ jobs' = [jobs EXCEPT ![t][e] = @ - 1]
  /\ UNCHANGED <<spc, loop, calls>>

(* SEQ_TEST_RUN: the test function is called, without the DB lock.          *)
RunTest(t) ==
  /\ Begin(t, "RUN")
  /\ running' = IF state[t] \in Live THEN [running EXCEPT ![t] = @ + 1] ELSE running
  /\ UNCHANGED <<objVars, schedVars, awaiting>>

(* The test function returns.  A test deleted meanwhile is looked at no     *)
(* further, and one whose result comes later is not put on a queue; another *)
(* is, whatever the result.                                                 *)
TestReturnsTwice(t) ==  \* mutant: no guard
  /\ running' = [running EXCEPT ![t] = @ - 1]
  /\ \/ state[t] \notin Live /\ UNCHANGED <<schedVars, awaiting>>
     \/ /\ state[t] \in Live
        /\ awaiting' = [awaiting EXCEPT ![t] = TRUE]
        /\ UNCHANGED schedVars
     \/ /\ state[t] \in Live
        /\ AddTest(t, state[t], last[t], period[Base[t]])
        /\ UNCHANGED awaiting
  /\ UNCHANGED <<objVars, jobs, spc, loop, calls>>

TestReturnsUnqueued(t) ==  \* mutant: never queued again
  /\ Unlocked /\ running[t] > 0
  /\ running' = [running EXCEPT ![t] = @ - 1]
  /\ \/ state[t] \notin Live /\ UNCHANGED <<schedVars, awaiting>>
     \/ /\ state[t] \in Live
        /\ awaiting' = [awaiting EXCEPT ![t] = TRUE]
        /\ UNCHANGED schedVars
     \/ /\ state[t] \in Live
        /\ UNCHANGED <<schedVars, awaiting>>
  /\ UNCHANGED <<objVars, jobs, spc, loop, calls>>

TestReturns(t) ==
  /\ Unlocked /\ running[t] > 0
  /\ running' = [running EXCEPT ![t] = @ - 1]
  /\ \/ state[t] \notin Live /\ UNCHANGED <<schedVars, awaiting>>
     \/ /\ state[t] \in Live
        /\ awaiting' = [awaiting EXCEPT ![t] = TRUE]
        /\ UNCHANGED schedVars
     \/ /\ state[t] \in Live
        /\ AddTest(t, state[t], last[t], period[Base[t]])
        /\ UNCHANGED awaiting
  /\ UNCHANGED <<objVars, jobs, spc, loop, calls>>

(* SEQ_TEST_RESULT: the result of a notification, an autopass, or the late  *)
(* result of a polled test.                                                 *)
TakeResult(t, e) ==
  LET res == IF e = "AUTOPASS" THEN "PASS" ELSE e IN
  /\ e \in {"PASS", "FAIL", "AUTOPASS"}
  /\ Begin(t, e)
  /\ IF state[t] \in Live
     THEN /\ last' = IF t \in Polled THEN last ELSE [last EXCEPT ![t] = res]
          /\ AddTest(t, state[t], res, period[Base[t]])
     ELSE UNCHANGED <<last, schedVars>>
  /\ UNCHANGED <<state, dflt, cli, period, running, awaiting>>

(* SEQ_TEST_RESULT_RCI: the last result goes to the rules again, and the    *)
(* autopass delay of a failure starts again.                                *)
FeedBackOnly(t) ==  \* mutant: the delay is not started again
  /\ Begin(t, "RCI")
  /\ UNCHANGED <<objVars, schedVars, running, awaiting>>

FeedBack(t) ==
  /\ Begin(t, "RCI")
  /\ IF state[t] \in Live THEN AddTest(t, state[t], last[t], period[Base[t]])
     ELSE UNCHANGED schedVars
  /\ UNCHANGED <<objVars, running, awaiting>>

(* The garbage collector frees a deleted instance that is not in use.       *)
Collect(t) ==
  /\ Unlocked /\ state[t] = "DELETED"
  /\ running[t] = 0 /\ \A e \in Events : jobs[t][e] = 0
  /\ state' = [state EXCEPT ![t] = "FREED"]
  /\ UNCHANGED <<dflt, cli, period, last, schedVars, spc, jobVars, loop, calls>>

-----------------------------------------------------------------------------
SchedStep == CreateTimer \/ FirstCheck \/ Wakeup
JobStep(t, e) ==
  \/ e = "RUN" /\ RunTest(t)
  \/ TakeResult(t, e)
  \/ e = "RCI" /\ FeedBack(t)

Next ==
  \/ SchedStep \/ TimerExpires \/ Tick \/ Continue
  \/ \E t \in Tests :
       \/ Call(t) \/ TestReturns(t) \/ Collect(t)
       \/ \E e \in Events : JobStep(t, e)

Spec == Init /\ [][Next]_vars

(* Time passes, timers expire, a call does not stop halfway, threads that   *)
(* can run do (the thread pool is taken to run the jobs it is given), and   *)
(* test functions return.                                                   *)
Fairness ==
  /\ WF_vars(SchedStep) /\ WF_vars(TimerExpires) /\ WF_vars(Tick) /\ WF_vars(Continue)
  /\ \A t \in Tests : /\ WF_vars(TestReturns(t))
                       /\ \A e \in Events : WF_vars(JobStep(t, e))

FairSpec == Spec /\ Fairness
=============================================================================
