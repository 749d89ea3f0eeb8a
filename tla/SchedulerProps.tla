--------------------------- MODULE SchedulerProps ---------------------------
(***************************************************************************)
(* What the scheduler guarantees, and what it was meant to guarantee.      *)
(***************************************************************************)
EXTENDS Scheduler

(* The variables have their types.                                         *)
ObjTypes ==
  /\ state \in [Tests -> Live \cup {"ABSENT", "DELETED", "FREED"}]
  /\ dflt \in [Tests -> {"INITIALIZED", "ENABLED", "DISABLED"}]
  /\ cli \in [Tests -> {"INITIALIZED", "ENABLED", "DISABLED"}]
  /\ period \in [Tests -> Classes]
  /\ last \in [Tests -> {"PASS", "FAIL"}]

SchedTypes ==
  /\ queued \in [Tests -> Queues \cup {"NONE"}]
  /\ queue \in [Queues -> Seq(Tests)]
  /\ due \in [Tests -> Nat]
  /\ timer \in Nat \cup {-1}
  /\ wake \in BOOLEAN
  /\ spc \in {"create", "check", "wait"}

JobTypes ==
  /\ jobs \in [Tests -> [Events -> Nat]]
  /\ running \in [Tests -> Nat]
  /\ awaiting \in [Tests -> BOOLEAN]
  /\ calls \in Nat

(* A call that is under way has arguments of its kind, and goes on to live *)
(* instances.                                                              *)
Proper(op, arg) ==
  \/ op = "ready" /\ arg \in {"ENABLED", "DISABLED"}
  \/ op \in {"enable", "disable"} /\ arg \in {"API", "CLI"}
  \/ op = "period" /\ arg \in Classes
  \/ op \in {"default", "delete", "forget"} /\ arg = "none"

LoopTypes ==
  \/ loop = NoLoop
  \/ /\ loop = [op |-> loop.op, arg |-> loop.arg, left |-> loop.left]
     /\ Proper(loop.op, loop.arg)
     /\ loop.left \subseteq Members /\ \A t \in loop.left : state[t] \in Live

TypeOK == ObjTypes /\ SchedTypes /\ JobTypes /\ LoopTypes

-----------------------------------------------------------------------------
(* The queues and what each test records of them agree: a test that is not *)
(* deleted is on the queue that sched_test->queued names and on no other;  *)
(* no queue holds a test twice.  Removal relies on it to find the test.    *)
Recorded ==
  \A t \in Tests : state[t] \in Live =>
    \A q \in Queues : Contains(queue[q], t) <=> queued[t] = q

QueuedOnce == \A q \in Queues : IsInjective(queue[q])

QueueConsistent == Recorded /\ QueuedOnce

(* No wake-up is lost: while any test is queued, the waiting scheduler     *)
(* thread has been released, or the timer runs and expires by the time the *)
(* test is due, although each call that moves a test restarts the timer    *)
(* for the head it finds soonest, and expiries and calls interleave.       *)
WakeupPending ==
  spc = "wait" /\ ~wake =>
    \A q \in Queues, t \in Tests :
      Contains(queue[q], t) => timer # -1 /\ timer <= due[t]

(* On each queue no test stands behind one that is due later: looking only *)
(* at the heads misses none that is due.                                   *)
Sorted(s, d) == \A i, j \in 1..Len(s) : i < j => d[s[i]] <= d[s[j]]
QueuesSorted == \A q \in Queues : Sorted(queue[q], due)

(* The inductive invariant behind these.  A queue that is appended to stays *)
(* sorted because none of its tests is due later than a new one is.        *)
LongestDelay(q) == IF q = "IMMEDIATE" THEN 0 ELSE Length[q]
WithinPeriod ==
  \A q \in Queues \ {"USER"}, t \in Tests :
    Contains(queue[q], t) => due[t] <= LongestDelay(q)

NewOffQueue ==
  \A t \in Tests : state[t] = "ABSENT" =>
    queued[t] = "NONE" /\ \A q \in Queues : ~Contains(queue[q], t)

QueueInv == QueueConsistent /\ QueuesSorted /\ WithinPeriod /\ NewOffQueue

SchedInv == SchedTypes /\ QueueInv /\ WakeupPending

IInv == ObjTypes /\ LoopTypes /\ SchedInv

(* An enabled polled test is never forgotten: it is queued, in the hands   *)
(* of the thread pool, running, or owes a late result; or the call that    *)
(* holds the lock has still to come to it.  Of an enabled member instance  *)
(* this is said while the base instance is enabled too: test_chain_ready   *)
(* schedules no instance when the base is disabled, whatever state it      *)
(* gives them (api.c:868).                                                 *)
InHand(t) == \/ queued[t] # "NONE" \/ running[t] > 0 \/ awaiting[t]
             \/ \E e \in Events : jobs[t][e] > 0

NoTestForgotten ==
  \A t \in Polled :
    state[t] = "ENABLED" /\ state[Base[t]] = "ENABLED" => InHand(t) \/ t \in loop.left

(* A polled test that is not enabled, or is gone, is on no queue, neither  *)
(* by its record nor in any list.                                          *)
DisabledOffQueue ==
  \A t \in Polled : state[t] # "ENABLED" =>
    queued[t] = "NONE" /\ \A q \in Queues : ~Contains(queue[q], t)

(* A polled test that stays enabled with its base instance, and is not     *)
(* waited for, keeps running.                                              *)
PolledKeepsRunning ==
  \A t \in Polled :
    <>[](state[t] = "ENABLED" /\ state[Base[t]] = "ENABLED" /\ ~awaiting[t])
      => []<>(running[t] > 0)

(* A failure of an enabled notification that has an autopass is followed   *)
(* by a pass: "signal that the failure is no longer of concern at a set    *)
(* delay after a failure" (swdiag_client.h:465-466).                       *)
AutopassClears ==
  \A t \in Autopass :
    (state[t] = "ENABLED" /\ last[t] = "FAIL") ~> (state[t] # "ENABLED" \/ last[t] = "PASS")
=============================================================================
