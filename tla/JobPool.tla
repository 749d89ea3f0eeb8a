------------------------------- MODULE JobPool -------------------------------
(***************************************************************************)
(* What a pool of job threads promises its callers, whatever its queues:   *)
(* a job that was asked for runs at most once, on one thread, and a thread *)
(* runs one job at a time.  A job may be given up without having run only  *)
(* when it is refused on entry or the pool is being closed.                *)
(***************************************************************************)
CONSTANTS Workers, Jobs, NoJob, MayStop

VARIABLES waiting,   \* the jobs accepted and not started
          on,        \* the job each thread is running
          over       \* the jobs that ran, or never will

vars == <<waiting, on, over>>

Running == {on[w] : w \in Workers} \ {NoJob}

Init == waiting = {} /\ on = [w \in Workers |-> NoJob] /\ over = {}

Accept(j) ==
  /\ j \notin waiting \cup Running \cup over
  /\ waiting' = waiting \cup {j}
  /\ UNCHANGED <<on, over>>

Refuse(j) ==
  /\ j \notin waiting \cup Running \cup over
  /\ over' = over \cup {j}
  /\ UNCHANGED <<waiting, on>>

Start(w, j) ==
  /\ on[w] = NoJob /\ j \in waiting
  /\ on' = [on EXCEPT ![w] = j]
  /\ waiting' = waiting \ {j}
  /\ UNCHANGED over

Finish(w) ==
  /\ on[w] # NoJob
  /\ on' = [on EXCEPT ![w] = NoJob]
  /\ over' = over \cup {on[w]}
  /\ UNCHANGED waiting

GiveUp ==
  /\ MayStop
  /\ \E S \in SUBSET waiting :
       /\ waiting' = waiting \ S
       /\ over' = over \cup S
  /\ UNCHANGED on

Next == \/ \E j \in Jobs : Accept(j) \/ Refuse(j)
        \/ \E w \in Workers : Finish(w) \/ \E j \in Jobs : Start(w, j)
        \/ GiveUp

Spec == Init /\ [][Next]_vars
=============================================================================
