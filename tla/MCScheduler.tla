----------------------------- MODULE MCScheduler -----------------------------
(* Values for the constants of Scheduler.  The periods are scaled down;    *)
(* FAST is the shortest, and t3 shares the USER queue with autopasses.     *)
EXTENDS SchedulerProps
CONSTANTS t1, t2, t3, n1, n2

MCLength == [FAST |-> 1, NORMAL |-> 2, SLOW |-> 3, USER |-> 2]
MCNoMembers == [t \in Tests |-> t]
MCOneObject == [t \in Tests |-> IF t = t2 THEN t1 ELSE t]
MCDefaultPeriod == [t \in Tests |-> IF t = t1 THEN "FAST" ELSE "USER"]
=============================================================================
