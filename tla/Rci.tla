-------------------------------- MODULE Rci --------------------------------
(* Root cause identification (swdiag_rci.c) with the sequencer that feeds  *)
(* it results and runs its verdicts (swdiag_sequence.c).  Each rule has    *)
(* one test of the same name, polled by the scheduler or notified by the   *)
(* client, and at most one recovery action.  Every handler holds the database lock *)
(* from its first line to its last; it is released only while the client's *)
(* function runs, the test's or the action's.                              *)
EXTENDS Naturals, FiniteSets

CONSTANTS
  Rules,
  Child,        \* Child[r]: the rules r depends on directly; no cycles
  Polled,       \* rules whose test is polled; the others' are notified
  MayAbort,     \* rules whose test may answer ABORT
  Recovers,     \* rules that have a recovery action
  Deletable,    \* rules the client may delete
  MaxJobs       \* bound on the jobs of one kind the pool holds for a rule

ASSUME RciAssumption ==
  /\ Child \in [Rules -> SUBSET Rules]
  /\ Polled \subseteq Rules /\ MayAbort \subseteq Rules
  /\ Recovers \subseteq Rules /\ Deletable \subseteq Rules
  /\ MaxJobs \in Nat \ {0}

(* swdiag_depend_create refuses a dependency that closes a loop of rules   *)
(* (LoopsCrossDomains of DependenciesProps; these rules are in one domain  *)
(* as soon as one depends on the other).                                   *)
ASSUME NoCycles ==
  \A R \in SUBSET Rules : R # {} => \E r \in R : Child[r] \cap R = {}

VARIABLES
  state,              \* ENABLED or DELETED
  last_result,        \* of the rule, PASS until it first runs
  last_result_count,  \* how often in a row; saturates at Often(r)
  candidates,         \* rules whose root_cause is RULE_ROOT_CAUSE_CANDIDATE
  root_causes,        \* and those where it is RULE_ROOT_CAUSE
  action_run,         \* the action has run since the rule failed
  test,               \* where the rule's test is
  notified,           \* results the client notified, their jobs in the pool
  fed_back,           \* jobs that feed the last notified result back
  jobs,               \* jobs that run the action of a root cause
  acting              \* action functions now running

vars == <<state, last_result, last_result_count, candidates, root_causes,
          action_run, test, notified, fed_back, jobs, acting>>
status == <<last_result, last_result_count, candidates, root_causes, action_run>>

Results == {"PASS", "FAIL"}
Notices(r) == IF r \in MayAbort THEN Results \cup {"ABORT"} ELSE Results

(* The code asks only whether the count is 1 and, of a rule whose test     *)
(* aborted, whether it exceeds 3.                                          *)
Often(r) == IF r \in MayAbort THEN 4 ELSE 2

-----------------------------------------------------------------------------
(* rci_map_function: the rules below and above a rule, through enabled     *)
(* rules only.  Its history applies a function to each of them once, and   *)
(* none of the functions mapped here depends on the order (every change    *)
(* they make leaves what the others read as it was).                       *)

Enabled == {r \in Rules : state[r] = "ENABLED"}
ClosedFrom(E, r) ==
  {S \in SUBSET E : \A p \in S \cup {r} : Child[p] \cap E \subseteq S}
BelowAmong ==
  [E \in SUBSET Rules |->
     [r \in Rules |-> {d \in E : \A S \in ClosedFrom(E, r) : d \in S}]]
Below(r) == BelowAmong[Enabled][r]
Above(R) == {p \in Enabled : R \cap Below(p) # {}}

(* A handler's view: the rules whose last result is FAIL, those marked     *)
(* RULE_ROOT_CAUSE_CANDIDATE and RULE_ROOT_CAUSE, and what the handler     *)
(* asks for: tests to rerun at once, actions of root causes it found.      *)
Seen(last) ==
  [failing |-> {r \in Rules : last[r] = "FAIL"},
   candidates |-> candidates, root_causes |-> root_causes,
   rerun |-> {}, found |-> {}]

AllPass(s, r) == Below(r) \cap s.failing = {}
Clear(s, R) ==
  [s EXCEPT !.candidates = s.candidates \ R, !.root_causes = s.root_causes \ R]
Suspect(s, R) ==
  [s EXCEPT !.candidates = s.candidates \cup R, !.root_causes = s.root_causes \ R]
Rerun(s, R) == [s EXCEPT !.rerun = s.rerun \cup R]

(* Mutant: candidates are marked, their tests left to be polled.           *)
ScheduleDependentsLater(s, r) ==
  LET again == Below(r) \ (s.failing \cup s.candidates)
      maybe == {d \in again \cup {r} : AllPass(s, d)}
  IN  Suspect(Clear(s, again \cup {r}), maybe)

(* A failed rule starts a session: itself and the passing rules below it   *)
(* are candidates, unless something below them fails, and those are rerun. *)
ScheduleDependents(s, r) ==
  LET again == Below(r) \ (s.failing \cup s.candidates)
      maybe == {d \in again \cup {r} : AllPass(s, d)}
  IN  Rerun(Suspect(Clear(s, again \cup {r}), maybe), again)

(* Mutant: the root causes above stay.                                     *)
PropagateFailKeeps(s, R) == Rerun(s, Above(R) \ s.failing)

(* The rules of R failed as root causes: those above are not, and what     *)
(* passes above them is rerun.                                             *)
PropagateFail(s, R) ==
  LET above == Above(R)
  IN  Rerun(Clear(s, above \cap s.root_causes), above \ s.failing)

(* Mutant: what fails above is rerun but no candidate.                     *)
PropagatePassRerunsOnly(s, r) == Rerun(s, Above({r}) \cap s.failing)

(* The rule r came to pass: what fails above it may be the root cause now. *)
PropagatePass(s, r) ==
  LET again == (Above({r}) \cap s.failing) \ (s.candidates \cup s.root_causes)
  IN  Rerun(Suspect(s, again), again)

(* Mutants: a root cause that stays a candidate, one the sequencer is not  *)
(* told of.                                                                *)
RootCauseStillCandidate(s, R) ==
  PropagateFail([s EXCEPT !.root_causes = s.root_causes \cup R,
                          !.found = s.found \cup R], R)
RootCauseUntold(s, R) ==
  PropagateFail([s EXCEPT !.candidates = s.candidates \ R,
                          !.root_causes = s.root_causes \cup R], R)

RootCause(s, R) ==
  PropagateFail([s EXCEPT !.candidates = s.candidates \ R,
                          !.root_causes = s.root_causes \cup R,
                          !.found = s.found \cup R], R)

(* rci_determine_if_root_cause, for each rule of R.                        *)
Determine(s, R) ==
  LET failing == R \cap s.candidates \cap s.failing
      lowest  == {r \in failing : AllPass(s, r)}
  IN  RootCause(Clear(s, failing \ lowest),
                {r \in lowest : Below(r) \cap s.candidates = {}})

HandlePassedStays(s, r, changed) ==  \* mutant: r keeps its mark
  LET t == Determine(s, Above({r}))
  IN  IF changed THEN PropagatePass(t, r) ELSE t

HandlePassed(s, r, changed) ==
  LET t == Determine(Clear(s, {r}), Above({r}))
  IN  IF changed THEN PropagatePass(t, r) ELSE t

HandleFailed(s, r) ==
  IF r \in s.root_causes THEN s
  ELSE IF r \in s.candidates THEN Determine(s, {r})
  ELSE IF Below(r) # {} THEN ScheduleDependents(s, r)
  ELSE RootCause(s, {r})

RciRunChangesOnly(s, r, count) ==  \* mutant: candidates are not waited for
  IF count # 1 THEN s
  ELSE IF r \in s.failing THEN HandleFailed(s, r)
  ELSE HandlePassed(s, r, TRUE)

(* swdiag_rci_run, with the count the result left.                         *)
RciRun(s, r, count) ==
  IF count # 1 /\ r \notin s.candidates THEN s
  ELSE IF r \in s.failing THEN HandleFailed(s, r)
  ELSE HandlePassed(s, r, count = 1)

RciAborted(s, r, count) ==
  IF r \notin s.candidates THEN s
  ELSE IF count > 3 THEN HandlePassed(s, r, TRUE)
  ELSE Rerun(s, {r})

(* What a handler does to the queues: swdiag_sched_rule_immediate ignores  *)
(* a test that is due already or running; swdiag_seq_from_root_cause adds  *)
(* a job (one without an action to run shows nowhere, and is left out).    *)
Apply(s, queued) ==
  /\ candidates' = s.candidates /\ root_causes' = s.root_causes
  /\ test' = [r \in Rules |->
                IF r \in s.rerun /\ queued[r] = "waiting" THEN "immediate" ELSE queued[r]]
  /\ jobs' = [r \in Rules |-> IF r \in s.found \cap Recovers THEN jobs[r] + 1 ELSE jobs[r]]
  /\ \A r \in Rules : jobs'[r] <= MaxJobs

-----------------------------------------------------------------------------
Init ==
  /\ state = [r \in Rules |-> "ENABLED"]
  /\ last_result = [r \in Rules |-> "PASS"]
  /\ last_result_count = [r \in Rules |-> 1]
  /\ candidates = {} /\ root_causes = {}
  /\ action_run = [r \in Rules |-> FALSE]
  /\ test = [r \in Rules |-> "waiting"]
  /\ notified = [r \in Rules |-> {}]
  /\ fed_back = [r \in Rules |-> 0]
  /\ jobs = [r \in Rules |-> 0]
  /\ acting = [r \in Rules |-> 0]

(* The scheduler takes a polled test off its queue, and a pool thread runs *)
(* its function with the lock released.                                    *)
RunTest(r) ==
  /\ r \in Polled /\ state[r] = "ENABLED" /\ test[r] # "running"
  /\ test' = [test EXCEPT ![r] = "running"]
  /\ UNCHANGED <<state, status, notified, fed_back, jobs, acting>>

(* A result of the test of r goes through its rule to the RCI: statistics, *)
(* the action's flag, then the verdicts.                                   *)
RuleResult(r, result, queued) ==
  LET last  == [last_result EXCEPT ![r] = result]
      count == IF last_result[r] # result THEN 1
               ELSE IF last_result_count[r] < Often(r) THEN last_result_count[r] + 1
               ELSE Often(r)
  IN  /\ last_result' = last
      /\ last_result_count' = [last_result_count EXCEPT ![r] = count]
      /\ action_run' = [action_run EXCEPT ![r] = action_run[r] /\ result = "FAIL"]
      /\ Apply(RciRun(Seen(last), r, count), queued)

TestResult(r, result) ==
  /\ state[r] = "ENABLED" /\ test[r] = "running"
  /\ RuleResult(r, result, [test EXCEPT ![r] = "waiting"])
  /\ UNCHANGED <<state, notified, fed_back, acting>>

(* An ABORT goes past the rule, to the RCI only.                           *)
RuleAborts(r, queued) ==
  /\ Apply(RciAborted(Seen(last_result), r, last_result_count[r]), queued)
  /\ UNCHANGED <<last_result, last_result_count, action_run>>

TestAborts(r) ==
  /\ r \in MayAbort /\ state[r] = "ENABLED" /\ test[r] = "running"
  /\ RuleAborts(r, [test EXCEPT ![r] = "waiting"])
  /\ UNCHANGED <<state, notified, fed_back, acting>>

(* swdiag_test_notify: the client's result is a job of its own.            *)
Notify(r, result) ==
  /\ r \notin Polled /\ state[r] = "ENABLED" /\ result \notin notified[r]
  /\ notified' = [notified EXCEPT ![r] = notified[r] \cup {result}]
  /\ UNCHANGED <<state, status, test, fed_back, jobs, acting>>

NotifyResult(r, result) ==
  /\ state[r] = "ENABLED" /\ result \in notified[r]
  /\ notified' = [notified EXCEPT ![r] = notified[r] \ {result}]
  /\ IF result = "ABORT" THEN RuleAborts(r, test) ELSE RuleResult(r, result, test)
  /\ UNCHANGED <<state, fed_back, acting>>

(* A notified test cannot be rerun: due at once, it has its last result    *)
(* fed back to the RCI, by a job that leaves the rule's statistics alone.  *)
FeedBack(r) ==
  /\ r \notin Polled /\ state[r] = "ENABLED"
  /\ test[r] = "immediate" /\ fed_back[r] < MaxJobs
  /\ test' = [test EXCEPT ![r] = "waiting"]
  /\ fed_back' = [fed_back EXCEPT ![r] = fed_back[r] + 1]
  /\ UNCHANGED <<state, status, notified, jobs, acting>>

FeedBackResult(r) ==
  /\ state[r] = "ENABLED" /\ fed_back[r] > 0
  /\ fed_back' = [fed_back EXCEPT ![r] = fed_back[r] - 1]
  /\ action_run' = [action_run EXCEPT ![r] = action_run[r] /\ last_result[r] # "PASS"]
  /\ Apply(RciRun(Seen(last_result), r, last_result_count[r]), test)
  /\ UNCHANGED <<state, last_result, last_result_count, notified, acting>>

(* SEQ_RULE_ROOT_CAUSE: the job of a root cause runs the action, unless it *)
(* has run; it looks neither at the verdict nor at the last result.        *)
RunAction(r) ==
  /\ state[r] = "ENABLED" /\ jobs[r] > 0
  /\ jobs' = [jobs EXCEPT ![r] = jobs[r] - 1]
  /\ acting' = [acting EXCEPT ![r] = IF action_run[r] THEN acting[r] ELSE acting[r] + 1]
  /\ acting'[r] <= MaxJobs
  /\ action_run' = [action_run EXCEPT ![r] = TRUE]
  /\ UNCHANGED <<state, last_result, last_result_count, candidates, root_causes,
                 test, notified, fed_back>>

(* The action's function returns, or completes later: after a PASS the     *)
(* rule's test confirms it, if the rule is still there.                    *)
ActionDone(r) ==
  /\ acting[r] > 0
  /\ acting' = [acting EXCEPT ![r] = acting[r] - 1]
  /\ \/ UNCHANGED test
     \/ /\ state[r] = "ENABLED" /\ test[r] = "waiting"
        /\ test' = [test EXCEPT ![r] = "immediate"]
  /\ UNCHANGED <<state, status, notified, fed_back, jobs>>

(* swdiag_obj_delete: the rule is DELETED before swdiag_rci_rule_deleted   *)
(* maps over its parents, so the map stops at the rule itself and nothing  *)
(* is evaluated again.  What is under way for the rule comes to nothing.   *)
Delete(r) ==
  /\ r \in Deletable /\ state[r] = "ENABLED"
  /\ state' = [state EXCEPT ![r] = "DELETED"]
  /\ UNCHANGED <<status, test, notified, fed_back, jobs, acting>>

Answers(r) == \E result \in Results : TestResult(r, result)
Next ==
  \E r \in Rules :
    \/ RunTest(r) \/ Answers(r) \/ TestAborts(r)
    \/ \E result \in Notices(r) : Notify(r, result) \/ NotifyResult(r, result)
    \/ FeedBack(r) \/ FeedBackResult(r)
    \/ RunAction(r) \/ ActionDone(r) \/ Delete(r)

Spec == Init /\ [][Next]_vars

(* The scheduler polls every test and the pool runs every job; a test's    *)
(* function returns, and does not abort for ever; an action returns.  For  *)
(* the handlers of results this is strong fairness, its ENABLED written    *)
(* out as the guard.                                                       *)
Handled(r) ==
  /\ <>[](test[r] # "running") \/ []<><<Answers(r)>>_vars
  /\ \A result \in Notices(r) :
       <>[](result \notin notified[r]) \/ []<><<NotifyResult(r, result)>>_vars
  /\ <>[](fed_back[r] = 0) \/ []<><<FeedBackResult(r)>>_vars
Fairness ==
  \A r \in Rules :
    /\ WF_vars(RunTest(r)) /\ WF_vars(FeedBack(r))
    /\ WF_vars(RunAction(r)) /\ WF_vars(ActionDone(r))
    /\ <>[](state[r] = "DELETED") \/ Handled(r)

LiveSpec == Spec /\ Fairness
=============================================================================
