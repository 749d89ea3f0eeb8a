------------------------------ MODULE RciProps ------------------------------
(* What root cause identification promises.                                *)
EXTENDS Rci

(* Each variable keeps to its values (obj_instance_t, swdiag_obj.h).       *)
TypeOK ==
  /\ state \in [Rules -> {"ENABLED", "DELETED"}]
  /\ last_result \in [Rules -> Results]
  /\ last_result_count \in [Rules -> 1..4]
  /\ candidates \subseteq Rules /\ root_causes \subseteq Rules
  /\ candidates \cap root_causes = {}
  /\ action_run \in [Rules -> BOOLEAN]
  /\ test \in [Rules -> {"waiting", "immediate", "running"}]
  /\ notified \in [Rules -> SUBSET (Results \cup {"ABORT"})]
  /\ fed_back \in [Rules -> 0..MaxJobs]
  /\ jobs \in [Rules -> 0..MaxJobs]
  /\ acting \in [Rules -> 0..MaxJobs]

Failing(r) == r \in Enabled /\ last_result[r] = "FAIL"

(* A root cause is a rule that fails: no pass, feedback or deletion of     *)
(* another rule leaves a passing one named.                                *)
RootCauseFails == \A r \in root_causes : last_result[r] = "FAIL"

(* The lowest failing rule is the root cause, and only that one: no rule   *)
(* is named together with one it depends on, however far below.            *)
OnlyLowest ==
  \A r \in root_causes \cap Enabled : Below(r) \cap root_causes = {}

(* A rule is named although something below it fails only while a session  *)
(* that will tell is under way below it.                                   *)
NamedAboveFailure ==
  \A r \in root_causes \cap Enabled :
    \/ \A d \in Below(r) : last_result[d] = "PASS"
    \/ Below(r) \cap candidates # {}

(* A failing rule below which nothing fails is a root cause or a candidate *)
(* to be one, whatever it was when it failed and whatever came between:    *)
(* the session that ends its candidacy names it.                           *)
Culprit(r) == Failing(r) /\ \A d \in Below(r) : last_result[d] = "PASS"
CulpritMarked == \A r \in Rules : Culprit(r) => r \in candidates \cup root_causes

(* Where it holds: a test that aborts feeds a rule that depends on nothing, *)
(* and only rules nothing depends on are deleted.                          *)
OnlyTopsDeleted == \A r \in Rules : Child[r] \cap Deletable = {}
Harmless == (\A r \in MayAbort : Child[r] = {}) /\ OnlyTopsDeleted

(* Candidates never all wait for each other: one whose own result is not   *)
(* due has a candidate, or the failure that overrules it, below it.        *)
NoRciDeadlock ==
  \A r \in candidates \cap Enabled :
    \/ test[r] # "waiting" \/ fed_back[r] > 0
    \/ \E d \in Below(r) : d \in candidates \/ last_result[d] = "FAIL"

(* A rule that keeps failing while all it depends on keeps passing comes   *)
(* to be, and stays, the root cause.                                       *)
CulpritFound ==
  \A r \in Rules : <>[]Culprit(r) => <>[](r \in root_causes)

(* A root cause that stays one has its action run.                         *)
RootCauseActs ==
  \A r \in Recovers :
    (r \in root_causes \cap Enabled)
      ~> (action_run[r] \/ r \notin root_causes \cap Enabled)
=============================================================================
