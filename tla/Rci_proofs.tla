----------------------------- MODULE Rci_proofs -----------------------------
(* The verdicts of root cause identification, for any rules, dependencies  *)
(* and interleaving of results, feedback, actions and deletions: what is   *)
(* named fails, and nothing below it is named.                             *)
EXTENDS RciProps, TLAPS

(* A view a handler may leave: marks are disjoint, what is named fails and *)
(* has nothing below it that is named.                                     *)
Views ==
  [failing : SUBSET Rules, candidates : SUBSET Rules, root_causes : SUBSET Rules,
   rerun : SUBSET Rules, found : SUBSET Rules]
Lowest(s) == \A r \in s.root_causes \cap Enabled : Below(r) \cap s.root_causes = {}
Marked(s) == s \in Views /\ s.candidates \cap s.root_causes = {} /\ Lowest(s)
Sound(s) == Marked(s) /\ s.root_causes \subseteq s.failing

(* What a rule depends on, and what depends on it, is enabled.             *)
LEMMA BelowEnabled ==
  /\ \A r \in Rules : Below(r) \subseteq Enabled
  /\ \A R : Above(R) \subseteq Enabled
  /\ Enabled \subseteq Rules
BY DEF Below, BelowAmong, Above, Enabled

(* Taking marks away, asking for reruns and marking candidates is sound.   *)
LEMMA ClearSound ==
  ASSUME NEW s, NEW R, Marked(s), R \subseteq Rules
  PROVE  /\ Marked(Clear(s, R))
         /\ Clear(s, R).failing = s.failing
         /\ Clear(s, R).root_causes = s.root_causes \ R
BY DEF Marked, Lowest, Views, Clear

LEMMA SuspectSound ==
  ASSUME NEW s, NEW R, Sound(s), R \subseteq Rules
  PROVE  Sound(Suspect(s, R)) /\ Suspect(s, R).failing = s.failing
BY DEF Sound, Marked, Lowest, Views, Suspect

LEMMA RerunSound ==
  ASSUME NEW s, NEW R, Sound(s), R \subseteq Rules
  PROVE  Sound(Rerun(s, R)) /\ Rerun(s, R).failing = s.failing
BY DEF Sound, Marked, Lowest, Views, Rerun

(* What clearing rules changes.                                            *)
LEMMA ClearIs ==
  ASSUME NEW s \in Views, NEW R
  PROVE  /\ Clear(s, R) \in Views /\ Clear(s, R).failing = s.failing
         /\ Clear(s, R).candidates = s.candidates \ R
         /\ Clear(s, R).root_causes = s.root_causes \ R
BY DEF Clear, Views

(* Naming failing rules below which nothing fails is sound: their own      *)
(* failure clears the ones named above them.                               *)
LEMMA RootCauseSound ==
  ASSUME NEW s, NEW R, Sound(s), R \subseteq s.failing,
         \A r \in R : Below(r) \cap s.failing = {}
  PROVE  Sound(RootCause(s, R)) /\ RootCause(s, R).failing = s.failing
<1> DEFINE t == [s EXCEPT !.candidates = s.candidates \ R,
                          !.root_causes = s.root_causes \cup R,
                          !.found = s.found \cup R]
           above == Above(R)
           u == Clear(t, above \cap t.root_causes)
<1>0. R \subseteq Rules /\ above \subseteq Enabled /\ Enabled \subseteq Rules
  BY BelowEnabled DEF Sound, Marked, Views
<1>1. /\ t \in Views /\ t.candidates \cap t.root_causes = {}
      /\ t.failing = s.failing /\ t.root_causes = s.root_causes \cup R
  BY <1>0 DEF Sound, Marked, Views
<1>2. /\ u \in Views /\ u.candidates \cap u.root_causes = {}
      /\ u.failing = s.failing
      /\ u.root_causes = (s.root_causes \cup R) \ above
  <2>1. t \in Views /\ above \cap t.root_causes \subseteq Rules
    BY <1>1 DEF Views
  <2>2. u = Clear(t, above \cap t.root_causes)
    OBVIOUS
  <2> HIDE DEF t, u, above
  <2>3. /\ u \in Views /\ u.failing = t.failing
        /\ u.candidates = t.candidates \ (above \cap t.root_causes)
        /\ u.root_causes = t.root_causes \ (above \cap t.root_causes)
    BY <2>1, <2>2, ClearIs
  <2> QED
    BY <1>1, <2>3
<1>3. \A r \in Enabled : R \cap Below(r) # {} => r \in above
  BY DEF Above
<1>4. Lowest(u)
  <2> SUFFICES ASSUME NEW x \in u.root_causes \cap Enabled, NEW y \in Below(x) \cap u.root_causes
               PROVE  FALSE
    BY DEF Lowest
  <2>1. x \notin above /\ y \in s.failing
    BY <1>2 DEF Sound
  <2>2. x \notin R
    BY <2>1
  <2>3. y \notin R
    BY <1>3, <2>1
  <2> QED
    BY <1>2, <2>2, <2>3 DEF Sound, Marked, Lowest
<1>5. Sound(u)
  BY <1>1, <1>2, <1>4 DEF Sound, Marked
<1>6. RootCause(s, R) = Rerun(u, above \ t.failing)
  BY DEF RootCause, PropagateFail
<1> HIDE DEF t, u, above
<1> QED
  BY <1>0, <1>2, <1>5, <1>6, RerunSound

(* rci_determine_if_root_cause names only what nothing failing is below.   *)
LEMMA DetermineSound ==
  ASSUME NEW s, NEW R, Sound(s), R \subseteq Rules
  PROVE  Sound(Determine(s, R)) /\ Determine(s, R).failing = s.failing
<1> DEFINE failing == R \cap s.candidates \cap s.failing
           lowest == {r \in failing : AllPass(s, r)}
           t == Clear(s, failing \ lowest)
           named == {r \in lowest : Below(r) \cap s.candidates = {}}
<1>1. Sound(t) /\ t.failing = s.failing
  <2>1. failing \ lowest \subseteq Rules
    OBVIOUS
  <2> HIDE DEF failing, lowest
  <2> QED
    BY <2>1, ClearSound DEF Sound
<1>2. named \subseteq s.failing /\ \A r \in named : Below(r) \cap s.failing = {}
  BY DEF AllPass
<1>3. Determine(s, R) = RootCause(t, named)
  BY DEF Determine
<1> HIDE DEF t, named
<1> QED
  BY <1>1, <1>2, <1>3, RootCauseSound

(* A handler that finds one rule named, r, which passes now, clears it.    *)
LEMMA HandlePassedSound ==
  ASSUME NEW s, NEW r \in Rules, NEW changed \in BOOLEAN,
         Marked(s), s.root_causes \subseteq s.failing \cup {r}
  PROVE  Sound(HandlePassed(s, r, changed)) /\ HandlePassed(s, r, changed).failing = s.failing
<1> DEFINE t == Determine(Clear(s, {r}), Above({r}))
           again == (Above({r}) \cap t.failing) \ (t.candidates \cup t.root_causes)
           u == Suspect(t, again)
<1>1. Sound(Clear(s, {r})) /\ Clear(s, {r}).failing = s.failing
  BY ClearSound DEF Sound
<1>2. Above({r}) \subseteq Rules
  BY BelowEnabled
<1>3. Sound(t) /\ t.failing = s.failing
  BY <1>1, <1>2, DetermineSound
<1>4. again \subseteq Rules
  BY <1>2
<1>5. HandlePassed(s, r, changed) = IF changed THEN Rerun(u, again) ELSE t
  BY DEF HandlePassed, PropagatePass
<1> HIDE DEF t, again
<1>6. Sound(u) /\ u.failing = s.failing
  BY <1>3, <1>4, SuspectSound
<1> HIDE DEF u
<1> QED
  BY <1>3, <1>4, <1>5, <1>6, RerunSound

(* A failure is named at once when nothing is below the rule.              *)
LEMMA HandleFailedSound ==
  ASSUME NEW s, NEW r \in Rules, Sound(s), r \in s.failing
  PROVE  Sound(HandleFailed(s, r)) /\ HandleFailed(s, r).failing = s.failing
<1> DEFINE again == Below(r) \ (s.failing \cup s.candidates)
           maybe == {d \in again \cup {r} : AllPass(s, d)}
           t == Clear(s, again \cup {r})
           u == Suspect(t, maybe)
<1>1. again \subseteq Rules
  BY BelowEnabled
<1>2. Sound(ScheduleDependents(s, r)) /\ ScheduleDependents(s, r).failing = s.failing
  <2>1. maybe \subseteq Rules /\ again \cup {r} \subseteq Rules
    BY <1>1
  <2>2. ScheduleDependents(s, r) = Rerun(u, again)
    BY DEF ScheduleDependents
  <2> HIDE DEF again, maybe
  <2>3. Sound(t) /\ t.failing = s.failing
    BY <2>1, ClearSound DEF Sound
  <2> HIDE DEF t
  <2>4. Sound(u) /\ u.failing = s.failing
    BY <2>1, <2>3, SuspectSound
  <2> HIDE DEF u
  <2> QED
    BY <1>1, <2>2, <2>4, RerunSound
<1>3. Sound(Determine(s, {r})) /\ Determine(s, {r}).failing = s.failing
  BY DetermineSound
<1>4. Below(r) = {} => Sound(RootCause(s, {r})) /\ RootCause(s, {r}).failing = s.failing
  BY RootCauseSound
<1> QED
  BY <1>2, <1>3, <1>4 DEF HandleFailed

(* swdiag_rci_run, when r is the one rule that may be named and pass: its  *)
(* result is a change then.                                                *)
LEMMA RciRunSound ==
  ASSUME NEW s, NEW r \in Rules, NEW count,
         Marked(s), s.root_causes \subseteq s.failing \cup {r},
         r \in s.root_causes \ s.failing => count = 1
  PROVE  Sound(RciRun(s, r, count)) /\ RciRun(s, r, count).failing = s.failing
<1>1. r \notin s.failing =>
        /\ Sound(HandlePassed(s, r, count = 1))
        /\ HandlePassed(s, r, count = 1).failing = s.failing
  <2>1. (count = 1) \in BOOLEAN
    OBVIOUS
  <2> QED
    BY <2>1, HandlePassedSound
<1>2. r \in s.failing =>
        Sound(HandleFailed(s, r)) /\ HandleFailed(s, r).failing = s.failing
  BY HandleFailedSound DEF Sound
<1>3. count # 1 => Sound(s)
  BY DEF Sound
<1> QED
  BY <1>1, <1>2, <1>3 DEF RciRun

(* An abort names nothing that does not fail.                              *)
LEMMA RciAbortedSound ==
  ASSUME NEW s, NEW r \in Rules, NEW count, Sound(s)
  PROVE  Sound(RciAborted(s, r, count)) /\ RciAborted(s, r, count).failing = s.failing
<1>1. Sound(HandlePassed(s, r, TRUE)) /\ HandlePassed(s, r, TRUE).failing = s.failing
  BY HandlePassedSound DEF Sound
<1>2. Sound(Rerun(s, {r})) /\ Rerun(s, {r}).failing = s.failing
  BY RerunSound
<1> QED
  BY <1>1, <1>2 DEF RciAborted

-----------------------------------------------------------------------------
IInv == TypeOK /\ RootCauseFails /\ OnlyLowest

(* What a handler is shown is sound, once every rule named fails.          *)
LEMMA SeenMarked ==
  ASSUME TypeOK, OnlyLowest, NEW last
  PROVE  /\ Marked(Seen(last))
         /\ Seen(last).failing = {r \in Rules : last[r] = "FAIL"}
         /\ Seen(last).root_causes = root_causes
BY DEF TypeOK, OnlyLowest, Marked, Lowest, Views, Seen

(* The verdicts a handler leaves keep the invariant, where the rules that  *)
(* fail are those of the view and all rules stay enabled.                  *)
LEMMA ApplySound ==
  ASSUME NEW s, Sound(s), NEW queued,
         TypeOK, queued \in [Rules -> {"waiting", "immediate", "running"}],
         Apply(s, queued), state' = state,
         \A r \in s.failing : last_result'[r] = "FAIL"
  PROVE  /\ candidates' \subseteq Rules /\ root_causes' \subseteq Rules
         /\ candidates' \cap root_causes' = {}
         /\ test' \in [Rules -> {"waiting", "immediate", "running"}]
         /\ jobs' \in [Rules -> 0..MaxJobs]
         /\ RootCauseFails' /\ OnlyLowest'
<1>1. candidates' = s.candidates /\ root_causes' = s.root_causes /\ s \in Views
  BY DEF Apply, Sound, Marked
<1>2. test' \in [Rules -> {"waiting", "immediate", "running"}]
  BY DEF Apply
<1>3. jobs' \in [Rules -> 0..MaxJobs]
  BY RciAssumption DEF Apply, TypeOK
<1>4. RootCauseFails'
  BY <1>1 DEF RootCauseFails, Sound
<1>5. OnlyLowest'
  BY <1>1 DEF OnlyLowest, Sound, Marked, Lowest, Enabled, Below
<1> QED
  BY <1>1, <1>2, <1>3, <1>4, <1>5 DEF Views, Sound, Marked

LEMMA RuleResultSound ==
  ASSUME IInv, NEW r \in Rules, NEW result \in Results, NEW queued,
         queued \in [Rules -> {"waiting", "immediate", "running"}],
         RuleResult(r, result, queued), state' = state,
         UNCHANGED <<fed_back, acting>>, notified' \in [Rules -> SUBSET (Results \cup {"ABORT"})]
  PROVE  IInv'
<1> DEFINE last == [last_result EXCEPT ![r] = result]
           count == IF last_result[r] # result THEN 1
                    ELSE IF last_result_count[r] < Often(r) THEN last_result_count[r] + 1
                    ELSE Often(r)
           s == RciRun(Seen(last), r, count)
<1>1. /\ last_result' = last
      /\ last_result_count' = [last_result_count EXCEPT ![r] = count]
      /\ action_run' = [action_run EXCEPT ![r] = action_run[r] /\ result = "FAIL"]
      /\ Apply(s, queued)
  BY DEF RuleResult
<1>2. last \in [Rules -> Results] /\ count \in 1..4
  BY DEF IInv, TypeOK, Often
<1>3. /\ Marked(Seen(last))
      /\ Seen(last).failing = {p \in Rules : last[p] = "FAIL"}
      /\ Seen(last).root_causes = root_causes
  BY SeenMarked DEF IInv
<1>4. root_causes \subseteq Seen(last).failing \cup {r}
  BY <1>3 DEF IInv, TypeOK, RootCauseFails
<1>5. r \in root_causes \ Seen(last).failing => count = 1
  <2>1. last[r] = result
    BY DEF IInv, TypeOK
  <2> QED
    BY <1>3, <2>1 DEF IInv, TypeOK, RootCauseFails
<1> HIDE DEF last, count
<1>6. Sound(s) /\ s.failing = Seen(last).failing
  BY <1>3, <1>4, <1>5, RciRunSound
<1> HIDE DEF s
<1>7. \A p \in s.failing : last_result'[p] = "FAIL"
  BY <1>1, <1>3, <1>6
<1>8. /\ candidates' \subseteq Rules /\ root_causes' \subseteq Rules
      /\ candidates' \cap root_causes' = {}
      /\ test' \in [Rules -> {"waiting", "immediate", "running"}]
      /\ jobs' \in [Rules -> 0..MaxJobs]
      /\ RootCauseFails' /\ OnlyLowest'
  BY <1>1, <1>6, <1>7, ApplySound DEF IInv
<1>9. /\ last_result' \in [Rules -> Results]
      /\ last_result_count' \in [Rules -> 1..4]
      /\ action_run' \in [Rules -> BOOLEAN]
  <2>1. (action_run[r] /\ result = "FAIL") \in BOOLEAN
    OBVIOUS
  <2> QED
    BY <1>1, <1>2, <2>1 DEF IInv, TypeOK
<1> QED
  BY <1>8, <1>9 DEF IInv, TypeOK

LEMMA RuleAbortsSound ==
  ASSUME IInv, NEW r \in Rules, NEW queued,
         queued \in [Rules -> {"waiting", "immediate", "running"}],
         RuleAborts(r, queued), state' = state, UNCHANGED <<fed_back, acting>>,
         notified' \in [Rules -> SUBSET (Results \cup {"ABORT"})]
  PROVE  IInv'
<1> DEFINE s == RciAborted(Seen(last_result), r, last_result_count[r])
<1>1. /\ Sound(Seen(last_result))
      /\ Seen(last_result).failing = {p \in Rules : last_result[p] = "FAIL"}
  BY SeenMarked DEF Sound, IInv, TypeOK, RootCauseFails
<1>2. Sound(s) /\ s.failing = Seen(last_result).failing
  BY <1>1, RciAbortedSound
<1>3. Apply(s, queued) /\ UNCHANGED <<last_result, last_result_count, action_run>>
  BY DEF RuleAborts
<1> HIDE DEF s
<1>4. \A p \in s.failing : last_result'[p] = "FAIL"
  BY <1>1, <1>2, <1>3
<1> QED
  BY <1>2, <1>3, <1>4, ApplySound DEF IInv, TypeOK

(* A deletion leaves below a rule only what was there.                     *)
LEMMA BelowShrinks ==
  ASSUME Enabled' \subseteq Enabled
  PROVE  \A r \in Rules : Below(r)' \subseteq Below(r)
<1> SUFFICES ASSUME NEW r \in Rules, NEW d \in Below(r)'
             PROVE  d \in Below(r)
  OBVIOUS
<1>1. Enabled \subseteq Rules /\ Enabled' \subseteq Rules
  BY DEF Enabled
<1>2. d \in Enabled' /\ \A S \in ClosedFrom(Enabled', r) : d \in S
  BY <1>1 DEF Below, BelowAmong
<1>3. ASSUME NEW S \in ClosedFrom(Enabled, r)
      PROVE  d \in S
  <2>1. S \cap Enabled' \in ClosedFrom(Enabled', r)
    BY <1>3 DEF ClosedFrom
  <2> QED
    BY <1>2, <2>1
<1> QED
  BY <1>1, <1>2, <1>3 DEF Below, BelowAmong

-----------------------------------------------------------------------------
(* The invariant, one step per action.                                     *)
LEMMA InitIInv == Init => IInv
BY RciAssumption DEF Init, IInv, TypeOK, RootCauseFails, OnlyLowest, Results

LEMMA NextIInv == IInv /\ [Next]_vars => IInv'
<1> SUFFICES ASSUME IInv, [Next]_vars PROVE IInv'
  OBVIOUS
<1> USE RciAssumption
<1>1. ASSUME UNCHANGED <<state, last_result, candidates, root_causes>>
      PROVE  RootCauseFails' /\ OnlyLowest'
  BY <1>1 DEF IInv, RootCauseFails, OnlyLowest, Enabled, Below
<1>2. ASSUME NEW r \in Rules, RunTest(r)
      PROVE  IInv'
  <2>1. TypeOK'
    BY <1>2 DEF RunTest, status, IInv, TypeOK
  <2> QED
    BY <1>1, <1>2, <2>1 DEF RunTest, status, IInv
<1>3. ASSUME NEW r \in Rules, NEW result \in Results, TestResult(r, result)
      PROVE  IInv'
  <2>1. [test EXCEPT ![r] = "waiting"] \in [Rules -> {"waiting", "immediate", "running"}]
    BY DEF IInv, TypeOK
  <2> QED
    BY <1>3, <2>1, RuleResultSound DEF TestResult, IInv, TypeOK
<1>4. ASSUME NEW r \in Rules, TestAborts(r)
      PROVE  IInv'
  <2>1. [test EXCEPT ![r] = "waiting"] \in [Rules -> {"waiting", "immediate", "running"}]
    BY DEF IInv, TypeOK
  <2> QED
    BY <1>4, <2>1, RuleAbortsSound DEF TestAborts, IInv, TypeOK
<1>5. ASSUME NEW r \in Rules, NEW result \in Notices(r), Notify(r, result)
      PROVE  IInv'
  <2>1. result \in Results \cup {"ABORT"}
    BY DEF Notices
  <2>2. TypeOK'
    BY <1>5, <2>1 DEF Notify, status, IInv, TypeOK
  <2> QED
    BY <1>1, <1>5, <2>2 DEF Notify, status, IInv
<1>6. ASSUME NEW r \in Rules, NEW result \in Notices(r), NotifyResult(r, result)
      PROVE  IInv'
  <2>1. notified' \in [Rules -> SUBSET (Results \cup {"ABORT"})]
    BY <1>6 DEF NotifyResult, IInv, TypeOK
  <2>2. test \in [Rules -> {"waiting", "immediate", "running"}]
    BY DEF IInv, TypeOK
  <2>3. CASE result = "ABORT"
    BY <1>6, <2>1, <2>2, <2>3, RuleAbortsSound DEF NotifyResult
  <2>4. CASE result # "ABORT"
    <3>1. result \in Results
      BY <2>4 DEF Notices
    <3> QED
      BY <1>6, <2>1, <2>2, <2>4, <3>1, RuleResultSound DEF NotifyResult
  <2> QED
    BY <2>3, <2>4
<1>7. ASSUME NEW r \in Rules, FeedBack(r)
      PROVE  IInv'
  <2>1. TypeOK'
    BY <1>7 DEF FeedBack, status, IInv, TypeOK
  <2> QED
    BY <1>1, <1>7, <2>1 DEF FeedBack, status, IInv
<1>8. ASSUME NEW r \in Rules, FeedBackResult(r)
      PROVE  IInv'
  <2> DEFINE s == RciRun(Seen(last_result), r, last_result_count[r])
  <2>1. /\ Sound(Seen(last_result))
        /\ Seen(last_result).failing = {p \in Rules : last_result[p] = "FAIL"}
    BY SeenMarked DEF Sound, IInv, TypeOK, RootCauseFails
  <2>2. Sound(s) /\ s.failing = Seen(last_result).failing
    BY <2>1, RciRunSound DEF Sound
  <2>3. /\ Apply(s, test) /\ state' = state /\ last_result' = last_result
        /\ UNCHANGED <<last_result_count, notified, acting>>
        /\ action_run' = [action_run EXCEPT ![r] = action_run[r] /\ last_result[r] # "PASS"]
        /\ fed_back' = [fed_back EXCEPT ![r] = fed_back[r] - 1] /\ fed_back[r] > 0
    BY <1>8 DEF FeedBackResult
  <2> HIDE DEF s
  <2>4. \A p \in s.failing : last_result'[p] = "FAIL"
    BY <2>1, <2>2, <2>3
  <2>5. action_run' \in [Rules -> BOOLEAN] /\ fed_back' \in [Rules -> 0..MaxJobs]
    <3>1. (action_run[r] /\ last_result[r] # "PASS") \in BOOLEAN
      OBVIOUS
    <3> QED
      BY <2>3, <3>1 DEF IInv, TypeOK
  <2>6. /\ candidates' \subseteq Rules /\ root_causes' \subseteq Rules
        /\ candidates' \cap root_causes' = {}
        /\ test' \in [Rules -> {"waiting", "immediate", "running"}]
        /\ jobs' \in [Rules -> 0..MaxJobs]
        /\ RootCauseFails' /\ OnlyLowest'
    BY <2>2, <2>3, <2>4, ApplySound DEF IInv, TypeOK
  <2> QED
    BY <2>3, <2>5, <2>6 DEF IInv, TypeOK
<1>9. ASSUME NEW r \in Rules, RunAction(r)
      PROVE  IInv'
  <2>1. TypeOK'
    BY <1>9 DEF RunAction, IInv, TypeOK
  <2> QED
    BY <1>1, <1>9, <2>1 DEF RunAction, IInv
<1>10. ASSUME NEW r \in Rules, ActionDone(r)
       PROVE  IInv'
  <2>1. TypeOK'
    BY <1>10 DEF ActionDone, status, IInv, TypeOK
  <2> QED
    BY <1>1, <1>10, <2>1 DEF ActionDone, status, IInv
<1>11. ASSUME NEW r \in Rules, Delete(r)
       PROVE  IInv'
  <2>1. TypeOK' /\ Enabled' \subseteq Enabled /\ root_causes' = root_causes
    BY <1>11 DEF Delete, status, IInv, TypeOK, Enabled
  <2>2. RootCauseFails'
    BY <1>11 DEF Delete, status, IInv, RootCauseFails
  <2>3. OnlyLowest'
    BY <2>1, BelowShrinks DEF IInv, OnlyLowest, Enabled
  <2> QED
    BY <2>1, <2>2, <2>3 DEF IInv
<1>12. CASE UNCHANGED vars
  <2>1. TypeOK'
    BY <1>12 DEF vars, IInv, TypeOK
  <2> QED
    BY <1>1, <1>12, <2>1 DEF vars, IInv
<1> QED
  BY <1>2, <1>3, <1>4, <1>5, <1>6, <1>7, <1>8, <1>9, <1>10, <1>11, <1>12
     DEF Next, Answers

(* Every variable keeps to its values, in every behaviour.                 *)
THEOREM TypeCorrect == Spec => []TypeOK
<1>1. IInv => TypeOK
  BY DEF IInv
<1> QED
  BY <1>1, InitIInv, NextIInv, PTL DEF Spec

(* Whatever the rules, their dependencies and the order of results, a rule *)
(* that is named a root cause fails.                                       *)
THEOREM NamedFails == Spec => []RootCauseFails
<1>1. IInv => RootCauseFails
  BY DEF IInv
<1> QED
  BY <1>1, InitIInv, NextIInv, PTL DEF Spec

(* And no rule it depends on is named with it.                             *)
THEOREM NamedLowest == Spec => []OnlyLowest
<1>1. IInv => OnlyLowest
  BY DEF IInv
<1> QED
  BY <1>1, InitIInv, NextIInv, PTL DEF Spec
=============================================================================
