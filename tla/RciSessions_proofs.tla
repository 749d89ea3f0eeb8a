------------------------- MODULE RciSessions_proofs -------------------------
(* A session of root cause identification never loses its culprit: the     *)
(* proof, for any rules and dependencies, where aborts and deletions are   *)
(* harmless.                                                               *)
EXTENDS Rci_proofs

(* A view in which every lowest failing rule outside X is marked, and no   *)
(* failing rule outside X waits that depends on nothing.                   *)
IsLowest(s, e) == Below(e) \cap s.failing = {}
Covers(s, X) ==
  \A e \in (s.failing \cap Enabled) \ X :
    IsLowest(s, e) => e \in s.candidates \cup s.root_causes
Waits(s, X) == \A e \in (s.candidates \cap s.failing) \ X : Below(e) # {}
Fit(s, X) == s \in Views /\ Covers(s, X) /\ Waits(s, X)

(* Marks may go where a rule passes or something below it fails.           *)
LEMMA ClearFit ==
  ASSUME NEW s, NEW X, NEW R, Fit(s, X), R \subseteq Rules,
         \A e \in R \cap s.failing : ~IsLowest(s, e)
  PROVE  Fit(Clear(s, R), X) /\ Clear(s, R).failing = s.failing
BY DEF Fit, Covers, Waits, IsLowest, Views, Clear

(* They may come where a failing rule depends on something.                *)
LEMMA SuspectFit ==
  ASSUME NEW s, NEW X, NEW R, Fit(s, X), R \subseteq Rules,
         \A e \in R \cap s.failing : Below(e) # {}
  PROVE  Fit(Suspect(s, R), X \ R) /\ Suspect(s, R).failing = s.failing
BY DEF Fit, Covers, Waits, IsLowest, Views, Suspect

LEMMA RerunFit ==
  ASSUME NEW s, NEW X, NEW R, Fit(s, X), R \subseteq Rules
  PROVE  Fit(Rerun(s, R), X) /\ Rerun(s, R).failing = s.failing
BY DEF Fit, Covers, Waits, IsLowest, Views, Rerun

(* A rule named because it fails is marked, and clears only rules it is    *)
(* below.                                                                  *)
LEMMA RootCauseFit ==
  ASSUME NEW s, NEW X, NEW R, Fit(s, X), R \subseteq s.failing
  PROVE  Fit(RootCause(s, R), X \ R) /\ RootCause(s, R).failing = s.failing
<1> DEFINE t == [s EXCEPT !.candidates = s.candidates \ R,
                          !.root_causes = s.root_causes \cup R,
                          !.found = s.found \cup R]
           above == Above(R)
           u == Clear(t, above \cap t.root_causes)
<1>0. R \subseteq Rules /\ above \subseteq Rules
  BY BelowEnabled DEF Fit, Views
<1>1. Fit(t, X \ R) /\ t.failing = s.failing
  BY <1>0 DEF Fit, Covers, Waits, IsLowest, Views
<1>2. \A e \in above : ~IsLowest(t, e)
  BY <1>1 DEF Above, IsLowest
<1>3. RootCause(s, R) = Rerun(u, above \ t.failing)
  BY DEF RootCause, PropagateFail
<1> HIDE DEF t, above
<1>4. Fit(u, X \ R) /\ u.failing = t.failing
  BY <1>0, <1>1, <1>2, ClearFit
<1> HIDE DEF u
<1> QED
  BY <1>0, <1>1, <1>3, <1>4, RerunFit

(* A failing candidate that is looked at is named, waits for a candidate   *)
(* below it, or has a failing rule below it.                               *)
LEMMA DetermineFit ==
  ASSUME NEW s, NEW X, NEW R, Fit(s, X), R \subseteq Rules
  PROVE  /\ Fit(Determine(s, R), X \ (R \cap s.candidates \cap s.failing))
         /\ Determine(s, R).failing = s.failing
<1> DEFINE failing == R \cap s.candidates \cap s.failing
           lowest == {r \in failing : AllPass(s, r)}
           t == Clear(s, failing \ lowest)
           named == {r \in lowest : Below(r) \cap s.candidates = {}}
<1>1. \A e \in failing : e \in lowest <=> IsLowest(s, e)
  BY DEF AllPass, IsLowest
<1>2. Fit(t, X) /\ t.failing = s.failing
  <2>1. failing \ lowest \subseteq Rules
    OBVIOUS
  <2>2. \A e \in (failing \ lowest) \cap s.failing : ~IsLowest(s, e)
    BY <1>1
  <2> HIDE DEF failing, lowest
  <2> QED
    BY <2>1, <2>2, ClearFit
<1>3. t.candidates = s.candidates \ (failing \ lowest)
  BY DEF Clear, Fit, Views
<1>4. Fit(t, X \ (failing \ named))
  <2>1. \A e \in failing \ named : IsLowest(t, e) => e \in t.candidates
    BY <1>1, <1>2, <1>3 DEF IsLowest
  <2>2. \A e \in t.candidates \cap (failing \ named) : Below(e) # {}
    BY <1>3
  <2> HIDE DEF t, failing, named
  <2> QED
    BY <1>2, <2>1, <2>2 DEF Fit, Covers, Waits
<1>5. Determine(s, R) = RootCause(t, named)
  BY DEF Determine
<1>6. named \subseteq t.failing /\ named \subseteq failing
  BY <1>2
<1>7. (X \ (failing \ named)) \ named = X \ failing
  BY <1>6
<1> HIDE DEF t, named
<1>8. Fit(RootCause(t, named), (X \ (failing \ named)) \ named) /\ RootCause(t, named).failing = t.failing
  BY <1>4, <1>6, RootCauseFit
<1> QED
  BY <1>2, <1>5, <1>7, <1>8

(* A rule that passes leaves no culprit above it unmarked, be the pass a   *)
(* change or not.                                                          *)
LEMMA HandlePassedFit ==
  ASSUME NEW s, NEW r \in Rules, NEW changed \in BOOLEAN,
         Fit(s, IF changed THEN Above({r}) ELSE {}), r \notin s.failing
  PROVE  Fit(HandlePassed(s, r, changed), {})
<1> DEFINE X == IF changed THEN Above({r}) ELSE {}
           c == Clear(s, {r})
           gone == Above({r}) \cap c.candidates \cap c.failing
           t == Determine(c, Above({r}))
           again == (Above({r}) \cap t.failing) \ (t.candidates \cup t.root_causes)
           u == Suspect(t, again)
<1>1. Above({r}) \subseteq Rules
  BY BelowEnabled
<1>2. Fit(c, X)
  BY ClearFit
<1>3. Fit(t, X \ gone) /\ t.failing = c.failing
  BY <1>1, <1>2, DetermineFit
<1>4. HandlePassed(s, r, changed) = IF changed THEN Rerun(u, again) ELSE t
  BY DEF HandlePassed, PropagatePass
<1>5. \A e \in again : Below(e) # {}
  BY DEF Above
<1>6. again \subseteq Rules
  BY <1>1
<1>7. \A e \in X \ again : e \in t.failing => e \in t.candidates \cup t.root_causes
  OBVIOUS
<1>8. \A e \in X : Below(e) # {}
  BY DEF Above
<1>9. ~changed => X = {}
  OBVIOUS
<1> HIDE DEF c, gone, t, again, X
<1>10. Fit(u, (X \ gone) \ again) /\ u.failing = t.failing
  BY <1>3, <1>5, <1>6, SuspectFit
<1>11. Fit(u, {})
  <2>1. \A e \in X \ again : e \in u.failing => e \in u.candidates \cup u.root_causes
    BY <1>3, <1>6, <1>7, <1>10 DEF Suspect, Fit, Views
  <2> HIDE DEF u
  <2> QED
    BY <1>8, <1>10, <2>1 DEF Fit, Covers, Waits
<1> HIDE DEF u
<1>12. Fit(Rerun(u, again), {})
  BY <1>6, <1>11, RerunFit
<1> QED
  BY <1>3, <1>4, <1>9, <1>12

(* A rule that fails is marked, unless something below it fails.           *)
LEMMA HandleFailedFit ==
  ASSUME NEW s, NEW r \in Rules, Fit(s, {r}), r \in s.failing,
         r \in s.root_causes => r \notin s.candidates
  PROVE  Fit(HandleFailed(s, r), {})
<1> DEFINE again == Below(r) \ (s.failing \cup s.candidates)
           maybe == {d \in again \cup {r} : AllPass(s, d)}
           t == Clear(s, again \cup {r})
           u == Suspect(t, maybe)
<1>1. again \subseteq Rules
  BY BelowEnabled
<1>2. Below(r) # {} => Fit(ScheduleDependents(s, r), {})
  <2> HAVE Below(r) # {}
  <2>1. maybe \subseteq Rules /\ again \cup {r} \subseteq Rules /\ again \cap s.failing = {}
    BY <1>1
  <2>2. ScheduleDependents(s, r) = Rerun(u, again)
    BY DEF ScheduleDependents
  <2>3. Fit(t, {r}) /\ t.failing = s.failing /\ r \notin t.candidates
    BY <1>1, <2>1 DEF Fit, Covers, Waits, IsLowest, Views, Clear
  <2>4. r \in maybe <=> IsLowest(s, r)
    BY DEF AllPass, IsLowest
  <2>5. maybe \cap s.failing \subseteq {r}
    BY <2>1
  <2> HIDE DEF again, maybe, t
  <2>6. Fit(u, {r} \ maybe) /\ u.failing = t.failing
    BY <2>1, <2>3, <2>5, SuspectFit
  <2>7. r \notin maybe => Fit(u, {})
    <3> HAVE r \notin maybe
    <3>1. r \notin u.candidates /\ ~IsLowest(u, r)
      BY <2>1, <2>3, <2>4, <2>6 DEF Suspect, IsLowest, Fit, Views
    <3> HIDE DEF u
    <3> QED
      BY <2>6, <3>1 DEF Fit, Covers, Waits
  <2> HIDE DEF u
  <2>8. Fit(u, {})
    BY <2>6, <2>7
  <2> QED
    BY <1>1, <2>2, <2>8, RerunFit
<1>3. r \in s.candidates => Fit(Determine(s, {r}), {})
  <2> HAVE r \in s.candidates
  <2>1. {r} \ ({r} \cap s.candidates \cap s.failing) = {}
    OBVIOUS
  <2> QED
    BY <2>1, DetermineFit
<1>4. Fit(RootCause(s, {r}), {})
  <2>1. {r} \ {r} = {}
    OBVIOUS
  <2> QED
    BY <2>1, RootCauseFit
<1>5. r \in s.root_causes => Fit(s, {})
  BY DEF Fit, Covers, Waits
<1> QED
  BY <1>2, <1>3, <1>4, <1>5 DEF HandleFailed

-----------------------------------------------------------------------------
(* A failing candidate depends on something, deletions included.           *)
WaitsBelow == \A r \in candidates : last_result[r] = "FAIL" => Below(r) # {}
SInv == IInv /\ CulpritMarked /\ WaitsBelow

(* What a handler is shown fits, but for the rules that the new result     *)
(* turned into culprits: those above the rule when it passes, itself when  *)
(* it fails.                                                               *)
LEMMA SeenFit ==
  ASSUME SInv
  PROVE  /\ Fit(Seen(last_result), {})
         /\ Seen(last_result).failing = {p \in Rules : last_result[p] = "FAIL"}
         /\ Seen(last_result).candidates = candidates
         /\ Seen(last_result).root_causes = root_causes
<1>1. /\ Seen(last_result) \in Views
      /\ Seen(last_result).failing = {p \in Rules : last_result[p] = "FAIL"}
      /\ Seen(last_result).candidates = candidates
      /\ Seen(last_result).root_causes = root_causes
  BY DEF Seen, Views, SInv, IInv, TypeOK
<1>2. \A e \in Rules : IsLowest(Seen(last_result), e) =>
        \A d \in Below(e) : last_result[d] = "PASS"
  BY <1>1, BelowEnabled DEF IsLowest, SInv, IInv, TypeOK, Results
<1>3. Covers(Seen(last_result), {})
  BY <1>1, <1>2 DEF Covers, SInv, CulpritMarked, Culprit, Failing
<1>4. Waits(Seen(last_result), {})
  BY <1>1 DEF Waits, SInv, WaitsBelow
<1> QED
  BY <1>1, <1>3, <1>4 DEF Fit

LEMMA SeenAfter ==
  ASSUME SInv, NEW r \in Rules, NEW result \in Results, NEW last,
         last = [last_result EXCEPT ![r] = result]
  PROVE  /\ Seen(last).failing = {p \in Rules : last[p] = "FAIL"}
         /\ Seen(last).candidates = candidates
         /\ Seen(last).root_causes = root_causes
         /\ result = "FAIL" => Fit(Seen(last), {r}) /\ r \in Seen(last).failing
         /\ result = "PASS" =>
              /\ Fit(Seen(last), IF last_result[r] # result THEN Above({r}) ELSE {})
              /\ r \notin Seen(last).failing
<1>1. /\ Seen(last) \in Views
      /\ Seen(last).failing = {p \in Rules : last[p] = "FAIL"}
      /\ Seen(last).candidates = candidates
      /\ Seen(last).root_causes = root_causes
  BY DEF Seen, Views, SInv, IInv, TypeOK
<1>2. Seen(last).failing \ {r} = Seen(last_result).failing \ {r}
  BY <1>1, SeenFit DEF SInv, IInv, TypeOK
<1>3. r \in Seen(last).failing <=> result = "FAIL"
  BY <1>1 DEF SInv, IInv, TypeOK, Results
<1>4. \A e \in Enabled \ Above({r}) : r \notin Below(e)
  BY DEF Above
<1>5. ASSUME result = "FAIL"
      PROVE  Fit(Seen(last), {r})
  <2> DEFINE v == Seen(last_result)
             w == Seen(last)
  <2>1. /\ v.failing \subseteq w.failing /\ w.failing \subseteq v.failing \cup {r}
        /\ w.candidates = v.candidates /\ w.root_causes = v.root_causes
        /\ w \in Views /\ Fit(v, {})
    BY <1>1, <1>2, <1>3, <1>5, SeenFit
  <2> HIDE DEF v, w
  <2>2. Fit(w, {r})
    BY <2>1 DEF Fit, Covers, Waits, IsLowest
  <2> QED
    BY <2>2 DEF w
<1>6. ASSUME result = "PASS"
      PROVE  Fit(Seen(last), IF last_result[r] # result THEN Above({r}) ELSE {})
  <2>1. CASE last_result[r] = result
    <3>1. last = last_result
      BY <2>1 DEF SInv, IInv, TypeOK
    <3> QED
      BY <2>1, <3>1, SeenFit
  <2>2. CASE last_result[r] # result
    <3> DEFINE v == Seen(last_result)
               w == Seen(last)
    <3>1. /\ w.failing \subseteq v.failing /\ v.failing \subseteq w.failing \cup {r}
          /\ w.candidates = v.candidates /\ w.root_causes = v.root_causes
          /\ w \in Views /\ Fit(v, {})
      BY <1>1, <1>2, <1>3, <1>6, SeenFit
    <3> HIDE DEF v, w
    <3>2. Fit(w, Above({r}))
      <4>1. \A e \in Enabled \ Above({r}) : IsLowest(w, e) => IsLowest(v, e)
        BY <1>4, <3>1 DEF IsLowest
      <4>2. Covers(w, Above({r}))
        BY <3>1, <4>1 DEF Fit, Covers
      <4>3. Waits(w, Above({r}))
        BY <3>1 DEF Fit, Waits
      <4> QED
        BY <3>1, <4>2, <4>3 DEF Fit
    <3> QED
      BY <2>2, <3>2 DEF w
  <2> QED
    BY <2>1, <2>2
<1> QED
  BY <1>1, <1>3, <1>5, <1>6 DEF Results

(* The marks a fitting view leaves.                                        *)
LEMMA FitApplied ==
  ASSUME NEW s, NEW queued, Fit(s, {}), Apply(s, queued), state' = state,
         s.failing = {p \in Rules : last_result'[p] = "FAIL"},
         last_result' \in [Rules -> Results]
  PROVE  CulpritMarked' /\ WaitsBelow'
<1>1. candidates' = s.candidates /\ root_causes' = s.root_causes
  BY DEF Apply
<1>2. \A r : Below(r)' = Below(r)
  BY DEF Below, Enabled
<1>3. Enabled' = Enabled
  BY DEF Enabled
<1>4. WaitsBelow'
  BY <1>1, <1>2 DEF WaitsBelow, Fit, Waits, Views
<1>5. ASSUME NEW r \in Rules, Culprit(r)'
      PROVE  r \in s.candidates \cup s.root_causes
  <2>1. r \in Enabled /\ r \in s.failing /\ \A d \in Below(r) : last_result'[d] = "PASS"
    BY <1>2, <1>3, <1>5 DEF Culprit, Failing
  <2>2. IsLowest(s, r)
    BY <2>1 DEF IsLowest
  <2> QED
    BY <2>1, <2>2 DEF Fit, Covers
<1>6. CulpritMarked'
  BY <1>1, <1>5 DEF CulpritMarked
<1> QED
  BY <1>4, <1>6

LEMMA RuleResultMarks ==
  ASSUME SInv, NEW r \in Rules, NEW result \in Results, NEW queued,
         RuleResult(r, result, queued), state' = state
  PROVE  CulpritMarked' /\ WaitsBelow'
<1> DEFINE last == [last_result EXCEPT ![r] = result]
           count == IF last_result[r] # result THEN 1
                    ELSE IF last_result_count[r] < Often(r) THEN last_result_count[r] + 1
                    ELSE Often(r)
           s == RciRun(Seen(last), r, count)
<1>1. last_result' = last /\ Apply(s, queued)
  BY DEF RuleResult
<1>2. last \in [Rules -> Results]
  BY DEF SInv, IInv, TypeOK
<1>3. /\ Seen(last).failing = {p \in Rules : last[p] = "FAIL"}
      /\ Seen(last).candidates = candidates
      /\ Seen(last).root_causes = root_causes
      /\ result = "FAIL" => Fit(Seen(last), {r}) /\ r \in Seen(last).failing
      /\ result = "PASS" =>
           /\ Fit(Seen(last), IF last_result[r] # result THEN Above({r}) ELSE {})
           /\ r \notin Seen(last).failing
  BY SeenAfter
<1>4. (count = 1) = (last_result[r] # result)
  BY DEF SInv, IInv, TypeOK, Often
<1>5. candidates \cap root_causes = {}
  BY DEF SInv, IInv, TypeOK
<1>6. s.failing = Seen(last).failing
  <2>1. Marked(Seen(last))
    BY SeenMarked DEF SInv, IInv
  <2>2. root_causes \subseteq Seen(last).failing \cup {r}
    BY <1>3 DEF SInv, IInv, TypeOK, RootCauseFails
  <2>3. r \in root_causes \ Seen(last).failing => count = 1
    <3>1. last[r] = result
      BY DEF SInv, IInv, TypeOK
    <3> QED
      BY <1>3, <3>1 DEF SInv, IInv, TypeOK, RootCauseFails
  <2> HIDE DEF last, count
  <2> QED
    BY <1>3, <2>1, <2>2, <2>3, RciRunSound
<1>7. Fit(s, {})
  <2>1. CASE result = "PASS"
    <3>1. Fit(HandlePassed(Seen(last), r, count = 1), {})
      <4>1. Fit(Seen(last), IF count = 1 THEN Above({r}) ELSE {}) /\ r \notin Seen(last).failing
        BY <1>3, <1>4, <2>1
      <4>2. (count = 1) \in BOOLEAN
        OBVIOUS
      <4> HIDE DEF last, count
      <4> QED
        BY <4>1, <4>2, HandlePassedFit
    <3>2. count # 1 => Fit(Seen(last), {})
      BY <1>3, <1>4, <2>1
    <3> HIDE DEF last, count
    <3> QED
      BY <1>3, <2>1, <3>1, <3>2 DEF RciRun
  <2>2. CASE result = "FAIL"
    <3> HIDE DEF count
    <3>1. Fit(HandleFailed(Seen(last), r), {})
      <4> HIDE DEF last
      <4> QED
        BY <1>3, <1>5, <2>2, HandleFailedFit
    <3>2. count # 1 => Fit(Seen(last), {})
      <4> HAVE count # 1
      <4>1. last = last_result
        BY <1>4 DEF SInv, IInv, TypeOK
      <4> QED
        BY <4>1, SeenFit
    <3> HIDE DEF last
    <3> QED
      BY <1>3, <2>2, <3>1, <3>2 DEF RciRun
  <2> QED
    BY <2>1, <2>2 DEF Results
<1> HIDE DEF s
<1> QED
  BY <1>1, <1>2, <1>3, <1>6, <1>7, FitApplied

(* And an ABORT, polled or notified, where only tests of rules that depend  *)
(* on nothing abort.                                                       *)
LEMMA RuleAbortsMarks ==
  ASSUME Harmless, SInv, NEW r \in MayAbort, NEW queued,
         RuleAborts(r, queued), state' = state
  PROVE  CulpritMarked' /\ WaitsBelow'
<1> DEFINE v == Seen(last_result)
           s == RciAborted(v, r, last_result_count[r])
<1> USE RciAssumption
<1>1. /\ Fit(v, {}) /\ v.failing = {p \in Rules : last_result[p] = "FAIL"}
      /\ v.candidates = candidates /\ v.root_causes = root_causes
  BY SeenFit
<1>2. Sound(v)
  BY <1>1, SeenMarked DEF Sound, SInv, IInv, TypeOK, RootCauseFails
<1>3. Below(r) = {}
  <2>1. {} \in ClosedFrom(Enabled, r) /\ Enabled \in SUBSET Rules
    BY DEF ClosedFrom, Harmless, Enabled
  <2> QED
    BY <2>1 DEF Below, BelowAmong
<1>4. r \in candidates => r \notin v.failing
  BY <1>1, <1>3 DEF SInv, WaitsBelow
<1>5. s.failing = v.failing
  BY <1>2, RciAbortedSound
<1>6. Apply(s, queued) /\ last_result' = last_result
  BY DEF RuleAborts
<1> HIDE DEF v
<1>7. r \in candidates => Fit(HandlePassed(v, r, TRUE), {})
  <2>1. Fit(v, Above({r}))
    BY <1>1 DEF Fit, Covers, Waits
  <2> QED
    BY <1>4, <2>1, HandlePassedFit
<1>8. Fit(Rerun(v, {r}), {})
  BY <1>1, RerunFit
<1>9. Fit(s, {})
  BY <1>1, <1>7, <1>8 DEF RciAborted
<1> HIDE DEF s
<1> QED
  BY <1>1, <1>5, <1>6, <1>9, FitApplied DEF SInv, IInv, TypeOK

(* Deleting a rule nothing depends on leaves the rest below as it was.     *)
LEMMA BelowStays ==
  ASSUME NEW r \in Rules, Enabled' = Enabled \ {r}, r \in Enabled,
         \A p \in Rules : r \notin Child[p]
  PROVE  \A p \in Rules : Below(p)' = Below(p)
<1>1. Enabled \subseteq Rules /\ Enabled' \subseteq Rules
  BY DEF Enabled
<1> SUFFICES ASSUME NEW p \in Rules PROVE Below(p)' = Below(p)
  OBVIOUS
<1>2. Below(p)' \subseteq Below(p)
  BY BelowShrinks
<1>3. /\ Below(p) = {d \in Enabled : \A S \in ClosedFrom(Enabled, p) : d \in S}
      /\ Below(p)' = {d \in Enabled' : \A S \in ClosedFrom(Enabled', p) : d \in S}
  BY <1>1 DEF Below, BelowAmong
<1>4. ASSUME NEW S \in ClosedFrom(Enabled', p)
      PROVE  S \in ClosedFrom(Enabled, p)
  BY <1>1, <1>4 DEF ClosedFrom
<1>5. Enabled' \in ClosedFrom(Enabled, p)
  BY <1>1 DEF ClosedFrom
<1> QED
  BY <1>2, <1>3, <1>4, <1>5

-----------------------------------------------------------------------------
LEMMA InitSInv == Init => SInv
BY InitIInv DEF Init, SInv, CulpritMarked, Culprit, Failing, WaitsBelow

(* The invariant, one step per action; NextIInv has its first part.        *)
LEMMA NextSInv == Harmless /\ SInv /\ [Next]_vars => SInv'
<1> SUFFICES ASSUME Harmless, SInv, [Next]_vars PROVE CulpritMarked' /\ WaitsBelow'
  BY NextIInv DEF SInv
<1>1. ASSUME UNCHANGED <<state, last_result, candidates, root_causes>>
      PROVE  CulpritMarked' /\ WaitsBelow'
  BY <1>1 DEF SInv, CulpritMarked, Culprit, Failing, WaitsBelow, Enabled, Below
<1>2. ASSUME NEW r \in Rules, RunTest(r) \/ FeedBack(r) \/ RunAction(r) \/ ActionDone(r)
      PROVE  CulpritMarked' /\ WaitsBelow'
  BY <1>1, <1>2 DEF RunTest, FeedBack, RunAction, ActionDone, status
<1>3. ASSUME NEW r \in Rules, NEW result \in Notices(r), Notify(r, result)
      PROVE  CulpritMarked' /\ WaitsBelow'
  BY <1>1, <1>3 DEF Notify, status
<1>4. ASSUME NEW r \in Rules,
             \/ \E result \in Results : TestResult(r, result)
             \/ \E result \in Notices(r) : NotifyResult(r, result)
      PROVE  CulpritMarked' /\ WaitsBelow'
  <2>1. ASSUME NEW result \in Results, TestResult(r, result)
        PROVE  CulpritMarked' /\ WaitsBelow'
    BY <2>1, RuleResultMarks DEF TestResult
  <2>2. ASSUME NEW result \in Notices(r), NotifyResult(r, result), result # "ABORT"
        PROVE  CulpritMarked' /\ WaitsBelow'
    <3>1. result \in Results
      BY <2>2 DEF Notices
    <3> QED
      BY <2>2, <3>1, RuleResultMarks DEF NotifyResult
  <2>3. ASSUME "ABORT" \in Notices(r), NotifyResult(r, "ABORT")
        PROVE  CulpritMarked' /\ WaitsBelow'
    <3>1. r \in MayAbort
      BY <2>3 DEF Notices, Results
    <3> QED
      BY <2>3, <3>1, RuleAbortsMarks DEF NotifyResult
  <2> QED
    BY <1>4, <2>1, <2>2, <2>3
<1>5. ASSUME NEW r \in Rules, TestAborts(r)
      PROVE  CulpritMarked' /\ WaitsBelow'
  BY <1>5, RuleAbortsMarks DEF TestAborts
<1>6. ASSUME NEW r \in Rules, FeedBackResult(r)
      PROVE  CulpritMarked' /\ WaitsBelow'
  <2> DEFINE v == Seen(last_result)
             count == last_result_count[r]
             s == RciRun(v, r, count)
  <2>1. /\ Fit(v, {}) /\ v.failing = {p \in Rules : last_result[p] = "FAIL"}
        /\ v.candidates = candidates /\ v.root_causes = root_causes
    BY SeenFit
  <2>2. Sound(v)
    BY <2>1, SeenMarked DEF Sound, SInv, IInv, TypeOK, RootCauseFails
  <2>3. s.failing = v.failing
    BY <2>2, RciRunSound DEF Sound
  <2>4. Apply(s, test) /\ state' = state /\ last_result' = last_result
    BY <1>6 DEF FeedBackResult
  <2>5. candidates \cap root_causes = {}
    BY DEF SInv, IInv, TypeOK
  <2> HIDE DEF v, count
  <2>6. r \notin v.failing => Fit(HandlePassed(v, r, count = 1), {})
    <3>1. Fit(v, IF count = 1 THEN Above({r}) ELSE {}) /\ (count = 1) \in BOOLEAN
      BY <2>1 DEF Fit, Covers, Waits
    <3> QED
      BY <3>1, HandlePassedFit
  <2>7. r \in v.failing => Fit(HandleFailed(v, r), {})
    <3>1. Fit(v, {r})
      BY <2>1 DEF Fit, Covers, Waits
    <3> QED
      BY <2>1, <2>5, <3>1, HandleFailedFit
  <2>8. Fit(s, {})
    BY <2>1, <2>6, <2>7 DEF RciRun
  <2> HIDE DEF s
  <2> QED
    BY <2>1, <2>3, <2>4, <2>8, FitApplied DEF SInv, IInv, TypeOK
<1>7. ASSUME NEW r \in Rules, Delete(r)
      PROVE  CulpritMarked' /\ WaitsBelow'
  <2>1. Enabled' = Enabled \ {r} /\ r \in Enabled
    BY <1>7 DEF Delete, Enabled, SInv, IInv, TypeOK
  <2>2. \A p \in Rules : r \notin Child[p]
    BY <1>7 DEF Delete, Harmless, OnlyTopsDeleted
  <2>3. \A p \in Rules : Below(p)' = Below(p)
    BY <2>1, <2>2, BelowStays
  <2>4. candidates \subseteq Rules
    BY DEF SInv, IInv, TypeOK
  <2> QED
    BY <1>7, <2>1, <2>3, <2>4
       DEF Delete, status, SInv, CulpritMarked, Culprit, Failing, WaitsBelow
<1>8. CASE UNCHANGED vars
  BY <1>1, <1>8 DEF vars
<1> QED
  BY <1>2, <1>3, <1>4, <1>5, <1>6, <1>7, <1>8 DEF Next, Answers

(* The invariant of the sessions, in every behaviour.                      *)
LEMMA SessionsInvariant == Harmless => (Spec => []SInv)
<1>1. Harmless /\ SInv /\ [Next]_vars => SInv'
  BY NextSInv
<1>2. Init => SInv
  BY InitSInv
<1>3. Harmless => []Harmless
  OBVIOUS
<1> QED
  BY <1>1, <1>2, <1>3, PTL DEF Spec

(* A failing rule with nothing failing below it is always a root cause or  *)
(* a candidate.                                                            *)
THEOREM CulpritsMarked == Harmless => (Spec => []CulpritMarked)
<1>1. SInv => CulpritMarked
  BY DEF SInv
<1> QED
  BY <1>1, SessionsInvariant, PTL

-----------------------------------------------------------------------------
(* A rule named above a failure.                                           *)

(* What is below a rule is below what it depends on; what is below that is *)
(* below the rule.                                                         *)
LEMMA BelowClosed ==
  ASSUME NEW r \in Rules
  PROVE  /\ Below(r) = {d \in Enabled : \A S \in ClosedFrom(Enabled, r) : d \in S}
         /\ Child[r] \cap Enabled \subseteq Below(r)
         /\ \A d \in Below(r) : Below(d) \subseteq Below(r)
<1>1. ASSUME NEW p \in Rules
      PROVE  Below(p) = {d \in Enabled : \A S \in ClosedFrom(Enabled, p) : d \in S}
  BY DEF Below, BelowAmong, Enabled
<1>2. Child[r] \cap Enabled \subseteq Below(r)
  BY <1>1 DEF ClosedFrom
<1>3. ASSUME NEW d \in Below(r)
      PROVE  Below(d) \subseteq Below(r)
  <2>1. d \in Rules
    BY BelowEnabled
  <2>2. \A S \in ClosedFrom(Enabled, r) : S \in ClosedFrom(Enabled, d)
    BY <1>1, <1>3 DEF ClosedFrom
  <2> QED
    BY <1>1, <2>1, <2>2
<1> QED
  BY <1>1, <1>2, <1>3

(* And is one of those it depends on, or below one.                        *)
LEMMA BelowByChild ==
  ASSUME NEW r \in Rules, NEW d \in Below(r)
  PROVE  \E c \in Child[r] \cap Enabled : d = c \/ d \in Below(c)
<1> DEFINE S == {e \in Enabled : \E c \in Child[r] \cap Enabled : e = c \/ e \in Below(c)}
<1>1. Enabled \subseteq Rules
  BY BelowEnabled
<1>2. Child[r] \cap Enabled \subseteq S
  OBVIOUS
<1>3. ASSUME NEW p \in S
      PROVE  Child[p] \cap Enabled \subseteq S
  <2>1. PICK c \in Child[r] \cap Enabled : p = c \/ p \in Below(c)
    OBVIOUS
  <2>2. c \in Rules /\ p \in Rules
    BY <1>1
  <2>3. Child[p] \cap Enabled \subseteq Below(c)
    BY <2>1, <2>2, BelowClosed
  <2> QED
    BY <2>3
<1>4. S \in ClosedFrom(Enabled, r)
  BY <1>2, <1>3 DEF ClosedFrom
<1>5. d \in S
  BY <1>4, BelowClosed
<1> QED
  BY <1>5

(* Below a rule, where anything fails, some culprit does.                  *)
LEMMA CulpritBelow ==
  ASSUME TypeOK, NEW r \in Rules, NEW d \in Below(r), last_result[d] = "FAIL"
  PROVE  \E e \in Below(r) : Culprit(e)
<1> DEFINE F == {e \in Below(r) : last_result[e] = "FAIL"}
           S == {e \in Below(r) : e \in F \/ Below(e) \cap F # {}}
<1>1. Below(r) \subseteq Enabled /\ Enabled \subseteq Rules
  BY BelowEnabled
<1>2. S \in SUBSET Rules /\ S # {}
  BY <1>1
<1>3. PICK e \in S : Child[e] \cap S = {}
  BY <1>2, NoCycles
<1>4. e \in Below(r) /\ e \in Rules /\ e \in Enabled
  BY <1>1
<1>5. Below(e) \subseteq Below(r)
  BY <1>4, BelowClosed
<1>6. Below(e) \cap F = {}
  <2> SUFFICES ASSUME NEW f \in Below(e) \cap F PROVE FALSE
    OBVIOUS
  <2>1. PICK c \in Child[e] \cap Enabled : f = c \/ f \in Below(c)
    BY <1>4, BelowByChild
  <2>2. c \in Below(r)
    BY <1>4, <1>5, BelowClosed
  <2>3. c \in S
    BY <2>1, <2>2
  <2> QED
    BY <1>3, <2>1, <2>3
<1>7. e \in F
  BY <1>6
<1>8. \A c \in Below(e) : last_result[c] = "PASS"
  BY <1>1, <1>5, <1>6 DEF TypeOK, Results
<1>9. Culprit(e)
  BY <1>4, <1>7, <1>8 DEF Culprit, Failing
<1> QED
  BY <1>4, <1>9

(* A rule named above something that fails has, among what fails there, a  *)
(* culprit that is not named with it, and so is a candidate.               *)
LEMMA SessionBelow == SInv => NamedAboveFailure
<1> SUFFICES ASSUME SInv, NEW r \in root_causes \cap Enabled, NEW d \in Below(r),
                    last_result[d] # "PASS"
             PROVE  Below(r) \cap candidates # {}
  BY DEF NamedAboveFailure
<1>1. r \in Rules /\ d \in Rules /\ last_result[d] = "FAIL"
  BY BelowEnabled DEF SInv, IInv, TypeOK, Results
<1>2. PICK e \in Below(r) : Culprit(e)
  BY <1>1, CulpritBelow DEF SInv, IInv
<1>3. e \in candidates \cup root_causes
  BY <1>1, <1>2, BelowEnabled DEF SInv, CulpritMarked
<1>4. e \notin root_causes
  BY DEF SInv, IInv, OnlyLowest
<1> QED
  BY <1>3, <1>4

(* Where aborts and deletions are harmless, a rule stays named above a     *)
(* failure only while a session that will tell is under way below it.      *)
THEOREM SessionTells == Harmless => (Spec => []NamedAboveFailure)
  BY SessionBelow, SessionsInvariant, PTL
-----------------------------------------------------------------------------
(* What drives a session on.                                               *)

(* In a view, with results due for the rules of Q, each candidate outside  *)
(* X has a result due, or fails and has below it what it waits for or what *)
(* overrules it.                                                           *)
Overruled(s, e) == e \in s.failing /\ Below(e) \cap (s.candidates \cup s.failing) # {}
Driven(s, Q, X) ==
  \A e \in (s.candidates \cap Enabled) \ X : e \in Q \cup s.rerun \/ Overruled(s, e)
Going(s, Q, X) == Marked(s) /\ Driven(s, Q, X)

(* The marks of failing rules may go: what waited for them is overruled.   *)
LEMMA ClearGoing ==
  ASSUME NEW s, NEW Q, NEW X, NEW R, Going(s, Q, X), R \subseteq Rules,
         R \cap s.candidates \subseteq s.failing
  PROVE  Going(Clear(s, R), Q, X) /\ Clear(s, R).failing = s.failing
<1> DEFINE t == Clear(s, R)
<1>1. /\ Marked(t) /\ t.failing = s.failing /\ t.rerun = s.rerun
      /\ t.candidates = s.candidates \ R
  BY ClearSound DEF Going, Marked, Views, Clear
<1> HIDE DEF t
<1>2. Driven(t, Q, X)
  BY <1>1 DEF Going, Driven, Overruled
<1> QED
  BY <1>1, <1>2 DEF Going, t

(* The mark of one rule may go if the failing rules above it are looked at. *)
LEMMA ClearOneGoing ==
  ASSUME NEW s, NEW Q, NEW r \in Rules,
         Going(s, Q, {r} \cup (Above({r}) \cap s.failing))
  PROVE  /\ Going(Clear(s, {r}), Q, Above({r}) \cap s.failing)
         /\ Clear(s, {r}).failing = s.failing
<1> DEFINE t == Clear(s, {r})
<1>1. /\ Marked(t) /\ t.failing = s.failing /\ t.rerun = s.rerun
      /\ t.candidates = s.candidates \ {r}
  <2>1. Marked(s) /\ {r} \subseteq Rules
    BY DEF Going
  <2>2. Marked(t)
    BY <2>1, ClearSound
  <2> QED
    BY <2>1, <2>2 DEF Marked, Views, Clear
<1>2. \A e \in Enabled : r \in Below(e) => e \in Above({r})
  BY DEF Above
<1> HIDE DEF t
<1>3. Driven(t, Q, Above({r}) \cap s.failing)
  BY <1>1, <1>2 DEF Going, Driven, Overruled
<1> QED
  BY <1>1, <1>3 DEF Going, t

LEMMA RerunGoing ==
  ASSUME NEW s, NEW Q, NEW X, NEW R, Going(s, Q, X), R \subseteq Rules
  PROVE  Going(Rerun(s, R), Q, X \ R) /\ Rerun(s, R).failing = s.failing
<1> DEFINE t == Rerun(s, R)
<1>1. /\ t \in Views /\ t.failing = s.failing /\ t.rerun = s.rerun \cup R
      /\ t.candidates = s.candidates /\ t.root_causes = s.root_causes
  BY DEF Going, Marked, Views, Rerun
<1> HIDE DEF t
<1>2. Marked(t)
  BY <1>1 DEF Going, Marked, Lowest
<1>3. Driven(t, Q, X \ R)
  BY <1>1 DEF Going, Driven, Overruled
<1> QED
  BY <1>1, <1>2, <1>3 DEF Going, t

(* A rule named because it fails overrules what waited for it.             *)
LEMMA RootCauseGoing ==
  ASSUME NEW s, NEW Q, NEW X, NEW R, Going(s, Q, X), Sound(s), R \subseteq s.failing,
         \A r \in R : Below(r) \cap s.failing = {}
  PROVE  Going(RootCause(s, R), Q, X \ R) /\ RootCause(s, R).failing = s.failing
<1> DEFINE t == RootCause(s, R)
<1>1. Sound(t) /\ t.failing = s.failing
  BY RootCauseSound
<1>2. t.candidates = s.candidates \ R /\ s.rerun \subseteq t.rerun
  <2> DEFINE n == [s EXCEPT !.candidates = s.candidates \ R,
                            !.root_causes = s.root_causes \cup R,
                            !.found = s.found \cup R]
             c == Clear(n, Above(R) \cap n.root_causes)
  <2>1. t = Rerun(c, Above(R) \ n.failing)
    BY DEF RootCause, PropagateFail
  <2>2. /\ n.candidates = s.candidates \ R /\ n.root_causes = s.root_causes \cup R
        /\ n.rerun = s.rerun /\ s.candidates \cap s.root_causes = {}
    BY DEF Going, Marked, Views
  <2>3. c.candidates = n.candidates \ (Above(R) \cap n.root_causes) /\ c.rerun = n.rerun
    BY DEF Clear, Going, Marked, Views
  <2>4. t.candidates = c.candidates /\ t.rerun = c.rerun \cup (Above(R) \ n.failing)
    BY <2>1 DEF Rerun, Clear, Going, Marked, Views
  <2> HIDE DEF n, c, t
  <2> QED
    BY <2>2, <2>3, <2>4
<1> HIDE DEF t
<1>3. Driven(t, Q, X \ R)
  BY <1>1, <1>2 DEF Going, Driven, Overruled
<1> QED
  BY <1>1, <1>3 DEF Going, Sound, t

(* A failing candidate that is looked at is driven afterwards.             *)
LEMMA DetermineGoing ==
  ASSUME NEW s, NEW Q, NEW X, NEW R, Going(s, Q, X), Sound(s), R \subseteq Rules
  PROVE  /\ Going(Determine(s, R), Q, X \ (R \cap s.failing))
         /\ Determine(s, R).failing = s.failing
<1> DEFINE failing == R \cap s.candidates \cap s.failing
           lowest == {r \in failing : AllPass(s, r)}
           t == Clear(s, failing \ lowest)
           named == {r \in lowest : Below(r) \cap s.candidates = {}}
<1>1. Going(t, Q, X) /\ Sound(t) /\ t.failing = s.failing
  <2>1. failing \ lowest \subseteq Rules /\ (failing \ lowest) \cap s.candidates \subseteq s.failing
    OBVIOUS
  <2> HIDE DEF failing, lowest
  <2> QED
    BY <2>1, ClearGoing, ClearSound DEF Sound
<1>2. t.candidates = s.candidates \ (failing \ lowest)
  BY DEF Clear, Going, Marked, Views
<1>3. Determine(s, R) = RootCause(t, named)
  BY DEF Determine
<1>4. named \subseteq t.failing /\ \A r \in named : Below(r) \cap t.failing = {}
  BY <1>1 DEF AllPass
<1>5. Going(t, Q, X \ ((R \cap s.failing) \ named))
  <2>1. ASSUME NEW e \in t.candidates, e \in R \cap s.failing, e \notin named
        PROVE  Overruled(t, e)
    <3>1. e \in lowest
      BY <1>2, <2>1
    <3>2. PICK d \in Below(e) : d \in s.candidates
      BY <2>1, <3>1
    <3>3. d \notin failing
      BY <3>1, <3>2 DEF AllPass
    <3> QED
      BY <1>1, <1>2, <2>1, <3>2, <3>3 DEF Overruled
  <2> HIDE DEF failing, lowest, t, named
  <2> QED
    BY <1>1, <2>1 DEF Going, Driven
<1>6. (X \ ((R \cap s.failing) \ named)) \ named \subseteq X \ (R \cap s.failing)
  BY DEF failing
<1> HIDE DEF failing, lowest, t, named
<1>7. /\ Going(RootCause(t, named), Q, (X \ ((R \cap s.failing) \ named)) \ named)
      /\ RootCause(t, named).failing = t.failing
  BY <1>1, <1>4, <1>5, RootCauseGoing
<1>8. ASSUME NEW v, NEW Y, NEW Z, Going(v, Q, Y), Y \subseteq Z PROVE Going(v, Q, Z)
  BY <1>8 DEF Going, Driven
<1> QED
  BY <1>1, <1>3, <1>6, <1>7, <1>8
(* A new candidate is driven by its own result once it is rerun.           *)
LEMMA SuspectGoing ==
  ASSUME NEW s, NEW Q, NEW X, NEW R, Going(s, Q, X), Sound(s), R \subseteq Rules
  PROVE  /\ Going(Suspect(s, R), Q, X \cup R) /\ Sound(Suspect(s, R))
         /\ Suspect(s, R).failing = s.failing
<1> DEFINE t == Suspect(s, R)
<1>1. /\ Sound(t) /\ t.failing = s.failing
  BY SuspectSound
<1>2. t.candidates = s.candidates \cup R /\ t.rerun = s.rerun
  BY DEF Going, Marked, Views, Suspect
<1> HIDE DEF t
<1>3. Driven(t, Q, X \cup R)
  BY <1>1, <1>2 DEF Going, Driven, Overruled
<1> QED
  BY <1>1, <1>3 DEF Going, Sound, t

(* A rule that passes, or whose test keeps aborting, is no candidate, and  *)
(* the failing rules that waited for it are looked at.                     *)
LEMMA HandlePassedGoing ==
  ASSUME NEW s, NEW Q, NEW r \in Rules, NEW changed \in BOOLEAN,
         Going(s, Q, {r} \cup (Above({r}) \cap s.failing)),
         s.root_causes \subseteq s.failing \cup {r}
  PROVE  Going(HandlePassed(s, r, changed), Q, {})
<1> DEFINE c == Clear(s, {r})
           t == Determine(c, Above({r}))
           again == (Above({r}) \cap t.failing) \ (t.candidates \cup t.root_causes)
           u == Suspect(t, again)
<1>1. Above({r}) \subseteq Rules
  BY BelowEnabled
<1>2. Sound(c)
  <2>1. Marked(s) /\ {r} \subseteq Rules
    BY DEF Going
  <2> QED
    BY <2>1, ClearSound DEF Sound
<1>3. Going(c, Q, Above({r}) \cap s.failing) /\ c.failing = s.failing
  BY ClearOneGoing
<1>4. (Above({r}) \cap s.failing) \ (Above({r}) \cap c.failing) = {}
  BY <1>3
<1>5. HandlePassed(s, r, changed) = IF changed THEN Rerun(u, again) ELSE t
  BY DEF HandlePassed, PropagatePass
<1>6. again \subseteq Rules
  BY <1>1
<1> HIDE DEF c, again
<1>7. Going(t, Q, {}) /\ Sound(t)
  <2>1. Going(c, Q, Above({r}) \cap s.failing)
    BY <1>3
  <2>2. Going(t, Q, (Above({r}) \cap s.failing) \ (Above({r}) \cap c.failing))
    BY <1>1, <1>2, <2>1, DetermineGoing
  <2>3. Sound(t)
    BY <1>1, <1>2, DetermineSound
  <2> HIDE DEF t
  <2> QED
    BY <1>4, <2>2, <2>3
<1> HIDE DEF t
<1>8. Going(u, Q, {} \cup again)
  BY <1>6, <1>7, SuspectGoing
<1> HIDE DEF u
<1>9. ({} \cup again) \ again = {}
  OBVIOUS
<1>10. Going(Rerun(u, again), Q, {})
  BY <1>6, <1>8, <1>9, RerunGoing
<1> QED
  BY <1>5, <1>7, <1>10

(* A rule that fails starts a session, or is named, or waits on.           *)
LEMMA HandleFailedGoing ==
  ASSUME NEW s, NEW Q, NEW r \in Rules, Going(s, Q, {r}), Sound(s), r \in s.failing
  PROVE  Going(HandleFailed(s, r), Q, {})
<1> DEFINE again == Below(r) \ (s.failing \cup s.candidates)
           maybe == {d \in again \cup {r} : AllPass(s, d)}
           t == Clear(s, again \cup {r})
           u == Suspect(t, maybe)
           v == Rerun(u, again)
<1>1. r \in s.root_causes => Going(s, Q, {})
  BY DEF Going, Driven, Marked
<1>2. r \in s.candidates => Going(Determine(s, {r}), Q, {})
  <2>1. {r} \ ({r} \cap s.failing) = {} /\ {r} \subseteq Rules
    OBVIOUS
  <2> QED
    BY <2>1, DetermineGoing
<1>3. Below(r) = {} => Going(RootCause(s, {r}), Q, {})
  <2>1. {r} \ {r} = {} /\ {r} \subseteq s.failing
    OBVIOUS
  <2> QED
    BY <2>1, RootCauseGoing
<1>4. ASSUME Below(r) # {}, r \notin s.candidates
      PROVE  Going(ScheduleDependents(s, r), Q, {})
  <2>1. ScheduleDependents(s, r) = v
    BY DEF ScheduleDependents
  <2>2. /\ again \subseteq Rules /\ again \cup {r} \subseteq Rules /\ maybe \subseteq Rules
        /\ (again \cup {r}) \cap s.candidates \subseteq s.failing
    BY <1>4, BelowEnabled
  <2>3. /\ s.candidates \subseteq t.candidates /\ u.candidates = t.candidates \cup maybe
        /\ v.candidates = u.candidates
    <3>1. t.candidates = s.candidates \ (again \cup {r})
      BY DEF Clear, Going, Marked, Views
    <3>2. u.candidates = t.candidates \cup maybe
      BY DEF Suspect, Clear, Going, Marked, Views
    <3>3. v.candidates = u.candidates
      BY DEF Rerun, Suspect, Clear, Going, Marked, Views
    <3> QED
      BY <1>4, <3>1, <3>2, <3>3
  <2>4. AllPass(s, r) => Below(r) \cap v.candidates # {}
    <3> SUFFICES ASSUME AllPass(s, r), NEW d \in Below(r)
                 PROVE  d \in v.candidates
      BY <1>4
    <3>1. d \notin s.failing /\ Below(d) \subseteq Below(r)
      BY BelowClosed DEF AllPass
    <3>2. AllPass(s, d)
      BY <3>1 DEF AllPass
    <3> QED
      BY <2>3, <3>1, <3>2
  <2>5. ({r} \cup maybe) \ again = {r}
    OBVIOUS
  <2>6. r \in v.candidates => AllPass(s, r)
    BY <2>3 DEF Clear, Going, Marked, Views
  <2> HIDE DEF again, maybe, t, u, v
  <2>7. Going(t, Q, {r}) /\ Sound(t) /\ t.failing = s.failing
    BY <2>2, ClearGoing, ClearSound DEF Sound, t
  <2>8. Going(u, Q, {r} \cup maybe) /\ u.failing = s.failing
    BY <2>2, <2>7, SuspectGoing DEF u
  <2>9. Going(v, Q, {r}) /\ v.failing = s.failing
    BY <2>2, <2>5, <2>8, RerunGoing DEF v
  <2>10. Driven(v, Q, {})
    BY <2>4, <2>6, <2>9 DEF Going, Driven, Overruled
  <2> QED
    BY <2>1, <2>9, <2>10 DEF Going
<1> QED
  BY <1>1, <1>2, <1>3, <1>4 DEF HandleFailed
-----------------------------------------------------------------------------
(* The rules that have a result due, and the invariant of the candidates.  *)
DueOf(tests, fed) == {r \in Rules : tests[r] # "waiting" \/ fed[r] > 0}
AllDriven ==
  \A r \in candidates \cap Enabled :
    \/ r \in DueOf(test, fed_back)
    \/ last_result[r] = "FAIL" /\ \E d \in Below(r) : d \in candidates \/ last_result[d] = "FAIL"
DInv == IInv /\ AllDriven

(* What a handler is shown when the result of r is in: r itself has none   *)
(* due any more, and what it overruled waits for another to be found.      *)
LEMMA SeenGoing ==
  ASSUME DInv, NEW r \in Rules, NEW result \in Results, NEW Q,
         DueOf(test, fed_back) \ {r} \subseteq Q, NEW last,
         last = [last_result EXCEPT ![r] = result]
  PROVE  /\ result = "FAIL" \/ last = last_result => Going(Seen(last), Q, {r})
         /\ Going(Seen(last), Q, {r} \cup (IF result = "FAIL" THEN {}
                                         ELSE Above({r}) \cap Seen(last).failing))
<1> DEFINE s == Seen(last)
           X == Above({r}) \cap s.failing
<1>1. /\ Marked(s) /\ s.failing = {p \in Rules : last[p] = "FAIL"}
      /\ s.candidates = candidates /\ s.rerun = {}
  BY SeenMarked DEF DInv, IInv, Seen
<1>2. last[r] = result /\ \A p \in Rules : p # r => last[p] = last_result[p]
  BY DEF DInv, IInv, TypeOK
<1>3. ASSUME NEW e \in candidates \cap Enabled, e # r, e \notin Q
      PROVE  /\ last_result[e] = "FAIL"
             /\ \E d \in Below(e) : d \in candidates \/ last_result[d] = "FAIL"
  BY <1>3 DEF DInv, AllDriven
<1>4. ASSUME result = "FAIL" \/ last = last_result
      PROVE  Driven(s, Q, {r})
  <2> SUFFICES ASSUME NEW e \in candidates \cap Enabled, e # r, e \notin Q
               PROVE  Overruled(s, e)
    BY <1>1 DEF Driven
  <2>1. PICK d \in Below(e) : d \in candidates \/ last_result[d] = "FAIL"
    BY <1>3
  <2>2. e \in Rules /\ d \in Rules
    BY BelowEnabled
  <2>3. last_result[d] = "FAIL" => last[d] = "FAIL"
    BY <1>2, <1>4, <2>2
  <2>4. last[e] = "FAIL"
    BY <1>2, <1>3, <2>2
  <2> HIDE DEF s
  <2> QED
    BY <1>1, <2>1, <2>2, <2>3, <2>4 DEF Overruled
<1>5. ASSUME result # "FAIL"
      PROVE  Driven(s, Q, {r} \cup X)
  <2> SUFFICES ASSUME NEW e \in candidates \cap Enabled, e # r, e \notin X, e \notin Q
               PROVE  Overruled(s, e)
    BY <1>1 DEF Driven
  <2>1. PICK d \in Below(e) : d \in candidates \/ last_result[d] = "FAIL"
    BY <1>3
  <2>2. e \in Rules /\ d \in Rules
    BY BelowEnabled
  <2>3. last[e] = "FAIL"
    BY <1>2, <1>3, <2>2
  <2>4. d # r
    BY <1>1, <2>2, <2>3 DEF Above
  <2> HIDE DEF s, X
  <2> QED
    BY <1>1, <1>2, <2>1, <2>2, <2>3, <2>4 DEF Overruled
<1> HIDE DEF s, X
<1>6. result = "FAIL" => Driven(s, Q, {r} \cup {})
  BY <1>4 DEF Driven
<1> QED
  BY <1>1, <1>4, <1>5, <1>6 DEF Going, s, X

(* swdiag_rci_run drives every candidate, be the result handled or not.    *)
LEMMA RciRunGoing ==
  ASSUME NEW s, NEW Q, NEW r \in Rules, NEW count,
         Going(s, Q, {r} \cup (IF r \in s.failing THEN {} ELSE Above({r}) \cap s.failing)),
         count # 1 => Going(s, Q, {r}),
         s.root_causes \subseteq s.failing \cup {r},
         r \in s.root_causes \ s.failing => count = 1
  PROVE  Going(RciRun(s, r, count), Q, {})
<1>1. count # 1 /\ r \notin s.candidates => Going(s, Q, {})
  BY DEF Going, Driven
<1>2. CASE r \in s.failing
  <2>1. Going(s, Q, {r})
    BY <1>2 DEF Going, Driven
  <2>2. Sound(s)
    BY <1>2 DEF Going, Sound
  <2>3. Going(HandleFailed(s, r), Q, {})
    BY <1>2, <2>1, <2>2, HandleFailedGoing
  <2> QED
    BY <1>1, <1>2, <2>3 DEF RciRun
<1>3. CASE r \notin s.failing
  <2>1. (count = 1) \in BOOLEAN
    OBVIOUS
  <2>2. Going(HandlePassed(s, r, count = 1), Q, {})
    BY <1>3, <2>1, HandlePassedGoing
  <2> QED
    BY <1>1, <1>3, <2>2 DEF RciRun
<1> QED
  BY <1>2, <1>3

(* What a handler leaves, once its reruns are on the queue.                *)
LEMMA GoingApplied ==
  ASSUME NEW s, NEW queued, NEW Q, Going(s, Q, {}), Apply(s, queued), state' = state,
         s.failing = {p \in Rules : last_result'[p] = "FAIL"},
         Q \subseteq DueOf(queued, fed_back')
  PROVE  AllDriven'
<1>1. /\ candidates' = s.candidates
      /\ test' = [p \in Rules |-> IF p \in s.rerun /\ queued[p] = "waiting"
                                 THEN "immediate" ELSE queued[p]]
  BY DEF Apply
<1>2. Enabled' = Enabled /\ \A p : Below(p)' = Below(p)
  BY DEF Enabled, Below
<1> SUFFICES ASSUME NEW r \in s.candidates \cap Enabled
             PROVE  \/ r \in DueOf(test', fed_back')
                    \/ /\ last_result'[r] = "FAIL"
                       /\ \E d \in Below(r) : d \in s.candidates \/ last_result'[d] = "FAIL"
  BY <1>1, <1>2 DEF AllDriven, DueOf
<1>3. r \in Rules
  BY BelowEnabled
<1>4. CASE r \in Q \cup s.rerun
  <2>1. test'[r] # "waiting" \/ fed_back'[r] > 0
    BY <1>1, <1>3, <1>4 DEF DueOf
  <2> QED
    BY <1>3, <2>1 DEF DueOf
<1>5. CASE Overruled(s, r)
  BY <1>5, BelowEnabled DEF Overruled
<1> QED
  BY <1>4, <1>5 DEF Going, Driven
(* A result of a test, polled or notified.                                 *)
LEMMA RuleResultDriven ==
  ASSUME DInv, NEW r \in Rules, NEW result \in Results, NEW queued,
         RuleResult(r, result, queued), state' = state,
         DueOf(test, fed_back) \ {r} \subseteq DueOf(queued, fed_back')
  PROVE  AllDriven'
<1> DEFINE last == [last_result EXCEPT ![r] = result]
           count == IF last_result[r] # result THEN 1
                    ELSE IF last_result_count[r] < Often(r) THEN last_result_count[r] + 1
                    ELSE Often(r)
           v == Seen(last)
           s == RciRun(v, r, count)
           Q == DueOf(queued, fed_back')
<1>1. last_result' = last /\ Apply(s, queued)
  BY DEF RuleResult
<1>2. last[r] = result /\ (count # 1 => last = last_result)
  BY DEF DInv, IInv, TypeOK
<1>3. Marked(v) /\ v.failing = {p \in Rules : last[p] = "FAIL"} /\ v.root_causes = root_causes
  BY SeenMarked DEF DInv, IInv
<1>4. v.root_causes \subseteq v.failing \cup {r}
  BY <1>3 DEF DInv, IInv, TypeOK, RootCauseFails
<1>5. r \in v.root_causes \ v.failing => count = 1
  BY <1>2, <1>3 DEF DInv, IInv, RootCauseFails
<1>6. r \in v.failing <=> result = "FAIL"
  BY <1>2, <1>3
<1>7. /\ result = "FAIL" \/ last = last_result => Going(v, Q, {r})
      /\ Going(v, Q, {r} \cup (IF result = "FAIL" THEN {} ELSE Above({r}) \cap v.failing))
  BY SeenGoing
<1> HIDE DEF v, last, count, Q
<1>8. Sound(s) /\ s.failing = v.failing
  BY <1>3, <1>4, <1>5, RciRunSound
<1>9. Going(s, Q, {})
  BY <1>2, <1>4, <1>5, <1>6, <1>7, RciRunGoing
<1> HIDE DEF s
<1> QED
  BY <1>1, <1>3, <1>8, <1>9, GoingApplied DEF Q

LEMMA InitDInv == Init => DInv
BY InitIInv DEF Init, DInv, AllDriven

(* Every step keeps each candidate driven, where only rules that nothing   *)
(* depends on are deleted.                                                 *)
LEMMA NextDInv == OnlyTopsDeleted /\ DInv /\ [Next]_vars => DInv'
<1> SUFFICES ASSUME OnlyTopsDeleted, DInv, [Next]_vars PROVE AllDriven'
  BY NextIInv DEF DInv
<1>0. /\ test \in [Rules -> {"waiting", "immediate", "running"}]
      /\ fed_back \in [Rules -> 0..MaxJobs] /\ last_result \in [Rules -> Results]
  BY DEF DInv, IInv, TypeOK
<1>1. ASSUME UNCHANGED <<state, last_result, candidates>>,
             DueOf(test, fed_back) \subseteq DueOf(test', fed_back')
      PROVE  AllDriven'
  BY <1>1 DEF DInv, AllDriven, Enabled, Below
<1>2. ASSUME NEW r \in Rules, RunTest(r) \/ ActionDone(r)
      PROVE  AllDriven'
  <2>1. /\ UNCHANGED <<state, last_result, candidates, fed_back>>
        /\ \A p \in Rules : test[p] # "waiting" => test'[p] # "waiting"
    BY <1>0, <1>2 DEF RunTest, ActionDone, status
  <2> QED
    BY <1>1, <2>1 DEF DueOf
<1>3. ASSUME NEW r \in Rules, RunAction(r) \/ \E result \in Notices(r) : Notify(r, result)
      PROVE  AllDriven'
  BY <1>1, <1>3 DEF RunAction, Notify, status
<1>4. ASSUME NEW r \in Rules, FeedBack(r)
      PROVE  AllDriven'
  <2>1. /\ UNCHANGED <<state, last_result, candidates>>
        /\ fed_back'[r] > 0
        /\ \A p \in Rules : p # r => test'[p] = test[p] /\ fed_back'[p] = fed_back[p]
    BY <1>0, <1>4, RciAssumption DEF FeedBack, status
  <2> QED
    BY <1>1, <2>1 DEF DueOf
<1>5. ASSUME NEW r \in Rules, NEW result \in Results, TestResult(r, result)
      PROVE  AllDriven'
  <2>1. DueOf(test, fed_back) \ {r} \subseteq DueOf([test EXCEPT ![r] = "waiting"], fed_back')
    BY <1>0, <1>5 DEF TestResult, DueOf
  <2> QED
    BY <1>5, <2>1, RuleResultDriven DEF TestResult
<1>6. ASSUME NEW r \in Rules, NEW result \in Notices(r), NotifyResult(r, result),
             result # "ABORT"
      PROVE  AllDriven'
  <2> USE DEF Notices
  <2>1. DueOf(test, fed_back) \ {r} \subseteq DueOf(test, fed_back')
    BY <1>6 DEF NotifyResult, DueOf
  <2> QED
    BY <1>6, <2>1, RuleResultDriven DEF NotifyResult
<1>7. ASSUME NEW r \in Rules, NEW queued, NEW s, Apply(s, queued),
             UNCHANGED <<state, last_result>>,
             DueOf(test, fed_back) \ {r} \subseteq DueOf(queued, fed_back'),
             \/ s = RciRun(Seen(last_result), r, last_result_count[r])
             \/ s = RciAborted(Seen(last_result), r, last_result_count[r])
      PROVE  AllDriven'
  <2> DEFINE v == Seen(last_result)
             Q == DueOf(queued, fed_back')
             result == last_result[r]
             count == last_result_count[r]
  <2>1. result \in Results /\ last_result = [last_result EXCEPT ![r] = result]
    BY <1>0
  <2>2. /\ Marked(v) /\ v.failing = {p \in Rules : last_result[p] = "FAIL"}
        /\ v.root_causes \subseteq v.failing
    BY SeenMarked DEF DInv, IInv, TypeOK, RootCauseFails
  <2>3. Going(v, Q, {r})
    BY <1>7, <2>1, SeenGoing
  <2> HIDE DEF v, Q, count
  <2>4. Going(v, Q, {r} \cup (Above({r}) \cap v.failing))
    BY <2>3 DEF Going, Driven
  <2>5. Going(RciRun(v, r, count), Q, {}) /\ RciRun(v, r, count).failing = v.failing
    BY <2>2, <2>3, <2>4, RciRunGoing, RciRunSound
  <2>6. Going(RciAborted(v, r, count), Q, {}) /\ RciAborted(v, r, count).failing = v.failing
    <3>1. Going(HandlePassed(v, r, TRUE), Q, {})
      BY <2>2, <2>4, HandlePassedGoing
    <3>2. Going(Rerun(v, {r}), Q, {})
      <4>1. {r} \ {r} = {} /\ {r} \subseteq Rules
        OBVIOUS
      <4> QED
        BY <2>3, <4>1, RerunGoing
    <3>3. r \notin v.candidates => Going(v, Q, {})
      BY <2>3 DEF Going, Driven
    <3>4. RciAborted(v, r, count).failing = v.failing
      BY <2>2, RciAbortedSound DEF Sound
    <3> QED
      BY <3>1, <3>2, <3>3, <3>4 DEF RciAborted
  <2>7. Going(s, Q, {}) /\ s.failing = {p \in Rules : last_result'[p] = "FAIL"}
    BY <1>7, <2>2, <2>5, <2>6 DEF v, count
  <2> QED
    BY <1>7, <2>7, GoingApplied DEF Q
<1>8. ASSUME NEW r \in Rules, TestAborts(r) \/ NotifyResult(r, "ABORT")
      PROVE  AllDriven'
  <2>1. CASE TestAborts(r)
    <3>1. DueOf(test, fed_back) \ {r} \subseteq DueOf([test EXCEPT ![r] = "waiting"], fed_back')
      BY <1>0, <2>1 DEF TestAborts, DueOf
    <3> QED
      BY <1>7, <2>1, <3>1 DEF TestAborts, RuleAborts
  <2>2. CASE NotifyResult(r, "ABORT")
    <3>1. DueOf(test, fed_back) \ {r} \subseteq DueOf(test, fed_back')
      BY <2>2 DEF NotifyResult, DueOf
    <3> QED
      BY <1>7, <2>2, <3>1 DEF NotifyResult, RuleAborts
  <2> QED
    BY <1>8, <2>1, <2>2
<1>9. ASSUME NEW r \in Rules, FeedBackResult(r)
      PROVE  AllDriven'
  <2>1. DueOf(test, fed_back) \ {r} \subseteq DueOf(test, fed_back')
    BY <1>0, <1>9 DEF FeedBackResult, DueOf
  <2> QED
    BY <1>7, <1>9, <2>1 DEF FeedBackResult
<1>10. ASSUME NEW r \in Rules, Delete(r)
       PROVE  AllDriven'
  <2>1. Enabled' = Enabled \ {r} /\ r \in Enabled
    BY <1>10 DEF Delete, Enabled, DInv, IInv, TypeOK
  <2>2. \A p \in Rules : r \notin Child[p]
    BY <1>10 DEF Delete, OnlyTopsDeleted
  <2>3. \A p \in Rules : Below(p)' = Below(p)
    BY <2>1, <2>2, BelowStays
  <2>4. candidates \subseteq Rules /\ UNCHANGED <<last_result, candidates, test, fed_back>>
    BY <1>10 DEF Delete, status, DInv, IInv, TypeOK
  <2> QED
    BY <2>1, <2>3, <2>4 DEF DInv, AllDriven, DueOf
<1>11. CASE UNCHANGED vars
  BY <1>1, <1>11 DEF vars
<1> QED
  BY <1>2, <1>3, <1>4, <1>5, <1>6, <1>8, <1>9, <1>10, <1>11 DEF Next, Answers

(* Whatever aborts, where only rules that nothing depends on are deleted:  *)
(* the candidates of root cause identification never all wait for each     *)
(* other, however sessions overlap and in whatever order results come.     *)
THEOREM CandidatesDriven == OnlyTopsDeleted => (Spec => []NoRciDeadlock)
<1>1. OnlyTopsDeleted /\ DInv /\ [Next]_vars => DInv'
  BY NextDInv
<1>2. Init => DInv
  BY InitDInv
<1>3. DInv => NoRciDeadlock
  BY BelowEnabled DEF DInv, AllDriven, NoRciDeadlock, DueOf
<1>4. OnlyTopsDeleted => []OnlyTopsDeleted
  OBVIOUS
<1> QED
  BY <1>1, <1>2, <1>3, <1>4, PTL DEF Spec
=============================================================================
