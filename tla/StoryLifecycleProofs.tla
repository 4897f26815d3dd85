------------------------- MODULE StoryLifecycleProofs -------------------------
(***************************************************************************)
(* Theorems about StoryLifecycle, for every number of pull requests and    *)
(* tasks, for every cap, and for every set of circumstances: what a story  *)
(* goes through keeps its keys in their shapes, its recodes bounded, its   *)
(* credit honest and the story behind it waiting for a green main.         *)
(***************************************************************************)
EXTENDS StoryLifecycle, FiniteSetTheorems, TLAPS

-----------------------------------------------------------------------------
(* Type correctness.                                                       *)

CiStates == [at : {"none", "head", "poll", "ask"}, main : 0..MaxPr]
Forgejo == [Pr -> {"none", "open", "merged"}]

\* The bound of the history is a number, and no fewer than one.
LEMMA CapsAreNumbers ==
  /\ MaxRecodes \in Nat /\ MaxPr \in Nat \ {0} /\ MaxTasks \in Nat \ {0}
  /\ RecodeCap \in Nat \ {0} /\ PostMergeFixCap \in Nat /\ WatchAttemptCap \in Nat
  /\ MaxIncidents \in Nat
<1>1. \A a, b \in Nat : a * b \in Nat
  OBVIOUS
<1>2. WatchAttemptCap + 3 \in Nat
  BY LifecycleAssumption
<1> QED
  BY <1>1, <1>2, LifecycleAssumption DEF MaxRecodes

\* No more pull requests are merged than there are.
LEMMA MergesAreCounted == pr \in Forgejo => Merges \in 0..MaxPr
<1>1. IsFiniteSet(Pr) /\ Cardinality(Pr) = MaxPr
  BY FS_Interval, LifecycleAssumption DEF Pr
<1>2. {p \in Pr : pr[p] = "merged"} \subseteq Pr
  OBVIOUS
<1>3. Cardinality({p \in Pr : pr[p] = "merged"}) \in Nat
      /\ Cardinality({p \in Pr : pr[p] = "merged"}) <= MaxPr
  BY <1>1, <1>2, FS_Subset, FS_CardinalityType
<1> QED
  BY <1>3, LifecycleAssumption DEF Merges

\* A CI task that starts, goes on or ends is one of those the process knows.
LEMMA CiTypes ==
  ASSUME ci \in [CiTask -> CiStates], pr \in Forgejo
  PROVE  /\ Idle \in CiStates /\ [t \in CiTask |-> Idle] \in [CiTask -> CiStates]
         /\ StartCi(ci) => ci' \in [CiTask -> CiStates]
         /\ StartCi([t \in CiTask |-> Idle]) => ci' \in [CiTask -> CiStates]
         /\ \A t \in CiTask : CiEnds(t) => ci' \in [CiTask -> CiStates]
         /\ \A t \in CiTask : ci' = [ci EXCEPT ![t].at = "ask"] => ci' \in [CiTask -> CiStates]
         /\ \A t \in CiTask : ci' = [ci EXCEPT ![t] = [at |-> "poll", main |-> Merges]]
                              => ci' \in [CiTask -> CiStates]
<1>1. Idle \in CiStates /\ Merges \in 0..MaxPr
  BY MergesAreCounted, LifecycleAssumption DEF Idle, CiStates
<1>2. ASSUME NEW live \in [CiTask -> CiStates], NEW t \in CiTask,
             NEW at \in {"head", "ask"}, ci' = [live EXCEPT ![t].at = at]
      PROVE  ci' \in [CiTask -> CiStates]
  <2>1. live[t] \in CiStates
    OBVIOUS
  <2>2. [live[t] EXCEPT !.at = at] \in CiStates
    BY <2>1 DEF CiStates
  <2> QED
    BY <1>2, <2>2
<1>3. [t \in CiTask |-> Idle] \in [CiTask -> CiStates]
  BY <1>1
<1>4. \A t \in CiTask : CiEnds(t) => ci' \in [CiTask -> CiStates]
  BY <1>1 DEF CiEnds
<1>5. \A live \in [CiTask -> CiStates] : StartCi(live) => ci' \in [CiTask -> CiStates]
  BY <1>2 DEF StartCi
<1>6. \A t \in CiTask : ci' = [ci EXCEPT ![t] = [at |-> "poll", main |-> Merges]]
                        => ci' \in [CiTask -> CiStates]
  <2>1. [at |-> "poll", main |-> Merges] \in CiStates
    BY <1>1 DEF CiStates
  <2> QED
    BY <2>1
<1> QED
  BY <1>1, <1>2, <1>3, <1>4, <1>5, <1>6

LEMMA TypeInit == Init => TypeOK
<1> SUFFICES ASSUME Init PROVE TypeOK
  OBVIOUS
<1>1. ci \in [CiTask -> CiStates]
  BY LifecycleAssumption DEF Init, Idle, CiStates
<1> QED
  BY <1>1, CapsAreNumbers DEF Init, TypeOK, CiStates, NoSweep

\* The coder's run and the recode tasks keep the types.
LEMMA TypeTasks ==
  ASSUME TypeOK, \/ CoderEnds \/ RecodePushes \/ RecodeEnds \/ RecodeFails
  PROVE  TypeOK'
<1> USE CapsAreNumbers DEF forgejo, tasks, keys, history
<1>1. CASE \E p \in Pr : CoderSuccess(p)
  BY <1>1 DEF CoderSuccess, TypeOK
<1>2. CASE CoderParked
  BY <1>2 DEF CoderParked, TypeOK
<1>3. CASE CoderNoChanges
  BY <1>3 DEF CoderNoChanges, Advance, TypeOK
<1>4. CASE RecodePushes
  BY <1>4 DEF RecodePushes, TypeOK
<1>5. CASE RecodeEnds
  BY <1>5 DEF RecodeEnds, TypeOK
<1>6. CASE RecodeFails
  BY <1>6 DEF RecodeFails, TypeOK
<1> QED
  BY <1>1, <1>2, <1>3, <1>4, <1>5, <1>6 DEF CoderEnds

\* So do Forgejo and the gate.
LEMMA TypeForgejo ==
  ASSUME TypeOK, NEW p \in Pr,
         GateMerges(p) \/ RecodeForPr(p) \/ GateFindsNoStory(p) \/ HumanMerges(p)
           \/ HumanPushes(p) \/ Lose(p) \/ ReviewRejects(p)
  PROVE  TypeOK'
<1> USE CapsAreNumbers DEF forgejo, tasks, keys, history
<1>1. CASE GateMerges(p)
  BY <1>1 DEF GateMerges, MergeIn, TypeOK
<1>2. CASE HumanMerges(p)
  BY <1>2 DEF HumanMerges, MergeIn, TypeOK
<1>3. CASE HumanPushes(p)
  BY <1>3 DEF HumanPushes, TypeOK
<1>4. CASE Lose(p)
  BY <1>4 DEF Lose, TypeOK
<1>5. CASE GateFindsNoStory(p)
  BY <1>5 DEF GateFindsNoStory, TypeOK
<1>6. CASE ReviewRejects(p)
  BY <1>6 DEF ReviewRejects, Recoded, TypeOK
<1>7. CASE RecodeForPr(p)
  <2> DEFINE used == IF Escalates(p) /\ retries[p] >= RecodeCap THEN 0 ELSE retries[p]
  <2>1. /\ round' = round \ {p} /\ state' = "changes-requested"
        /\ UNCHANGED <<scenario, url, pr, notices, coder, pushed, ci, fixes, watch, sweep,
                       incidents, next, mainCi>>
        /\ \/ /\ flags' = flags \cup {"stuck"}
              /\ UNCHANGED <<retries, escalated, recode, recoded, firstPass>>
           \/ /\ used < RecodeCap /\ recode < MaxTasks /\ recode' = recode + 1
              /\ retries' = [retries EXCEPT ![p] = used + 1]
              /\ escalated' \in {escalated, escalated \cup {p}}
              /\ flags' \in {MarkReworked, MarkReworked \ {"stuck"}}
              /\ CountRecode(p)
    <3>1. used \in 0..RecodeCap
      BY <1>7 DEF TypeOK
    <3> QED
      BY <1>7, <3>1 DEF RecodeForPr
  <2>2. used \in 0..RecodeCap
    BY <1>7 DEF TypeOK
  <2> HIDE DEF used
  <2>3. recode' \in 0..MaxTasks /\ escalated' \subseteq Pr
    BY <2>1 DEF TypeOK
  <2>5. flags' \subseteq {"stuck", "reworked"}
    BY <2>1 DEF TypeOK, MarkReworked
  <2>6. retries' \in [Pr -> 0..RecodeCap]
    <3>1. used < RecodeCap => used + 1 \in 0..RecodeCap
      BY <2>2
    <3>2. retries \in [Pr -> 0..RecodeCap]
      BY DEF TypeOK
    <3> QED
      BY <2>1, <3>1, <3>2
  <2>4. recoded' \in [Pr -> 0..MaxRecodes] /\ firstPass' \in {"no", "recoded", "honest", "wrong"}
    BY <2>1 DEF TypeOK, CountRecode, Recoded
  <2> QED
    BY <2>1, <2>3, <2>4, <2>5, <2>6 DEF TypeOK
<1> QED
  BY <1>1, <1>2, <1>3, <1>4, <1>5, <1>6, <1>7

\* So do the notices of a merge and the CI tasks on main.
LEMMA TypeMerged ==
  ASSUME TypeOK,
         \/ \E n \in notices : MergeNotice(n)
         \/ MarkMerged
         \/ \E t \in CiTask : CiStep(t)
  PROVE  TypeOK'
<1> USE CapsAreNumbers DEF forgejo, tasks, keys, history
<1>0. ci \in [CiTask -> CiStates] /\ pr \in Forgejo
  BY DEF TypeOK, CiStates, Forgejo
<1>a. ASSUME ci' \in [CiTask -> CiStates]
      PROVE  ci' \in [CiTask -> [at : {"none", "head", "poll", "ask"}, main : 0..MaxPr]]
  BY <1>a DEF CiStates
<1>b. OnStoryMerged => /\ ci' \in [CiTask -> CiStates] /\ state' = "merged"
                       /\ firstPass' \in {"no", "recoded", "honest", "wrong"}
  BY <1>0, CiTypes DEF OnStoryMerged, TypeOK
<1> DEFINE MainCi == {"unknown", "good", "bad", "superseded", "unread"}
<1>c. \A what : \A t \in CiTask : Learn(t, what) /\ what \in MainCi => mainCi' \in MainCi
  BY DEF Learn, TypeOK
<1>1. CASE \E n \in notices : MergeNotice(n)
  BY <1>0, <1>a, <1>b, <1>1 DEF MergeNotice, TypeOK
<1>2. CASE MarkMerged
  BY <1>a, <1>b, <1>2 DEF MarkMerged, Incident, TypeOK
<1>3. ASSUME NEW t \in CiTask, CiReadsHead(t) \/ CiDies(t) \/ CiSeesOtherState(t)
      PROVE  TypeOK'
  <2>1. ci' \in [CiTask -> CiStates]
    BY <1>0, <1>3, CiTypes DEF CiReadsHead, CiDies, CiSeesOtherState
  <2>2. /\ UNCHANGED <<scenario, state, url, forgejo, coder, recode, pushed, keys>>
        /\ UNCHANGED <<sweep, incidents, next, history>>
    BY <1>3 DEF CiReadsHead, CiDies, CiSeesOtherState
  <2> QED
    BY <1>a, <2>1, <2>2 DEF TypeOK
<1>4. ASSUME NEW t \in CiTask, CiPasses(t) \/ CiUnread(t) \/ CiWasCancelled(t)
      PROVE  TypeOK'
  <2>1. PICK what \in MainCi : Accept(t, what)
    BY <1>4 DEF CiPasses, CiUnread, CiWasCancelled
  <2>2. ci' \in [CiTask -> CiStates] /\ mainCi' \in MainCi
    BY <1>0, <1>c, <2>1, CiTypes DEF Accept
  <2> QED
    BY <1>a, <2>1, <2>2 DEF Accept, Advance, TypeOK
<1>5. ASSUME NEW t \in CiTask, CiFails(t)
      PROVE  TypeOK'
  <2>1. ci' \in [CiTask -> CiStates] /\ mainCi' \in MainCi
    BY <1>0, <1>c, <1>5, CiTypes DEF CiFails
  <2> QED
    BY <1>5, <1>a, <2>1 DEF CiFails, TypeOK
<1>6. ASSUME NEW t \in CiTask, CiRed(t)
      PROVE  TypeOK'
  <2>1. ci' \in [CiTask -> CiStates] /\ mainCi' \in MainCi
    BY <1>0, <1>c, <1>6, CiTypes DEF CiRed, TypeOK
  <2>2. /\ state' \in {"changes-requested", "in-progress"}
        /\ fixes' \in 0..PostMergeFixCap /\ coder' \in 0..MaxTasks
    BY <1>6 DEF CiRed, PostMergeFix, TypeOK
  <2> QED
    BY <1>6, <1>a, <2>1, <2>2 DEF CiRed, TypeOK
<1> QED
  BY <1>1, <1>2, <1>3, <1>4, <1>5, <1>6 DEF CiStep

\* So do the watchdog, the operator and a restart of the process.
LEMMA TypeRecovery ==
  ASSUME TypeOK,
         \/ WatchLook \/ WatchFetchFails \/ WatchAct \/ Retry \/ Reset \/ Abandon \/ Crash
         \/ \E p \in Pr : CrashInSuccess(p)
  PROVE  TypeOK'
<1> USE CapsAreNumbers DEF forgejo, tasks, keys, history
<1>0. ci \in [CiTask -> CiStates] /\ pr \in Forgejo
  BY DEF TypeOK, CiStates, Forgejo
<1>a. \A p : ClearCaps(p) => retries' \in [Pr -> 0..RecodeCap] /\ fixes' \in 0..PostMergeFixCap
  BY DEF ClearCaps, TypeOK
<1>b. TakeOver => /\ retries' \in [Pr -> 0..RecodeCap] /\ fixes' \in 0..PostMergeFixCap
                  /\ watch' \in 0..(WatchAttemptCap + 1) /\ flags' \subseteq {"stuck", "reworked"}
                  /\ recoded' \in [Pr -> 0..MaxRecodes] /\ incidents' \in 0..MaxIncidents
  BY <1>a DEF TakeOver, Incident, TypeOK
<1>c. \A st : Restart(st) => /\ ci' \in [CiTask -> CiStates] /\ incidents' \in 0..MaxIncidents
                             /\ recode' \in 0..MaxTasks /\ pushed' \in 0..MaxTasks
                             /\ coder' \in 0..MaxTasks /\ sweep' = NoSweep
  BY <1>0, CiTypes DEF Restart, Incident, TypeOK
<1>1. CASE WatchLook
  <2>1. url # 0 => [pr |-> url, merged |-> pr[url] = "merged"] \in [pr : Pr, merged : BOOLEAN]
    BY DEF TypeOK
  <2>2. UNCHANGED <<scenario, state, url, forgejo, tasks, retries, escalated, fixes,
                    incidents, next, history>>
    BY <1>1 DEF WatchLook
  <2>4. flags' \subseteq {"stuck", "reworked"}
    BY <1>1 DEF WatchLook, TypeOK
  <2>5. watch' \in 0..(WatchAttemptCap + 1)
    <3>1. watch \in 0..(WatchAttemptCap + 1)
      BY DEF TypeOK
    <3>2. \/ watch' = WatchAttemptCap + 1
          \/ watch < WatchAttemptCap /\ watch' = watch + 1
      BY <1>1, <3>1 DEF WatchLook
    <3> QED
      BY <3>1, <3>2
  <2>3. sweep' = sweep \/ sweep' \in [pr : Pr, merged : BOOLEAN]
    BY <1>1, <2>1 DEF WatchLook
  <2> QED
    BY <2>2, <2>3, <2>4, <2>5 DEF TypeOK
<1>2. CASE WatchFetchFails
  BY <1>2 DEF WatchFetchFails, TypeOK
<1>3. CASE WatchAct
  <2>1. sweep \in [pr : Pr, merged : BOOLEAN]
    BY <1>3 DEF WatchAct, TypeOK
  <2>2. /\ sweep.pr \in Pr /\ sweep' = NoSweep
        /\ UNCHANGED <<scenario, url, pr, notices, tasks, escalated, incidents, history>>
    BY <1>3, <2>1 DEF WatchAct
  <2>3. /\ state' \in {"done", "in-review"} /\ watch' \in {0, watch}
        /\ flags' \subseteq flags /\ next' \in {next, "ready"}
        /\ round' \subseteq round \cup {sweep.pr}
    BY <1>3 DEF WatchAct
  <2>4. retries' \in [Pr -> 0..RecodeCap] /\ fixes' \in 0..PostMergeFixCap
    <3>1. UNCHANGED <<retries, fixes>> \/ ClearCaps(sweep.pr)
      BY <1>3 DEF WatchAct
    <3> QED
      BY <1>a, <3>1 DEF TypeOK
  <2> QED
    BY <2>2, <2>3, <2>4 DEF TypeOK
<1>4. CASE Retry
  BY <1>4, <1>b DEF Retry, TypeOK
<1>5. CASE Reset
  BY <1>5, <1>b DEF Reset, TypeOK
<1>6. CASE Abandon
  BY <1>6, <1>a DEF Abandon, Advance, TypeOK
<1>7. CASE Crash
  BY <1>7, <1>c DEF Crash, CiStates, TypeOK
<1>8. CASE \E p \in Pr : CrashInSuccess(p)
  BY <1>8, <1>c DEF CrashInSuccess, CiStates, TypeOK
<1> QED
  BY <1>1, <1>2, <1>3, <1>4, <1>5, <1>6, <1>7, <1>8

LEMMA TypeStep == TypeOK /\ [Next]_vars => TypeOK'
<1> SUFFICES ASSUME TypeOK, [Next]_vars PROVE TypeOK'
  OBVIOUS
<1>1. CASE Next
  BY <1>1, TypeTasks, TypeForgejo, TypeMerged, TypeRecovery DEF Next, GateActs
<1>2. CASE UNCHANGED vars
  BY <1>2 DEF vars, TypeOK, forgejo, tasks, keys, history
<1> QED
  BY <1>1, <1>2

\* Every handler, task and sweep keeps the board, the keys and Forgejo in their
\* shapes, and no counter that stops a loop passes its cap (main.py).
THEOREM TypeCorrect == Spec => []TypeOK
BY TypeInit, TypeStep, PTL DEF Spec

-----------------------------------------------------------------------------
(* Credit.  That nothing is credited by mistake is not inductive: a story   *)
(* that the gate recoded must bear the mark until it is merged.            *)

Marked == ~May("review") => firstPass # "wrong" /\ (firstPass = "recoded" => "reworked" \in flags)

\* A step either leaves the credit and the mark alone, or sets the mark, or merges
\* the story with the mark as it is, or is a human's review.
LEMMA CreditMoves ==
  ASSUME TypeOK, [Next]_vars
  PROVE  /\ UNCHANGED scenario
         /\ \/ UNCHANGED firstPass /\ ("reworked" \in flags => "reworked" \in flags')
            \/ "reworked" \in flags' /\ Recoded
            \/ UNCHANGED flags /\ OnStoryMerged
            \/ May("review")
<1> USE DEF forgejo, tasks, keys, history
<1>1. CASE CoderEnds \/ RecodePushes \/ RecodeEnds \/ RecodeFails
  BY <1>1 DEF CoderEnds, CoderSuccess, CoderParked, CoderNoChanges, RecodePushes, RecodeEnds,
              RecodeFails
<1>2. ASSUME NEW p \in Pr, RecodeForPr(p)
      PROVE  /\ UNCHANGED scenario
             /\ \/ UNCHANGED firstPass /\ flags' = flags \cup {"stuck"}
                \/ "reworked" \in flags' /\ Recoded
  BY <1>2 DEF RecodeForPr, CountRecode, MarkReworked
<1>3. ASSUME NEW p \in Pr, GateMerges(p) \/ GateFindsNoStory(p) \/ HumanMerges(p) \/ HumanPushes(p)
                              \/ Lose(p) \/ CrashInSuccess(p)
      PROVE  UNCHANGED <<scenario, firstPass, flags>>
  BY <1>3 DEF GateMerges, GateFindsNoStory, HumanMerges, HumanPushes, Lose, CrashInSuccess, MergeIn
<1>4. ASSUME NEW p \in Pr, ReviewRejects(p)
      PROVE  UNCHANGED scenario /\ May("review")
  BY <1>4 DEF ReviewRejects
<1>5. ASSUME NEW n \in notices, MergeNotice(n)
      PROVE  UNCHANGED <<scenario, flags>> /\ (OnStoryMerged \/ UNCHANGED firstPass)
  BY <1>5 DEF MergeNotice
<1>6. CASE MarkMerged
  BY <1>6 DEF MarkMerged
<1>7. ASSUME NEW t \in CiTask, CiStep(t)
      PROVE  UNCHANGED <<scenario, firstPass, flags>>
  BY <1>7 DEF CiStep, CiReadsHead, CiDies, CiSeesOtherState, CiPasses, CiUnread, Accept, CiFails,
     CiWasCancelled, CiRed
<1>8. CASE WatchLook \/ WatchFetchFails \/ WatchAct
  BY <1>8 DEF WatchLook, WatchFetchFails, WatchAct
<1>9. CASE Retry \/ Reset \/ Abandon \/ Crash \/ UNCHANGED vars
  BY <1>9 DEF Retry, Reset, TakeOver, Abandon, Crash, vars
<1> QED
  BY <1>1, <1>2, <1>3, <1>4, <1>5, <1>6, <1>7, <1>8, <1>9 DEF Next, GateActs

\* first_pass is never credited to a story the gate had recoded, in whichever order
\* the recodes, the merges, their notices, the crashes and the operator's steps come,
\* as long as no human's review recodes it too (_on_story_merged,
\* internal_recode_for_pr).
THEOREM CreditIsHonest == Spec => []FirstPassIsHonest
<1>1. Init => Marked
  BY DEF Init, Marked
<1>2. TypeOK /\ Marked /\ [Next]_vars => Marked'
  <2> SUFFICES ASSUME TypeOK, Marked, [Next]_vars, ~May("review") PROVE Marked'
    BY CreditMoves DEF Marked, May
  <2>1. CASE UNCHANGED firstPass /\ ("reworked" \in flags => "reworked" \in flags')
    BY <2>1, CreditMoves DEF Marked, May
  <2>2. CASE "reworked" \in flags' /\ Recoded
    BY <2>2 DEF Marked, Recoded
  <2>3. CASE UNCHANGED flags /\ OnStoryMerged
    <3>1. firstPass # "wrong" /\ (firstPass = "recoded" => "reworked" \in flags)
      BY DEF Marked
    <3>2. firstPass' = firstPass \/ (firstPass = "no" /\ firstPass' = "honest")
      BY <2>3, <3>1 DEF OnStoryMerged
    <3> QED
      BY <2>3, <3>1, <3>2 DEF Marked
  <2> QED
    BY <2>1, <2>2, <2>3, CreditMoves
<1>3. Marked => FirstPassIsHonest
  BY DEF Marked, FirstPassIsHonest
<1> QED
  BY <1>1, <1>2, <1>3, TypeInit, TypeStep, PTL DEF Spec

-----------------------------------------------------------------------------
(* Recodes.  The bound on the history is not inductive: what it counts must *)
(* be covered, for the pull request that is open, by what its keys have     *)
(* used of their caps, by its escalation and by the watchdog's attempts.    *)

Open(p) == pr[p] = "open"
OneOpen == \A p, q \in Pr : Open(p) /\ Open(q) => p = q
\* The gate recodes nothing but the pull request of the story's own url.
NotYet == \A p \in Pr : pr[p] = "none" \/ (Open(p) /\ url # p) => recoded[p] = 0

\* How often the caps of p may have been cleared, beside the attempts that count.
Base(p) == (IF p \in escalated THEN 1 ELSE 0) + Uncounted
Attempts == IF watch > WatchAttemptCap THEN WatchAttemptCap ELSE watch
\* The attempt under way is counted, and has not cleared anything yet.
Pending(p) == IF sweep # NoSweep /\ ~sweep.merged /\ sweep.pr = p THEN 1 ELSE 0
Extra(p) == Base(p) + Attempts - Pending(p)

Covered(p, extra) == Open(p) => recoded[p] <= retries[p] + RecodeCap * extra

ByScenario ==
  /\ ~May("escalate") => escalated = {}
  /\ ~May("watchdog") => watch = 0 /\ sweep = NoSweep
  /\ sweep # NoSweep => Attempts + Uncounted >= 1

CapInv ==
  /\ OneOpen /\ NotYet /\ ByScenario
  /\ \A p \in Pr : Covered(p, Extra(p)) /\ (sweep.merged => Covered(p, Base(p)))
  /\ RecodesAreBounded

\* What a step may do to the count of a pull request that stays covered.
LEMMA StaysCovered ==
  ASSUME NEW c \in Nat \ {0}, NEW u \in Nat, NEW v \in Nat,
         NEW r \in 0..c, NEW s \in 0..c, NEW e \in Nat, NEW f \in Nat,
         u <= r + c * e,
         \/ v = 0
         \/ v = u /\ s >= r /\ f >= e
         \/ v <= u + 1 /\ s = r + 1 /\ f >= e
         \/ v <= u + 1 /\ s = 1 /\ f >= e + 1
         \/ v = u /\ f >= e + 1
  PROVE  v <= s + c * f
<1>1. f >= e => c * f >= c * e
  OBVIOUS
<1>2. f >= e + 1 => c * f >= c * e + c
  <2>1. f >= e + 1 => c * f >= c * (e + 1)
    OBVIOUS
  <2>2. c * (e + 1) = c * e + c
    OBVIOUS
  <2>3. c * e \in Nat /\ c * f \in Nat
    OBVIOUS
  <2> QED
    BY <2>1, <2>2, <2>3
<1>3. c * e \in Nat /\ c * f \in Nat
  OBVIOUS
<1> QED
  BY <1>1, <1>2, <1>3

LEMMA CoveredIsBounded ==
  ASSUME NEW c \in Nat, NEW u \in Nat, NEW r \in 0..c, NEW e \in Nat, NEW m \in Nat,
         e <= m, u <= r + c * e
  PROVE  u <= c * (1 + m)
<1>1. c * e <= c * m
  OBVIOUS
<1>2. c * (1 + m) = c + c * m
  OBVIOUS
<1>3. c * e \in Nat /\ c * m \in Nat
  OBVIOUS
<1> QED
  BY <1>1, <1>2, <1>3

LEMMA ExtraIsCounted ==
  ASSUME TypeOK, CapInv, NEW p \in Pr
  PROVE  /\ Base(p) \in Nat /\ Extra(p) \in Nat /\ Attempts \in 0..WatchAttemptCap
         /\ Uncounted \in {0, 1} /\ Pending(p) \in {0, 1}
         /\ Base(p) - Uncounted \in {0, 1}
         /\ Extra(p) = Base(p) + Attempts - Pending(p)
         /\ recoded[p] \in Nat /\ retries[p] \in 0..RecodeCap
<1>1. Uncounted \in {0, 1} /\ Pending(p) \in {0, 1}
  BY DEF Uncounted, Pending
<1>2. Attempts \in 0..WatchAttemptCap
  BY CapsAreNumbers DEF TypeOK, Attempts
<1>3. Base(p) \in Nat /\ Base(p) >= Uncounted /\ Base(p) - Uncounted \in {0, 1}
  BY <1>1 DEF Base
<1>4. Pending(p) = 1 => Attempts + Uncounted >= 1
  BY DEF CapInv, ByScenario, Pending
<1>5. Extra(p) \in Nat
  <2> HIDE DEF Base, Attempts, Pending
  <2>1. Base(p) + Attempts - Pending(p) \in Nat
    BY <1>1, <1>2, <1>3, <1>4, CapsAreNumbers
  <2> QED
    BY <2>1 DEF Extra
<1>6. recoded[p] \in Nat /\ retries[p] \in 0..RecodeCap
  BY CapsAreNumbers DEF TypeOK
<1> QED
  BY <1>1, <1>2, <1>3, <1>5, <1>6 DEF Extra

\* How a step may change the count of p and what it is covered by.
Eases(p, e, f) ==
  \/ recoded'[p] = 0
  \/ recoded'[p] = recoded[p] /\ retries'[p] >= retries[p] /\ f >= e
  \/ recoded'[p] <= recoded[p] + 1 /\ retries'[p] = retries[p] + 1 /\ f >= e
  \/ recoded'[p] <= recoded[p] + 1 /\ retries'[p] = 1 /\ f >= e + 1
  \/ recoded'[p] = recoded[p] /\ f >= e + 1

LEMMA Eased ==
  ASSUME TypeOK, TypeOK', NEW p \in Pr, NEW e \in Nat, NEW f \in Nat,
         recoded[p] <= retries[p] + RecodeCap * e, Eases(p, e, f)
  PROVE  recoded'[p] <= retries'[p] + RecodeCap * f
<1>1. /\ recoded[p] \in Nat /\ retries[p] \in 0..RecodeCap
      /\ recoded'[p] \in Nat /\ retries'[p] \in 0..RecodeCap
  BY CapsAreNumbers DEF TypeOK
<1> DEFINE u == recoded[p]
           v == recoded'[p]
           r == retries[p]
           t == retries'[p]
<1>2. /\ u \in Nat /\ v \in Nat /\ r \in 0..RecodeCap /\ t \in 0..RecodeCap
      /\ u <= r + RecodeCap * e
      /\ \/ v = 0
         \/ v = u /\ t >= r /\ f >= e
         \/ v <= u + 1 /\ t = r + 1 /\ f >= e
         \/ v <= u + 1 /\ t = 1 /\ f >= e + 1
         \/ v = u /\ f >= e + 1
  BY <1>1 DEF Eases
<1> HIDE DEF u, v, r, t
<1>3. v <= t + RecodeCap * f
  BY <1>2, CapsAreNumbers, StaysCovered
<1> QED
  BY <1>3 DEF v, t

\* A step under which every open pull request is eased stays within the caps.
LEMMA CapStep ==
  ASSUME TypeOK, TypeOK', CapInv, UNCHANGED scenario, OneOpen', NotYet', ByScenario',
         \A p \in Pr : Open(p)' =>
           \/ recoded'[p] = 0
           \/ Open(p) /\ \E e \in {Extra(p)} \cup (IF sweep.merged THEN {Base(p)} ELSE {}) :
                            Eases(p, e, Extra(p)'),
         sweep'.merged => \A p \in Pr : Open(p)' =>
           \/ recoded'[p] = 0
           \/ sweep.merged /\ Open(p) /\ Eases(p, Base(p), Base(p)'),
         \A p \in Pr : Open(p)' \/ recoded'[p] <= recoded[p]
  PROVE  CapInv'
<1>1. ASSUME NEW p \in Pr
      PROVE  /\ Base(p) \in Nat /\ Extra(p) \in Nat
             /\ (Base(p))' \in Nat /\ (Extra(p))' \in Nat
             /\ (Base(p))' <= MaxEscalations + Uncounted
             /\ (Extra(p))' <= MaxEscalations + MaxAttempts
             /\ UNCHANGED <<Uncounted, MaxEscalations, MaxAttempts>>
             /\ MaxEscalations \in Nat /\ MaxAttempts \in Nat
             /\ recoded'[p] \in Nat /\ retries'[p] \in 0..RecodeCap
  <2>1. Base(p) \in Nat /\ Extra(p) \in Nat
    BY ExtraIsCounted
  <2>2. /\ UNCHANGED <<Uncounted, MaxEscalations, MaxAttempts>>
        /\ Uncounted \in {0, 1} /\ MaxEscalations \in {0, 1} /\ MaxAttempts \in Nat
        /\ MaxAttempts = IF May("watchdog") THEN WatchAttemptCap + Uncounted ELSE 0
    BY CapsAreNumbers DEF Uncounted, MaxEscalations, MaxAttempts, May
  <2>3. Pending(p)' \in {0, 1} /\ (Pending(p)' = 1 => sweep' # NoSweep)
    BY DEF Pending
  <2>4. Attempts' \in 0..WatchAttemptCap
    BY CapsAreNumbers DEF TypeOK, Attempts
  <2>5. /\ (Base(p))' = (IF p \in escalated' THEN 1 ELSE 0) + Uncounted
        /\ p \in escalated' => MaxEscalations = 1
    BY <2>2 DEF Base, ByScenario, MaxEscalations, May
  <2>6. sweep' # NoSweep => Attempts' + Uncounted >= 1
    BY <2>2 DEF ByScenario
  <2>7. ~May("watchdog") => Attempts' = 0 /\ Uncounted = 0
    BY CapsAreNumbers DEF ByScenario, Attempts, May, Uncounted
  <2>8. (Extra(p))' = (Base(p))' + Attempts' - (Pending(p))'
    BY DEF Extra
  <2> DEFINE b == (Base(p))'
             a == Attempts'
             g == (Pending(p))'
             x == (Extra(p))'
  <2>a. b \in Nat /\ b >= Uncounted /\ b <= MaxEscalations + Uncounted
    BY <2>2, <2>5, CapsAreNumbers
  <2>9. /\ b \in Nat /\ a \in 0..WatchAttemptCap /\ g \in {0, 1} /\ x = b + a - g
        /\ (g = 1 => a + Uncounted >= 1) /\ b >= Uncounted /\ b <= MaxEscalations + Uncounted
        /\ (~May("watchdog") => a = 0 /\ Uncounted = 0)
    BY <2>a, <2>3, <2>4, <2>6, <2>7, <2>8
  <2> HIDE DEF b, a, g, x
  <2>10. x \in Nat /\ x <= MaxEscalations + MaxAttempts
    BY <2>2, <2>9, CapsAreNumbers
  <2>11. recoded'[p] \in Nat /\ retries'[p] \in 0..RecodeCap
    BY CapsAreNumbers DEF TypeOK
  <2> QED
    BY <2>1, <2>2, <2>9, <2>10, <2>11 DEF b, x
<1>2. ASSUME NEW p \in Pr, NEW f \in Nat, recoded'[p] = 0
      PROVE  recoded'[p] <= retries'[p] + RecodeCap * f
  <2>1. retries'[p] \in Nat /\ RecodeCap * f \in Nat
    BY <1>1, CapsAreNumbers
  <2> QED
    BY <1>2, <2>1
<1>3. ASSUME NEW p \in Pr, Open(p)'
      PROVE  recoded'[p] <= retries'[p] + RecodeCap * (Extra(p))'
  <2>1. CASE recoded'[p] = 0
    BY <1>1, <1>2, <2>1
  <2>2. CASE Open(p) /\ Eases(p, Extra(p), (Extra(p))')
    BY <1>1, <2>2, Eased DEF CapInv, Covered
  <2>3. CASE Open(p) /\ sweep.merged /\ Eases(p, Base(p), (Extra(p))')
    BY <1>1, <2>3, Eased DEF CapInv, Covered
  <2> QED
    BY <1>3, <2>1, <2>2, <2>3
<1>4. ASSUME NEW p \in Pr, Open(p)', sweep'.merged
      PROVE  recoded'[p] <= retries'[p] + RecodeCap * (Base(p))'
  <2>1. CASE recoded'[p] = 0
    BY <1>1, <1>2, <2>1
  <2>2. CASE Open(p) /\ sweep.merged /\ Eases(p, Base(p), (Base(p))')
    BY <1>1, <2>2, Eased DEF CapInv, Covered
  <2> QED
    BY <1>4, <2>1, <2>2
<1>5. RecodesAreBounded'
  <2> SUFFICES ASSUME NEW p \in Pr
               PROVE  recoded'[p] <= RecodeCap * (1 + MaxEscalations + MaxAttempts)
    BY <1>1 DEF RecodesAreBounded
  <2>1. CASE recoded'[p] <= recoded[p]
    BY <1>1, <2>1, ExtraIsCounted, CapsAreNumbers DEF CapInv, RecodesAreBounded
  <2>2. CASE Open(p)'
    <3> DEFINE u == recoded'[p]
               r == retries'[p]
               e == (Extra(p))'
               m == MaxEscalations + MaxAttempts
    <3>1. u <= r + RecodeCap * e /\ u \in Nat /\ r \in 0..RecodeCap /\ e \in Nat /\ m \in Nat
          /\ e <= m
      BY <1>1, <1>3, <2>2
    <3> HIDE DEF u, r, e, m
    <3>2. u <= RecodeCap * (1 + m)
      BY <3>1, CoveredIsBounded, CapsAreNumbers
    <3>3. 1 + m = 1 + MaxEscalations + MaxAttempts
      BY <1>1 DEF m
    <3> QED
      BY <3>2, <3>3 DEF u
  <2> QED
    BY <2>1, <2>2
<1> QED
  BY <1>3, <1>4, <1>5 DEF CapInv, Covered

\* A step that leaves the keys alone, and at most forgets what the watchdog fetched,
\* eases every count.
LEMMA KeysStay ==
  ASSUME TypeOK, CapInv, UNCHANGED <<scenario, retries, escalated, watch, recoded>>,
         sweep' \in {sweep, NoSweep}
  PROVE  /\ ByScenario' /\ (sweep'.merged => sweep.merged)
         /\ \A p \in Pr : Eases(p, Extra(p), (Extra(p))') /\ Eases(p, Base(p), (Base(p))')
<1>1. UNCHANGED <<Uncounted, Attempts>> /\ \A p \in Pr : (Base(p))' = Base(p)
  BY DEF Uncounted, Attempts, Base, May
<1>2. ByScenario'
  BY <1>1 DEF CapInv, ByScenario, May
<1>3. sweep'.merged => sweep.merged
  BY DEF NoSweep
<1>4. ASSUME NEW p \in Pr
      PROVE  Eases(p, Extra(p), (Extra(p))') /\ Eases(p, Base(p), (Base(p))')
  <2>1. (Pending(p))' \in {0, 1} /\ (Pending(p))' <= Pending(p)
    BY DEF Pending
  <2>2. (Extra(p))' = Base(p) + Attempts - (Pending(p))'
    BY <1>1 DEF Extra
  <2>3. /\ Base(p) \in Nat /\ Attempts \in 0..WatchAttemptCap /\ Pending(p) \in {0, 1}
        /\ Extra(p) = Base(p) + Attempts - Pending(p) /\ retries[p] \in Nat
    BY ExtraIsCounted
  <2>4. (Extra(p))' >= Extra(p)
    BY <2>1, <2>2, <2>3
  <2>5. recoded'[p] = recoded[p] /\ retries'[p] >= retries[p] /\ (Base(p))' >= Base(p)
    BY <1>1, <2>3
  <2> QED
    BY <2>4, <2>5 DEF Eases
<1> QED
  BY <1>2, <1>3, <1>4

\* What neither opens, merges nor recodes a pull request, nor clears a key, is no
\* matter of this.
LEMMA CapElsewhere ==
  ASSUME TypeOK, TypeOK', CapInv, UNCHANGED <<scenario, pr, url, retries, escalated, watch, recoded>>,
         sweep' \in {sweep, NoSweep}
  PROVE  CapInv'
<1>1. OneOpen' /\ NotYet' /\ \A p \in Pr : Open(p)' = Open(p)
  BY DEF CapInv, OneOpen, NotYet, Open
<1>2. \A p \in Pr : recoded'[p] <= recoded[p]
  BY ExtraIsCounted
<1> QED
  BY <1>1, <1>2, KeysStay, CapStep

\* A merge closes a pull request, and the run of a coder opens one that no recode
\* has been counted for.
LEMMA CapMerges ==
  ASSUME TypeOK, TypeOK', CapInv, NEW p \in Pr, GateMerges(p) \/ HumanMerges(p)
  PROVE  CapInv'
<1>1. /\ UNCHANGED <<scenario, url, retries, escalated, watch, sweep, recoded>>
      /\ pr' = [pr EXCEPT ![p] = "merged"] /\ pr \in Forgejo
  BY DEF GateMerges, HumanMerges, MergeIn, forgejo, keys, TypeOK, Forgejo
<1>2. \A q \in Pr : (Open(q)' => Open(q)) /\ (pr'[q] = "none" => pr[q] = "none")
  BY <1>1 DEF Open, Forgejo
<1>3. OneOpen' /\ NotYet'
  BY <1>1, <1>2 DEF CapInv, OneOpen, NotYet
<1>4. \A q \in Pr : recoded'[q] <= recoded[q]
  BY <1>1, ExtraIsCounted
<1> QED
  BY <1>1, <1>2, <1>3, <1>4, KeysStay, CapStep

LEMMA CapOpens ==
  ASSUME TypeOK, TypeOK', CapInv, NEW p \in Pr, CoderSuccess(p) \/ CrashInSuccess(p)
  PROVE  CapInv'
<1>1. /\ UNCHANGED <<scenario, retries, escalated, watch, recoded>> /\ sweep' \in {sweep, NoSweep}
      /\ pr' = [pr EXCEPT ![p] = "open"] /\ pr \in Forgejo /\ url' \in {url, p}
      /\ CoderOpens(p)
  BY DEF CoderSuccess, CrashInSuccess, Restart, keys, history, TypeOK, Forgejo
<1>2. \A q \in Pr : Open(q)' <=> Open(q) \/ q = p
  BY <1>1 DEF Open, Forgejo
<1>3. \A q \in Pr : Open(q) => q = p
  BY <1>1 DEF CoderOpens, Open, CapInv, OneOpen
<1>4. \A q \in Pr : recoded'[q] <= recoded[q]
  BY <1>1, ExtraIsCounted
<1>5. OneOpen'
  BY <1>2, <1>3 DEF OneOpen
<1>6. recoded[p] = 0 \/ (Open(p) /\ url = p)
  BY <1>1 DEF CoderOpens, Open, CapInv, NotYet
<1>7. NotYet'
  <2>1. \A q \in Pr : pr'[q] = "none" => pr[q] = "none"
    BY <1>1 DEF Forgejo
  <2>2. \A q \in Pr : Open(q)' /\ url' # q => q = p /\ recoded[q] = 0
    BY <1>1, <1>2, <1>3, <1>6
  <2> QED
    BY <1>1, <2>1, <2>2 DEF CapInv, NotYet
<1>8. \A q \in Pr : Open(q)' => recoded'[q] = 0 \/ Open(q)
  BY <1>1, <1>2, <1>6
<1> QED
  BY <1>1, <1>4, <1>5, <1>7, <1>8, KeysStay, CapStep

\* A human's push frees the keys of its pull request and starts the count anew.
LEMMA CapPushes ==
  ASSUME TypeOK, TypeOK', CapInv, NEW p \in Pr, HumanPushes(p)
  PROVE  CapInv'
<1>1. /\ UNCHANGED <<scenario, pr, url, escalated, watch, sweep>>
      /\ retries' = [retries EXCEPT ![p] = 0] /\ recoded' = [recoded EXCEPT ![p] = 0]
      /\ retries \in [Pr -> 0..RecodeCap] /\ recoded \in [Pr -> 0..MaxRecodes]
  BY DEF HumanPushes, TypeOK
<1>2. OneOpen' /\ ByScenario' /\ \A q \in Pr : Open(q)' = Open(q)
  BY <1>1 DEF CapInv, OneOpen, Open, ByScenario, May, Attempts, Uncounted
<1>3. NotYet'
  BY <1>1, <1>2 DEF CapInv, NotYet
<1>4. recoded'[p] = 0 /\ \A q \in Pr : q # p => recoded'[q] = recoded[q] /\ retries'[q] = retries[q]
  BY <1>1
<1>5. \A q \in Pr : (Extra(q))' = Extra(q) /\ (Base(q))' = Base(q)
  BY <1>1 DEF Extra, Base, Attempts, Pending, Uncounted, May
<1>6. \A q \in Pr : \/ recoded'[q] = 0
                    \/ Eases(q, Extra(q), (Extra(q))') /\ Eases(q, Base(q), (Base(q))')
  BY <1>4, <1>5, ExtraIsCounted DEF Eases
<1>7. \A q \in Pr : recoded'[q] <= recoded[q]
  BY <1>4, ExtraIsCounted
<1> QED
  BY <1>1, <1>2, <1>3, <1>6, <1>7, CapStep

\* The gate counts a recode in the key, or in the escalation that frees the key.
LEMMA CapRecodes ==
  ASSUME TypeOK, TypeOK', CapInv, NEW p \in Pr, RecodeForPr(p)
  PROVE  CapInv'
<1> DEFINE used == IF Escalates(p) /\ retries[p] >= RecodeCap THEN 0 ELSE retries[p]
<1>1. /\ UNCHANGED <<scenario, pr, url, watch, sweep>>
      /\ Open(p) /\ url = p
  BY DEF RecodeForPr, FoundBy, Open
<1>a. /\ retries \in [Pr -> 0..RecodeCap] /\ recoded \in [Pr -> 0..MaxRecodes]
      /\ used \in 0..RecodeCap
  BY CapsAreNumbers DEF TypeOK
<1>b. \/ UNCHANGED <<retries, escalated, recoded>>
      \/ /\ used < RecodeCap /\ retries' = [retries EXCEPT ![p] = used + 1] /\ CountRecode(p)
         /\ \/ escalated' = escalated \cup {p} /\ May("escalate")
            \/ used = retries[p] /\ UNCHANGED escalated
  <2>1. used >= RecodeCap \/ used < RecodeCap
    BY <1>a, CapsAreNumbers
  <2>2. CASE used >= RecodeCap
    BY <2>2 DEF RecodeForPr
  <2>3. CASE used < RecodeCap
    <3>1. ~(used >= RecodeCap)
      BY <1>a, <2>3, CapsAreNumbers
    <3> QED
      BY <2>3, <3>1 DEF RecodeForPr
  <2> QED
    BY <2>1, <2>2, <2>3
<1>2. CASE UNCHANGED <<retries, escalated, recoded>>
  BY <1>1, <1>2, CapElsewhere
<1>3. CASE /\ used < RecodeCap /\ retries' = [retries EXCEPT ![p] = used + 1] /\ CountRecode(p)
           /\ \/ escalated' = escalated \cup {p} /\ May("escalate")
              \/ used = retries[p] /\ UNCHANGED escalated
  <2>1. /\ retries' = [retries EXCEPT ![p] = used + 1] /\ CountRecode(p)
        /\ \/ escalated' = escalated \cup {p} /\ May("escalate")
           \/ used = retries[p] /\ UNCHANGED escalated
    BY <1>3
  <2>2. OneOpen' /\ \A q \in Pr : Open(q)' = Open(q)
    BY <1>1 DEF CapInv, OneOpen, Open
  <2>3. \A q \in Pr : q # p => recoded'[q] = recoded[q] /\ retries'[q] = retries[q]
                                /\ ~Open(q)
    BY <1>1, <1>a, <2>1 DEF CountRecode, CapInv, OneOpen
  <2>4. ByScenario'
    BY <1>1, <2>1 DEF CapInv, ByScenario, May, Attempts, Uncounted
  <2>5. NotYet'
    BY <1>1, <2>2, <2>3 DEF CapInv, NotYet, Open
  <2>6. recoded'[p] <= recoded[p] + 1 /\ retries'[p] = used + 1
    BY <1>1, <1>a, <2>1, CapsAreNumbers DEF CountRecode
  <2>7. (p \in escalated => p \in escalated') /\ (used # retries[p] => p \notin escalated /\ p \in escalated')
    BY <2>1 DEF Escalates
  <2>8. /\ (Base(p))' >= Base(p)
        /\ used # retries[p] => (Base(p))' >= Base(p) + 1
        /\ (Extra(p))' - (Base(p))' = Extra(p) - Base(p)
        /\ Base(p) \in Nat /\ Extra(p) \in Nat /\ (Base(p))' \in Nat /\ (Extra(p))' \in Int
    <3>1. /\ UNCHANGED <<Uncounted, Attempts>> /\ (Pending(p))' = Pending(p)
          /\ Uncounted \in {0, 1}
      BY <1>1 DEF Uncounted, Attempts, Pending, May
    <3>2. Base(p) = (IF p \in escalated THEN 1 ELSE 0) + Uncounted
          /\ (Base(p))' = (IF p \in escalated' THEN 1 ELSE 0) + Uncounted
      BY <3>1 DEF Base
    <3>3. (Extra(p))' = (Base(p))' + Attempts - Pending(p)
      BY <3>1 DEF Extra
    <3>4. /\ Base(p) \in Nat /\ Extra(p) \in Nat /\ Attempts \in 0..WatchAttemptCap
          /\ Pending(p) \in {0, 1} /\ Extra(p) = Base(p) + Attempts - Pending(p)
      BY ExtraIsCounted
    <3>5. (Base(p))' \in Nat /\ (Base(p))' >= Base(p)
          /\ (used # retries[p] => (Base(p))' >= Base(p) + 1)
      BY <2>7, <3>1, <3>2
    <3> QED
      BY <3>3, <3>4, <3>5, CapsAreNumbers
  <2>9. used = 0 \/ used = retries[p]
    OBVIOUS
  <2>10. /\ (Extra(p))' >= Extra(p)
         /\ used # retries[p] => (Extra(p))' >= Extra(p) + 1
    BY <2>8
  <2>11. Eases(p, Extra(p), (Extra(p))') /\ Eases(p, Base(p), (Base(p))')
    <3>1. CASE used = retries[p]
      BY <2>6, <2>8, <2>10, <3>1 DEF Eases
    <3>2. CASE used # retries[p]
      BY <2>6, <2>8, <2>9, <2>10, <3>2 DEF Eases
    <3> QED
      BY <3>1, <3>2
  <2>12. \A q \in Pr : Open(q)' => q = p
    BY <2>2, <2>3
  <2>13. \A q \in Pr : Open(q)' \/ recoded'[q] <= recoded[q]
    BY <1>1, <2>2, <2>3, ExtraIsCounted
  <2> QED
    BY <1>1, <2>2, <2>4, <2>5, <2>11, <2>12, <2>13, CapStep
<1> QED
  BY <1>b, <1>2, <1>3


\* The sweep counts an attempt when it looks, before the attempt has cleared a key.
LEMMA CapLooks ==
  ASSUME TypeOK, TypeOK', CapInv, WatchLook
  PROVE  CapInv'
<1>1. /\ UNCHANGED <<scenario, pr, url, retries, escalated, recoded>>
      /\ May("watchdog") /\ sweep = NoSweep /\ url \in Pr
  BY DEF WatchLook, TypeOK, forgejo, history
<1>2. watch \in 0..(WatchAttemptCap + 1) /\ WatchAttemptCap \in Nat
  BY CapsAreNumbers DEF TypeOK
<1>3. OneOpen' /\ NotYet' /\ \A p \in Pr : Open(p)' = Open(p)
  BY <1>1 DEF CapInv, OneOpen, NotYet, Open
<1>4. UNCHANGED Uncounted /\ Uncounted \in {0, 1} /\ \A p \in Pr : (Base(p))' = Base(p)
  BY <1>1 DEF Uncounted, Base, May
<1>5. \A p \in Pr : recoded'[p] = recoded[p] /\ retries'[p] = retries[p] /\ retries[p] \in Nat
                    /\ recoded[p] \in Nat
  BY <1>1, ExtraIsCounted
<1>6. CASE watch >= WatchAttemptCap
  <2>1. watch' = WatchAttemptCap + 1 /\ UNCHANGED sweep
    BY <1>6 DEF WatchLook
  <2>2. Attempts = WatchAttemptCap /\ Attempts' = WatchAttemptCap
    BY <1>2, <1>6, <2>1 DEF Attempts
  <2>3. ByScenario'
    BY <1>1, <2>1 DEF CapInv, ByScenario, May
  <2>4. \A p \in Pr : (Extra(p))' = Extra(p)
    BY <1>4, <2>1, <2>2 DEF Extra, Pending
  <2>5. \A p \in Pr : Eases(p, Extra(p), (Extra(p))') /\ Eases(p, Base(p), (Base(p))')
    BY <1>4, <1>5, <2>4, ExtraIsCounted DEF Eases
  <2>6. ~sweep'.merged /\ \A p \in Pr : recoded'[p] <= recoded[p]
    BY <1>1, <1>5, <2>1 DEF NoSweep
  <2> QED
    BY <1>1, <1>3, <2>3, <2>5, <2>6, CapStep
<1>7. CASE watch < WatchAttemptCap
  <2>1. watch' = watch + 1 /\ sweep' = [pr |-> url, merged |-> pr[url] = "merged"]
    BY <1>2, <1>7 DEF WatchLook
  <2>2. Attempts = watch /\ Attempts' = watch + 1
    BY <1>2, <1>7, <2>1 DEF Attempts
  <2>3. ByScenario'
    BY <1>1, <1>2, <1>4, <2>2 DEF CapInv, ByScenario, May
  <2>4. ASSUME NEW p \in Pr PROVE Eases(p, Extra(p), (Extra(p))')
    <3>1. Pending(p) = 0 /\ (Pending(p))' \in {0, 1}
      BY <1>1 DEF Pending
    <3>2. (Extra(p))' = Base(p) + (watch + 1) - (Pending(p))'
      BY <1>4, <2>2 DEF Extra
    <3>3. Extra(p) = Base(p) + watch - Pending(p) /\ Base(p) \in Nat
      BY <2>2, ExtraIsCounted
    <3>4. (Extra(p))' >= Extra(p)
      BY <1>2, <3>1, <3>2, <3>3
    <3> QED
      BY <1>5, <3>4 DEF Eases
  <2>5. sweep'.merged => \A p \in Pr : Open(p)' => recoded'[p] = 0
    BY <1>1, <1>3, <1>5, <2>1 DEF CapInv, NotYet, Open
  <2>6. \A p \in Pr : recoded'[p] <= recoded[p]
    BY <1>5
  <2> QED
    BY <1>1, <1>3, <2>3, <2>4, <2>5, <2>6, CapStep
<1> QED
  BY <1>2, <1>6, <1>7

\* The attempt clears the keys of the pull request it was counted for; one that
\* takes a merge for a success also forgets how many there were.
LEMMA CapActs ==
  ASSUME TypeOK, TypeOK', CapInv, WatchAct
  PROVE  CapInv'
<1>1. /\ UNCHANGED <<scenario, pr, url, escalated, recoded>>
      /\ sweep # NoSweep /\ sweep' = NoSweep
  BY DEF WatchAct, history
<1>2. OneOpen' /\ NotYet' /\ \A p \in Pr : Open(p)' = Open(p)
  BY <1>1 DEF CapInv, OneOpen, NotYet, Open
<1>3. UNCHANGED Uncounted /\ \A p \in Pr : (Base(p))' = Base(p) /\ (Pending(p))' = 0
  BY <1>1 DEF Uncounted, Base, Pending, May
<1>4. \A p \in Pr : recoded'[p] = recoded[p] /\ recoded'[p] <= recoded[p]
  BY <1>1, ExtraIsCounted
<1>5. ~sweep'.merged
  BY <1>1 DEF NoSweep
<1>6. CASE sweep.merged
  <2>1. watch' = 0 /\ UNCHANGED retries
    BY <1>6 DEF WatchAct
  <2>2. ByScenario'
    BY <1>1, <2>1 DEF CapInv, ByScenario, May
  <2>3. Attempts' = 0
    BY <2>1, CapsAreNumbers DEF Attempts
  <2>4. ASSUME NEW p \in Pr PROVE Eases(p, Base(p), (Extra(p))')
    <3>1. (Extra(p))' = Base(p)
      BY <1>3, <2>3, ExtraIsCounted DEF Extra
    <3> QED
      BY <1>4, <2>1, <3>1, ExtraIsCounted DEF Eases
  <2> QED
    BY <1>1, <1>2, <1>4, <1>5, <1>6, <2>2, <2>4, CapStep
<1>7. CASE ~sweep.merged
  <2>1. UNCHANGED watch /\ ClearCaps(sweep.pr)
    BY <1>7 DEF WatchAct
  <2>2. ByScenario' /\ UNCHANGED Attempts
    BY <1>1, <2>1 DEF CapInv, ByScenario, May, Attempts
  <2>3. ASSUME NEW p \in Pr PROVE Eases(p, Extra(p), (Extra(p))')
    <3>1. (Extra(p))' = Base(p) + Attempts
      BY <1>3, <2>2, ExtraIsCounted DEF Extra
    <3>2. CASE p = sweep.pr
      <4>1. Pending(p) = 1
        BY <1>1, <1>7, <3>2 DEF Pending
      <4> QED
        BY <1>4, <3>1, <4>1, ExtraIsCounted DEF Eases
    <3>3. CASE p # sweep.pr
      <4>1. Pending(p) = 0 /\ retries'[p] = retries[p]
        BY <2>1, <3>3 DEF Pending, ClearCaps
      <4> QED
        BY <1>4, <3>1, <4>1, ExtraIsCounted DEF Eases
    <3> QED
      BY <3>2, <3>3
  <2> QED
    BY <1>1, <1>2, <1>4, <1>5, <2>2, <2>3, CapStep
<1> QED
  BY <1>6, <1>7

\* The operator's intervention starts every count anew, and forgets the attempts.
LEMMA CapTakenOver ==
  ASSUME TypeOK, TypeOK', CapInv, Retry \/ Reset \/ Abandon
  PROVE  CapInv'
<1>1. /\ UNCHANGED <<scenario, pr, url, escalated, sweep>>
      /\ recoded' = [p \in Pr |-> 0]
      /\ UNCHANGED watch \/ (May("reset") /\ watch' = 0)
  BY DEF Retry, Reset, TakeOver, Abandon, forgejo
<1>2. OneOpen' /\ NotYet' /\ \A p \in Pr : recoded'[p] = 0
  BY <1>1 DEF CapInv, OneOpen, NotYet, Open
<1>3. UNCHANGED Uncounted /\ (May("reset") /\ May("watchdog") => Uncounted = 1)
  BY <1>1 DEF Uncounted, May
<1>4. ByScenario'
  <2>1. CASE UNCHANGED watch
    BY <1>1, <1>3, <2>1 DEF CapInv, ByScenario, May, Attempts
  <2>2. CASE May("reset") /\ watch' = 0
    <3>1. Attempts' = 0
      BY <2>2, CapsAreNumbers DEF Attempts
    <3>2. sweep' # NoSweep => May("watchdog")
      BY <1>1 DEF CapInv, ByScenario
    <3>3. sweep' # NoSweep => Attempts' + Uncounted' >= 1
      BY <1>3, <2>2, <3>1, <3>2
    <3> QED
      BY <1>1, <2>2, <3>3 DEF CapInv, ByScenario, May
  <2> QED
    BY <1>1, <2>1, <2>2
<1>5. \A p \in Pr : recoded'[p] <= recoded[p]
  BY <1>2, ExtraIsCounted
<1> QED
  BY <1>1, <1>2, <1>4, <1>5, CapStep

\* However often the watchdog clears the caps of a pull request, its recode is
\* escalated, tasks are lost, and whoever merges, the gate starts no more recodes of
\* it before a human acts than its cap allows for each of these
\* (internal_recode_for_pr, _clear_recovery_keys).
THEOREM RecodesStayBounded == Spec => []RecodesAreBounded
<1>1. Init => CapInv
  <2> SUFFICES ASSUME Init PROVE CapInv
    OBVIOUS
  <2>1. /\ \A p \in Pr : pr[p] = "none" /\ recoded[p] = 0
        /\ escalated = {} /\ watch = 0 /\ sweep = NoSweep
    BY DEF Init
  <2>2. \A p \in Pr : ~Open(p)
    BY <2>1 DEF Open
  <2>3. RecodesAreBounded
    <3>1. MaxEscalations \in Nat /\ MaxAttempts \in Nat
      BY CapsAreNumbers DEF MaxEscalations, MaxAttempts, Uncounted
    <3>2. RecodeCap * (1 + MaxEscalations + MaxAttempts) \in Nat
      BY <3>1, CapsAreNumbers
    <3> QED
      BY <2>1, <3>2 DEF RecodesAreBounded
  <2> QED
    BY <2>1, <2>2, <2>3 DEF CapInv, OneOpen, NotYet, ByScenario, Covered
<1>2. TypeOK /\ TypeOK' /\ CapInv /\ [Next]_vars => CapInv'
  <2> SUFFICES ASSUME TypeOK, TypeOK', CapInv, [Next]_vars PROVE CapInv'
    OBVIOUS
  <2>1. CASE CoderParked \/ CoderNoChanges \/ RecodePushes \/ RecodeEnds \/ RecodeFails
    BY <2>1, CapElsewhere DEF CoderParked, CoderNoChanges, RecodePushes, RecodeEnds,
       RecodeFails, forgejo, keys, history
  <2>2. ASSUME NEW p \in Pr, CoderSuccess(p) \/ CrashInSuccess(p) PROVE CapInv'
    BY <2>2, CapOpens
  <2>3. ASSUME NEW p \in Pr, GateMerges(p) \/ HumanMerges(p) PROVE CapInv'
    BY <2>3, CapMerges
  <2>4. ASSUME NEW p \in Pr, RecodeForPr(p) PROVE CapInv'
    BY <2>4, CapRecodes
  <2>5. ASSUME NEW p \in Pr, GateFindsNoStory(p) \/ Lose(p) \/ ReviewRejects(p) PROVE CapInv'
    BY <2>5, CapElsewhere DEF GateFindsNoStory, Lose, ReviewRejects, forgejo, keys, history
  <2>6. ASSUME NEW p \in Pr, HumanPushes(p) PROVE CapInv'
    BY <2>6, CapPushes
  <2>7. ASSUME NEW n \in notices, MergeNotice(n) PROVE CapInv'
    BY <2>7, CapElsewhere DEF MergeNotice, keys
  <2>8. ASSUME NEW t \in CiTask, CiStep(t) PROVE CapInv'
    BY <2>8, CapElsewhere DEF CiStep, CiReadsHead, CiDies, CiSeesOtherState, CiPasses, CiUnread,
       Accept, CiFails, CiWasCancelled, CiRed, forgejo, keys, history
  <2>9. CASE MarkMerged \/ WatchFetchFails
    BY <2>9, CapElsewhere DEF MarkMerged, WatchFetchFails, forgejo, keys, history
  <2>10. CASE WatchLook
    BY <2>10, CapLooks
  <2>11. CASE WatchAct
    BY <2>11, CapActs
  <2>12. CASE Retry \/ Reset \/ Abandon
    BY <2>12, CapTakenOver
  <2>13. CASE Crash \/ UNCHANGED vars
    BY <2>13, CapElsewhere DEF Crash, Restart, vars, forgejo, keys, history
  <2> QED
    BY <2>1, <2>2, <2>3, <2>4, <2>5, <2>6, <2>7, <2>8, <2>9, <2>10, <2>11, <2>12, <2>13
    DEF Next, CoderEnds, GateActs
<1>3. CapInv => RecodesAreBounded
  BY DEF CapInv
<1> QED
  BY <1>1, <1>2, <1>3, TypeInit, TypeStep, PTL DEF Spec


-----------------------------------------------------------------------------
(* The story that follows.  Without the circumstances that by-pass the      *)
(* check, and until it starts, one actor at a time has the story: its coder, *)
(* the gate and its recode, or one CI task, which looks at the last merge.  *)

Calm == scenario \cap ByPass = {} /\ next = "backlog"

\* An open pull request is the story's own, and whoever is at work is at work on it.
OneActor ==
  /\ sweep = NoSweep /\ OneOpen
  /\ \A p \in Pr : Open(p) =>
       /\ url = p /\ state \in {"in-review", "changes-requested"} /\ coder = 0
       /\ p \in round => recode = 0
  /\ coder > 0 => coder = 1 /\ state = "in-progress" /\ recode + pushed = 0
  /\ recode + pushed <= 1
  /\ recode + pushed > 0 => \E p \in Pr : Open(p)
  /\ \A n \in notices : pr[n[1]] = "merged"

\* A CI task is alone with a merged story, and has read the head of this main.
OneCi ==
  \A t \in CiTask : ci[t] # Idle =>
    /\ state = "merged" /\ coder = 0 /\ recode + pushed = 0
    /\ \A u \in CiTask : u # t => ci[u] = Idle
    /\ ci[t].at \in {"poll", "ask"} => ci[t].main = Merges

CalmInv == Calm => OneActor /\ OneCi

\* As long as a pull request is open, or anyone but CI has the story, no CI task is
\* alive.
LEMMA CiWaits ==
  ASSUME OneActor, OneCi,
         state # "merged" \/ coder > 0 \/ recode + pushed > 0 \/ \E p \in Pr : Open(p)
  PROVE  \A t \in CiTask : ci[t] = Idle
BY DEF OneActor, OneCi

\* What leaves everyone idle, or everything about CI alone, keeps CI alone.
LEMMA CiKeeps ==
  ASSUME OneCi,
         \/ \A t \in CiTask : ci'[t] = Idle
         \/ UNCHANGED <<ci, state, coder, recode, pushed, pr>>
  PROVE  OneCi'
BY DEF OneCi, Merges

\* A CI task that is started where none is alive is the only one.
LEMMA CiStarts ==
  ASSUME NEW live \in [CiTask -> CiStates], \A t \in CiTask : live[t] = Idle,
         StartCi(live), state' = "merged", coder' = 0, recode' + pushed' = 0
  PROVE  OneCi'
<1>1. PICK t \in CiTask : ci' = [live EXCEPT ![t].at = "head"]
  BY DEF StartCi
<1>2. \A u \in CiTask : u # t => ci'[u] = Idle
  BY <1>1
<1>3. ci'[t].at = "head"
  <2>1. live[t] \in CiStates
    OBVIOUS
  <2> QED
    BY <1>1, <2>1 DEF CiStates
<1>4. \A u \in CiTask : ci'[u] # Idle => u = t
  BY <1>2
<1> QED
  BY <1>2, <1>3, <1>4 DEF OneCi, Idle

\* The tasks of the coder keep the story one actor's.
LEMMA CalmTasks ==
  ASSUME TypeOK, OneActor, OneCi, CoderParked \/ RecodePushes \/ RecodeEnds \/ RecodeFails
  PROVE  OneActor' /\ OneCi'
<1>1. /\ UNCHANGED <<url, pr, notices, ci, sweep>>
      /\ coder \in Nat /\ recode \in Nat /\ pushed \in Nat
  BY CapsAreNumbers DEF CoderParked, RecodePushes, RecodeEnds, RecodeFails, TypeOK, forgejo
<1>2. \A t \in CiTask : ci[t] = Idle
  <2>1. coder > 0 \/ recode + pushed > 0
    BY <1>1 DEF CoderParked, RecodePushes, RecodeEnds, RecodeFails
  <2> QED
    BY <2>1, CiWaits
<1>3. OneCi'
  BY <1>1, <1>2, CiKeeps
<1>4. OneOpen' /\ \A p \in Pr : Open(p)' = Open(p)
  BY <1>1 DEF OneActor, OneOpen, Open
<1>5. CASE CoderParked
  <2>1. /\ coder = 1 /\ coder' = 0 /\ recode + pushed = 0
        /\ UNCHANGED <<round, recode, pushed>> /\ \A p \in Pr : ~Open(p)
    BY <1>1, <1>5 DEF CoderParked, OneActor, forgejo
  <2> QED
    BY <1>1, <1>3, <1>4, <2>1 DEF OneActor
<1>6. CASE RecodePushes
  <2>1. /\ recode = 1 /\ pushed = 0 /\ recode' = 0 /\ pushed' = 1
        /\ coder = 0 /\ UNCHANGED <<coder, state>>
    BY <1>1, <1>6 DEF RecodePushes, OneActor
  <2> QED
    BY <1>1, <1>3, <1>4, <2>1 DEF OneActor
<1>7. CASE RecodeEnds \/ RecodeFails
  <2>1. /\ recode + pushed = 1 /\ recode' = 0 /\ pushed' = 0
        /\ coder = 0 /\ UNCHANGED <<coder, round>>
        /\ state' \in {"in-review", "changes-requested"}
    BY <1>1, <1>7 DEF RecodeEnds, RecodeFails, OneActor, forgejo
  <2> QED
    BY <1>1, <1>3, <1>4, <2>1 DEF OneActor
<1> QED
  BY <1>5, <1>6, <1>7

LEMMA CalmSuccess ==
  ASSUME TypeOK, OneActor, OneCi, NEW p \in Pr, CoderSuccess(p)
  PROVE  OneActor' /\ OneCi'
<1>1. /\ UNCHANGED <<notices, recode, pushed, ci, sweep>>
      /\ coder > 0 /\ coder' = coder - 1 /\ state' = "in-review" /\ url' = p
      /\ pr' = [pr EXCEPT ![p] = "open"] /\ CoderOpens(p)
      /\ pr \in Forgejo /\ notices \subseteq Pr \X {"webhook", "gate"}
      /\ recode \in Nat /\ pushed \in Nat
  BY CapsAreNumbers DEF CoderSuccess, TypeOK, Forgejo, keys
<1>2. coder = 1 /\ coder' = 0 /\ recode + pushed = 0 /\ recode = 0 /\ \A q \in Pr : ~Open(q)
  BY <1>1 DEF OneActor
<1>3. \A t \in CiTask : ci[t] = Idle
  BY <1>1, CiWaits
<1>4. OneCi'
  BY <1>1, <1>3, CiKeeps
<1>5. \A q \in Pr : Open(q)' => q = p
  BY <1>1, <1>2 DEF Open, Forgejo
<1>6. \A n \in notices' : pr'[n[1]] = "merged"
  <2> SUFFICES ASSUME NEW n \in notices PROVE pr'[n[1]] = "merged"
    BY <1>1
  <2>1. n[1] \in Pr /\ pr[n[1]] = "merged"
    BY <1>1 DEF OneActor
  <2>2. pr[p] # "merged"
    BY <1>1 DEF CoderOpens
  <2> QED
    BY <1>1, <2>1, <2>2 DEF Forgejo
<1> QED
  BY <1>1, <1>2, <1>4, <1>5, <1>6 DEF OneActor, OneOpen

\* The gate and a human merge when nobody is at work on the pull request.
LEMMA CalmMerges ==
  ASSUME TypeOK, OneActor, OneCi, NEW p \in Pr,
         \/ GateMerges(p) /\ pushed = 0
         \/ HumanMerges(p) /\ recode + pushed = 0
  PROVE  OneActor' /\ OneCi'
<1>1. /\ UNCHANGED <<state, url, coder, recode, pushed, ci, sweep>>
      /\ Open(p) /\ pr' = [pr EXCEPT ![p] = "merged"]
      /\ \A n \in notices' : n \in notices \/ n[1] = p
      /\ pr \in Forgejo /\ notices \subseteq Pr \X {"webhook", "gate"}
      /\ recode \in Nat /\ pushed \in Nat
  BY CapsAreNumbers DEF GateMerges, HumanMerges, MergeIn, Open, TypeOK, Forgejo, keys, tasks
<1>2. recode + pushed = 0 /\ coder = 0 /\ coder \in Nat
  BY <1>1 DEF GateMerges, OneActor, TypeOK
<1>3. \A t \in CiTask : ci[t] = Idle
  BY <1>1, CiWaits
<1>4. OneCi'
  BY <1>1, <1>3, CiKeeps
<1>5. \A q \in Pr : ~Open(q)'
  <2>1. \A q \in Pr : Open(q) => q = p
    BY <1>1 DEF OneActor, OneOpen
  <2> QED
    BY <1>1, <2>1 DEF Open, Forgejo
<1>6. \A n \in notices' : pr'[n[1]] = "merged"
  <2>1. \A n \in notices : n[1] \in Pr /\ pr[n[1]] = "merged"
    BY <1>1 DEF OneActor
  <2> QED
    BY <1>1, <2>1 DEF Forgejo
<1> QED
  BY <1>1, <1>2, <1>4, <1>5, <1>6 DEF OneActor, OneOpen

LEMMA CalmRounds ==
  ASSUME TypeOK, OneActor, OneCi, NEW p \in Pr,
         Lose(p) \/ GateFindsNoStory(p) \/ (RecodeForPr(p) /\ pushed = 0)
  PROVE  OneActor' /\ OneCi'
<1>1. /\ UNCHANGED <<url, pr, coder, pushed, ci, sweep>>
      /\ notices' \subseteq notices /\ round' \subseteq round
      /\ recode \in Nat /\ pushed \in Nat /\ coder \in Nat
  BY CapsAreNumbers DEF Lose, GateFindsNoStory, RecodeForPr, TypeOK, keys, tasks
<1>2. OneOpen' /\ \A q \in Pr : Open(q)' = Open(q)
  BY <1>1 DEF OneActor, OneOpen, Open
<1>3. CASE Lose(p) \/ GateFindsNoStory(p)
  <2>1. UNCHANGED <<state, recode>>
    BY <1>3 DEF Lose, GateFindsNoStory, tasks
  <2>2. OneCi'
    BY <1>1, <2>1, CiKeeps
  <2> QED
    BY <1>1, <1>2, <2>1, <2>2 DEF OneActor
<1>4. CASE RecodeForPr(p) /\ pushed = 0
  <2>1. /\ Open(p) /\ p \in round /\ round' = round \ {p} /\ url = p
        /\ state' = "changes-requested" /\ recode' \in {recode, recode + 1}
    BY <1>4 DEF RecodeForPr, FoundBy, Open
  <2>2. recode = 0 /\ pushed = 0 /\ coder = 0
    BY <1>4, <2>1 DEF OneActor
  <2>3. \A q \in Pr : Open(q) => q = p
    BY <2>1 DEF OneActor, OneOpen
  <2>4. \A t \in CiTask : ci[t] = Idle
    BY <2>1, CiWaits
  <2>5. OneCi'
    BY <1>1, <2>4, CiKeeps
  <2>6. coder' = 0 /\ pushed' = 0 /\ recode' \in {0, 1}
    BY <1>1, <2>1, <2>2
  <2>7. \A q \in Pr : Open(q)' => url' = q /\ q \notin round'
    BY <1>1, <1>2, <2>1, <2>3
  <2>8. Open(p)' /\ sweep' = NoSweep /\ \A n \in notices' : pr'[n[1]] = "merged"
    BY <1>1, <1>2, <2>1 DEF OneActor
  <2>a. /\ ~(coder' > 0) /\ recode' + pushed' <= 1 /\ \E q \in Pr : Open(q)'
        /\ state' \in {"in-review", "changes-requested"}
    <3>1. ~(coder' > 0) /\ recode' + pushed' <= 1
      <4>1. CASE recode' = 0
        BY <2>6, <4>1
      <4>2. CASE recode' = 1
        BY <2>6, <4>2
      <4> QED
        BY <2>6, <4>1, <4>2
    <3>2. \E q \in Pr : Open(q)'
      BY <2>8
    <3> QED
      BY <2>1, <3>1, <3>2
  <2>b. OneOpen'
    BY <1>2
  <2>9. OneActor'
    BY <2>6, <2>7, <2>8, <2>a, <2>b DEF OneActor
  <2> QED
    BY <2>5, <2>9
<1> QED
  BY <1>3, <1>4

\* A notice of the story's own merge hands it to one CI task.
LEMMA CalmNotice ==
  ASSUME TypeOK, OneActor, OneCi, NEW n \in notices, MergeNotice(n)
  PROVE  OneActor' /\ OneCi'
<1>1. /\ UNCHANGED <<url, pr, round, coder, recode, pushed, sweep>>
      /\ notices' \subseteq notices
      /\ recode \in Nat /\ pushed \in Nat /\ coder \in Nat
      /\ ci \in [CiTask -> CiStates]
  BY CapsAreNumbers DEF MergeNotice, TypeOK, CiStates, keys
<1>2. OneOpen' /\ \A q \in Pr : Open(q)' = Open(q)
  BY <1>1 DEF OneActor, OneOpen, Open
<1>3. CASE ~FoundBy(n[1])
  <2>1. UNCHANGED <<state, ci>>
    BY <1>3 DEF MergeNotice
  <2>2. OneCi'
    BY <1>1, <2>1, CiKeeps
  <2> QED
    BY <1>1, <1>2, <2>1, <2>2 DEF OneActor
<1>4. CASE FoundBy(n[1])
  <2>1. /\ state' = "merged" /\ StartCi(ci)
        /\ url = n[1] /\ state \in {"in-review", "changes-requested"}
    BY <1>4 DEF MergeNotice, FoundBy, OnStoryMerged
  <2>2. \A q \in Pr : ~Open(q)
    BY <2>1 DEF OneActor, Open
  <2>3. coder = 0 /\ recode + pushed = 0
    BY <1>1, <2>1, <2>2 DEF OneActor
  <2>4. \A t \in CiTask : ci[t] = Idle
    BY <2>1, CiWaits
  <2>5. OneCi'
    BY <1>1, <2>1, <2>3, <2>4, CiStarts
  <2> QED
    BY <1>1, <1>2, <2>1, <2>2, <2>3, <2>5 DEF OneActor
<1> QED
  BY <1>3, <1>4

\* The CI task sees the story merged and its main unmoved, and hands it back.
LEMMA CalmCi ==
  ASSUME TypeOK, OneActor, OneCi, NEW t \in CiTask,
         CiReadsHead(t) \/ CiDies(t) \/ CiSeesOtherState(t) \/ CiFails(t) \/ CiRed(t)
  PROVE  OneActor' /\ OneCi'
<1>1. /\ UNCHANGED <<url, pr, round, notices, recode, pushed, sweep>>
      /\ recode \in Nat /\ pushed \in Nat /\ coder \in Nat
      /\ ci \in [CiTask -> CiStates] /\ ci[t] # Idle
  BY CapsAreNumbers DEF CiReadsHead, CiDies, CiSeesOtherState, CiFails, CiRed, TypeOK, CiStates, Idle,
     keys, forgejo
<1>2. OneOpen' /\ \A q \in Pr : Open(q)' = Open(q)
  BY <1>1 DEF OneActor, OneOpen, Open
<1>3. /\ state = "merged" /\ coder = 0 /\ recode + pushed = 0
      /\ \A u \in CiTask : u # t => ci[u] = Idle
      /\ ci[t].at \in {"poll", "ask"} => ci[t].main = Merges
  BY <1>1 DEF OneCi
<1>4. \A q \in Pr : ~Open(q)
  BY <1>3 DEF OneActor
<1>5. Merges' = Merges
  BY <1>1 DEF Merges
<1>6. CASE CiReadsHead(t)
  <2>1. UNCHANGED <<state, coder>> /\ ci' = [ci EXCEPT ![t] = [at |-> "poll", main |-> Merges]]
    BY <1>6 DEF CiReadsHead
  <2>2. OneActor'
    BY <1>1, <1>2, <2>1 DEF OneActor
  <2>3. OneCi'
    BY <1>1, <1>3, <1>5, <2>1 DEF OneCi
  <2> QED
    BY <2>2, <2>3
<1>7. CASE CiSeesOtherState(t)
  BY <1>3, <1>7 DEF CiSeesOtherState
<1>8. CASE CiFails(t)
  <2>1. /\ UNCHANGED <<state, coder>> /\ ci' = [ci EXCEPT ![t].at = "ask"]
        /\ ci[t].at = "poll"
    BY <1>8 DEF CiFails
  <2>2. OneActor'
    BY <1>1, <1>2, <2>1 DEF OneActor
  <2>3. ci'[t].main = Merges
    <3>1. ci[t] \in CiStates
      BY <1>1
    <3> QED
      BY <1>1, <1>3, <2>1, <3>1 DEF CiStates
  <2>4. \A u \in CiTask : u # t => ci'[u] = Idle
    BY <1>3, <2>1
  <2>5. OneCi'
    BY <1>1, <1>3, <1>5, <2>1, <2>3, <2>4 DEF OneCi
  <2> QED
    BY <2>2, <2>5
<1>9. CASE CiRed(t)
  <2>1. /\ ci' = [ci EXCEPT ![t] = Idle]
        /\ \/ state' = "changes-requested" /\ coder' = 0
           \/ state' = "in-progress" /\ coder' = 1
    BY <1>3, <1>9 DEF CiRed, CiEnds, PostMergeFix
  <2>2. \A u \in CiTask : ci'[u] = Idle
    BY <1>1, <1>3, <2>1
  <2>3. OneCi'
    BY <2>2, CiKeeps
  <2>4. OneActor'
    BY <1>1, <1>2, <1>3, <1>4, <2>1 DEF OneActor
  <2> QED
    BY <2>3, <2>4
<1>10. CASE CiDies(t)
  <2>1. UNCHANGED <<state, coder>> /\ ci' = [ci EXCEPT ![t] = Idle]
    BY <1>10 DEF CiDies, CiEnds
  <2>2. OneActor'
    BY <1>1, <1>2, <2>1 DEF OneActor
  <2>3. \A u \in CiTask : ci'[u] = Idle
    BY <1>1, <1>3, <2>1
  <2>4. OneCi'
    BY <2>3, CiKeeps
  <2> QED
    BY <2>2, <2>4
<1> QED
  BY <1>6, <1>7, <1>8, <1>9, <1>10

\* The process comes up again with the one task that goes with the story's state.
LEMMA CalmCrash ==
  ASSUME TypeOK, OneActor, OneCi, Crash
  PROVE  OneActor' /\ OneCi'
<1>1. /\ UNCHANGED <<state, url, pr, round, notices>> /\ sweep' = NoSweep
      /\ recode' = 0 /\ pushed' = 0
      /\ coder' = IF state = "in-progress" THEN 1 ELSE 0
      /\ IF state = "merged" THEN StartCi([t \in CiTask |-> Idle])
                             ELSE ci' = [t \in CiTask |-> Idle]
  BY DEF Crash, Restart, forgejo
<1>2. OneOpen' /\ \A q \in Pr : Open(q)' = Open(q)
  BY <1>1 DEF OneActor, OneOpen, Open
<1>3. OneActor'
  BY <1>1, <1>2 DEF OneActor
<1>4. CASE state = "merged"
  <2> DEFINE live == [t \in CiTask |-> Idle]
  <2>1. live \in [CiTask -> CiStates] /\ \A t \in CiTask : live[t] = Idle
    BY LifecycleAssumption DEF CiStates, Idle
  <2>2. StartCi(live) /\ state' = "merged" /\ coder' = 0 /\ recode' + pushed' = 0
    BY <1>1, <1>4
  <2> HIDE DEF live
  <2>3. OneCi'
    BY <2>1, <2>2, CiStarts
  <2> QED
    BY <1>3, <2>3
<1>5. CASE state # "merged"
  <2>1. \A t \in CiTask : ci'[t] = Idle
    BY <1>1, <1>5
  <2> QED
    BY <1>3, <2>1, CiKeeps
<1> QED
  BY <1>4, <1>5

\* The circumstances of a story are fixed, and the next one is started once.
LEMMA OnlyOnward ==
  ASSUME Next
  PROVE  UNCHANGED scenario /\ (next' = "backlog" => next = "backlog")
<1>1. CASE CoderEnds \/ RecodePushes \/ RecodeEnds \/ RecodeFails
  BY <1>1 DEF CoderEnds, CoderSuccess, CoderParked, CoderNoChanges, Advance, RecodePushes,
     RecodeEnds, RecodeFails
<1>2. ASSUME NEW p \in Pr,
             \/ GateActs(p) \/ HumanMerges(p) \/ HumanPushes(p) \/ Lose(p)
             \/ ReviewRejects(p) \/ CrashInSuccess(p)
      PROVE  scenario' = scenario /\ next' = next
  BY <1>2 DEF GateActs, GateMerges, RecodeForPr, GateFindsNoStory, HumanMerges,
     HumanPushes, Lose, ReviewRejects, CrashInSuccess
<1>3. ASSUME NEW n \in notices, MergeNotice(n)
      PROVE  scenario' = scenario /\ next' = next
  BY <1>3 DEF MergeNotice
<1>4. ASSUME NEW t \in CiTask, CiStep(t)
      PROVE  scenario' = scenario /\ (next' = "backlog" => next = "backlog")
  BY <1>4 DEF CiStep, CiReadsHead, CiDies, CiSeesOtherState, CiPasses, CiUnread, Accept, CiFails,
     CiWasCancelled, CiRed, Advance
<1>5. CASE MarkMerged \/ WatchLook \/ WatchFetchFails \/ WatchAct
  BY <1>5 DEF MarkMerged, WatchLook, WatchFetchFails, WatchAct
<1>6. CASE Retry \/ Reset \/ Abandon \/ Crash
  BY <1>6 DEF Retry, Reset, Abandon, Crash, Advance
<1> QED
  BY <1>1, <1>2, <1>3, <1>4, <1>5, <1>6 DEF Next

\* In calm weather these are the steps, and the last two start the next story.
LEMMA CalmSteps ==
  ASSUME Next, Calm, OneActor
  PROVE  \/ CoderParked \/ RecodePushes \/ RecodeEnds \/ RecodeFails \/ Crash
         \/ \E p \in Pr : \/ CoderSuccess(p)
                          \/ GateMerges(p) /\ pushed = 0
                          \/ HumanMerges(p) /\ recode + pushed = 0
                          \/ Lose(p) \/ GateFindsNoStory(p) \/ (RecodeForPr(p) /\ pushed = 0)
         \/ \E n \in notices : MergeNotice(n)
         \/ \E t \in CiTask : \/ CiReadsHead(t) \/ CiDies(t) \/ CiSeesOtherState(t)
                             \/ CiFails(t) \/ CiRed(t)
         \/ \E t \in CiTask : CiPasses(t) \/ CiUnread(t) \/ CiWasCancelled(t)
         \/ Abandon
<1>1. \A c \in ByPass : ~May(c)
  BY DEF Calm, May
<1>2. ~May("noop") /\ ~May("watchdog") /\ ~May("mark") /\ ~May("reset") /\ ~May("late")
      /\ ~May("torn") /\ ~May("review")
  BY <1>1 DEF ByPass
<1>3. sweep = NoSweep
  BY DEF OneActor
<1>4. ~CoderNoChanges /\ ~MarkMerged /\ ~WatchLook /\ ~WatchFetchFails /\ ~WatchAct /\ ~Retry
      /\ ~Reset
  BY <1>2, <1>3 DEF CoderNoChanges, MarkMerged, WatchLook, WatchFetchFails, WatchAct, Retry,
     Reset
<1>5. ASSUME NEW p \in Pr,
             \/ GateActs(p) \/ HumanMerges(p) \/ HumanPushes(p) \/ Lose(p)
             \/ ReviewRejects(p) \/ CrashInSuccess(p)
      PROVE  \/ GateMerges(p) /\ pushed = 0
             \/ HumanMerges(p) /\ recode + pushed = 0
             \/ Lose(p) \/ GateFindsNoStory(p) \/ (RecodeForPr(p) /\ pushed = 0)
  <2>1. ~HumanPushes(p) /\ ~ReviewRejects(p) /\ ~CrashInSuccess(p)
    BY <1>2 DEF HumanPushes, ReviewRejects, CrashInSuccess
  <2>2. HumanMerges(p) => recode + pushed = 0
    BY <1>2 DEF HumanMerges
  <2>3. GateActs(p) => pushed = 0 /\ (GateMerges(p) \/ RecodeForPr(p) \/ GateFindsNoStory(p))
    BY <1>2 DEF GateActs
  <2> QED
    BY <1>5, <2>1, <2>2, <2>3
<1> QED
  BY <1>4, <1>5 DEF Next, CoderEnds, CiStep

\* A green main behind the story that follows: whatever is lost, crashes or is merged
\* by hand, it starts only on a main whose CI was seen with every merge of this one in
\* it and was green or superseded, or could not be read in an outage, unless this story
\* was abandoned (_await_post_merge_ci, _poll_commit_ci).
THEOREM NextWaitsForMain == Spec => NextNeedsGreenMainElse
<1>1. Init => CalmInv
  BY DEF Init, CalmInv, Calm, OneActor, OneCi, OneOpen, Open
<1>2. TypeOK /\ CalmInv /\ [Next]_vars => CalmInv'
  <2> SUFFICES ASSUME TypeOK, CalmInv, [Next]_vars, Calm' PROVE OneActor' /\ OneCi'
    BY DEF CalmInv
  <2>1. CASE UNCHANGED vars
    <3>1. Calm /\ OneActor /\ OneCi
      BY <2>1 DEF vars, Calm, CalmInv
    <3> QED
      BY <2>1, <3>1 DEF vars, forgejo, tasks, OneActor, OneCi, OneOpen, Open, Merges
  <2>2. CASE Next
    <3>1. Calm /\ OneActor /\ OneCi
      BY <2>2, OnlyOnward DEF Calm, CalmInv
    <3>2. ~Abandon /\ \A t \in CiTask : ~CiPasses(t) /\ ~CiUnread(t) /\ ~CiWasCancelled(t)
      BY DEF Calm, Abandon, CiPasses, CiUnread, CiWasCancelled, Accept, Advance
    <3> QED
      BY <2>2, <3>1, <3>2, CalmSteps, CalmTasks, CalmSuccess, CalmMerges, CalmRounds,
         CalmNotice, CalmCi, CalmCrash
  <2> QED
    BY <2>1, <2>2
<1>3. TypeOK /\ CalmInv /\ [Next]_vars
      => [NextStarts /\ state' # "abandoned" /\ scenario \cap ByPass = {}
            => mainCi' \in Accepted]_vars
  <2> SUFFICES ASSUME TypeOK, CalmInv, Next, NextStarts, state' # "abandoned",
                      scenario \cap ByPass = {}
               PROVE  mainCi' \in Accepted
    BY DEF NextStarts, vars
  <2>1. Calm /\ OneActor /\ OneCi
    BY DEF Calm, CalmInv, NextStarts
  <2>2. \E t \in CiTask : CiPasses(t) \/ CiUnread(t) \/ CiWasCancelled(t)
    <3>1. ~Abandon
      BY DEF Abandon
    <3>2. ~(CoderParked \/ RecodePushes \/ RecodeEnds \/ RecodeFails \/ Crash)
      BY DEF NextStarts, CoderParked, RecodePushes, RecodeEnds, RecodeFails, Crash
    <3>3. \A p \in Pr : ~(CoderSuccess(p) \/ GateMerges(p) \/ HumanMerges(p) \/ Lose(p)
                            \/ GateFindsNoStory(p) \/ RecodeForPr(p))
      BY DEF NextStarts, CoderSuccess, GateMerges, HumanMerges, Lose, GateFindsNoStory, RecodeForPr
    <3>4. \A n \in notices : ~MergeNotice(n)
      BY DEF NextStarts, MergeNotice
    <3>5. \A t \in CiTask : ~(\/ CiReadsHead(t) \/ CiDies(t) \/ CiSeesOtherState(t)
                             \/ CiFails(t) \/ CiRed(t))
      BY DEF NextStarts, CiReadsHead, CiDies, CiSeesOtherState, CiFails, CiRed
    <3> QED
      BY <2>1, <3>1, <3>2, <3>3, <3>4, <3>5, CalmSteps
  <2>3. PICK t \in CiTask : CiPasses(t) \/ CiUnread(t) \/ CiWasCancelled(t)
    BY <2>2
  <2>4. ci[t].at \in {"poll", "ask"} /\ \E what \in Accepted : Learn(t, what)
    BY <2>3 DEF CiPasses, CiUnread, CiWasCancelled, Accept, Accepted, Verified
  <2>5. ci[t].main = Merges
    BY <2>1, <2>4 DEF OneCi, Idle
  <2> QED
    BY <2>4, <2>5 DEF Learn
<1> QED
  BY <1>1, <1>2, <1>3, TypeInit, TypeStep, PTL DEF Spec, NextNeedsGreenMainElse

=============================================================================
