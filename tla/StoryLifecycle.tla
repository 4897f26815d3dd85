--------------------------- MODULE StoryLifecycle ---------------------------
(***************************************************************************)
(* One story from its coder's run to done (event_bus/main.py): its pull    *)
(* requests, the merge notices, the recode and post-merge CI tasks of the  *)
(* web process, the review half of the watchdog and the operator.  The     *)
(* gate is seen from outside: VerdictGate says when it fails or merges,    *)
(* CoderFleet how a run is queued, held and retried.                       *)
(*                                                                         *)
(* What can happen is fixed at the start of a behaviour by the scenario,   *)
(* so that one model answers for calm weather and for storms.              *)
(***************************************************************************)
EXTENDS Integers, FiniteSets

CONSTANTS
  MaxPr,            \* bound: pull requests one story opens
  MaxTasks,         \* bound: live tasks of one kind for the story
  MaxCi,            \* bound: live _await_post_merge_ci tasks
  RecodeCap,        \* _MAX_RECODE_RETRIES, or the stack's recode_cap
  PostMergeFixCap,  \* _POST_MERGE_FIX_CAP
  WatchAttemptCap,  \* _WATCH_ATTEMPT_CAP
  MaxIncidents,     \* bound: crashes and interventions of the operator
  Scenarios         \* the sets of circumstances to explore

Circumstance ==
  { "crash",      \* the web process dies and is started again
    "torn",       \* ... between in-review and set_pr_url
    "loss",       \* a notice, a webhook or a review round is lost
    "outage",     \* Forgejo does not answer a post-merge CI task
    "noop",       \* a run of the coder finds nothing to change
    "watchdog",   \* the story may look stuck, and the sweep acts on it
    "late",       \* a recode task outlives what it is for: the gate answers its push, or
                  \*   a human merges, before it writes the story's state
    "review",     \* a human requests changes in Forgejo
    "merge",      \* a human merges in Forgejo
    "mark",       \* the operator marks the story merged
    "reset",      \* the operator resets or retries the story
    "abandon",    \* the operator abandons it
    "escalate" }  \* gates.auto_escalate is on

ASSUME LifecycleAssumption ==
  /\ MaxPr \in Nat \ {0} /\ MaxTasks \in Nat \ {0} /\ MaxCi \in Nat \ {0}
  /\ RecodeCap \in Nat \ {0} /\ PostMergeFixCap \in Nat /\ WatchAttemptCap \in Nat
  /\ MaxIncidents \in Nat
  /\ Scenarios \subseteq SUBSET Circumstance

VARIABLES
  scenario,   \* the circumstances of this behaviour
  state,      \* work_items.state of the story
  url,        \* the pull request its pr_url names, 0 when it has none
  pr,         \* what Forgejo holds: "none", "open" or "merged" per number
  round,      \* pull requests with verdict jobs on their way to the gate
  notices,    \* merge notices under way: webhook, or the gate's own call
  coder,      \* live coder runs of the story
  recode,     \* live recode tasks of the story, their agent at work
  pushed,     \* recode tasks that have pushed and not yet written the state
  ci,         \* per CiTask: what it awaits (the branch head, the CI status, the
              \*   Actions API), and the main it looks at, as a count of merges
  retries,    \* Redis recode_retries:<repo>:<pr>
  escalated,  \* Redis escalate_pr:<repo>:<pr>
  fixes,      \* Redis post_merge_fix:<story>
  watch,      \* Redis watch_attempts:<story>, saturating past the cap
  flags,      \* Redis stuck:<story> and story_reworked:<story>
  sweep,      \* what the watchdog fetched and has still to act on
  incidents,  \* crashes and interventions so far
  next,       \* the state of the story that follows in the plan
  mainCi,     \* history: what is known of main after the last merge
  recoded,    \* history: recodes of each PR since a human last acted
  firstPass   \* history: was the story recoded, was it credited first_pass

forgejo == <<pr, round, notices>>
tasks   == <<coder, recode, pushed, ci>>
keys    == <<retries, escalated, fixes, watch, flags>>
history == <<mainCi, recoded, firstPass>>
vars    == <<scenario, state, url, forgejo, tasks, keys, sweep, incidents, next, history>>

Pr == 1..MaxPr
CiTask == 1..MaxCi
May(c) == c \in scenario
NoSweep == [pr |-> 0, merged |-> FALSE]
Idle == [at |-> "none", main |-> 0]
Merges == Cardinality({p \in Pr : pr[p] = "merged"})
MaxRecodes == RecodeCap * (WatchAttemptCap + 3)    \* bound of the history

\* The counters that gate recovery stay within their caps, and the tasks that
\* act for the story are of the kinds the process knows.
TypeOK ==
  /\ scenario \in Scenarios
  /\ state \in {"in-progress", "in-review", "changes-requested",
                "merged", "done", "abandoned"}
  /\ url \in {0} \cup Pr /\ pr \in [Pr -> {"none", "open", "merged"}]
  /\ round \subseteq Pr /\ notices \subseteq Pr \X {"webhook", "gate"}
  /\ coder \in 0..MaxTasks /\ recode \in 0..MaxTasks /\ pushed \in 0..MaxTasks
  /\ ci \in [CiTask -> [at : {"none", "head", "poll", "ask"}, main : 0..MaxPr]]
  /\ retries \in [Pr -> 0..RecodeCap] /\ escalated \subseteq Pr
  /\ fixes \in 0..PostMergeFixCap /\ watch \in 0..(WatchAttemptCap + 1)
  /\ flags \subseteq {"stuck", "reworked"}
  /\ sweep \in {NoSweep} \cup [pr : Pr, merged : BOOLEAN]
  /\ next \in {"backlog", "ready", "in-progress"}
  /\ incidents \in 0..MaxIncidents /\ mainCi \in {"unknown", "good", "bad", "superseded", "unread"}
  /\ recoded \in [Pr -> 0..MaxRecodes]
  /\ firstPass \in {"no", "recoded", "honest", "wrong"}

Init ==
  /\ scenario \in Scenarios
  /\ state = "in-progress" /\ url = 0
  /\ pr = [p \in Pr |-> "none"] /\ round = {} /\ notices = {}
  /\ coder = 1 /\ recode = 0 /\ pushed = 0 /\ incidents = 0
  /\ ci = [t \in CiTask |-> Idle]
  /\ retries = [p \in Pr |-> 0] /\ escalated = {} /\ fixes = 0 /\ watch = 0
  /\ flags = {} /\ sweep = NoSweep /\ next = "backlog"
  /\ mainCi = "unknown" /\ recoded = [p \in Pr |-> 0] /\ firstPass = "no"

\* find_item_by_pr_url: only while the story waits for that pull request.
\* (Mutant: its state is not asked.)
FoundByUrl(p) == url = p
FoundBy(p) == url = p /\ state \in {"in-review", "changes-requested"}

Incident == incidents < MaxIncidents /\ incidents' = incidents + 1

\* unlock_next_story, then claim and dispatch what it unlocked.
Advance == next' = IF next = "backlog" THEN "in-progress" ELSE next

-----------------------------------------------------------------------------
(* The coder's run.  It opens a pull request, or pushes to the one of its  *)
(* branch that is still open (coding_agent/main.py).                       *)

CoderOpens(p) ==
  \/ pr[p] = "open"
  \/ pr[p] = "none" /\ \A q \in Pr : pr[q] # "open" /\ (q < p => pr[q] # "none")

CoderSuccess(p) ==
  /\ coder > 0 /\ CoderOpens(p)
  /\ coder' = coder - 1
  /\ state' = "in-review" /\ url' = p
  /\ pr' = [pr EXCEPT ![p] = "open"] /\ round' = round \cup {p}
  /\ UNCHANGED <<scenario, notices, recode, pushed, ci, keys, sweep, incidents, next, history>>

CoderParked ==
  /\ coder > 0
  /\ coder' = coder - 1
  /\ state' = "changes-requested" /\ flags' = flags \cup {"stuck"}
  /\ UNCHANGED <<scenario, url, forgejo, recode, pushed, ci, retries, escalated, fixes,
                 watch, sweep, incidents, next, history>>

CoderNoChanges ==
  /\ May("noop") /\ coder > 0
  /\ coder' = coder - 1
  /\ state' = "done" /\ Advance
  /\ UNCHANGED <<scenario, url, forgejo, recode, pushed, ci, keys, sweep, incidents, history>>

-----------------------------------------------------------------------------
(* Forgejo and the gate.                                                   *)

MergeIn(p, sent) ==
  /\ pr[p] = "open"
  /\ pr' = [pr EXCEPT ![p] = "merged"]
  /\ notices' = notices \cup ({p} \X sent)
  /\ mainCi' = "unknown"

GateMerges(p) ==
  /\ p \in round /\ MergeIn(p, {"webhook", "gate"})
  /\ round' = round \ {p}
  /\ UNCHANGED <<scenario, state, url, tasks, keys, sweep, incidents, next, recoded, firstPass>>

HumanMerges(p) ==
  /\ May("merge") /\ MergeIn(p, {"webhook"})
  /\ recode + pushed = 0 \/ May("late")
  /\ UNCHANGED <<scenario, state, url, round, tasks, keys, sweep, incidents, next, recoded,
                 firstPass>>

HumanPushes(p) ==
  /\ May("review") /\ pr[p] = "open"
  /\ retries' = [retries EXCEPT ![p] = 0] /\ round' = round \cup {p}
  /\ recoded' = [recoded EXCEPT ![p] = 0]
  /\ UNCHANGED <<scenario, state, url, pr, notices, tasks, escalated, fixes, watch,
                 flags, sweep, incidents, next, mainCi, firstPass>>

Lose(p) ==
  /\ May("loss")
  /\ \/ \E n \in notices : n[1] = p /\ notices' = notices \ {n} /\ UNCHANGED round
     \/ p \in round /\ round' = round \ {p} /\ UNCHANGED notices
  /\ UNCHANGED <<scenario, state, url, pr, tasks, keys, sweep, incidents, next, history>>

\* A failing round asks for a recode.  At the cap the story is parked, unless
\* it may be escalated to a stronger model once, with a fresh cap.
\* (Mutant: the escalation is not remembered, so that every cap starts afresh.)
EscalateAgain(p) == May("escalate")
Escalates(p) == May("escalate") /\ p \notin escalated

\* (Mutant: only an escalation marks the story as reworked.)
MarkReworkedNever == flags
MarkReworked == flags \cup {"reworked"}

Recoded == firstPass' = IF firstPass = "no" THEN "recoded" ELSE firstPass
CountRecode(p) ==
  /\ recoded' = [recoded EXCEPT ![p] = IF @ = MaxRecodes THEN @ ELSE @ + 1]
  /\ Recoded

RecodeForPr(p) ==
  LET used == IF Escalates(p) /\ retries[p] >= RecodeCap THEN 0 ELSE retries[p]
  IN /\ p \in round /\ pr[p] = "open" /\ FoundBy(p)
     /\ round' = round \ {p}
     /\ state' = "changes-requested"
     /\ IF used >= RecodeCap
        THEN /\ flags' = flags \cup {"stuck"}
             /\ UNCHANGED <<retries, escalated, recode, recoded, firstPass>>
        ELSE /\ recode < MaxTasks /\ recode' = recode + 1
             /\ retries' = [retries EXCEPT ![p] = used + 1]
             /\ \/ /\ escalated' = escalated \cup {p} /\ May("escalate")
                \/ used = retries[p] /\ UNCHANGED escalated
             /\ flags' = MarkReworked \ (IF used # retries[p] THEN {"stuck"} ELSE {})
             /\ CountRecode(p)
     /\ UNCHANGED <<scenario, url, pr, notices, coder, pushed, ci, fixes, watch, sweep,
                    incidents, next, mainCi>>

GateFindsNoStory(p) ==
  /\ p \in round /\ ~(pr[p] = "open" /\ FoundBy(p))
  /\ round' = round \ {p}
  /\ UNCHANGED <<scenario, state, url, pr, notices, tasks, keys, sweep, incidents, next, history>>

\* _run_recode_agent: a human's review; neither capped nor marked as rework.
ReviewRejects(p) ==
  /\ May("review") /\ pr[p] = "open" /\ FoundBy(p) /\ recode < MaxTasks
  /\ state' = "changes-requested" /\ recode' = recode + 1 /\ Recoded
  /\ UNCHANGED <<scenario, url, forgejo, coder, pushed, ci, keys, sweep, incidents, next,
                 mainCi, recoded>>

\* The agent pushes, and its task writes in-review when it comes to run again,
\* whatever the story's state is by then.
RecodePushes ==
  /\ recode > 0 /\ recode' = recode - 1
  /\ pushed < MaxTasks /\ pushed' = pushed + 1
  /\ round' = round \cup {p \in Pr : p = url /\ pr[p] = "open"}
  /\ UNCHANGED <<scenario, state, url, pr, notices, coder, ci, keys, sweep, incidents,
                 next, history>>

RecodeEnds ==
  /\ pushed > 0 /\ pushed' = pushed - 1
  /\ state' = "in-review"
  /\ UNCHANGED <<scenario, url, forgejo, coder, recode, ci, keys, sweep, incidents, next,
                 history>>

RecodeFails ==
  /\ recode > 0 /\ recode' = recode - 1
  /\ state' = "changes-requested"
  /\ UNCHANGED <<scenario, url, forgejo, coder, pushed, ci, keys, sweep, incidents, next,
                 history>>

-----------------------------------------------------------------------------
(* The merge is noticed, and CI on main decides.                           *)

StartCi(live) ==
  \E t \in CiTask : /\ live[t] = Idle /\ \A u \in 1..(t - 1) : live[u] # Idle
                    /\ ci' = [live EXCEPT ![t].at = "head"]

OnStoryMerged ==
  /\ state' = "merged"
  /\ StartCi(ci)
  /\ firstPass' = CASE "reworked" \notin flags /\ firstPass = "no" -> "honest"
                    [] "reworked" \notin flags /\ firstPass = "recoded" -> "wrong"
                    [] OTHER -> firstPass

MergeNotice(n) ==
  /\ n \in notices /\ notices' = notices \ {n}
  /\ \/ FoundBy(n[1]) /\ OnStoryMerged
     \/ ~FoundBy(n[1]) /\ UNCHANGED <<state, ci, firstPass>>
  /\ UNCHANGED <<scenario, url, pr, round, coder, recode, pushed, keys, sweep, incidents,
                 next, mainCi, recoded>>

MarkMerged ==
  /\ Incident
  /\ May("mark") /\ state \in {"in-review", "changes-requested"}
  /\ OnStoryMerged
  /\ UNCHANGED <<scenario, url, forgejo, coder, recode, pushed, keys, sweep, next, mainCi, recoded>>

CiEnds(t) == ci' = [ci EXCEPT ![t] = Idle]

CiReadsHead(t) ==
  /\ ci[t].at = "head"
  /\ ci' = [ci EXCEPT ![t] = [at |-> "poll", main |-> Merges]]
  /\ UNCHANGED <<scenario, state, url, forgejo, coder, recode, pushed, keys, sweep,
                 incidents, next, history>>

\* _get_branch_head raises and nothing catches it: the task is gone.
CiDies(t) ==
  /\ May("outage") /\ ci[t].at = "head"
  /\ CiEnds(t)
  /\ UNCHANGED <<scenario, state, url, forgejo, coder, recode, pushed, keys, sweep,
                 incidents, next, history>>

CiSeesOtherState(t) ==
  /\ ci[t].at = "poll" /\ state # "merged"
  /\ CiEnds(t)
  /\ UNCHANGED <<scenario, state, url, forgejo, coder, recode, pushed, keys, sweep,
                 incidents, next, history>>

\* What a status says of main counts as long as main has not moved since.
Learn(t, what) == mainCi' = IF ci[t].main = Merges THEN what ELSE mainCi

Accept(t, what) ==
  /\ CiEnds(t) /\ Learn(t, what)
  /\ state' = "done" /\ Advance
  /\ UNCHANGED <<scenario, url, forgejo, coder, recode, pushed, keys, sweep, incidents,
                 recoded, firstPass>>

\* Green, or no CI workflow at all.
CiPasses(t) ==
  /\ ci[t].at = "poll" /\ state = "merged"
  /\ Accept(t, "good")

\* A failed fetch is an empty status, and an empty one after the grace is taken for a
\* repository without CI (_poll_commit_ci): done, be main green, pending or red.
CiUnread(t) ==
  /\ May("outage") /\ ci[t].at = "poll" /\ state = "merged"
  /\ Accept(t, "unread")

CiFails(t) ==
  /\ ci[t].at = "poll" /\ state = "merged"
  /\ ci' = [ci EXCEPT ![t].at = "ask"] /\ Learn(t, "bad")
  /\ UNCHANGED <<scenario, state, url, forgejo, coder, recode, pushed, keys, sweep,
                 incidents, next, recoded, firstPass>>

\* A cancelled run was superseded by a newer merge, whose CI covers this one.
CiWasCancelled(t) ==
  /\ ci[t].at = "ask"
  /\ Accept(t, "superseded")

\* (Mutant: the cap is compared after the attempt it should stop.)
PostMergeFixOffByOne ==
  IF fixes > PostMergeFixCap
  THEN state' = "changes-requested" /\ UNCHANGED <<fixes, coder>>
  ELSE /\ fixes' = fixes + 1
       /\ state' = "in-progress" /\ coder < MaxTasks /\ coder' = coder + 1

\* A capped number of fixes; past the cap the story waits for a human.
PostMergeFix ==
  IF fixes >= PostMergeFixCap
  THEN state' = "changes-requested" /\ UNCHANGED <<fixes, coder>>
  ELSE /\ fixes' = fixes + 1
       /\ state' = "in-progress" /\ coder < MaxTasks /\ coder' = coder + 1

\* A real failure, or no answer in time.
CiRed(t) ==
  /\ \/ ci[t].at = "ask" /\ UNCHANGED mainCi
     \/ ci[t].at = "poll" /\ state = "merged" /\ Learn(t, "bad")
  /\ CiEnds(t) /\ PostMergeFix
  /\ UNCHANGED <<scenario, url, forgejo, recode, pushed, retries, escalated, watch, flags,
                 sweep, incidents, next, recoded, firstPass>>

-----------------------------------------------------------------------------
(* The watchdog, the operator, and the process itself.                     *)

\* _clear_recovery_keys for a story whose pr_url names p.
ClearCaps(p) ==
  /\ retries' = [q \in Pr |-> IF q = p THEN 0 ELSE retries[q]]
  /\ fixes' = 0

\* (Mutant: a story given up is not flagged.)
WatchLookSilent ==
  /\ May("watchdog") /\ sweep = NoSweep
  /\ state \in {"in-review", "changes-requested"} /\ url # 0
  /\ watch < WatchAttemptCap
  /\ watch' = watch + 1
  /\ sweep' = [pr |-> url, merged |-> pr[url] = "merged"]
  /\ UNCHANGED <<scenario, state, url, forgejo, tasks, retries, escalated, fixes, flags,
                 incidents, next, history>>

\* A stuck story counts an attempt; within the cap its pull request is fetched.
WatchLook ==
  /\ May("watchdog") /\ sweep = NoSweep
  /\ state \in {"in-review", "changes-requested"} /\ url # 0
  /\ IF watch >= WatchAttemptCap
     THEN /\ watch' = WatchAttemptCap + 1 /\ flags' = flags \cup {"stuck"}
          /\ UNCHANGED sweep
     ELSE /\ watch' = watch + 1 /\ UNCHANGED flags
          /\ sweep' = [pr |-> url, merged |-> pr[url] = "merged"]
  /\ UNCHANGED <<scenario, state, url, forgejo, tasks, retries, escalated, fixes,
                 incidents, next, history>>

WatchFetchFails ==
  /\ May("loss") /\ sweep # NoSweep
  /\ sweep' = NoSweep
  /\ UNCHANGED <<scenario, state, url, forgejo, tasks, keys, incidents, next, history>>

\* A lost merge notice is made up for, but nobody starts the next story; any
\* other pull request is reviewed again with its caps cleared.
WatchAct ==
  /\ sweep # NoSweep /\ sweep' = NoSweep
  /\ IF sweep.merged
     THEN /\ state' = "done" /\ watch' = 0 /\ flags' = flags \ {"stuck"}
          /\ next' = IF next = "backlog" THEN "ready" ELSE next
          /\ UNCHANGED <<retries, fixes, round>>
     ELSE /\ state' = "in-review" /\ ClearCaps(sweep.pr)
          /\ round' = round \cup {sweep.pr}
          /\ UNCHANGED <<watch, flags, next>>
  /\ UNCHANGED <<scenario, url, pr, notices, tasks, escalated, incidents, history>>

TakeOver ==
  /\ Incident
  /\ ClearCaps(url) /\ watch' = 0 /\ flags' = flags \ {"stuck"}
  /\ recoded' = [p \in Pr |-> 0]

Retry ==
  /\ May("reset") /\ state \in {"in-review", "changes-requested"} /\ url # 0
  /\ TakeOver
  /\ state' = "in-review" /\ round' = round \cup {url}
  /\ UNCHANGED <<scenario, url, pr, notices, tasks, escalated, sweep, next,
                 mainCi, firstPass>>

Reset ==
  /\ May("reset") /\ state \in {"in-progress", "in-review", "changes-requested"}
  /\ TakeOver
  /\ state' = "in-progress" /\ coder < MaxTasks /\ coder' = coder + 1
  /\ UNCHANGED <<scenario, url, forgejo, recode, pushed, ci, escalated, sweep, next, mainCi, firstPass>>

Abandon ==
  /\ May("abandon") /\ state \notin {"done", "abandoned"}
  /\ ClearCaps(url) /\ recoded' = [p \in Pr |-> 0]
  /\ state' = "abandoned" /\ Advance
  /\ UNCHANGED <<scenario, url, forgejo, tasks, escalated, watch, flags, sweep, incidents,
                 mainCi, firstPass>>

\* The process dies with its tasks; lifespan starts a run for a story in
\* progress and a CI task for a merged one, and nothing for a recode.
Restart(st) ==
  /\ Incident
  /\ recode' = 0 /\ pushed' = 0 /\ sweep' = NoSweep
  /\ coder' = IF st = "in-progress" THEN 1 ELSE 0
  /\ IF st = "merged"
     THEN StartCi([t \in CiTask |-> Idle])
     ELSE ci' = [t \in CiTask |-> Idle]

Crash ==
  /\ May("crash") /\ Restart(state)
  /\ UNCHANGED <<scenario, state, url, forgejo, keys, next, history>>

\* Dies between update_state(in-review) and set_pr_url.
CrashInSuccess(p) ==
  /\ May("torn") /\ coder > 0 /\ CoderOpens(p)
  /\ state' = "in-review" /\ Restart("in-review")
  /\ pr' = [pr EXCEPT ![p] = "open"] /\ round' = round \cup {p}
  /\ UNCHANGED <<scenario, url, notices, keys, next, history>>

-----------------------------------------------------------------------------
CoderEnds == CoderParked \/ CoderNoChanges \/ \E p \in Pr : CoderSuccess(p)
GateActs(p) ==
  /\ pushed = 0 \/ May("late")
  /\ GateMerges(p) \/ RecodeForPr(p) \/ GateFindsNoStory(p)
CiStep(t) ==
  \/ CiReadsHead(t) \/ CiDies(t) \/ CiSeesOtherState(t) \/ CiPasses(t) \/ CiUnread(t)
  \/ CiFails(t) \/ CiWasCancelled(t) \/ CiRed(t)

Next ==
  \/ CoderEnds \/ RecodePushes \/ RecodeEnds \/ RecodeFails
  \/ \E p \in Pr : \/ GateActs(p) \/ HumanMerges(p) \/ HumanPushes(p) \/ Lose(p)
                    \/ ReviewRejects(p) \/ CrashInSuccess(p)
  \/ \E n \in notices : MergeNotice(n)
  \/ \E t \in CiTask : CiStep(t)
  \/ MarkMerged \/ WatchLook \/ WatchFetchFails \/ WatchAct
  \/ Retry \/ Reset \/ Abandon \/ Crash

Spec == Init /\ [][Next]_vars

\* Tasks end, the gate answers, notices that are not lost arrive, and the sweep
\* comes round every _WATCH_INTERVAL_SECS; people and incidents owe nothing.
Fairness ==
  /\ WF_vars(CoderEnds) /\ WF_vars(RecodePushes \/ RecodeFails) /\ WF_vars(RecodeEnds)
  /\ \A p \in Pr : WF_vars(GateActs(p))
  /\ \A n \in Pr \X {"webhook", "gate"} : WF_vars(MergeNotice(n))
  /\ \A t \in CiTask : WF_vars(CiStep(t))
  /\ WF_vars(WatchLook) /\ WF_vars(WatchAct)

FairSpec == Spec /\ Fairness

-----------------------------------------------------------------------------
(* What must hold.                                                         *)

NextStarts == next = "backlog" /\ next' # "backlog"

\* The next story of the plan starts only on a main whose CI was seen with all merges
\* of this one in it, and was green or cancelled for a newer merge, unless this story
\* was abandoned (_on_story_merged: "not unlocked until ... CI-verified main").
Verified == {"good", "superseded"}
NextNeedsGreenMain == [][NextStarts /\ state' # "abandoned" => mainCi' \in Verified]_vars

\* ... which is so, whatever is lost, crashes or is merged by hand, except that a main
\* whose status cannot be read counts as one without CI, and except where the check is
\* by-passed: a run that reports nothing to change counts as done, the watchdog takes
\* a merge for a success, and a story marked merged early, or sent round again by the
\* operator, a late or overtaken recode or a torn crash, is finished by the CI of a
\* main of before.
ByPass == {"noop", "watchdog", "mark", "reset", "late", "torn", "review"}
Accepted == IF May("outage") THEN Verified \cup {"unread"} ELSE Verified
NextNeedsGreenMainElse ==
  [][NextStarts /\ state' # "abandoned" /\ scenario \cap ByPass = {} => mainCi' \in Accepted]_vars

\* However often the watchdog clears the caps, a model is escalated or a task is
\* lost, the gate starts only so many recodes of a pull request before a human
\* acts (internal_recode_for_pr: "Capped per PR ... to break loops").  An attempt
\* of the watchdog that was under way when the operator took the story over is not
\* counted: it clears the caps once more.
MaxEscalations == IF May("escalate") THEN 1 ELSE 0
Uncounted == IF May("watchdog") /\ May("reset") THEN 1 ELSE 0
MaxAttempts == IF May("watchdog") THEN WatchAttemptCap + Uncounted ELSE 0
RecodesAreBounded ==
  \A p \in Pr : recoded[p] <= RecodeCap * (1 + MaxEscalations + MaxAttempts)

\* first_pass is never credited to a story the gate had recoded before it was
\* merged, in whichever order recodes, merges and notices come (_on_story_merged).
\* A recode that a human's review asked for is not marked and may be credited.
FirstPassIsHonest == ~May("review") => firstPass # "wrong"

\* A story whose pull request is merged does not rest half way: it gets done, or
\* a new pull request, or is put before the operator, although notices are lost,
\* the process dies and late tasks write over its state (_requeue_pr_verdicts,
\* _reconcile_merged_stories).  The one exception is a story at "merged" whose CI task
\* an outage has ended: is_story_stuck does not ask for that state, so that only a
\* restart or the operator takes it up.
Settled(p) ==
  state \in {"done", "abandoned", "changes-requested"} \/ "stuck" \in flags \/ url # p
Unwatched == May("outage") /\ state = "merged" /\ \A t \in CiTask : ci[t] = Idle
MergedStorySettles ==
  \A p \in Pr :
    (May("watchdog") \/ scenario \subseteq {"outage"}) /\ url = p /\ pr[p] = "merged"
      ~> Settled(p) \/ Unwatched

=============================================================================
