----------------------------- MODULE VerdictGate -----------------------------
(***************************************************************************)
(* The review of one pull request: the fan-out of verdict jobs over the RQ *)
(* workers (jobs/handlers.py, jobs/pr_jobs.py), the verdict store in Redis *)
(* where the last of the three jobs aggregates (reviewer/verdicts.py), and *)
(* the merge gate that the job which wins the aggregation lock then runs   *)
(* (reviewer/gate.py).                                                     *)
(*                                                                         *)
(* A step is one command to Redis or to Forgejo, since the jobs run in     *)
(* separate processes; the three GETs of try_collect_all and the DEL of    *)
(* _clear_verdicts are one step each.  A verdict is what the gate can tell *)
(* apart: "fail" or not (a warning passes the gate as a pass does), and    *)
(* the commit its job was sent to look at.  The gates security_signoff and *)
(* block_security_categories are on and auto_escalate is off, as by        *)
(* default.  A key's hour of life outlasts what is modelled: no key of the *)
(* store expires here.                                                     *)
(***************************************************************************)
EXTENDS Integers, Sequences

CONSTANTS
  Worker,           \* RQ workers on the agent-jobs queue
  MaxCommit,        \* bound on the commits of the pull request's branch
  RetryMax,         \* Retry(max=2, ...) of the verdict jobs
  RecodeCap,        \* _MAX_RECODE_RETRIES, or the stack's recode_cap
  WatchAttemptCap,  \* _WATCH_ATTEMPT_CAP
  Enabled           \* which of the circumstances below may happen

Circumstance ==
  { "fail",      \* a check fails
    "push",      \* somebody pushes to the branch, whatever is under way
    "reply",     \* somebody pushes once the gate has left the matter to people
    "behind",    \* the branch falls behind main and can be updated from it
    "refuse",    \* a job ends without a verdict: no slot, no credit
    "raise",     \* a job raises before it has a verdict
    "gate_raise",\* Forgejo fails the job that gates
    "hold",      \* the fan-out is rate limited, whole or in part
    "stall",     \* CI hangs past the gate's wait
    "unread",    \* Forgejo fails a status poll after the gate's grace, or CI has
                 \*   reported nothing by then
    "approval",  \* gate.pr_merge_approval may be on
    "overtake",  \* a whole gate passes between two Redis commands of a job
    "lost",      \* the web process is down: webhooks and calls to it are lost
    "kill",      \* a worker is killed, or RQ's job timeout fires
    "retry",   \* the operator retries a story once nothing is under way
    "watchdog" } \* the watchdog finds the story stuck in review

Role == {"code_review", "test_run", "security"}
Commit == 1..MaxCommit

ASSUME GateAssumption ==
  /\ MaxCommit \in Nat \ {0}
  /\ RetryMax \in Nat /\ RecodeCap \in Nat /\ WatchAttemptCap \in Nat
  /\ Enabled \subseteq Circumstance

VARIABLES
  head,      \* the pull request's head commit
  merged,    \* {} while it is open, {what the merge went by} afterwards
  verdict,   \* Redis pr_verdict:<pr>:<role>: the verdicts of a set of roles
  lock,      \* Redis pr_verdict:<pr>:aggregated
  awaiting,  \* Redis pr_merge_pending:<pr>
  retries,   \* Redis recode_retries:<pr>
  queue,     \* RQ's agent-jobs queue
  work,      \* what each worker is doing
  recodes,   \* recode tasks running in the web process
  attempts,  \* Redis watch_attempts:<story>, up to its cap
  gated      \* commits whose review summary was posted

pr    == <<head, merged>>
store == <<verdict, lock>>
story == <<recodes, attempts, retries>>
vars  == <<pr, store, awaiting, queue, work, story, gated>>

Verdict  == [status : {"ok", "fail"}, commit : Commit]
Verdicts == UNION {[R -> Verdict] : R \in SUBSET Role}
JobOf(kinds) == [kind : kinds, commit : Commit, tries : 0..RetryMax]
Job == JobOf(Role \cup {"pr_event", "merge"})

NoWork == [pc |-> "idle"]
Busy == { "working", "stored", "collected", "summary", "ci",
          "merge", "updated", "clear", "recode" }

\* What a gate knows of CI: nothing yet, the commit it saw green, or that no status
\* was there to be read.
Unread == MaxCommit + 1
CiSeen == 0..Unread
Work == [pc : Busy, job : JobOf(Role), all : Verdicts, ci : CiSeen]

\* Every handler keeps to the shapes of its keys, and the counters that gate a
\* retry stay within their caps.
TypeOK ==
  /\ head \in Commit
  /\ merged \subseteq [commit : Commit, all : Verdicts, ci : CiSeen, by : {"gate", "human"}]
  /\ verdict \in Verdicts
  /\ lock \in BOOLEAN /\ awaiting \in BOOLEAN
  /\ retries \in 0..RecodeCap
  /\ queue \in Seq(Job)
  /\ work \in [Worker -> {NoWork} \cup Work]
  /\ recodes \in Nat
  /\ attempts \in 0..WatchAttemptCap
  /\ gated \subseteq Commit

-----------------------------------------------------------------------------
(* Helpers. *)

NewJob(kind, c) == [kind |-> kind, commit |-> c, tries |-> 0]
JobIf(S, r, c) == IF r \in S THEN <<NewJob(r, c)>> ELSE <<>>
RoleJobs(S, c) ==
  JobIf(S, "code_review", c) \o JobIf(S, "test_run", c) \o JobIf(S, "security", c)

\* The webhook of a commit c: a pr_event job, unless it is lost.
Announce(c) ==
  \/ queue' = Append(queue, NewJob("pr_event", c))
  \/ "lost" \in Enabled /\ UNCHANGED queue

At(w, pc) == work[w].pc = pc
Goto(w, pc) == work' = [work EXCEPT ![w].pc = pc]
End(w) == work' = [work EXCEPT ![w] = NoWork]
AllIn == DOMAIN verdict = Role

\* No review, gate or recode is under way.
AllQuiet == queue = <<>> /\ recodes = 0 /\ \A w \in Worker : At(w, "idle")

FailingChecks(all) == {r \in {"code_review", "test_run"} : all[r].status = "fail"}
SecurityFails(all) == all["security"].status = "fail"

Init ==
  /\ head = 1 /\ merged = {}
  /\ verdict = <<>> /\ lock = FALSE
  /\ awaiting = FALSE
  /\ retries = 0 /\ recodes = 0 /\ attempts = 0
  /\ queue = <<NewJob("pr_event", 1)>>
  /\ work = [w \in Worker |-> NoWork]
  /\ gated = {}

-----------------------------------------------------------------------------
(* The fan-out and the jobs, up to the verdict store. *)

\* handle_pr_event: one job per role; some or none under a rate limit or a hold.
HandlePrEvent(w) ==
  /\ At(w, "idle") /\ queue # <<>>
  /\ Head(queue).kind = "pr_event"
  /\ \E S \in SUBSET Role :
       /\ S = Role \/ "hold" \in Enabled
       /\ queue' = Tail(queue) \o RoleJobs(S, Head(queue).commit)
  /\ UNCHANGED <<pr, store, awaiting, work, story, gated>>

\* A worker takes a verdict job and its role's slot, and runs the agent.
Take(w) ==
  /\ At(w, "idle") /\ queue # <<>>
  /\ Head(queue).kind \in Role
  /\ queue' = Tail(queue)
  /\ work' = [work EXCEPT ![w] = [pc |-> "working", job |-> Head(queue),
                                  all |-> <<>>, ci |-> 0]]
  /\ UNCHANGED <<pr, store, awaiting, story, gated>>

\* The job returns an error instead of a verdict; RQ counts that as finished.
EndWithoutVerdict(w) ==
  /\ "refuse" \in Enabled
  /\ At(w, "working")
  /\ End(w)
  /\ UNCHANGED <<pr, store, awaiting, queue, story, gated>>

\* (Mutant: RQ retries for as long as the job fails.)
RetryForever(j) == queue' = Append(queue, [j EXCEPT !.tries = @ + 1])

\* A job that fails goes back to RQ, which runs it a bounded number of times.
RetryOrDrop(j) ==
  \/ j.tries < RetryMax /\ queue' = Append(queue, [j EXCEPT !.tries = @ + 1])
  \/ j.tries >= RetryMax /\ UNCHANGED queue

\* The job raises, in its agent or in the gate.  The wrapper of the code reviewer
\* swallows it; the other two let RQ see it.
JobRaises(w) ==
  /\ \/ "raise" \in Enabled /\ At(w, "working")
     \/ "gate_raise" \in Enabled /\ work[w].pc \in {"summary", "ci"}
  /\ \/ work[w].job.kind = "code_review" /\ UNCHANGED queue
     \/ work[w].job.kind # "code_review" /\ RetryOrDrop(work[w].job)
  /\ End(w)
  /\ UNCHANGED <<pr, store, awaiting, story, gated>>

StoreVerdict(w) ==
  /\ At(w, "working")
  /\ \E st \in {"ok"} \cup ({"fail"} \cap Enabled) :
       verdict' = [r \in DOMAIN verdict \cup {work[w].job.kind} |->
                     IF r = work[w].job.kind
                     THEN [status |-> st, commit |-> work[w].job.commit]
                     ELSE verdict[r]]
  /\ Goto(w, "stored")
  /\ UNCHANGED <<pr, lock, awaiting, queue, story, gated>>

\* try_collect_all.
Collect(w) ==
  /\ At(w, "stored")
  /\ IF AllIn
     THEN work' = [work EXCEPT ![w].pc = "collected", ![w].all = verdict]
     ELSE End(w)
  /\ UNCHANGED <<pr, store, awaiting, queue, story, gated>>

\* (Mutant: SET instead of SETNX.)
ClaimAlways(w) ==
  /\ At(w, "collected")
  /\ lock' = TRUE /\ Goto(w, "summary")
  /\ UNCHANGED <<pr, verdict, awaiting, queue, story, gated>>

\* try_claim_aggregation: SETNX.
Claim(w) ==
  /\ At(w, "collected")
  /\ \/ ~lock /\ lock' = TRUE /\ Goto(w, "summary")
     \/ lock /\ End(w) /\ UNCHANGED lock
  /\ UNCHANGED <<pr, verdict, awaiting, queue, story, gated>>

-----------------------------------------------------------------------------
(* The gate. *)

\* The summary comment, then gates 0 to 2: failing checks are recoded, a failing
\* security scan blocks, a merge that needs approval waits for it.
ApplyGate(w) ==
  /\ At(w, "summary")
  /\ LET all == work[w].all
     IN /\ gated' = gated \cup {c \in Commit : \A r \in Role : all[r].commit = c}
        /\ \/ /\ FailingChecks(all) # {}
              /\ Goto(w, "clear")
              /\ UNCHANGED awaiting
           \/ /\ FailingChecks(all) = {} /\ SecurityFails(all)
              /\ End(w)
              /\ UNCHANGED awaiting
           \/ /\ FailingChecks(all) = {} /\ ~SecurityFails(all)
              /\ "approval" \in Enabled
              /\ awaiting' = TRUE
              /\ End(w)
           \/ /\ FailingChecks(all) = {} /\ ~SecurityFails(all)
              /\ Goto(w, "ci")
              /\ UNCHANGED awaiting
  /\ UNCHANGED <<pr, store, queue, story>>

\* Gate 3: the CI status of what is the head now.
CiGreen(w) ==
  /\ At(w, "ci")
  /\ work' = [work EXCEPT ![w].pc = "merge", ![w].ci = head]
  /\ UNCHANGED <<pr, store, awaiting, queue, story, gated>>

\* _wait_for_ci takes a failed fetch for an empty status, and an empty status after the
\* grace for a repository without CI: the gate passes, be CI pending or red.
CiUnread(w) ==
  /\ "unread" \in Enabled
  /\ At(w, "ci")
  /\ work' = [work EXCEPT ![w].pc = "merge", ![w].ci = Unread]
  /\ UNCHANGED <<pr, store, awaiting, queue, story, gated>>

CiRed(w) ==
  /\ At(w, "ci")
  /\ Goto(w, "clear")
  /\ UNCHANGED <<pr, store, awaiting, queue, story, gated>>

\* (Mutant: a CI that never finishes counts as no CI.)
CiStallPasses(w) ==
  /\ "stall" \in Enabled
  /\ At(w, "ci")
  /\ Goto(w, "merge")
  /\ UNCHANGED <<pr, store, awaiting, queue, story, gated>>

CiStall(w) ==
  /\ "stall" \in Enabled
  /\ At(w, "ci")
  /\ End(w)
  /\ UNCHANGED <<pr, store, awaiting, queue, story, gated>>

\* Gate 4: a branch behind main is updated from it, which is a new commit; a
\* branch in conflict is recoded.
UpdateBranch(w) ==
  /\ "behind" \in Enabled
  /\ At(w, "merge")
  /\ merged = {} /\ head < MaxCommit
  /\ head' = head + 1
  /\ Announce(head + 1)
  /\ Goto(w, "updated")
  /\ UNCHANGED <<merged, store, awaiting, story, gated>>

Conflict(w) ==
  /\ work[w].pc \in {"merge", "updated"}
  /\ merged = {}
  /\ Goto(w, "clear")
  /\ UNCHANGED <<pr, store, awaiting, queue, story, gated>>

\* merge_pr merges whatever the head is; an error is logged and nothing else.
AutoMerge(w) ==
  /\ work[w].pc \in {"merge", "updated"}
  /\ \/ /\ merged = {}
        /\ merged' = {[commit |-> head, all |-> work[w].all, ci |-> work[w].ci, by |-> "gate"]}
     \/ UNCHANGED merged
  /\ End(w)
  /\ UNCHANGED <<head, store, awaiting, queue, story, gated>>

\* Whether the store may be cleared under a job that has read it and has not
\* claimed the lock yet: nothing in the code forbids it, only time.
MayClear == "overtake" \in Enabled \/ \A v \in Worker : ~At(v, "collected")

\* (Mutant: only the lock is deleted.)
ClearLockOnly(w) ==
  /\ At(w, "clear") /\ MayClear
  /\ lock' = FALSE
  /\ Goto(w, "recode")
  /\ UNCHANGED <<pr, verdict, awaiting, queue, story, gated>>

\* (Mutant: only the verdicts are deleted.)
ClearVerdictsOnly(w) ==
  /\ At(w, "clear") /\ MayClear
  /\ verdict' = <<>>
  /\ Goto(w, "recode")
  /\ UNCHANGED <<pr, lock, awaiting, queue, story, gated>>

ClearVerdicts(w) ==
  /\ At(w, "clear") /\ MayClear
  /\ verdict' = <<>> /\ lock' = FALSE
  /\ Goto(w, "recode")
  /\ UNCHANGED <<pr, awaiting, queue, story, gated>>

\* The call to /internal/recode-for-pr: a recode starts while the cap lasts, and
\* the pull request is left to a human afterwards.
TriggerRecode(w) ==
  /\ At(w, "recode")
  /\ \/ /\ retries < RecodeCap
        /\ retries' = retries + 1 /\ recodes' = recodes + 1
     \/ /\ retries >= RecodeCap \/ "lost" \in Enabled
        /\ UNCHANGED <<retries, recodes>>
  /\ End(w)
  /\ UNCHANGED <<pr, store, awaiting, queue, attempts, gated>>

-----------------------------------------------------------------------------
(* The web process and the people. *)

\* The recode pushes a fix, by the coder's own user.
RecodePushes ==
  /\ recodes > 0
  /\ merged = {} /\ head < MaxCommit
  /\ head' = head + 1
  /\ Announce(head + 1)
  /\ recodes' = recodes - 1
  /\ UNCHANGED <<merged, store, awaiting, work, attempts, retries, gated>>

\* The recode fails or changes nothing: the pull request is left to a human.
RecodeGivesUp ==
  /\ recodes > 0
  /\ recodes' = recodes - 1
  /\ UNCHANGED <<pr, store, awaiting, queue, work, attempts, retries, gated>>

\* A human pushes: the webhook also resets the recode cap.
Push ==
  /\ "push" \in Enabled \/ ("reply" \in Enabled /\ AllQuiet)
  /\ merged = {} /\ head < MaxCommit
  /\ head' = head + 1
  /\ Announce(head + 1)
  /\ retries' = IF queue' = queue THEN retries ELSE 0
  /\ UNCHANGED <<merged, store, awaiting, work, recodes, attempts, gated>>

\* The watchdog re-runs the verdicts of the head, a bounded number of times.
Watchdog ==
  /\ "watchdog" \in Enabled
  /\ merged = {}
  /\ attempts < WatchAttemptCap
  /\ attempts' = attempts + 1
  /\ queue' = Append(queue, NewJob("pr_event", head))
  /\ retries' = 0
  /\ UNCHANGED <<pr, store, awaiting, work, recodes, gated>>

\* retry_item: the operator clears the caps and re-runs the verdicts, without
\* looking at whether the pull request is still open.
RetryItem ==
  /\ "retry" \in Enabled
  /\ AllQuiet
  /\ queue' = Append(queue, NewJob("pr_event", head))
  /\ retries' = 0 /\ attempts' = 0
  /\ UNCHANGED <<pr, store, awaiting, work, recodes, gated>>

\* The operator approves a merge that waits, and a job merges the head.
ApproveMerge ==
  /\ awaiting
  /\ awaiting' = FALSE
  /\ queue' = Append(queue, NewJob("merge", head))
  /\ UNCHANGED <<pr, store, work, story, gated>>

DoMerge(w) ==
  /\ At(w, "idle") /\ queue # <<>>
  /\ Head(queue).kind = "merge"
  /\ queue' = Tail(queue)
  /\ \/ /\ merged = {}
        /\ merged' = {[commit |-> head, all |-> <<>>, ci |-> 0, by |-> "human"]}
     \/ UNCHANGED merged
  /\ UNCHANGED <<head, store, awaiting, work, story, gated>>

-----------------------------------------------------------------------------
(* Faults. *)

\* The process of a job dies, or RQ's timeout for it fires, at any point.
Kill(w) ==
  /\ "kill" \in Enabled
  /\ ~At(w, "idle")
  /\ RetryOrDrop(work[w].job)
  /\ End(w)
  /\ UNCHANGED <<pr, store, awaiting, story, gated>>

Gating(w) == work[w].pc \in {"summary", "ci", "merge", "updated", "clear"}

-----------------------------------------------------------------------------
JobStep(w) ==
  \/ HandlePrEvent(w) \/ Take(w) \/ StoreVerdict(w) \/ Collect(w) \/ Claim(w)
  \/ ApplyGate(w) \/ CiGreen(w) \/ CiUnread(w) \/ CiRed(w) \/ CiStall(w)
  \/ Conflict(w) \/ AutoMerge(w) \/ ClearVerdicts(w) \/ TriggerRecode(w)
  \/ DoMerge(w)

Recode == RecodePushes \/ RecodeGivesUp

Next ==
  \/ \E w \in Worker : \/ JobStep(w) \/ UpdateBranch(w)
                       \/ EndWithoutVerdict(w) \/ JobRaises(w) \/ Kill(w)
  \/ Recode \/ Push \/ Watchdog \/ RetryItem \/ ApproveMerge

Spec == Init /\ [][Next]_vars

-----------------------------------------------------------------------------
(* Properties. *)

\* One worker at a time gates the pull request (verdicts.py: "the last one to
\* arrive ... wins the aggregation race"), from its claim until it has cleared
\* the store, whatever is pushed, re-run or killed meanwhile.
OneGate == \A v, w \in Worker : Gating(v) /\ Gating(w) => v = w

\* The verdicts a gate goes by are about one commit, the head, although three
\* jobs report them at different times and the store keeps no commit.
GateSeesHead ==
  \A w \in Worker : Gating(w) =>
    \A r \in Role : work[w].all[r].commit = head

\* A gate merges what it was about: the three verdicts it went by are good ones of the
\* very commit that is merged, and so is the CI status, unless there was none to read.
MergedWasReviewed ==
  \A m \in merged : m.by = "gate" =>
    /\ \A r \in Role : m.all[r].status = "ok" /\ m.all[r].commit = m.commit
    /\ m.ci = m.commit \/ ("unread" \in Enabled /\ m.ci = Unread)

\* README.md: "A PR auto-merges only when all three verdicts and CI are green".
MergedWasGreen == \A m \in merged : m.by = "gate" => m.ci = m.commit

\* No finished review is forgotten: when nothing is under way, a head that all
\* three roles have reported on has been through the gate (gate.py: "push a new
\* commit to re-run checks").
NoForgottenRound ==
  (AllQuiet /\ AllIn /\ \A r \in Role : verdict[r].commit = head) => head \in gated
=============================================================================
