# A TLA+ verification project for dev-agents

This directory holds TLA+ models of the agent pipeline in this repository, the TLC
configurations that check them, and theorems about them that TLAPS proves. It is kept beside
the code: every definition names the lines it models in `PROJECT.json` ("map").

## 1. The system

An operator submits an idea; a planner splits it into numbered stories; a Coding Agent turns
each story into a pull request; reviewer, tester and security jobs post verdicts; a gate merges
or sends the pull request back; CI on `main` confirms the merge and unlocks the next story.

| Part | Source | State | Operations |
|---|---|---|---|
| Web process | `event_bus/main.py` | asyncio tasks, the watchdog thread | HTTP handlers, `_run_coding_agent`, `_await_post_merge_ci`, sweep, `lifespan` |
| Work-item store | `event_bus/work_store.py` | SQLite `work_items`: state, sequence, parent, pr_url | `update_state`, `unlock_next_story`, each atomic under `_lock` |
| Coder slots | `main.py` 67-98, 384-389 | Redis `coder:in_flight` | acquire (INCR, DECR when over), release, reset at startup |
| Recovery keys | `main.py` 401-417, 1605-1644 | Redis `coder_errors`, `post_merge_fix`, `watch_attempts`, `stuck`, `recode_retries` | counted, cleared by reset/retry/watchdog |
| Verdict jobs | `jobs/handlers.py`, `jobs/pr_jobs.py` | RQ queue `agent-jobs`, three workers | fan-out, run one role, release slot, RQ retry |
| Role limits | `limits.py`, `worker.py` | Redis `concurrency:*`, `rate:*` | acquire, release, reconcile at each worker start |
| Verdict store and gate | `agents/reviewer/.../verdicts.py`, `gate.py` | Redis verdict keys per PR and role, the aggregation lock | post, collect, aggregate, gate, merge, recode |
| Breaker and budgets | `ratelimit.py`, `cost_guard.py`, `free_guard.py` | Redis cooldown and strike keys | trip, clear, hold |
| Planner | `main.py` 857-1335, `agents/planner` | ideas, pins, stories | approve, plan, import, resume, replay |
| Temporal workflow | `agents/temporal_worker` | workflow history | an alternative driver of the verdicts |

How they interact. The web process is one asyncio loop: a handler is atomic up to its next
`await`, and the only long await of a coder run is the `to_thread` call of the agent. Runs are
created with `create_task` and talk to each other only through the board and the slot counter;
the end of a run is also the only thing that looks at the queue of `ready` stories. The
watchdog sweep runs in a thread and interleaves with everything. Verdict jobs live in other
processes and reach the web process through Redis and two HTTP calls (`/internal/pr-merged`,
`/internal/recode-for-pr`). A crash of the web process kills its tasks and keeps SQLite and
Redis.

What is hard: claims taken back while their coder works; outcomes written without re-reading
the story; a queue that is polled by nobody; counters that must balance over every way out of a
run; two commits that a crash can separate; caps that recovery resets; messages sent once.
`PROJECT.json` "hazards" lists these with their lines.

What makes each part correct:

* fleet: the slot counter equals the runs that hold a slot and never exceeds the cap; a claim
  has a task; one coder per story; a queued story is dispatched; failures are parked in the end;
* sequencing: a started plan never has a story in backlog behind finished ones only;
* gate: a merge needs a complete set of verdicts of the current head; a complete set is acted on
  exactly once; nothing waits for ever;
* lifecycle: recodes are bounded; the next story waits for a main that CI has seen; a merged
  story does not rest half way;
* planning: a plan is neither doubled nor left with holes; nothing starts before its approval;
* coding agent: what a run has pushed is offered or taken up by the next one; only an outcome
  of a run ends a story;
* admission: slots come back by every way out of a job; limit and budget are passed by what was
  let in only; a model's pause ends and its reviews go on.

## 2. Plan

Order, the most important behaviour first.

1. **CoderFleet** with the abstract **SlotPool**.
2. **VerdictGate** — fan-out, jobs, verdict keys, aggregation lock, gate and its merge.
3. **StoryLifecycle** — merge notices, recodes, post-merge CI, the review half of the watchdog,
   operator.
4. **Planning** — approval, planner, import, resume, replay, the approval gate.
5. **CodingAgent** — runs over the branch of a story.
6. **Admission** — budgets, rate windows, breaker and role slots, at the grain of Redis commands
   (planned as RoleSlots and RateBreaker; one module, because refusals of the one are what the
   other counts).
7. The theorems of section 9: every invariant and every action property of the passing runs.
8. Left: pure algorithms (deletion guard, recode verdict texts, metrics) and the Temporal
   workflow; of the proofs, weaker conditions for the round theorems of the gate (`Orderly`) and
   for the wake-up of the fleet (`Quiet`).

All six modules are done and model-checked; each has its theorems in a module of its own
(`<Module>Proofs.tla`; CoderFleet's and VerdictGate's more demanding ones in `FleetRunProofs.tla`
and `VerdictRoundProofs.tla`, which extend the first). The modules declare no recursive
operator, name the assumption of their constants and have one action per operation, for this.

How the modules meet. Each sees its neighbours from outside, by the outcomes the neighbour's own
module allows: CoderFleet takes a run's outcome from CodingAgent (`Return`) and a plan's stories
from Planning (`Persist`); StoryLifecycle takes parking and retries from CoderFleet and merges,
failed rounds and lost rounds from VerdictGate; VerdictGate takes refused and dying jobs from
Admission. They are not composed into one state space, which would be out of TLC's reach.

## 3. CoderFleet

`CoderFleet.tla` models the web process as far as it runs coders.

| Variable | Code |
|---|---|
| `state` | `work_items.state` of each story |
| `aged` | stories whose `updated_at` is past `_STUCK_IN_PROGRESS_SECS` |
| `pending`, `running`, `dead` | tasks of `_run_coding_agent`: created; past the slot, agent at work; died without releasing |
| `slots` | `coder:in_flight` |
| `errors`, `fixes`, `watch`, `stuck` | the recovery keys |
| `breaker`, `capped` | the coder model is paused; the daily budget or free tier is spent |
| `recodes`, `late` | recode tasks at work on a story's pull request; a history: the stories one of them wrote after the review was over |
| `sweep` | the watchdog's snapshot, the part it has still to act on |
| `up` | the process is running |

One action per handler or atomic section. `Claim` is `update_state(in-progress)` with
`create_task`; `DispatchNextReady` is `_dispatch_next_ready`; `Start` is `_run_coding_agent` up
to its await (hold, slot taken, slot refused) and `Finish` its six ways out, each with its
recovery keys, the release of the slot and the dispatch. `Restart` is `lifespan`: slots to 0,
orphaned claims to `ready`, as many stories dispatched as there are slots. The `CrashIn...`
actions are crashes between two commits of one handler.

The pull request side, which StoryLifecycle details, is two actions. `ReviewMoves` finds a story
under review as `find_item_by_pr_url` does and sends it back, brings it to review again, or settles
it at a merge. `RecodeEnds` is the end of a recode task (main.py 1876-1882, 1821, 2179-2186): it
writes `in-review` or `changes-requested` without looking, whatever became of the story since.
The review half of the watchdog and the post-merge CI as tasks of their own are in StoryLifecycle.

`Enabled` names the circumstances a run allows (crash, torn, death, exception, hold, watchdog,
reset, stop, review, late), so a run can say under which of them its property holds; `late` is a
recode task that outlives the review of its story.

Abstractions: the agent's work is its outcome; the breaker and the budgets are flags that
change at will; keys' expiry (hours to a day) is left out; a plan's stories exist from the
start in `backlog`. A task that dies does so between taking its slot and its `try` block; a
failure of Redis or SQLite inside the later lines is not modelled.

`SlotPool.tla` is the promise of a concurrency cap: a set of holders that never outgrows a
capacity. `ImplementsSlotPool` states that the fleet implements it, with the runs that hold a
slot as holders.

### Runs

`MCCoderFleet.tla` gives the boards: project `pa` with stories 1..3 and project `pb`.

| Run | Circumstances | Checks |
|---|---|---|
| `fleet_recovery` | crash, torn, death, hold, watchdog, review, stop | `TypeOK`, `ClaimHasTask`, `SlotsCountRuns`, `ImplementsSlotPool` |
| `fleet_sequence` | crash, exception, stop, review, late | `NoStalledPlan`, `NoDoublePickup`, `DoneIsFinal` |
| `fleet_wakeup` | exception, reset, review, stop, late | `ReadyHasWaker` |
| `fleet_settles` | review, late, with fairness | `QueuedStorySettles` |
| `fleet_dead_claim` | death, watchdog, with fairness | `DeadClaimIsNoticed` |

`NoDoublePickup` and `DoneIsFinal` except the stories that a late recode wrote, and nothing else:
no coder's run, dispatch, button or restart takes a story out of done. `fleet_sequence` leaves out
the fix runs after a red post-merge CI (their cap is 0 there), which `fleet_settles` has and the
theorems cover.

Bounds. `Run` bounds the simultaneous runs of one story: two are enough for the double runs
that reset and the watchdog cause (a third adds no new pair). Two or three stories give a chain
with a middle; the second project is there where the queue's order across projects matters.
Caps are 1 or 2 so that every counter reaches its cap; `MaxCoders` is 1 where refusals matter
and 2 where coders must work side by side. The runs of one story are interchangeable, hence the
symmetry of `Run` in the safety runs; liveness runs use none.

Fairness (`FairSpec`): created tasks are scheduled by the loop; agent runs end because the
subprocess has a timeout; the watchdog loop survives its own exceptions and sweeps every 150
seconds; time passes. Nothing is assumed of the operator, of reviews, of holds or of crashes.

### What does not hold

Four configurations are kept beside the runs; `tlc -config <name>.cfg MCCoderFleet` reproduces
each counterexample.

* `fleet_revived` (review, late) violates `DoneIsDone`: a recode that ends after the merge moves a
  done story back to review (main.py 2181), although a test calls done the "CI-verified terminal
  state" (src/event-bus/tests/test_pipeline_integration.py:113). The watchdog, which then finds the
  pull request merged, marks it done once more and unlocks once more (main.py 295-299).
* `fleet_double_pickup` (watchdog) violates `NoDoublePickup`: the sweep (main.py 348) takes age
  for death, so a slow coder's story is coded twice. PRD.md:59 says an agent "atomically
  transitions a work item ... before working, to prevent double-pickup".
* `fleet_held` (hold, with fairness) violates `HeldStoryResumes`: a hold (main.py 1541) returns
  the story to a queue nobody polls; when the hold ends nothing dispatches it. The comment at
  main.py 1536 says "leave the story ready and come back when the breaker clears".
* `fleet_torn` (crash, torn) violates `NoStalledPlan`: a crash between `update_state(done)` and
  `unlock_next_story` (main.py 1652) cuts the plan, and no startup step repairs it. README.md:232
  says "Stopping mid-run is safe".

Other divergences seen while modelling; the first three can be reproduced by the named change
of a configuration:

* add `"watchdog"` and `"death"` to `fleet_wakeup`: a claim taken back from a dead task stays
  `ready` although `main.py:350` expects "the slot-release chain" to dispatch it;
* add `"crash"` to `fleet_wakeup`: a restart that finds no claim to reclaim dispatches nothing;
* add `"exception"` to `fleet_settles`: a run that raises is retried for ever, uncounted;
* a story abandoned while its coder works is moved on by the end of the run;
* abandoning a story of a plan held at the approval gate unlocks and dispatches the next one,
  and `approve-plan` then answers "plan already started".

## 4. VerdictGate

`VerdictGate.tla` models the review of one pull request: the three verdict jobs run by the RQ
workers in processes of their own, the verdict store in Redis, and the merge gate that the job
which completes a round runs.

| Variable | Code |
|---|---|
| `head`, `merged` | the pull request in Forgejo: its head commit; what a merge went by |
| `verdict` | `pr_verdict:<pr>:<role>`, a partial function from roles |
| `lock` | `pr_verdict:<pr>:aggregated` |
| `awaiting` | `pr_merge_pending:<pr>` |
| `queue` | the RQ queue `agent-jobs`, `pr_event` and `merge` jobs included |
| `work` | per worker: where its job is, the verdicts it collected, the commit whose CI it saw |
| `retries`, `attempts`, `recodes` | `recode_retries:<pr>`, `watch_attempts:<story>`, recode tasks of the web process |
| `gated` | a history of the commits whose round went through the gate |

A step is one command to Redis or Forgejo. A job goes `working` → `stored` (`store_verdict`) →
`collected` (`try_collect_all`) → `summary` (`try_claim_aggregation` won) → `ci` (`apply_gate`'s
gates 0 to 2 passed) → `merge` (`_ci_gate` passed) → `updated` (`_mergeability_gate` updated the
branch) → merged; a failing check, a red CI or a conflict leads through `clear`
(`_clear_verdicts`) and `recode` (`_trigger_recode`) instead, and the other outcomes end the job
with the lock held. `HandlePrEvent` is the fan-out, `DoMerge` the job an approval enqueues,
`RetryItem` and `Watchdog` the two re-runs of verdicts, `Kill` and `JobRaises` with
`RetryOrDrop` what RQ does about jobs that die or raise.

Each verdict carries the commit its job was sent to look at, which the code's verdicts do not: the
properties need it to say which commit a merge was reviewed at. The CI a gate went by is the
commit whose status it read as green, or `Unread`: `_wait_for_ci` answers a fetch that failed with
an empty status (gate.py 222-224), which after the grace is "none" (233-234), and `_ci_gate` lets
"none" pass (259); `CiUnread` is this step, under the circumstance `unread`. A warning is `"ok"`
since every gate treats it as a pass, and a blocking category is a failing scan.

Left out: the hour of life of the keys; the gates' configuration other than
`pr_merge_approval`; `auto_escalate`, off by default; the story's state; interruptions inside
the three GETs and inside `_clear_verdicts`. `overtake` says whether a whole gate may pass
between a job's GETs and its SETNX: nothing but time forbids it.

| Run | Circumstances | Checks |
|---|---|---|
| `gate_rounds` | fail, refuse, raise, hold, stall, approval, lost, unread | `GateSeesHead`, `MergedWasReviewed`, `NoForgottenRound` |
| `gate_storm` | push, behind, gate_raise, kill, watchdog, retry, overtake | `TypeOK`, `OneGate` |

`MergedWasReviewed` says of every merge of the gate that all three verdicts were passes about the
commit that was merged, and that CI was read as green on it or, with `unread`, not read because
the fetch failed. A hanging CI never passes.

Bounds. Three workers in `gate_rounds`, as many as roles, so that all jobs of a round race;
two in `gate_storm`, enough for two gates at once. Three commits give a round after a round
after a round (a stale key can meet fresh ones twice), with a recode cap of two for as many
recodes. One retry and one watchdog attempt reach their caps. Workers are interchangeable, hence
the symmetry. The configurations allow deadlock because a pull request that is merged, or left
to people, has nothing more to do. No fairness is assumed: all these properties are about
safety.

Three configurations kept beside the runs (`tlc -config <name>.cfg MCVerdictGate`) show what does
not hold:

* `gate_unread` (unread) violates `MergedWasGreen`: one failed fetch of the CI status after the
  grace merges a pull request whose CI is pending or red, whereas README.md:103 says "A PR
  auto-merges only when all three verdicts and CI are green".
* `gate_wedged` (fail, reply) violates `NoForgottenRound`: a security failure ends the gate with
  verdicts and lock in place (gate.py 138). The push that answers it is reviewed in full and
  nobody can claim the lock; an hour later the key expires and still nothing looks. gate.py:133
  tells the author "push a new commit to re-run checks". A CI timeout, a merge error and a
  comment that Forgejo refuses leave the same state.
* `gate_unreviewed` (push) violates `MergedWasReviewed`: `merge_pr` names no commit (gate.py
  336), so what is pushed between the last verdict or the CI poll and the merge goes in
  unreviewed, whereas README.md:103 says "A PR auto-merges only when all three verdicts and CI
  are green".

Three more, to be reproduced by the named change of `gate_rounds`: with `"behind"`, the gate's
own update of the branch (gate.py 313-317) makes a commit that it merges without another round
(`MergedWasReviewed`); with `"retry"` or
`"watchdog"`, a job of a half-done fan-out reports after the gate has cleared and its verdict
counts for the next commit (`GateSeesHead`); with `"gate_raise"` or `"kill"`, a round is
forgotten (`NoForgottenRound`).

## 5. StoryLifecycle

`StoryLifecycle.tla` follows one story from its coder's run to done: its pull requests, the
notices of a merge, recode tasks, post-merge CI tasks, the watchdog's review half and the
operator.

| Variable | Code |
|---|---|
| `state`, `url` | `work_items.state`, `pr_url` |
| `pr`, `round` | Forgejo's pull requests; the ones whose verdicts are on their way |
| `notices` | merge notices under way: Forgejo's webhook and the gate's own call |
| `coder`, `recode`, `pushed`, `ci` | live tasks of the web process; a CI task with the step it awaits and the main it looks at |
| `retries`, `escalated`, `fixes`, `watch`, `flags` | `recode_retries`, `escalate_pr`, `post_merge_fix`, `watch_attempts`, `stuck` and `story_reworked` |
| `sweep` | what the watchdog has fetched and not yet acted on |
| `next` | the state of the story that follows |
| `mainCi`, `recoded`, `firstPass` | histories for the properties |

A CI task takes three awaits (`_get_branch_head`, `_poll_commit_ci`, `_ci_cancelled`), each a step
of its own. In an outage the first may raise, outside any try, and the task is gone (`CiDies`);
the second may get no answer until its grace is over, which counts as no CI, and the story is done
on a main that nobody has read (`CiUnread`). `mainCi` records what was learned of main: good, bad,
superseded (a cancelled run), or unread; the sweep fetches the pull request (`WatchLook`) and acts
on the answer later (`WatchAct`). A recode pushes before it writes `in-review` (`RecodePushes`,
`RecodeEnds`).

`RecodesAreBounded` counts the recodes of one pull request that the gate starts before a human
acts. The caps are cleared by an escalation (once) and by each attempt of the watchdog; an attempt
that is under way when the operator's Retry clears the watchdog's own count is not counted
(main.py 330, `_clear_watchdog_state`), hence `Uncounted`.

`lifecycle` checks its five properties over fourteen scenarios, chosen in `Init`: calm weather,
and the storms whose parts act on each other. Bounds: two pull requests (the second is the
post-merge fix's), one task of a kind and two CI tasks (a notice that comes twice), every cap at
1, one incident. Fairness: tasks end, the gate answers, notices that are not lost arrive, the
sweep comes round; nothing is owed by people or incidents.

`NextNeedsGreenMainElse` names the circumstances in which a check is by-passed in the code, and
in an outage allows a main whose status could not be read; a main found red, or not asked for, never
lets the next story start. `lifecycle_unread.cfg`, kept beside the
run, shows `NextNeedsGreenMain` violated in an outage, against main.py 2035-2036: "The
next story is NOT unlocked until this one reaches 'done' (CI-verified main)". `MergedStorySettles`
says that a story with a merged pull request becomes done, goes back to work or is handed to a
human, except that after `CiDies` it stays merged without anybody who looks: `is_story_stuck`
(main.py 209-217) knows in-progress and the two review states only, so the watchdog never picks it
up, and only the next restart looks at its main again (`_reconcile_merged_stories`).

In each of the by-passed circumstances TLC finds a next story started on a main that no CI has
seen green. The ones worth knowing: a run that reports nothing to change is taken for done without
looking at main (main.py 1645-1653, while `_on_story_merged` says the next story is not unlocked
until done is "CI-verified main"); the watchdog takes a merged pull request for a success, the one
of a parked post-merge failure included; `mark-merged` and a late recode start a CI task that
looks at the main of before; a crash between `in-review` and `set_pr_url` leaves a pull request
nobody finds. A recode that a human's review asked for is not marked as rework, so `first_pass`
may be credited (main.py 2041).

## 6. Planning

`Planning.tla` models one project from idea to started plan: the approval, the background tasks
`_run_planner`, `_run_import` and `_resume_import` across their two awaits, the passes of the
decomposer, what is stored, and the approval gate.

| Variable | Code |
|---|---|
| `idea`, `asked` | the idea's state; approvals between their check and their write |
| `task` | the tasks with what they read before their await: covered epics, offset, stored epics |
| `stories` | the story rows: epic, part of the plan, sequence, state |
| `known`, `replay` | Redis `import:epics:<idea>`, `plan_replay:<idea>` |
| `repo` | the repository and its scaffold |
| `released`, `filled`, `blind` | histories: the plan was approved; a resume ended without failure; a resume met stories and had no list of their epics |

Pass 1 is not deterministic (main.py 1261-1263, decomposer.py 605-608). A resume that has the
stored list works by its names; without one (`known` empty: the import was cut off before it kept
its list, the stories come from a replay or another resume, or Redis lost or refused the list, the
circumstance `redis`) pass 1 may call any of the covered epics by a new name (`Renamed`), and
those match nothing in `skip_epics` (`Matched`). What their epic is *about* stays the same, which is
what the model's epic numbers stand for, so a renamed one is written a second time.

`resume_import` (main.py 1318-1337) asks neither whether the idea was approved nor whether its
repository was provisioned; a resume of an idea that has no plan of its own is the circumstance
`astray`.

Abstractions: the pasted plan has `Epics` epics of one story each; a model's failure for an epic,
or stories it wrote that are dropped as empty, are an epic without its story; the critic adds at
most one story.

What a plan lists is the set of its parts in the order of `Before`, epic by epic, so that what a
pass yields is a choice of epics and the order follows from it.

`planning` checks seven properties over fourteen scenarios: calm weather and gate, failing epics,
critic, outage, dropped stories, crashes also in the middle of storing a plan, second presses,
withdrawal, approval during a resume, single abandons, budget and Forgejo failures, resumes
of an idea without a plan of its own, a lost list of epics. Three epics
give a hole in the middle; two tasks race; five stories hold a plan and what a resume adds.
Fairness: handlers and threads end, coders end; nothing is owed by the operator.

`PlanHasNoDuplicates` says that numbers are never given twice, and that no part of the plan is
stored twice unless a resume was `blind`. `planning_renamed.cfg`, kept beside the run, shows the
exception
(`NothingWrittenTwice` violated): the import dies before it has kept its list, stories are stored
by a replay or a resume, and the next resume writes them again, against `resume_import`'s "Safe to
call repeatedly".

Properties name the circumstances in which the code breaks them: two approvals or two resumes
(`twice`) create the stories twice; the fallback of an import whose pass 1 failed stores the
project as its only epic, so a resume covers nothing and may append the fallback again
(`outage`); a story the critic added makes a failed epic "covered" (`critic`,
`ResumeCompletesPlan`, against the docstring of `resume_import`: "until the plan is complete");
stories appended after the plan was approved are stranded (`early`); an import all of whose
stories are dropped by `_finalize_stories` ends without a plan although "single-story fallback so
work still moves" is the intent (`drop`; `decompose_idea` falls back a second time,
`normalize_plan` does not); a crash leaves an approved idea without plan, and a repository without
scaffold is never repaired; a replay that ends over budget has provisioned nothing, and a resume of
the same idea then stores stories for a repository that is not there (`budget`, main.py 1315), as
does a resume of an idea nobody approved (`astray`).

`planning_cancelled.cfg`, kept beside the runs, shows `NoWorkForWithdrawn` violated: an idea that
is cancelled while its planner runs gets and starts its plan, whereas `cancel_idea` says "Stop a
whole idea".

## 7. CodingAgent

`CodingAgent.tla` models the runs on a story's branch: `run_coding_agent` and `fix_pr_review` from
clone to pull request, Forgejo's branch, main and pull request, and how the result reaches the
server from a container.

| Variable | Code |
|---|---|
| `main`, `branch`, `pr` | Forgejo; a branch is the set of its commits |
| `story`, `up` | the story as the server sees it; the web process is running |
| `run` | per run: its step, working tree, `origin/<branch>` of its clone, uncommitted work, a merge in progress, test attempts, result; whether it `missed` a branch or a pull request that is there, whether the server still hears it, and whether another run was alive beside it |
| `made` | commits so far, a bound |

A push succeeds when the remote's commits are all in the pushed tree; a merge is a union. `Told`
is the order in which the server reads result file, result line and exit status; `Restart`
removes leftover containers before the story is taken back.

`remote_branch_exists` does not tell a failed `ls-remote` from a missing branch (git_ops.py 72-78):
`Checkout` then starts from main beside what is on the branch, and the push is refused.
`find_open_pr` reads one page of 50 and may miss a pull request in a crowd. Other git and Forgejo
calls that fail end the run with an error (`ApiFails`).

`agent` checks six properties over eleven scenarios with two runs and three commits: crash (also
with containers that cannot be removed), second dispatch, failures, refused calls, nothing to do,
conflicts, a merge under a run, killed containers, lost results, repositories without
`.gitignore`, a crowd of pull requests. Fairness: a run's steps happen, since opencode and the
tests are killed after a timeout. git's own subprocesses have none; the model assumes they end.

`AloneIsNeverRefusedElse` says that a refused run missed something, as above, or had company;
`agent_misled.cfg`, kept beside the run, shows a lone run misled by one failed `ls-remote`
(`AloneIsNeverRefused` violated), against the docstring of `create_or_checkout_branch`: "so new
work builds on top of it and the push fast-forwards".

Divergences: `agent_forgotten.cfg`, kept beside the runs, shows `NoForgottenWork` violated: a run
cut off between push and pull request leaves its commits on the branch, the next attempt finds
nothing to do, and the story is done without them (main.py 1646: "Agent ran and genuinely found
nothing to implement"). A container that exits with 0 and whose two result channels are lost is
"no changes", thus done. Where no `.gitignore` exists, writing one turns an empty run into a
success. A conflict resolved to HEAD leaves the merge unconcluded. An error in a test retry
throws away the first attempt. A run misled by a failed `ls-remote` that finds nothing to change
ends its story as done with the branch unmerged; `NoForgottenWorkElse` excludes refused calls by
name.

## 8. Admission

`Admission.tla` models what stands between a pull request and the calls of its verdict jobs: the
daily budget, the rate windows, the breaker of the model and the slots of the roles, over several
RQ workers, with the coder and the watchdog as far as they use them.

| Variable | Code |
|---|---|
| `limit`, `slots`, `life` | `max_concurrent_<role>`; `limits:concurrency:<role>` and its TTL in ticks |
| `round` | the last review round announced for each pull request |
| `event`, `job`, `judged` | `pr_event` jobs and verdict jobs, of a round each; verdicts had |
| `worker` | each worker: idle, at a job's step, killed |
| `attempts`, `flagged` | `watch_attempts`, `stuck` |
| `provider`, `breaker` | whether the provider answers 429; `ratelimited:` and `rl_strikes:` |
| `coder`, `calls`, `window` | a coder on the same model; the day's spend; the rate windows |
| `leaked`, `excused` | histories: slots of killed jobs; rounds lost to something else than a 429 |

A step is one Redis command (INCR, the DECR of a refusal, the DECR of a release, the floor at 0),
so that workers interleave between them. A slot counter is bounded below by the releases still
owed after a reset, since a DECR comes before its floor (`SlotRange`). Time passes in ticks that
keep the order of the numbers: a pause is shorter than the memory of its streak. One model serves
reviewer and coder; the scanner is as the tester, except that it asks no model. A verdict job asks
once or, when its tests need no summary or it dies first, not at all (`MayAsk`).

Rounds of one pull request may be alive side by side: a push announces one (`Push`), and so does
the watchdog (`Sweep`), which goes by the story's age alone (main.py 209-217, 300-349) and asks
neither for queued events nor for running jobs. `Lost` says that a round is over without all its
verdicts; it is used for fairness (such a story does grow old enough to be swept) and for the
history `excused`, not as a guard. The operator's Retry, which clears the attempts, is in
StoryLifecycle. The free-tier guard is the same check over calls.

`admission` checks seven properties over ten scenarios with two workers, one pull request with up
to three rounds side by side and one slot per role: as many jobs as make a refusal, a floor and a
reset fall between each other's steps; several pull requests differ from several rounds of one in
their attempts and verdicts only. One fault per behaviour; one watchdog attempt; pauses of one and
two ticks. Fairness: workers work and come back (`restart: unless-stopped`), the sweep comes
round, limits lift, time passes.

`OvershootIsSettled` is what the day's cap promises: from the call that reaches it on, no
announcement lets anything in, so that calls made and calls let in only go down together. A
round that was let in before may still be made, and with the rounds of pushes and sweeps there may
be several; how many is bounded by nothing but the queue. A job that RQ runs again after it raised
asks once more, without a check (`TriesAgain`, excepted). An unreadable spend lets everything in.

`admission_unarmed` expects a violation of `PausedNotStuck`: the reviewer's 429 is an exception,
`run_code_reviewer` answers every exception with status "error" and without its text, so verdict
jobs never arm the breaker (pr_jobs.py 94: "a 429 arms it"), the sweep does not see a pause, and
the story is given up as stuck, whereas ratelimit.py says the watchdog treats such stories as
"paused", not "stuck".

Further divergences: `retry_after` is passed by no caller; any pass or fail clears the model's
breaker, also one of a role that did not ask the model, or of a call made before the trip; a
coder in a container returns its 429 as a result and trips nothing; a refused attempt renews the
TTL of a leaked slot, so under steady traffic the "safety TTL" (limits.py 44) never comes; the
start of any worker resets counters under the others (`LimitHolds` excludes it), and their
releases then meet the floor; the DECR of a refusal has no floor; a limit switched off and on
undercounts; contention alone can use up the watchdog's attempts; an unreadable spend counts as
0.

## 9. Proofs

TLAPS checks, for every value of the constants that satisfies a module's named assumption
(`FleetAssumption`, `GateAssumption`, ...) and with all circumstances possible at once unless a
theorem says otherwise, every invariant and every action property of the passing runs, and that
the fleet implements its abstract pool. The assumptions say that bounds and caps are numbers
(positive where the code compares with at least one), sets are finite where they are counted, and
the circumstances are known ones. A property that names circumstances in which the code breaks it
is proved as it stands. In each module the theorems rest on `TypeCorrect`, whose `TypeOK` is
inductive (in CodingAgent with `AnswerGiven`, in Planning as part of `Shaped`).

### CoderFleet: `CoderFleetProofs`, `FleetRunProofs`

* `SlotAccounting`, `FleetImplementsSlotPool` — from `SlotInv`: the counter is the number of
  holders, holders never outnumber the cap, no run is in two phases, a dead process has no
  tasks. The counter alone is not inductive: that a release finds its run among the holders, and
  that a restart's reset to 0 is right, need the last two parts. `StepEffect` first reduces the
  actions to seven effects on tasks and slots, so that both theorems argue over those only.
* `ClaimsHaveTasks` — `ClaimHasTask` with `SlotInv`: a board is "backed" by a set of tasks, and
  claim, dispatch, put and end of run each keep it backed.
* `PlansNeverStall` — when no crash falls between two writes of one handler, and under
  `SequenceAssumption` (the stories of a plan have distinct numbers, as `_persist_plan` gives
  them), `NoStalledPlan` is inductive by itself; the step that matters is `UnlockFlows`, where the
  least-number principle gives the unlocked story and distinct numbers put it ahead of any other.
* `OneCoderEach`, `DoneStaysDone` — without the two steps that take a claim back under its coder
  (`reset`, `watchdog`; `fleet_double_pickup` shows why), with recodes that end as late as they
  like. `NoDoublePickup` is not inductive: a run that ends must not free a story for another.
  `OneRunEach` says that a live run has its story to itself *and* that the board shows the story
  as held.
* `QueueIsWoken` — under `Quiet` (no holds, deaths, restarts, sweeps): a step that queues a story
  either leaves a live run or dispatches the queue itself.

### VerdictGate: `VerdictGateProofs`, `VerdictRoundProofs`

* `GateIsExclusive` — from `GateInv`, which adds to `OneGate` that whoever is at the gate holds
  the lock: a claim then finds nobody there, and the clear frees the lock as its worker leaves.
  Both are needed although nobody but the gate frees the lock, because a killed gate leaves the
  lock behind and the reverse implication is false.
* `GateGoesByHead`, `MergesAreReviewed`, `RoundsAreFinished` — under `Orderly`, a condition on the
  constant `Enabled`: nobody pushes, re-runs or kills beside the round under way (what
  `gate_rounds` checks; section 4 says what happens otherwise). Failing checks, refused and held
  jobs, jobs that raise and that RQ runs again, hanging CI, approvals and lost webhooks are all
  in, and so is a status that cannot be read, which `MergesAreReviewed` states as its exception.
  The store keeps no commit, so the head can only be known from what `RoundInv` counts: each role
  has at most one job over queue and workers, or a verdict in the store, and never both
  (`OneJobEach`); all of them are of the head (`OfTheHead`); a recode is alive only when the round
  is over and its store empty (`OneRecode`), and it is the only thing that moves the head.
  `Attended` says that a full store is on its way to the gate or has been there.

### StoryLifecycle: `StoryLifecycleProofs`

* `CreditIsHonest` — that nothing is credited by mistake is not inductive; `Marked` adds that a
  story the gate recoded bears the mark until it is merged.
* `RecodesStayBounded` — a count between two acts of a human is not inductive, because an attempt
  of the watchdog is counted when it looks and clears when it acts. `CapInv` is a budget:
  what has been recoded is at most what the cap holds now plus a full cap for each clearing already
  spent, where a pending attempt is not yet spent (`Covered`, `Base`, `Attempts`, `Pending`). It
  needs that only one pull request is open and that the gate recodes no other (`OneOpen`, `NotYet`).
* `NextWaitsForMain` — while no by-pass is possible and the next story waits (`Calm`), at most one
  actor has the story (`OneActor`) and at most one CI task looks at main, as it is after every
  merge (`OneCi`): a merge, a recode or a coder then cannot make what CI has seen old. CI
  tasks may die and statuses stay unread; that the next story then starts on an unread main is part
  of the statement, that it starts on a red one is excluded.

### Planning: `PlanningProofs`

* The lemmas at its start say what the operators of the model return for every number of epics:
  `InOrder` lists a set of parts without repetition and completely (`InOrderLists`), what the
  decomposer's passes may yield (`DecomposedPlans`, `NormalizedPlans`), what storing a plan and
  moving a story do to the board (`PersistAppends`, `FinishMoves`).
* `TypeCorrect` — numbers are bounded by the stories on the board, which is inductive only with
  the offsets that resumes have noted; a deleted project's may be older (`Base`).
* `GateHolds` — `NothingStartsUnapproved` is inductive over `Shaped`.
* `CodersFindScaffold` — a repository is there only with its scaffold, a task that waits for its
  model and a resume come after the provisioning, and an approved idea without it has a task that
  will provision (`Scaffolded`).
* `NoStoryTwice` — from `Patient`: an operator who waits has one approval or one task under way, a
  plan is made for an empty board only, and a resume that asks the model knows each story's epic and
  no number above its offset. Numbers are then never given twice, whatever pass 1 calls the epics;
  and unless a resume was blind, what comes back is disjoint from the board.
* `BacklogIsReached` — from `Patient` and `InFront`: done stories, then one that is being coded,
  then those that wait, and no resume under way unless all wait; what `NextUp` unlocks is then
  exactly the next in line (`NextIsBehind`).
* `ResumeCompletes` — does not use `Patient`: tasks may overlap. There is one import, which notes
  the plan's epics or the whole project (`OneImport`); what a resume leaves out stays on the board
  (`SkipsStand`); so what it adds, when no call fails, is all that was missing (`Full`).

### CodingAgent: `CodingAgentProofs`

* `OutcomesEndStories` — an action property, from the type invariant.
* `FixKeepsUp` — `FixFits` follows main as it was cloned from the merge to the push, through the
  conflict that the agent may leave unconcluded.
* `AloneIsNotRefused` — a run that never had company and missed nothing has the whole branch in
  its tree (`AloneFits`); where nothing is dispatched twice and no container outlives a restart,
  none ever has company (`OneAtATime`).
* `NoWorkForgotten` — where no attempt is cut off, a branch with commits of its own has an open
  pull request whenever no run is between push and pull request (`Published`).

### Admission: `AdmissionProofs`

* `SlotsReturn` — a counter never exceeds those who count for it (`Returned`), one-sided because a
  reset lets it fall short.
* `LimitIsKept` — the other side, `CountsCover`, where no reset or retuning intervenes. A counter
  may stand above the limit between an INCR and its DECR; holders may not.
* `OvershootIsLimited` — for each step past the cap: calls made plus calls let in do not grow. It
  needs that a running job has one worker, which takes it away as it asks (`JobsFit`,
  `EndedLeaves`), and that only a fan-out lets jobs in (`NoNewJobs`). Nothing is assumed of how
  many rounds a pull request has alive.
* `StreakOutlives` — inductive by itself.

### Only model-checked

The liveness properties, which no installed prover reaches: `QueuedStorySettles`,
`DeadClaimIsNoticed`, `MergedStorySettles`, `ApprovedGetsPlan`, `RunsEnd`, `LeaksEnd`,
`ReviewsSettle`; and the counterexamples.

## 10. Not modelled

Listed with reasons in `PROJECT.json` "components": authentication, static UI, infrastructure,
the idea agent and what the agents' models answer (I/O whose outcome enters the models as a
choice), configuration, reference data and telemetry that no decision depends on, the offline
experiments, and the Temporal workflow, which the plan still has.
