----------------------------- MODULE CoderFleet -----------------------------
(***************************************************************************)
(* The coder fleet of the web process (event_bus/main.py): the stories on  *)
(* the board, the asyncio tasks that run the Coding Agent for them, the    *)
(* slot counter that caps those tasks, the watchdog thread that takes back *)
(* a claim it thinks dead, the operator's recovery buttons, and the        *)
(* restart that reclaims what a dead process left behind.                  *)
(*                                                                         *)
(* The web process is one asyncio loop, so a handler is atomic up to its   *)
(* next await; the only await of _run_coding_agent is the to_thread call   *)
(* that runs the agent.  A run is therefore pending (its task is created), *)
(* running (its slot is taken, the agent works) or over.  The watchdog     *)
(* sweep runs in a thread of its own and interleaves with all of it.       *)
(***************************************************************************)
EXTENDS Integers, FiniteSets

CONSTANTS
  Story, Project,
  ProjectOf,        \* work_items.parent_id
  SequenceOf,       \* work_items.sequence
  CreatedAt,        \* work_items.created_at, as a rank
  Run,              \* identities of the runs of one story: bounds how many
                    \*   runs of one story may be alive at a time
  MaxCoders,        \* settings.max_coding_agents
  CoderErrorCap,    \* _CODER_ERROR_CAP
  WatchAttemptCap,  \* _WATCH_ATTEMPT_CAP
  PostMergeFixCap,  \* _POST_MERGE_FIX_CAP
  Enabled           \* which of the circumstances below may happen

Circumstance ==
  { "crash",      \* the web process dies and is started again
    "torn",       \* ... in the middle of a handler's writes
    "death",      \* a coder task dies without running its last lines
    "exception",  \* the agent raises instead of returning a result
    "hold",       \* the coder's model is rate limited, or a cap is spent
    "watchdog",   \* a story may look stuck, and the sweep acts on it
    "reset",      \* the operator resets a story
    "stop",       \* the operator abandons a story or cancels an idea
    "review",     \* pull requests are merged and sent back
    "late" }      \* a recode task outlives the review of its story

ASSUME FleetAssumption ==
  /\ ProjectOf \in [Story -> Project]
  /\ SequenceOf \in [Story -> Nat]
  /\ CreatedAt \in [Story -> Nat]
  /\ IsFiniteSet(Story)
  /\ MaxCoders \in Nat \ {0}
  /\ CoderErrorCap \in Nat \ {0}
  /\ WatchAttemptCap \in Nat
  /\ PostMergeFixCap \in Nat
  /\ Enabled \subseteq Circumstance

\* Stories of one plan are numbered apart (_persist_plan: seq_offset + i + 1).
ASSUME SequenceAssumption ==
  \A s, t \in Story :
    ProjectOf[s] = ProjectOf[t] /\ SequenceOf[s] = SequenceOf[t] => s = t

VARIABLES
  state,     \* the board: work_items.state of every story
  aged,      \* in-progress stories whose updated_at is past the stuck budget
  pending,   \* runs whose task is created and has not started
  running,   \* runs that hold a slot, their agent at work
  dead,      \* runs whose task died silently, their slot never released
  slots,     \* Redis coder:in_flight
  errors,    \* Redis coder_errors:<story>, saturating at the cap
  fixes,     \* Redis post_merge_fix:<story>
  watch,     \* Redis watch_attempts:<story>, saturating past the cap
  stuck,     \* Redis stuck:<story>
  breaker,   \* the coder model's circuit breaker is tripped
  capped,    \* the daily budget or the free tier is spent
  recodes,   \* stories with a recode task at work on their pull request
  late,      \* history: stories a recode wrote once they had left review
  sweep,     \* the watchdog's snapshot: stories it has still to act on
  up         \* the web process is running

board   == <<state, aged>>
tasks   == <<pending, running, dead, slots>>
keys    == <<errors, fixes, watch, stuck>>
weather == <<breaker, capped>>
reviews == <<recodes, late>>
vars    == <<board, tasks, keys, weather, reviews, sweep, up>>

StoryState == { "backlog", "ready", "in-progress", "in-review",
                "changes-requested", "merged", "done", "abandoned" }

Task == Story \X Run
Live == pending \cup running
Holding == running \cup dead
RunsOf(s) == {k \in Live : k[1] = s}

BoardTypeOK == state \in [Story -> StoryState] /\ aged \subseteq Story
TasksTypeOK ==
  /\ pending \subseteq Task /\ running \subseteq Task /\ dead \subseteq Task
  /\ slots \in Int
KeysTypeOK ==
  /\ errors \in [Story -> 0..CoderErrorCap]
  /\ fixes \in [Story -> 0..PostMergeFixCap]
  /\ watch \in [Story -> 0..(WatchAttemptCap + 1)]
  /\ stuck \subseteq Story /\ sweep \subseteq Story
ReviewsTypeOK == recodes \subseteq Story /\ late \subseteq Story
FlagsTypeOK == breaker \in BOOLEAN /\ capped \in BOOLEAN /\ up \in BOOLEAN

\* Every handler writes states the board knows, and every counter that gates a
\* story's recovery stays within its cap.
TypeOK == BoardTypeOK /\ TasksTypeOK /\ KeysTypeOK /\ ReviewsTypeOK /\ FlagsTypeOK

-----------------------------------------------------------------------------
(* The board.  A handler first makes its own writes, which give an          *)
(* intermediate board st, and then may dispatch from it.                    *)

Ready(st) == {s \in Story : st[s] = "ready"}

Precedes(s, t) ==
  \/ SequenceOf[s] < SequenceOf[t]
  \/ SequenceOf[s] = SequenceOf[t] /\ CreatedAt[s] <= CreatedAt[t]

\* (Mutant: ordered by sequence descending, so that the last story is picked.)
NextBacklogLast(st, s) ==
  LET later == {t \in Story : /\ ProjectOf[t] = ProjectOf[s]
                              /\ SequenceOf[t] > SequenceOf[s]
                              /\ st[t] = "backlog"}
  IN {t \in later : \A u \in later : SequenceOf[u] <= SequenceOf[t]}

\* The story unlock_next_story(s) picks: the first backlog story after s.
NextBacklog(st, s) ==
  LET later == {t \in Story : /\ ProjectOf[t] = ProjectOf[s]
                              /\ SequenceOf[t] > SequenceOf[s]
                              /\ st[t] = "backlog"}
  IN {t \in later : \A u \in later : SequenceOf[t] <= SequenceOf[u]}

Put(st, S, v) == [s \in Story |-> IF s \in S THEN v ELSE st[s]]
Unlock(st, s) == Put(st, NextBacklog(st, s), "ready")

\* Claim s on board st: in-progress, and a task is created for it.
Claim(st, s) ==
  /\ state' = Put(st, {s}, "in-progress")
  /\ \E r \in Run : /\ <<s, r>> \notin Live \cup dead
                    /\ pending' = pending \cup {<<s, r>>}

DispatchNextReady(st) ==
  \/ /\ Ready(st) = {}
     /\ state' = st
     /\ UNCHANGED pending
  \/ \E s \in Ready(st) : /\ \A t \in Ready(st) : Precedes(s, t)
                          /\ Claim(st, s)

\* Every update_state of a story of S, and of a story claimed in this step,
\* refreshes its updated_at.
Refresh(S) == aged' = aged \ (S \cup {k[1] : k \in pending' \ pending})

-----------------------------------------------------------------------------
Init ==
  /\ state = [s \in Story |-> "backlog"]
  /\ aged = {} /\ sweep = {} /\ stuck = {} /\ recodes = {} /\ late = {}
  /\ pending = {} /\ running = {} /\ dead = {}
  /\ slots = 0
  /\ errors = [s \in Story |-> 0] /\ fixes = [s \in Story |-> 0]
  /\ watch = [s \in Story |-> 0]
  /\ breaker = FALSE /\ capped = FALSE
  /\ up = TRUE

(* Planning: the first story of a plan is started, by the planner itself or *)
(* by the operator who approves a plan held at the gate.                    *)
StartPlan(p) ==
  /\ up
  /\ \A s \in Story : ProjectOf[s] = p => state[s] = "backlog"
  /\ \E s \in Story :
       /\ ProjectOf[s] = p
       /\ \A t \in Story : ProjectOf[t] = p => SequenceOf[s] <= SequenceOf[t]
       /\ Claim(state, s)
       /\ Refresh({s})
  /\ UNCHANGED <<running, dead, slots, keys, weather, reviews, sweep, up>>

\* (Mutant: the 409 for a story that is not ready is gone.)
CodeAnything(s) ==
  /\ up
  /\ Claim(state, s)
  /\ Refresh({s})
  /\ UNCHANGED <<running, dead, slots, keys, weather, reviews, sweep, up>>

(* The operator runs a ready story by hand. *)
Code(s) ==
  /\ up
  /\ state[s] = "ready"
  /\ Claim(state, s)
  /\ Refresh({s})
  /\ UNCHANGED <<running, dead, slots, keys, weather, reviews, sweep, up>>

-----------------------------------------------------------------------------
(* _run_coding_agent, up to its await. *)

\* A hold: the model is paused or the money is spent; the story goes back.
HoldRun(k) ==
  /\ up /\ k \in pending
  /\ breaker \/ capped
  /\ pending' = pending \ {k}
  /\ state' = Put(state, {k[1]}, "ready")
  /\ Refresh({k[1]})
  /\ UNCHANGED <<running, dead, slots, keys, weather, reviews, sweep, up>>

\* (Mutant: the cap is compared with the count before the increment.)
AcquireSlotOffByOne(k) ==
  /\ up /\ k \in pending
  /\ ~breaker /\ ~capped
  /\ slots <= MaxCoders
  /\ slots' = slots + 1
  /\ pending' = pending \ {k}
  /\ running' = running \cup {k}
  /\ UNCHANGED <<board, dead, keys, weather, reviews, sweep, up>>

AcquireSlot(k) ==
  /\ up /\ k \in pending
  /\ ~breaker /\ ~capped
  /\ slots + 1 <= MaxCoders
  /\ slots' = slots + 1
  /\ pending' = pending \ {k}
  /\ running' = running \cup {k}
  /\ UNCHANGED <<board, dead, keys, weather, reviews, sweep, up>>

\* (Mutant: the refused increment is kept.)
RefuseSlotKeepsCount(k) ==
  /\ up /\ k \in pending
  /\ ~breaker /\ ~capped
  /\ slots + 1 > MaxCoders
  /\ slots' = slots + 1
  /\ pending' = pending \ {k}
  /\ state' = Put(state, {k[1]}, "ready")
  /\ Refresh({k[1]})
  /\ UNCHANGED <<running, dead, keys, weather, reviews, sweep, up>>

\* The counter is incremented past the cap, so it is decremented again.
RefuseSlot(k) ==
  /\ up /\ k \in pending
  /\ ~breaker /\ ~capped
  /\ slots + 1 > MaxCoders
  /\ slots' = (slots + 1) - 1
  /\ pending' = pending \ {k}
  /\ state' = Put(state, {k[1]}, "ready")
  /\ Refresh({k[1]})
  /\ UNCHANGED <<running, dead, keys, weather, reviews, sweep, up>>

(* _run_coding_agent, from its await to its end.  Every way out writes the  *)
(* story's new state, releases the slot and dispatches the next story.      *)

ReleaseAndDispatch(k, st) ==
  /\ running' = running \ {k}
  /\ slots' = slots - 1
  /\ DispatchNextReady(st)
  /\ Refresh({k[1]})
  /\ UNCHANGED dead

\* The agent opened or updated a pull request.
FinishSuccess(k) ==
  /\ up /\ k \in running
  /\ ReleaseAndDispatch(k, Put(state, {k[1]}, "in-review"))
  /\ errors' = [errors EXCEPT ![k[1]] = 0]
  /\ breaker' = FALSE
  /\ UNCHANGED <<fixes, watch, stuck, capped, reviews, sweep, up>>

\* There was nothing to change: the story is done and the next is unlocked.
FinishNoChanges(k) ==
  /\ up /\ k \in running
  /\ ReleaseAndDispatch(k, Unlock(Put(state, {k[1]}, "done"), k[1]))
  /\ errors' = [errors EXCEPT ![k[1]] = 0]
  /\ breaker' = FALSE
  /\ UNCHANGED <<fixes, watch, stuck, capped, reviews, sweep, up>>

\* The provider is out of credit: no retry can help, a human must look.
FinishNoCredit(k) ==
  /\ up /\ k \in running
  /\ ReleaseAndDispatch(k, Put(state, {k[1]}, "changes-requested"))
  /\ errors' = [errors EXCEPT ![k[1]] = 0]
  /\ stuck' = stuck \cup {k[1]}
  /\ UNCHANGED <<fixes, watch, weather, reviews, sweep, up>>

\* (Mutant: the failure streak is not counted.)
FinishErrorUncounted(k) ==
  /\ up /\ k \in running
  /\ errors[k[1]] + 1 < CoderErrorCap
  /\ ReleaseAndDispatch(k, Put(state, {k[1]}, "ready"))
  /\ UNCHANGED <<keys, weather, reviews, sweep, up>>

\* (Mutant: the cap is never compared with.)
FinishErrorUncapped(k) ==
  /\ up /\ k \in running
  /\ errors' = [errors EXCEPT ![k[1]] = @ + 1]
  /\ ReleaseAndDispatch(k, Put(state, {k[1]}, "ready"))
  /\ UNCHANGED <<fixes, watch, stuck, weather, reviews, sweep, up>>

\* The agent reports an error below the cap: the story is queued again.
FinishErrorRequeue(k) ==
  /\ up /\ k \in running
  /\ errors[k[1]] + 1 < CoderErrorCap
  /\ errors' = [errors EXCEPT ![k[1]] = @ + 1]
  /\ ReleaseAndDispatch(k, Put(state, {k[1]}, "ready"))
  /\ UNCHANGED <<fixes, watch, stuck, weather, reviews, sweep, up>>

\* The agent reports an error at the cap: the story is parked for a human.
FinishErrorPark(k) ==
  /\ up /\ k \in running
  /\ errors[k[1]] + 1 >= CoderErrorCap
  /\ errors' = [errors EXCEPT ![k[1]] = CoderErrorCap]
  /\ ReleaseAndDispatch(k, Put(state, {k[1]}, "changes-requested"))
  /\ stuck' = stuck \cup {k[1]}
  /\ UNCHANGED <<fixes, watch, weather, reviews, sweep, up>>

\* The agent raises: the story is queued again and no failure is counted.
FinishException(k) ==
  /\ "exception" \in Enabled
  /\ up /\ k \in running
  /\ ReleaseAndDispatch(k, Put(state, {k[1]}, "ready"))
  /\ breaker' \in {breaker, breaker \/ "hold" \in Enabled}  \* a 429 trips it
  /\ UNCHANGED <<keys, capped, reviews, sweep, up>>

\* The task dies between its acquire and its release (an error outside the
\* try): the story keeps its claim and the slot stays taken.
TaskDies(k) ==
  /\ "death" \in Enabled
  /\ up /\ k \in running
  /\ running' = running \ {k}
  /\ dead' = dead \cup {k}
  /\ UNCHANGED <<board, pending, slots, keys, weather, reviews, sweep, up>>

-----------------------------------------------------------------------------
(* The pull request side, as far as it moves stories into and out of the    *)
(* fleet.                                                                   *)

InReview(s) == state[s] \in {"in-review", "changes-requested"}

\* A pull request is found by stories under review only (find_item_by_pr_url).
\* Failing verdicts or a human send its story back, to a recode task or to nobody at
\* the recode cap; a retry, or a recode that ends before the review does, brings it to
\* review again; a merge notice settles it.
ReviewMoves(s) ==
  /\ "review" \in Enabled
  /\ up
  /\ InReview(s)
  /\ \/ /\ state' = Put(state, {s}, "changes-requested")
        /\ \/ UNCHANGED recodes
           \/ "late" \in Enabled /\ recodes' = recodes \cup {s}
     \/ /\ \E v \in {"in-review", "merged"} : state' = Put(state, {s}, v)
        /\ UNCHANGED recodes
  /\ UNCHANGED <<aged, tasks, keys, weather, late, sweep, up>>

\* A recode task ends and writes the story's state, whatever became of the story in
\* the meantime; another of its recodes may still be at work.
RecodeEnds(s) ==
  /\ up /\ s \in recodes
  /\ recodes' \in {recodes, recodes \ {s}}
  /\ \E v \in {"in-review", "changes-requested"} : state' = Put(state, {s}, v)
  /\ late' = IF InReview(s) THEN late ELSE late \cup {s}
  /\ aged' = aged \ {s}
  /\ UNCHANGED <<tasks, keys, weather, sweep, up>>

\* CI on main is green after the merge: done, and the next story is claimed
\* straight from backlog.
PostMergeDone(s) ==
  /\ up
  /\ state[s] = "merged"
  /\ LET st  == Put(state, {s}, "done")
         nxt == NextBacklog(st, s)
     IN \/ nxt = {} /\ state' = st /\ UNCHANGED pending
        \/ \E t \in nxt : Claim(Unlock(st, s), t)
  /\ Refresh({s})
  /\ UNCHANGED <<running, dead, slots, keys, weather, reviews, sweep, up>>

\* CI on main is red after the merge: back to a coder while the fix cap
\* lasts, parked afterwards.
PostMergeFix(s) ==
  /\ up
  /\ state[s] = "merged"
  /\ \/ /\ fixes[s] < PostMergeFixCap
        /\ fixes' = [fixes EXCEPT ![s] = @ + 1]
        /\ Claim(state, s)
     \/ /\ fixes[s] >= PostMergeFixCap
        /\ state' = Put(state, {s}, "changes-requested")
        /\ UNCHANGED <<fixes, pending>>
  /\ Refresh({s})
  /\ UNCHANGED <<running, dead, slots, errors, watch, stuck, weather, reviews, sweep, up>>

-----------------------------------------------------------------------------
(* The operator's buttons. *)

Reset(s) ==
  /\ "reset" \in Enabled
  /\ up
  /\ state[s] \in {"in-progress", "in-review", "changes-requested"}
  /\ Claim(state, s)
  /\ Refresh({s})
  /\ fixes' = [fixes EXCEPT ![s] = 0]
  /\ watch' = [watch EXCEPT ![s] = 0]
  /\ stuck' = stuck \ {s}
  /\ UNCHANGED <<running, dead, slots, errors, weather, reviews, sweep, up>>

\* (Mutant: the next story is unlocked and left to somebody else's dispatch.)
AbandonWithoutDispatch(s) ==
  /\ "stop" \in Enabled
  /\ up
  /\ state[s] \notin {"done", "abandoned"}
  /\ state' = Unlock(Put(state, {s}, "abandoned"), s)
  /\ UNCHANGED pending
  /\ Refresh({s})
  /\ fixes' = [fixes EXCEPT ![s] = 0]
  /\ UNCHANGED <<running, dead, slots, errors, watch, stuck, weather, reviews, sweep, up>>

\* (Mutant: the 409 leaves out the stories that are done.)
AbandonDone(s) ==
  /\ "stop" \in Enabled
  /\ up
  /\ state[s] # "abandoned"
  /\ DispatchNextReady(Unlock(Put(state, {s}, "abandoned"), s))
  /\ Refresh({s})
  /\ fixes' = [fixes EXCEPT ![s] = 0]
  /\ UNCHANGED <<running, dead, slots, errors, watch, stuck, weather, reviews, sweep, up>>

Abandon(s) ==
  /\ "stop" \in Enabled
  /\ up
  /\ state[s] \notin {"done", "abandoned"}
  /\ DispatchNextReady(Unlock(Put(state, {s}, "abandoned"), s))
  /\ Refresh({s})
  /\ fixes' = [fixes EXCEPT ![s] = 0]
  /\ UNCHANGED <<running, dead, slots, errors, watch, stuck, weather, reviews, sweep, up>>

CancelIdea(p) ==
  /\ "stop" \in Enabled
  /\ up
  /\ LET stopped == {s \in Story : ProjectOf[s] = p /\ state[s] \notin {"done", "abandoned"}}
     IN /\ state' = Put(state, stopped, "abandoned")
        /\ aged' = aged \ stopped
        /\ fixes' = [s \in Story |-> IF s \in stopped THEN 0 ELSE fixes[s]]
  /\ UNCHANGED <<tasks, errors, watch, stuck, weather, reviews, sweep, up>>

-----------------------------------------------------------------------------
(* The watchdog: a snapshot of the stuck claims, then one story at a time   *)
(* from the snapshot, with no second look at its state.                     *)

GrowOld(s) ==
  /\ "watchdog" \in Enabled
  /\ state[s] = "in-progress" /\ s \notin aged
  /\ aged' = aged \cup {s}
  /\ UNCHANGED <<state, tasks, keys, weather, reviews, sweep, up>>

SweepBegin ==
  /\ up
  /\ sweep = {}
  /\ sweep' = {s \in aged : state[s] = "in-progress"}
  /\ sweep' # {}
  /\ UNCHANGED <<board, tasks, keys, weather, reviews, up>>

\* The story waits for its model: left alone, no attempt counted.
SweepSkip(s) ==
  /\ up /\ s \in sweep
  /\ breaker
  /\ sweep' = sweep \ {s}
  /\ UNCHANGED <<board, tasks, keys, weather, reviews, up>>

SweepRecover(s) ==
  /\ up /\ s \in sweep
  /\ ~breaker
  /\ watch[s] + 1 <= WatchAttemptCap
  /\ watch' = [watch EXCEPT ![s] = @ + 1]
  /\ fixes' = [fixes EXCEPT ![s] = 0]
  /\ state' = Put(state, {s}, "ready")
  /\ aged' = aged \ {s}
  /\ sweep' = sweep \ {s}
  /\ UNCHANGED <<tasks, errors, stuck, weather, reviews, up>>

\* (Mutant: the operator is never told.)
SweepGiveUpSilently(s) ==
  /\ up /\ s \in sweep
  /\ ~breaker
  /\ watch[s] + 1 > WatchAttemptCap
  /\ watch' = [watch EXCEPT ![s] = WatchAttemptCap + 1]
  /\ sweep' = sweep \ {s}
  /\ UNCHANGED <<board, tasks, errors, fixes, stuck, weather, reviews, up>>

SweepGiveUp(s) ==
  /\ up /\ s \in sweep
  /\ ~breaker
  /\ watch[s] + 1 > WatchAttemptCap
  /\ watch' = [watch EXCEPT ![s] = WatchAttemptCap + 1]
  /\ stuck' = stuck \cup {s}
  /\ sweep' = sweep \ {s}
  /\ UNCHANGED <<board, tasks, errors, fixes, weather, reviews, up>>

-----------------------------------------------------------------------------
(* Holds come and go by themselves. *)
BreakerChanges ==
  /\ "hold" \in Enabled
  /\ breaker' = ~breaker
  /\ UNCHANGED <<board, tasks, keys, capped, reviews, sweep, up>>

CapsChange ==
  /\ "hold" \in Enabled
  /\ capped' = ~capped
  /\ UNCHANGED <<board, tasks, keys, breaker, reviews, sweep, up>>

-----------------------------------------------------------------------------
(* The process dies: its tasks and its watchdog thread die with it; SQLite  *)
(* and Redis keep what was written.                                         *)

ProcessGone ==
  /\ up' = FALSE
  /\ pending' = {} /\ running' = {} /\ dead' = {} /\ recodes' = {}
  /\ sweep' = {}
  /\ UNCHANGED late

Crash ==
  /\ "crash" \in Enabled
  /\ up
  /\ ProcessGone
  /\ UNCHANGED <<board, slots, keys, weather>>

(* A crash inside a handler, between the write that settles a story and     *)
(* unlock_next_story: at the end of a run, of a post-merge check, or of     *)
(* abandon.                                                                 *)
CrashInNoChanges(k) ==
  /\ "torn" \in Enabled
  /\ up /\ k \in running
  /\ state' = Put(state, {k[1]}, "done")
  /\ ProcessGone
  /\ aged' = aged \ {k[1]}
  /\ errors' = [errors EXCEPT ![k[1]] = 0]
  /\ breaker' = FALSE
  /\ UNCHANGED <<slots, fixes, watch, stuck, capped>>

CrashInPostMerge(s) ==
  /\ "torn" \in Enabled
  /\ up /\ state[s] = "merged"
  /\ state' = Put(state, {s}, "done")
  /\ ProcessGone
  /\ UNCHANGED <<aged, slots, keys, weather>>

CrashInAbandon(s) ==
  /\ {"torn", "stop"} \subseteq Enabled
  /\ up /\ state[s] \notin {"done", "abandoned"}
  /\ state' = Put(state, {s}, "abandoned")
  /\ ProcessGone
  /\ aged' = aged \ {s}
  /\ fixes' = [fixes EXCEPT ![s] = 0]
  /\ UNCHANGED <<slots, errors, watch, stuck, weather>>

\* (Mutant: the claims of the old process are not reclaimed.)
RestartForgets ==
  /\ ~up
  /\ up' = TRUE
  /\ slots' = 0
  /\ UNCHANGED <<board, pending, running, dead, keys, weather, reviews, sweep>>

\* lifespan(): the slot counter restarts at 0; claims left by the old process
\* go back to ready and as many stories as there are slots are dispatched.
\* With no claim left there is nothing to reclaim and nothing is dispatched.
Restart ==
  /\ ~up
  /\ up' = TRUE
  /\ slots' = 0
  /\ LET orphaned == {s \in Story : state[s] = "in-progress"}
         st       == Put(state, orphaned, "ready")
     IN \/ /\ orphaned = {}
           /\ UNCHANGED <<state, aged, pending>>
        \/ /\ orphaned # {}
           /\ \E D \in SUBSET Ready(st) :
                /\ \A s \in D, t \in Ready(st) \ D : Precedes(s, t)
                /\ \/ Cardinality(D) = MaxCoders
                   \/ D = Ready(st) /\ Cardinality(D) < MaxCoders
                /\ state' = Put(st, D, "in-progress")
                /\ \E r \in [D -> Run] : pending' = {<<s, r[s]>> : s \in D}
           /\ aged' = aged \ orphaned
  /\ UNCHANGED <<running, dead, keys, weather, reviews, sweep>>

\* lifespan() itself dies, some claims reclaimed and nothing dispatched yet.
CrashInRestart ==
  /\ "torn" \in Enabled
  /\ ~up
  /\ slots' = 0
  /\ \E S \in SUBSET {s \in Story : state[s] = "in-progress"} :
       /\ state' = Put(state, S, "ready")
       /\ aged' = aged \ S
  /\ UNCHANGED <<pending, running, dead, keys, weather, reviews, sweep, up>>

-----------------------------------------------------------------------------
Finish(k) ==
  \/ FinishSuccess(k) \/ FinishNoChanges(k) \/ FinishNoCredit(k)
  \/ FinishErrorRequeue(k) \/ FinishErrorPark(k) \/ FinishException(k)

Start(k) == HoldRun(k) \/ AcquireSlot(k) \/ RefuseSlot(k)

SweepStep(s) == SweepSkip(s) \/ SweepRecover(s) \/ SweepGiveUp(s)

Next ==
  \/ \E p \in Project : StartPlan(p) \/ CancelIdea(p)
  \/ \E k \in Task : Start(k) \/ Finish(k) \/ TaskDies(k) \/ CrashInNoChanges(k)
  \/ \E s \in Story : \/ Code(s) \/ Reset(s) \/ Abandon(s)
                      \/ ReviewMoves(s) \/ RecodeEnds(s)
                      \/ PostMergeDone(s) \/ PostMergeFix(s)
                      \/ GrowOld(s) \/ SweepStep(s)
                      \/ CrashInPostMerge(s) \/ CrashInAbandon(s)
  \/ SweepBegin \/ BreakerChanges \/ CapsChange
  \/ Crash \/ Restart \/ CrashInRestart

Spec == Init /\ [][Next]_vars

\* Created tasks are scheduled, agent runs end (the agent's subprocess has a
\* timeout), the watchdog loop keeps sweeping and time keeps passing.
Fairness ==
  /\ \A k \in Task : WF_vars(Start(k)) /\ WF_vars(Finish(k))
  /\ \A s \in Story : WF_vars(GrowOld(s)) /\ WF_vars(SweepStep(s))
  /\ WF_vars(SweepBegin)

FairSpec == Spec /\ Fairness
-----------------------------------------------------------------------------
(* Properties. *)

\* The Redis counter is the number of runs that took a slot and have not given
\* it back, whatever was refused, held, reset, abandoned or restarted: the
\* decrement of a refused acquire, the release on every way out of a run and
\* the reset at startup balance exactly.
SlotsCountRuns == up => slots = Cardinality(Holding)

\* The slot counter and its cap implement a pool of MaxCoders slots.
Pool == INSTANCE SlotPool WITH Holder   <- Task,
                               Capacity <- MaxCoders,
                               holders  <- Holding
ImplementsSlotPool == Pool!Spec

\* A story the board shows in progress always has a task behind it, alive or
\* silently dead.  Where no task dies silently, a claim the watchdog takes back
\* is therefore never an orphan: its coder is still at work.
ClaimHasTask ==
  up => \A s \in Story : state[s] = "in-progress" =>
          \E k \in Live \cup dead : k[1] = s

\* A plan under way cannot stall: once its first story has left backlog, a story
\* waits in backlog only behind an earlier unfinished one of its project, and
\* finishing that one goes through unlock_next_story (stories abandoned
\* out of turn and results that come late included).
Finished(s) == state[s] \in {"done", "abandoned"}
Ahead(t, s) == ProjectOf[t] = ProjectOf[s] /\ SequenceOf[t] < SequenceOf[s]
Blocked(s) == state[s] = "backlog" /\ \A t \in Story : Ahead(t, s) => Finished(t)
First(s) == \A t \in Story : ~Ahead(t, s)
NoStalledPlan == \A s \in Story : Blocked(s) => First(s)

\* No lost wake-up: while a story is queued in ready, some run is alive whose
\* end will dispatch it (nothing else ever looks at the queue).
ReadyHasWaker == up /\ Ready(state) # {} => Live # {}

\* No two coders ever work on one story (PRD: claiming prevents double pickup), unless a
\* recode took it back out of merged, done or a coder's hands: merged once more while
\* that coder is at work, it may be given a second one by its post-merge fix.
NoDoublePickup == \A s \in Story \ late : Cardinality(RunsOf(s)) <= 1

\* A finished story is never brought back by a coder's run that ends late, a dispatch, a
\* button or a restart: only a recode task that outlives the review does that.
DoneIsFinal ==
  [][\A s \in Story : state[s] = "done" /\ s \notin late' => state'[s] = "done"]_vars

\* As the operator reads done, a state that settles a story: nothing leaves it.
DoneIsDone == [][\A s \in Story : state[s] = "done" => state'[s] = "done"]_vars

\* Every queued or claimed story leaves the fleet: it reaches review, is done, or
\* is parked for a human once its failures reach the cap; none is starved by the
\* others and none is retried forever.
InFleet(s) == state[s] \in {"ready", "in-progress"}
QueuedStorySettles == \A s \in Story : InFleet(s) ~> ~InFleet(s)

\* Once no hold remains, every story a hold put back is claimed again.
HeldStoryResumes ==
  <>[](~breaker /\ ~capped) =>
     \A s \in Story : (state[s] = "ready") ~> (state[s] # "ready")

\* A claim whose task died is taken back or handed to the operator.
DeadClaimIsNoticed ==
  \A s \in Story :
    (state[s] = "in-progress" /\ RunsOf(s) = {})
      ~> (state[s] # "in-progress" \/ s \in stuck)
=============================================================================
