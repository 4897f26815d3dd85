------------------------------ MODULE Planning ------------------------------
(***************************************************************************)
(* One project from idea to a started plan (event_bus/main.py and          *)
(* planner_agent/decomposer.py): the idea's approval, the background tasks *)
(* that plan, import, resume or replay it, the stories they append, and    *)
(* the approval gate in front of the first story.                          *)
(*                                                                         *)
(* A task awaits twice: a thread that provisions the repository and one    *)
(* that asks the planner's model.  What it read before an await it uses    *)
(* after it.  The plan an operator pastes has the epics 1..Epics, each     *)
(* with one story; what a model adds to it is a story of the critic.       *)
(***************************************************************************)
EXTENDS Integers, Sequences, FiniteSets

CONSTANTS
  Epics,       \* epics of the plan
  MaxTasks,    \* bound: planner tasks alive at a time
  MaxStories,  \* bound: stories on the board
  Scenarios    \* the sets of circumstances to explore

Circumstance ==
  { "gate",      \* gates.plan_approval is on
    "budget",    \* the daily cost cap may be spent
    "llm",       \* the model fails for some epics (a rate limit), or drops them
    "drop",      \* ... and what it wrote for an import may all be unusable
    "outage",    \* ... for the list of epics or for the whole call
    "critic",    \* the critic adds stories
    "forge",     \* Forgejo fails while the repository is provisioned
    "twice",     \* a button is pressed again: approve, plan, replay, resume
    "crash",     \* the web process dies and is started again
    "torn",      \* ... while a plan is being stored
    "withdraw",  \* the idea is rejected, cancelled or deleted under a task
    "early",     \* the plan is approved while a resume is under way
    "astray",    \* a resume is pressed for an idea that is not approved
    "redis",     \* Redis fails when the epics of an import are stored or read
    "abandon" }  \* single stories are abandoned

ASSUME PlanningAssumption ==
  /\ Epics \in Nat \ {0} /\ MaxTasks \in Nat \ {0} /\ MaxStories \in Nat
  /\ Scenarios \subseteq SUBSET Circumstance

VARIABLES
  scenario,  \* the circumstances of this behaviour
  idea,      \* work_items.state of the idea, "none" and "deleted" without a row
  asked,     \* approvals that have passed their check and await the body
  task,      \* the planner tasks
  stories,   \* the project's stories in the order of their creation
  known,     \* Redis import:epics:<idea>, the epics of the first import
  replay,    \* Redis plan_replay:<idea>: a pin to execute, good or broken
  repo,      \* Forgejo: the repository is there, and it has its scaffold
  released,  \* history: the operator approved the plan, or the gate was off
  filled,    \* history: a resume ended without any failure
  blind      \* history: a resume skipped by the names of a list it had not been given

vars == <<scenario, idea, asked, task, stories, known, replay, repo, released, filled, blind>>

May(c) == c \in scenario
Epic == 1..Epics
Whole == 0                       \* the epic of _fallback: the project itself
Task == 1..MaxTasks
NoTask == [kind |-> "none", at |-> "none", skip |-> {}, epics |-> {}, offset |-> 0]
NewTask(kind) == [kind |-> kind, at |-> "start", skip |-> {}, epics |-> {}, offset |-> 0]

Story == [epic : Epic \cup {Whole}, part : {"plan", "critic", "fallback"},
          seq : 1..(2 * MaxStories), st : {"backlog", "ready", "in-progress", "done",
                                           "abandoned"}]

\* Whatever is pressed, lost or restarted, the board holds stories of this plan
\* and the tasks are of the four kinds the process knows.
TypeOK ==
  /\ scenario \in Scenarios
  /\ idea \in {"none", "pending-approval", "approved", "rejected", "abandoned", "deleted"}
  /\ asked \in 0..2
  /\ task \in [Task -> [kind : {"none", "plan", "import", "resume"},
                        at : {"none", "start", "provision", "call"},
                        skip : SUBSET (Epic \cup {Whole}), epics : SUBSET (Epic \cup {Whole}),
                        offset : 0..(2 * MaxStories)]]
  /\ Len(stories) <= MaxStories /\ \A i \in DOMAIN stories : stories[i] \in Story
  /\ known \subseteq Epic \cup {Whole}
  /\ replay \in {"none", "good", "broken"}
  /\ repo \in [there : BOOLEAN, scaffold : BOOLEAN]
  /\ released \in BOOLEAN /\ filled \in BOOLEAN /\ blind \in BOOLEAN

Init ==
  /\ scenario \in Scenarios
  /\ idea = "none" /\ asked = 0 /\ task = [t \in Task |-> NoTask]
  /\ stories = <<>> /\ known = {} /\ replay = "none"
  /\ repo = [there |-> FALSE, scaffold |-> FALSE]
  /\ released = FALSE /\ filled = FALSE /\ blind = FALSE

Exists == idea \notin {"none", "deleted"}
Busy == asked > 0 \/ \E t \in Task : task[t] # NoTask
Started == \E i \in DOMAIN stories : stories[i].st # "backlog"

\* create_task: any free task takes the call up.
Launch(kind) ==
  \E t \in Task : /\ task[t] = NoTask /\ \A u \in 1..(t - 1) : task[u] # NoTask
                  /\ task' = [task EXCEPT ![t] = NewTask(kind)]

-----------------------------------------------------------------------------
(* The idea.                                                               *)

\* submit_idea and import_plan refuse over budget; an import needs no approval.
Submit ==
  /\ idea = "none" /\ idea' = "pending-approval"
  /\ UNCHANGED <<scenario, asked, task, stories, known, replay, repo, released, filled, blind>>

Import ==
  /\ idea = "none" /\ idea' = "approved" /\ Launch("import")
  /\ UNCHANGED <<scenario, asked, stories, known, replay, repo, released, filled, blind>>

\* approve_item checks the state, then awaits the body, then writes.
ApproveAsked ==
  /\ idea = "pending-approval" /\ asked < (IF May("twice") THEN 2 ELSE 1)
  /\ asked' = asked + 1
  /\ UNCHANGED <<scenario, idea, task, stories, known, replay, repo, released, filled, blind>>

Approve ==
  /\ asked > 0 /\ asked' = asked - 1
  /\ idea' = IF Exists THEN "approved" ELSE idea
  /\ Launch("plan")
  /\ UNCHANGED <<scenario, stories, known, replay, repo, released, filled, blind>>

Reject ==
  /\ idea = "pending-approval" /\ (asked = 0 \/ May("withdraw"))
  /\ idea' = "rejected"
  /\ UNCHANGED <<scenario, asked, task, stories, known, replay, repo, released, filled, blind>>

\* plan_item asks for nothing but an idea, and removes no story of before.
PlanItem ==
  /\ Exists /\ (May("twice") \/ (idea = "approved" /\ ~Busy /\ stories = <<>>))
  /\ Launch("plan")
  /\ UNCHANGED <<scenario, idea, asked, stories, known, replay, repo, released, filled, blind>>

ReplayItem ==
  /\ Exists /\ (May("twice") \/ (~Busy /\ stories = <<>>)) /\ idea \notin {"rejected", "abandoned"}
  /\ replay' = "good" /\ idea' = "approved" /\ Launch("plan")
  /\ UNCHANGED <<scenario, asked, stories, known, repo, released, filled, blind>>

\* The pin's file is edited or removed after it was validated.
PinBreaks ==
  /\ replay = "good" /\ May("outage") /\ replay' = "broken"
  /\ UNCHANGED <<scenario, idea, asked, task, stories, known, repo, released, filled, blind>>

\* resume_import asks for an idea of which nothing has started, approved or not.
ResumeItem ==
  /\ Exists /\ ~Started
  /\ May("twice") \/ (~Busy /\ (idea = "approved" \/ May("astray")))
  /\ Launch("resume")
  /\ UNCHANGED <<scenario, idea, asked, stories, known, replay, repo, released, filled, blind>>

-----------------------------------------------------------------------------
(* What a plan consists of.                                                *)

Part(e, p) == [epic |-> e, part |-> p]
Parts(S, p) == {Part(e, p) : e \in S}

\* Flat and ordered by epic; in one epic the critic's story stands behind the others.
Before(a, b) ==
  a.epic < b.epic \/ (a.epic = b.epic /\ a.part = "plan" /\ b.part # "plan")
Rank(x, P) == Cardinality({y \in P : Before(y, x)})
InOrder(P) == [i \in 1..Cardinality(P) |-> CHOOSE x \in P : Rank(x, P) = i - 1]

\* _fallback: one story for the whole project, so that the work still moves.
\* (Mutant: nothing.)
FallbackNone == <<>>
Fallback == <<Part(Whole, "fallback")>>

\* The epics a pass over E may yield stories for.
Yields(E) == IF May("llm") THEN SUBSET E ELSE {E}
Critic(E) == IF May("critic") THEN {C \in SUBSET E : Cardinality(C) <= 1} ELSE {{}}

\* decompose_idea: epic by epic, the critic's story behind those of its epic.
Decomposed ==
  { IF done = {} /\ crit = {} THEN Fallback
    ELSE InOrder(Parts(done, "plan") \cup Parts(crit, "critic"))
    : done \in Yields(Epic), crit \in Critic(Epic) }
    \cup (IF May("outage") THEN {Fallback} ELSE {})

\* normalize_plan over a stored list of epics, or over the list pass 1 extracts when
\* there is none, without those already covered: pass 1 may name a covered epic
\* otherwise than before, and then the skip misses it.  An import that finds nothing
\* falls back, unless its stories are dropped afterwards.  The result: the stories,
\* the epics it reports, and whether every call succeeded.
\* (Mutants: a covered epic is normalized again; the last epic is cut off.)
ToNormalizeAll(E, skip) == E
ToNormalizeButLast(E, skip) == {e \in E : e < Epics} \ skip
ToNormalize(E, skip) == E \ skip

Renamed(stored, skip) == IF stored = {} THEN SUBSET (skip \cap Epic) ELSE {{}}

Matched(stored, skip, names) ==
  LET E == IF stored = {} THEN Epic ELSE stored
      fresh == skip = {}
      failed == [stories |-> Fallback, epics |-> {Whole}, clean |-> FALSE]
      todo == ToNormalize(E, skip \ names)
      parts == Yields(todo)
  IN { [stories |-> InOrder(Parts(done, "plan"))
                      \o (IF fresh THEN InOrder(Parts(crit, "critic")) ELSE <<>>),
        epics |-> E, clean |-> done = todo]
       : done \in {S \in parts : S # {} \/ ~fresh \/ May("drop")}, crit \in Critic(E) }
     \cup (IF fresh /\ {} \in parts THEN {failed} ELSE {})
     \cup (IF May("outage") /\ stored = {} THEN {failed} ELSE {})

Normalized(stored, skip) ==
  UNION {Matched(stored, skip, names) : names \in Renamed(stored, skip)}

-----------------------------------------------------------------------------
(* The tasks.                                                              *)

Ends(t) == task' = [task EXCEPT ![t] = NoTask]

\* What a Redis that may fail keeps, or hands out, of a list of epics.
OrNothing(value, nothing) == {value} \cup (IF May("redis") THEN {nothing} ELSE {})

\* _run_planner alone looks at the budget again; _resume_import notes at once
\* what is covered and where the numbers go on.
Offset == IF stories = <<>> THEN 0
          ELSE CHOOSE n \in {stories[i].seq : i \in DOMAIN stories} :
                 \A i \in DOMAIN stories : stories[i].seq <= n
Covered == {stories[i].epic : i \in DOMAIN stories}

Begin(t) ==
  /\ task[t].at = "start"
  /\ \/ task[t].kind = "plan" /\ May("budget") /\ Ends(t)
     \/ task[t].kind # "resume" /\ task' = [task EXCEPT ![t].at = "provision"]
     \/ task[t].kind = "resume"
          /\ \E E \in OrNothing(known, {}) :
               task' = [task EXCEPT ![t] = [@ EXCEPT !.at = "call", !.skip = Covered,
                                                     !.offset = Offset, !.epics = E]]
  /\ UNCHANGED <<scenario, idea, asked, stories, known, replay, repo, released, filled, blind>>

\* _persist_plan: the stories follow each other from offset + 1; the first one
\* starts unless the plan is gated or appended.
\* (Mutant: the gate is only thought of for an append.)
GatedAppend(offset) == offset > 0
Gated(offset) == May("gate") \/ offset > 0

\* (Mutant: the numbers start at zero.)
StoredFromZero(plan, offset) ==
  [i \in DOMAIN plan |->
     [epic |-> plan[i].epic, part |-> plan[i].part, seq |-> offset + i - 1, st |-> "backlog"]]
Stored(plan, offset) ==
  [i \in DOMAIN plan |->
     [epic |-> plan[i].epic, part |-> plan[i].part, seq |-> offset + i,
      st |-> IF i = 1 /\ ~Gated(offset) THEN "in-progress" ELSE "backlog"]]

Persist(plan, offset) ==
  /\ Len(stories) + Len(plan) <= MaxStories
  /\ stories' = stories \o Stored(plan, offset)
  /\ released' = (released \/ (~May("gate") /\ offset = 0))

\* _provision_project_repo: only a repository created by this call is scaffolded.
\* (Mutant: only one that was there.)
ProvisionedLate == [there |-> TRUE, scaffold |-> repo.there]
Provisioned == [there |-> TRUE, scaffold |-> repo.there => repo.scaffold]

\* Without a pin the planner's model is asked; a broken pin ends the task.
Provision(t) ==
  /\ task[t].at = "provision"
  /\ \/ repo' = Provisioned
     \/ May("forge") /\ repo' \in {repo, [repo EXCEPT !.there = TRUE]}
  /\ \/ /\ task[t].kind = "import" \/ replay = "none"
        /\ task' = [task EXCEPT ![t].at = "call"]
        /\ UNCHANGED <<stories, released>>
     \/ /\ task[t].kind = "plan" /\ replay = "broken" /\ Ends(t)
        /\ UNCHANGED <<stories, released>>
     \/ /\ task[t].kind = "plan" /\ replay = "good" /\ Ends(t)
        /\ Persist(InOrder(Parts(Epic, "plan")), 0)
  /\ UNCHANGED <<scenario, idea, asked, known, replay, filled, blind>>

PlannerReturns(t) ==
  /\ task[t].at = "call" /\ task[t].kind = "plan" /\ Ends(t)
  /\ \E plan \in Decomposed : Persist(plan, 0)
  /\ UNCHANGED <<scenario, idea, asked, known, replay, repo, filled, blind>>

ImportReturns(t) ==
  /\ task[t].at = "call" /\ task[t].kind = "import" /\ Ends(t)
  /\ \E n \in Normalized({}, {}) :
       Persist(n.stories, 0) /\ known' \in OrNothing(n.epics, known)
  /\ UNCHANGED <<scenario, idea, asked, replay, repo, filled, blind>>

ResumeReturns(t) ==
  /\ task[t].at = "call" /\ task[t].kind = "resume" /\ Ends(t)
  /\ \E n \in Normalized(task[t].epics, task[t].skip) :
       /\ filled' = (filled \/ n.clean)
       /\ blind' = (blind \/ (task[t].epics = {} /\ task[t].skip # {}))
       /\ IF n.stories = <<>> THEN UNCHANGED <<stories, released>>
          ELSE Persist(n.stories, task[t].offset)
  /\ UNCHANGED <<scenario, idea, asked, known, replay, repo>>

CallFails(t) ==
  /\ task[t].at = "call" /\ May("outage") /\ Ends(t)
  /\ UNCHANGED <<scenario, idea, asked, stories, known, replay, repo, released, filled, blind>>

-----------------------------------------------------------------------------
(* The board.                                                              *)

\* unlock_next_story(s) and the dispatch that follows.
\* (Mutant: the story at the end of the plan is unlocked.)
NextUpLast(i) ==
  {j \in DOMAIN stories : /\ stories[j].st = "backlog" /\ stories[j].seq > stories[i].seq
                          /\ \A k \in DOMAIN stories :
                               stories[k].st = "backlog" => stories[k].seq <= stories[j].seq}
NextUp(i) ==
  LET later == {j \in DOMAIN stories : stories[j].st = "backlog"
                                         /\ stories[j].seq > stories[i].seq}
  IN {j \in later : \A k \in later : \/ stories[j].seq < stories[k].seq
                                     \/ (stories[j].seq = stories[k].seq /\ j <= k)}

Finish(i, st) ==
  /\ stories' = [j \in DOMAIN stories |->
       IF j = i THEN [stories[j] EXCEPT !.st = st]
       ELSE IF j \in NextUp(i) THEN [stories[j] EXCEPT !.st = "in-progress"] ELSE stories[j]]
  /\ UNCHANGED <<scenario, idea, asked, task, known, replay, repo, released, filled, blind>>

StoryDone(i) == stories[i].st = "in-progress" /\ Finish(i, "done")
AbandonItem(i) ==
  May("abandon") /\ stories[i].st \notin {"done", "abandoned"} /\ Finish(i, "abandoned")

\* approve_plan: only a plan of which nothing has moved.
ApprovePlan ==
  /\ Exists /\ stories # <<>> /\ ~Started /\ (May("early") \/ ~Busy)
  /\ released' = TRUE
  /\ \E i \in DOMAIN stories :
       /\ \A j \in DOMAIN stories : \/ stories[i].seq < stories[j].seq
                                    \/ (stories[i].seq = stories[j].seq /\ i <= j)
       /\ stories' = [stories EXCEPT ![i].st = "in-progress"]
  /\ UNCHANGED <<scenario, idea, asked, task, known, replay, repo, filled, blind>>

Stopped(s) == IF s.st = "done" THEN s ELSE [s EXCEPT !.st = "abandoned"]

CancelIdea ==
  /\ Exists /\ (~Busy \/ May("withdraw"))
  /\ idea' = "abandoned"
  /\ stories' = [i \in DOMAIN stories |-> Stopped(stories[i])]
  /\ UNCHANGED <<scenario, asked, task, known, replay, repo, released, filled, blind>>

DeleteProject ==
  /\ Exists /\ (~Busy \/ May("withdraw"))
  /\ \A i \in DOMAIN stories : stories[i].st # "in-progress"
  /\ idea' = "deleted" /\ stories' = <<>>
  /\ UNCHANGED <<scenario, asked, task, known, replay, repo, released, filled, blind>>

\* Nothing of a task is kept, and no startup step looks for a plan that is missing; a
\* repository being provisioned may stay without its scaffold.
Crash ==
  /\ May("crash") /\ Busy
  /\ task' = [t \in Task |-> NoTask] /\ asked' = 0
  /\ repo' \in {repo} \cup {[repo EXCEPT !.there = TRUE] : t \in {t \in Task : task[t].at = "provision"}}
  /\ UNCHANGED <<scenario, idea, stories, known, replay, released, filled, blind>>

\* Dies between two create_items of an import; the first one is not claimed yet.
CrashInPersist ==
  /\ May("torn")
  /\ \E t \in Task, n \in Normalized({}, {}) :
       \E k \in 1..(Len(n.stories) - 1) :
         /\ task[t].at = "call" /\ task[t].kind = "import"
         /\ Len(stories) + k <= MaxStories
         /\ stories' = stories \o [i \in 1..k |-> [Stored(n.stories, 0)[i] EXCEPT !.st =
                                     IF @ = "in-progress" THEN "ready" ELSE @]]
         /\ known' \in OrNothing(n.epics, known)
  /\ task' = [t \in Task |-> NoTask] /\ asked' = 0
  /\ released' = (released \/ ~Gated(0))
  /\ UNCHANGED <<scenario, idea, replay, repo, filled, blind>>

TaskStep(t) ==
  \/ Begin(t) \/ Provision(t) \/ PlannerReturns(t) \/ ImportReturns(t) \/ ResumeReturns(t)
  \/ CallFails(t)

Next ==
  \/ Submit \/ Import \/ ApproveAsked \/ Approve \/ Reject \/ PlanItem \/ ReplayItem
  \/ PinBreaks \/ ResumeItem \/ ApprovePlan \/ CancelIdea \/ DeleteProject
  \/ Crash \/ CrashInPersist
  \/ \E t \in Task : TaskStep(t)
  \/ \E i \in DOMAIN stories : StoryDone(i) \/ AbandonItem(i)

Spec == Init /\ [][Next]_vars

\* A handler goes on when its body has arrived, a thread ends, a coder ends; the
\* operator owes nothing.
Fairness ==
  /\ WF_vars(Approve) /\ \A t \in Task : WF_vars(TaskStep(t))
  /\ \A i \in 1..MaxStories : WF_vars(i \in DOMAIN stories /\ StoryDone(i))

FairSpec == Spec /\ Fairness

-----------------------------------------------------------------------------
(* What must hold.                                                         *)

\* However often a plan is resumed, no story is written twice (resume_import: "Safe to
\* call repeatedly"; _resume_import: "without redoing completed work").
NothingWrittenTwice ==
  \A i, j \in DOMAIN stories : i # j =>
    Part(stories[i].epic, stories[i].part) # Part(stories[j].epic, stories[j].part)

\* ... which is so, however imports, resumes, failed epics and crashes follow each
\* other, unless a resume went by a list of its own because none was stored; and no two
\* stories have the same number.  Both as long as the operator waits for a task to end
\* before pressing again, resumes nothing unapproved, and pass 1 does not fail.
PlanHasNoDuplicates ==
  scenario \cap {"twice", "outage", "astray"} = {} =>
    /\ \A i, j \in DOMAIN stories : i # j => stories[i].seq # stories[j].seq
    /\ ~blind => NothingWrittenTwice

\* No story is started before the operator has approved the plan, when the gate is on
\* (_persist_plan), unless stories of the waiting plan are abandoned one by one.
NothingStartsUnapproved ==
  May("abandon") \/ released \/ \A i \in DOMAIN stories : stories[i].st \in {"backlog", "abandoned"}

\* A resume none of whose calls fails leaves no epic of the plan without its
\* story (resume_import: "until the plan is complete").
ResumeCompletesPlan ==
  filled /\ idea # "deleted" =>
    \A e \in Epic : \E i \in DOMAIN stories : Part(e, "plan") = Part(stories[i].epic, stories[i].part)

\* ... which is so when the first import saw its list of epics, got some story,
\* and its critic added none to an epic that had failed.
ResumeCompletesPlanElse ==
  scenario \cap {"outage", "critic", "torn"} = {} /\ Whole \notin known => ResumeCompletesPlan

\* A started plan never has stories in backlog that nothing will ever start: with
\* no coder at work and no task alive, none is left, unless stories are appended
\* to a plan already running (by an early or astray resume) or abandoned out of order,
\* or the idea was cancelled (unlock_next_story).
NoStrandedBacklog ==
  scenario \cap {"early", "abandon", "torn", "twice", "astray"} = {} /\ Started /\ ~Busy
    /\ idea # "abandoned"
    /\ (\A i \in DOMAIN stories : stories[i].st # "in-progress")
    => \A i \in DOMAIN stories : stories[i].st # "backlog"

\* Nothing is worked on for an idea that was rejected, cancelled or deleted
\* (cancel_idea: "Stop a whole idea").
NoWorkForWithdrawn ==
  idea \in {"rejected", "abandoned", "deleted"} =>
    \A i \in DOMAIN stories : stories[i].st \in {"done", "abandoned"}

\* A coder is never sent into a repository without its scaffold, whichever task
\* created it, as long as Forgejo does not fail, the process does not die between the
\* two, and nobody resumes what was never provisioned: an idea not approved, or after a
\* replay that ended over budget, or beside a task still provisioning
\* (_provision_project_repo).
WorkHasScaffold ==
  scenario \cap {"forge", "crash", "torn", "twice", "budget", "astray"} = {} /\ stories # <<>> => repo.scaffold

\* An approved idea gets its stories, whatever the model answers, unless the
\* process dies, the budget is spent, the call raises, the idea is withdrawn, or all
\* stories of an import are unusable, for which _finalize_stories has no fallback
\* (_run_planner, _fallback).
ApprovedGetsPlan ==
  scenario \cap {"crash", "torn", "budget", "outage", "twice", "drop"} = {} /\ idea = "approved"
    ~> stories # <<>> \/ idea # "approved"

=============================================================================
