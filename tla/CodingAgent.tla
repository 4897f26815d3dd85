----------------------------- MODULE CodingAgent -----------------------------
(***************************************************************************)
(* The work of one story on its branch in Forgejo (coding_agent/main.py,   *)
(* git_ops.py, opencode_agent.py, sandbox_runner.py and the caller in      *)
(* event_bus/main.py): coding runs, fix runs after a review, their pushes  *)
(* and pull requests, the main branch moving meanwhile, and the way a run  *)
(* in a container tells the server how it ended.                           *)
(*                                                                         *)
(* A branch is the set of its commits: a push fast-forwards exactly when   *)
(* the remote's commits are all in the pushed tree, a merge is a union.    *)
(***************************************************************************)
EXTENDS Integers, FiniteSets

CONSTANTS
  Runs,       \* runs that may be alive at a time: 1..Runs
  TestIters,  \* _MAX_TEST_ITERS
  MaxCommits, \* bound: commits made, by agents and on main
  Scenarios   \* the sets of circumstances to explore

Circumstance ==
  { "crash",    \* the web process dies and restarts; its containers run on meanwhile
    "stray",    \* ... and the restart fails to remove some of them
    "twin",     \* the story is dispatched again while a run is alive
    "fails",    \* the model, a provider or the tests' retry raises
    "api",      \* Forgejo refuses a call
    "crowd",    \* the repository has more open pull requests than one page lists
    "idle",     \* the agent finds nothing to change
    "conflict", \* a merge of main into the branch conflicts
    "late",     \* the pull request is merged while a run is alive
    "killed",   \* the container dies (memory, operator)
    "lost",     \* neither result file nor result line survives the container
    "bare" }    \* the repository has no .gitignore (every stack but python)

ASSUME CodingAgentAssumption ==
  /\ Runs \in Nat \ {0} /\ TestIters \in Nat /\ MaxCommits \in Nat
  /\ Scenarios \subseteq SUBSET Circumstance

VARIABLES
  scenario,  \* the circumstances of this behaviour
  up,        \* the web process is running
  main,      \* commits on main
  branch,    \* commits on the story's branch, {} when there is none
  pr,        \* the branch's latest pull request
  story,     \* the story as the server sees it
  made,      \* commits made so far
  run        \* the runs

vars == <<scenario, up, main, branch, pr, story, made, run>>

May(c) == c \in scenario
Run == 1..Runs
Ignore(r) == MaxCommits + r      \* a commit of nothing but a .gitignore
Commit == 0..(MaxCommits + Runs)
NoRun == [kind |-> "code", at |-> "none", tree |-> {}, origin |-> {}, base |-> {}, work |-> 0,
          merging |-> FALSE, tries |-> 0, ret |-> "none", heard |-> FALSE, company |-> FALSE,
          missed |-> FALSE]

RunState ==
  [kind : {"code", "fix"},
   at : {"none", "clone", "checkout", "merge", "agent", "test", "commit", "push", "find",
         "create", "refused", "return"},
   tree : SUBSET Commit, origin : SUBSET Commit, base : SUBSET Commit, work : Commit,
   merging : BOOLEAN, tries : 0..TestIters,
   ret : {"none", "success", "no_changes", "error", "killed"}, heard : BOOLEAN,
   company : BOOLEAN, missed : BOOLEAN]

\* Whatever runs, commits and restarts happen, every run is at a step the agent has
\* and has made no more attempts than it may.
TypeOK ==
  /\ scenario \in Scenarios /\ up \in BOOLEAN /\ main \subseteq Commit /\ branch \subseteq Commit
  /\ pr \in {"none", "open", "merged"}
  /\ story \in {"ready", "in-progress", "in-review", "changes-requested", "done"}
  /\ made \in 0..MaxCommits
  /\ run \in [Run -> RunState]

Init ==
  /\ scenario \in Scenarios /\ up = TRUE
  /\ main = {0} /\ branch = {} /\ pr = "none" /\ story = "ready" /\ made = 0
  /\ run = [r \in Run |-> NoRun]

Alive(r) == run[r].at # "none"

\* A run starts: whoever else is alive has company from now on.
Starts(r, kind) ==
  /\ up /\ ~Alive(r) /\ \A q \in 1..(r - 1) : Alive(q)
  /\ run' = [q \in Run |->
       IF q = r THEN [NoRun EXCEPT !.kind = kind, !.at = "clone", !.heard = TRUE,
                                   !.company = \E o \in Run : Alive(o)]
       ELSE IF Alive(q) THEN [run[q] EXCEPT !.company = TRUE] ELSE run[q]]

\* _run_coding_agent, for a claimed story or for one that another task still codes.
Code(r) ==
  /\ story = "ready" \/ (story = "in-progress" /\ May("twin"))
  /\ Starts(r, "code") /\ story' = "in-progress"
  /\ UNCHANGED <<scenario, up, main, branch, pr, made>>

\* _run_recode_agent / recode_for_pr: a review, a test or CI asked for changes.
Fix(r) ==
  /\ story = "in-review" /\ pr = "open"
  /\ Starts(r, "fix") /\ story' = "changes-requested"
  /\ UNCHANGED <<scenario, up, main, branch, pr, made>>

-----------------------------------------------------------------------------
(* The steps of a run.                                                     *)

At(r, kind, step) == run[r].kind = kind /\ run[r].at = step
Local == UNCHANGED <<scenario, up, main, branch, pr, story>>
Goes(r, step) == run' = [run EXCEPT ![r].at = step]
Returns(r, ret) == run' = [run EXCEPT ![r].at = "return", ![r].ret = ret]

Clone(r) ==
  /\ run[r].at = "clone"
  /\ run' = [run EXCEPT ![r].at = "checkout", ![r].tree = main,
                        ![r].origin = IF run[r].kind = "fix" THEN branch ELSE {}]
  /\ Local /\ UNCHANGED made

\* Where a coding run starts: from what an earlier attempt has pushed, if anything.
\* (Mutant: always from main.)
StartingFromMain(r) == run[r].tree
StartingFrom(r) == IF branch # {} THEN branch ELSE run[r].tree

\* create_or_checkout_branch asks the remote again, checkout_branch trusts the clone.
\* remote_branch_exists says no when the remote does not answer: the run then starts
\* from main, and has missed its branch.
Checkout(r) ==
  /\ run[r].at = "checkout"
  /\ \/ /\ run[r].kind = "code"
        /\ run' = [run EXCEPT ![r].at = "agent", ![r].tree = StartingFrom(r)]
     \/ /\ run[r].kind = "code" /\ May("api")
        /\ run' = [run EXCEPT ![r].at = "agent", ![r].missed = branch # {}]
     \/ /\ run[r].kind = "fix"
        /\ run' = [run EXCEPT ![r].at = "merge", ![r].tree = run[r].origin]
  /\ Local /\ UNCHANGED made

\* merge_base_branch: a conflict is left to the agent, in the middle of the merge.
\* (Mutant: the merge is given up.)
MergeBaseGivesUp(r) ==
  /\ run[r].at = "merge"
  /\ \/ run' = [run EXCEPT ![r].at = "agent", ![r].base = main, ![r].tree = @ \cup main]
     \/ /\ May("conflict") /\ ~(main \subseteq run[r].tree)
        /\ run' = [run EXCEPT ![r].at = "agent", ![r].base = main]
  /\ Local /\ UNCHANGED made
MergeBase(r) ==
  /\ run[r].at = "merge"
  /\ \/ run' = [run EXCEPT ![r].at = "agent", ![r].base = main, ![r].tree = @ \cup main]
     \/ /\ May("conflict") /\ ~(main \subseteq run[r].tree)
        /\ run' = [run EXCEPT ![r].at = "agent", ![r].base = main, ![r].merging = TRUE]
  /\ Local /\ UNCHANGED made

After(r) == IF run[r].kind = "code" THEN "test" ELSE "commit"

\* run_opencode_agent edits files; what it raises throws the whole workspace away.
Agent(r) ==
  /\ run[r].at = "agent" /\ Local
  /\ \/ /\ run[r].work = 0 /\ made < MaxCommits
        /\ made' = made + 1
        /\ run' = [run EXCEPT ![r].at = After(r), ![r].work = made + 1]
     \/ /\ run[r].work # 0 \/ May("idle") \/ made = MaxCommits
        /\ Goes(r, After(r)) /\ UNCHANGED made
     \/ May("fails") /\ Returns(r, "error") /\ UNCHANGED made

\* _run_test_command: a missing toolchain skips the tests, a timeout fails them.
TestStatus == {"pass", "fail", "skipped"}
AgentAgain(r) == run' = [run EXCEPT ![r].at = "agent", ![r].tries = @ + 1]
TestsOver(r) == run' = [run EXCEPT ![r].at = "commit", ![r].tries = 0]

\* After a failure the agent tries again, so many times.
\* (Mutants: until they pass; once more than allowed.)
TestForever(r) ==
  /\ run[r].at = "test"
  /\ \E status \in TestStatus :
       IF status = "fail" THEN Goes(r, "agent") ELSE TestsOver(r)
  /\ Local /\ UNCHANGED made
TestOnceMore(r) ==
  /\ run[r].at = "test"
  /\ \E status \in TestStatus :
       IF status = "fail" /\ run[r].tries <= TestIters THEN AgentAgain(r) ELSE TestsOver(r)
  /\ Local /\ UNCHANGED made
Test(r) ==
  /\ run[r].at = "test"
  /\ \E status \in TestStatus :
       IF status = "fail" /\ run[r].tries < TestIters THEN AgentAgain(r) ELSE TestsOver(r)
  /\ Local /\ UNCHANGED made

\* commit_all writes a .gitignore first where there is none, and commits when the
\* index differs from HEAD: a merge resolved to HEAD is not concluded.
Ignored(r) ==
  IF May("bare") /\ \A o \in Run : Ignore(o) \notin run[r].tree THEN {Ignore(r)} ELSE {}
NewWork(r) == (IF run[r].work = 0 THEN {} ELSE {run[r].work}) \cup Ignored(r)

\* has_unpushed
Unpushed(r) == ~(run[r].tree \subseteq run[r].origin)

Committed(r) ==
  /\ run[r].at = "commit" /\ NewWork(r) # {}
  /\ run' = [run EXCEPT ![r].at = "push", ![r].work = 0, ![r].merging = FALSE,
       ![r].tree = @ \cup NewWork(r) \cup (IF run[r].merging THEN run[r].base ELSE {})]
  /\ Local /\ UNCHANGED made

\* Nothing to commit: a coding run looks at the agent's words, a fix run pushes the
\* merge of main if there was one.
NothingToCommit(r) ==
  /\ run[r].at = "commit" /\ NewWork(r) = {}
  /\ \/ At(r, "code", "commit") /\ \E ret \in {"no_changes", "error"} : Returns(r, ret)
     \/ At(r, "fix", "commit") /\ Unpushed(r) /\ Goes(r, "push")
     \/ At(r, "fix", "commit") /\ ~Unpushed(r) /\ Returns(r, "no_changes")
  /\ Local /\ UNCHANGED made

Push(r) ==
  /\ run[r].at = "push" /\ UNCHANGED <<scenario, up, main, pr, story, made>>
  /\ \/ /\ branch \subseteq run[r].tree /\ branch' = run[r].tree
        /\ IF run[r].kind = "code" THEN Goes(r, "find") ELSE Returns(r, "success")
     \/ ~(branch \subseteq run[r].tree) /\ Goes(r, "refused") /\ UNCHANGED branch

\* find_open_pr reads one page of the list, then create_pr: Forgejo takes one open pull
\* request per branch.
FindPr(r) ==
  /\ run[r].at = "find"
  /\ \/ pr = "open" /\ Returns(r, "success")
     \/ /\ pr # "open" \/ May("crowd")
        /\ run' = [run EXCEPT ![r].at = "create", ![r].missed = @ \/ pr = "open"]
  /\ Local /\ UNCHANGED made

\* (Mutant: the answer is not looked at.)
CreatePrUnchecked(r) ==
  /\ run[r].at = "create" /\ Returns(r, "success") /\ pr' \in {pr, "open"}
  /\ UNCHANGED <<scenario, up, main, branch, story, made>>
CreatePr(r) ==
  /\ run[r].at = "create"
  /\ IF pr = "open" THEN Goes(r, "refused") /\ UNCHANGED pr
                    ELSE Returns(r, "success") /\ pr' = "open"
  /\ UNCHANGED <<scenario, up, main, branch, story, made>>

\* A refused push or pull request is an exception of the run.
Refused(r) == run[r].at = "refused" /\ Returns(r, "error") /\ Local /\ UNCHANGED made

\* Forgejo fails: to clone, to fetch, to push, to list or to open.
ApiFails(r) ==
  /\ May("api") /\ run[r].at \in {"clone", "checkout", "merge", "push", "find", "create"}
  /\ ~At(r, "fix", "checkout")
  /\ Returns(r, "error") /\ Local /\ UNCHANGED made

ContainerDies(r) ==
  /\ May("killed") /\ run[r].kind = "code" /\ run[r].at \notin {"none", "return"}
  /\ Returns(r, "killed") /\ Local /\ UNCHANGED made

\* What _run_coding_agent_sandboxed_sync makes of it: the result file, else the
\* result line, else the exit status, which is zero for a success and for no changes.
\* (Mutant: an exit status is not asked for.)
ToldUnasked(ret, channel) ==
  IF ret # "killed" /\ channel THEN ret ELSE "no_changes"
Told(ret, channel) ==
  IF ret = "killed" THEN "error"
  ELSE IF channel THEN ret
  ELSE IF ret = "error" THEN "error" ELSE "no_changes"

\* The caller's state for a coding run; an error past the cap parks the story.
AfterCode(told) ==
  CASE told = "success"    -> {"in-review"}
    [] told = "no_changes" -> {"done"}
    [] told = "error"      -> {"ready", "changes-requested"}
AfterFix(ret) == IF ret = "success" THEN "in-review" ELSE "changes-requested"

Return(r) ==
  /\ run[r].at = "return"
  /\ \/ ~run[r].heard /\ UNCHANGED story
     \/ At(r, "fix", "return") /\ run[r].heard /\ story' = AfterFix(run[r].ret)
     \/ /\ At(r, "code", "return") /\ run[r].heard
        /\ \E channel \in (IF May("lost") THEN BOOLEAN ELSE {TRUE}) :
             story' \in AfterCode(Told(run[r].ret, channel))
  /\ run' = [run EXCEPT ![r] = NoRun]
  /\ UNCHANGED <<scenario, up, main, branch, pr, made>>

-----------------------------------------------------------------------------
(* Around the runs.                                                        *)

\* Another story is merged.
MainMoves ==
  /\ made < MaxCommits /\ made' = made + 1 /\ main' = main \cup {made + 1}
  /\ UNCHANGED <<scenario, up, branch, pr, story, run>>

\* The gate or a human merges; the story is done when main is green.
Merge ==
  /\ up /\ pr = "open" /\ (May("late") \/ (story = "in-review" /\ \A r \in Run : ~Alive(r)))
  /\ main' = main \cup branch /\ pr' = "merged" /\ story' = "done"
  /\ UNCHANGED <<scenario, up, branch, made, run>>

\* reset_item, for a parked story.
Reset ==
  /\ up /\ story = "changes-requested" /\ \A r \in Run : ~Alive(r)
  /\ story' = "ready"
  /\ UNCHANGED <<scenario, up, main, branch, pr, made, run>>

\* The threads of the web process die; its containers go on, and nobody hears them.
Crash ==
  /\ May("crash") /\ up /\ (\E r \in Run : Alive(r)) /\ up' = FALSE
  /\ \E on \in SUBSET {r \in Run : At(r, "code", run[r].at) /\ Alive(r)} :
       run' = [r \in Run |-> IF r \in on THEN [run[r] EXCEPT !.heard = FALSE] ELSE NoRun]
  /\ UNCHANGED <<scenario, main, branch, pr, story, made>>

\* lifespan: leftover containers are removed, as far as Docker lets it, before the
\* story they worked on is taken back (_reap_orphan_coder_sandboxes).
\* (Mutant: it is taken back while they work.)
StraysAll == {{r \in Run : Alive(r)}}
Strays == IF May("stray") THEN SUBSET {r \in Run : Alive(r)} ELSE {{}}
Restart ==
  /\ ~up /\ up' = TRUE
  /\ story' = IF story = "in-progress" THEN "ready" ELSE story
  /\ \E left \in Strays : run' = [r \in Run |-> IF r \in left THEN run[r] ELSE NoRun]
  /\ UNCHANGED <<scenario, main, branch, pr, made>>

RunStep(r) ==
  \/ Clone(r) \/ Checkout(r) \/ MergeBase(r) \/ Agent(r) \/ Test(r) \/ Committed(r)
  \/ NothingToCommit(r) \/ Push(r) \/ FindPr(r) \/ CreatePr(r) \/ Refused(r) \/ Return(r)

Next ==
  \/ MainMoves \/ Merge \/ Reset \/ Crash \/ Restart
  \/ \E r \in Run : Code(r) \/ Fix(r) \/ RunStep(r) \/ ApiFails(r) \/ ContainerDies(r)

Spec == Init /\ [][Next]_vars

\* opencode and the tests are killed after a timeout; git and Forgejo answer.
Fairness == \A r \in Run : WF_vars(RunStep(r))

FairSpec == Spec /\ Fairness

-----------------------------------------------------------------------------
(* What must hold.                                                         *)

\* A run that works alone is not refused its push or its pull request, whatever
\* earlier attempts left behind (create_or_checkout_branch: "so new work builds on top
\* of it and the push fast-forwards"; find_open_pr).
AloneIsNeverRefused ==
  \A r \in Run : run[r].at = "refused" => run[r].company

\* ... which is so unless it was told that its branch or its pull request is not there
\* when it is; and to have company takes a second dispatch of the story or a container
\* that the restart could not remove (_reap_orphan_coder_sandboxes: "so a reclaimed
\* story's new coder can't race it").
AloneIsNeverRefusedElse ==
  \A r \in Run : run[r].at = "refused" =>
    run[r].missed \/ (run[r].company /\ scenario \cap {"twin", "stray"} # {})

\* A successful fix holds all of main as it was when the run merged it, also when
\* the merge conflicted (merge_base_branch, commit_all).
FixHoldsMain ==
  \A r \in Run : At(r, "fix", "return") /\ run[r].ret = "success" => run[r].base \subseteq branch

\* A story that is in review or done has no work on its branch that is neither in
\* main nor in an open pull request ("genuinely found nothing to implement").
NoForgottenWork ==
  story \in {"in-review", "done"} /\ (\A r \in Run : ~Alive(r))
    => branch \subseteq main \/ pr = "open"

\* ... which is so unless an attempt was cut off between its push and its pull
\* request, or the request was merged under a run.
NoForgottenWorkElse ==
  scenario \cap {"crash", "api", "killed", "lost", "late", "twin"} = {} => NoForgottenWork

\* A story is only done by its merged pull request or by a coder that ended by
\* itself: a killed container or a raised error never ends it, as long as one of
\* the two ways of telling the result works (_run_coding_agent_sandboxed_sync).
\* Stated of the step that ends the run.
OnlyOutcomesEndStories ==
  [][ story # "done" /\ story' = "done" =>
        \/ pr' = "merged" /\ pr # "merged"
        \/ \E r \in Run : /\ run[r].at = "return" /\ run'[r].at = "none"
                          /\ run[r].ret \in {"no_changes"} \cup (IF May("lost") THEN {"success"} ELSE {}) ]_vars

\* Every run ends.
RunsEnd == \A r \in Run : Alive(r) ~> ~Alive(r)

=============================================================================
