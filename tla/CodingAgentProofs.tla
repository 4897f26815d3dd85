------------------------- MODULE CodingAgentProofs -------------------------
(***************************************************************************)
(* Theorems about CodingAgent, for every number of runs, of attempts and   *)
(* of commits, and every choice of circumstances.                          *)
(***************************************************************************)
EXTENDS CodingAgent, TLAPS

-----------------------------------------------------------------------------
(* Types. *)

LEMMA NoRunIsRunState == NoRun \in RunState /\ NoRun.at = "none"
BY CodingAgentAssumption DEF NoRun, RunState, Commit

LEMMA CommitsExist ==
  /\ 0 \in Commit /\ \A n \in 1..MaxCommits : n \in Commit
  /\ \A r \in Run : Ignore(r) \in Commit
BY CodingAgentAssumption DEF Commit, Run, Ignore

LEMMA ReturnsTyped ==
  ASSUME TypeOK, NEW r \in Run, NEW ret \in {"success", "no_changes", "error", "killed"},
         Returns(r, ret)
  PROVE  run' \in [Run -> RunState]
<1>1. [run[r] EXCEPT !.at = "return", !.ret = ret] \in RunState
  <2>1. run[r] \in RunState
    BY DEF TypeOK
  <2> QED
    BY <2>1 DEF RunState
<1> QED
  BY <1>1 DEF TypeOK, Returns

LEMMA GoesTyped ==
  ASSUME TypeOK, NEW r \in Run,
         NEW step \in {"agent", "test", "commit", "push", "find", "create", "refused"},
         Goes(r, step)
  PROVE  run' \in [Run -> RunState]
<1>1. [run[r] EXCEPT !.at = step] \in RunState
  BY DEF TypeOK, RunState
<1> QED
  BY <1>1 DEF TypeOK, Goes

LEMMA StartsTyped ==
  ASSUME TypeOK, NEW r \in Run, NEW kind \in {"code", "fix"}, Starts(r, kind)
  PROVE  run' \in [Run -> RunState]
<1>1. [NoRun EXCEPT !.kind = kind, !.at = "clone", !.heard = TRUE,
                    !.company = \E o \in Run : Alive(o)] \in RunState
  BY NoRunIsRunState DEF RunState
<1>2. ASSUME NEW q \in Run
      PROVE  [run[q] EXCEPT !.company = TRUE] \in RunState
  <2>1. run[q] \in RunState
    BY DEF TypeOK
  <2> QED
    BY <2>1 DEF RunState
<1> QED
  BY <1>1, <1>2 DEF Starts, TypeOK

\* A run that returns has an answer.
AnswerGiven == \A r \in Run : run[r].at = "return" => run[r].ret # "none"

LEMMA RunStepTyped ==
  ASSUME TypeOK, AnswerGiven, NEW r \in Run, RunStep(r)
  PROVE  TypeOK'
<1>0. run[r] \in RunState /\ run \in [Run -> RunState] /\ After(r) \in {"test", "commit"}
  BY DEF TypeOK, After
<1>1. CASE Clone(r)
  <2>1. run' \in [Run -> RunState]
    BY <1>0, <1>1 DEF Clone, TypeOK, RunState
  <2> QED
    BY <1>1, <2>1 DEF Clone, Local, TypeOK
<1>2. CASE Checkout(r)
  <2>1. StartingFrom(r) \subseteq Commit
    BY <1>0 DEF StartingFrom, TypeOK, RunState
  <2>2. run' \in [Run -> RunState]
    BY <1>0, <1>2, <2>1 DEF Checkout, TypeOK, RunState
  <2> QED
    BY <1>2, <2>2 DEF Checkout, Local, TypeOK
<1>3. CASE MergeBase(r)
  <2>1. run' \in [Run -> RunState]
    BY <1>0, <1>3 DEF MergeBase, TypeOK, RunState
  <2> QED
    BY <1>3, <2>1 DEF MergeBase, Local, TypeOK
<1>4. CASE Agent(r)
  <2>1. ASSUME made < MaxCommits,
               run' = [run EXCEPT ![r].at = After(r), ![r].work = made + 1], made' = made + 1
        PROVE  run' \in [Run -> RunState] /\ made' \in 0..MaxCommits
    <3>1. made + 1 \in 1..MaxCommits /\ made + 1 \in Commit
      BY <2>1, CommitsExist, CodingAgentAssumption DEF TypeOK
    <3>2. [run[r] EXCEPT !.at = After(r), !.work = made + 1] \in RunState
      BY <1>0, <3>1 DEF RunState
    <3> QED
      BY <1>0, <2>1, <3>1, <3>2
  <2>2. run' \in [Run -> RunState] /\ made' \in 0..MaxCommits
    BY <1>0, <1>4, <2>1, GoesTyped, ReturnsTyped DEF Agent, TypeOK
  <2> QED
    BY <1>4, <2>2 DEF Agent, Local, TypeOK
<1>5. CASE Test(r)
  <2>1. ASSUME AgentAgain(r), run[r].tries < TestIters
        PROVE  run' \in [Run -> RunState]
    <3>1. [run[r] EXCEPT !.at = "agent", !.tries = @ + 1] \in RunState
      <4>1. run[r].tries \in 0..TestIters
        BY <1>0 DEF RunState
      <4>2. run[r].tries + 1 \in 0..TestIters
        BY <2>1, <4>1, CodingAgentAssumption
      <4> QED
        BY <1>0, <4>2 DEF RunState
    <3> QED
      BY <1>0, <2>1, <3>1 DEF AgentAgain
  <2>2. ASSUME TestsOver(r)
        PROVE  run' \in [Run -> RunState]
    <3>1. [run[r] EXCEPT !.at = "commit", !.tries = 0] \in RunState
      <4>1. 0 \in 0..TestIters
        BY CodingAgentAssumption
      <4> QED
        BY <1>0, <4>1 DEF RunState
    <3> QED
      BY <1>0, <2>2, <3>1 DEF TestsOver
  <2>3. run' \in [Run -> RunState]
    BY <1>5, <2>1, <2>2 DEF Test
  <2> QED
    BY <1>5, <2>3 DEF Test, Local, TypeOK
<1>6. CASE Committed(r)
  <2>1. NewWork(r) \subseteq Commit
    BY <1>0, CommitsExist DEF NewWork, Ignored, RunState
  <2>2. run' \in [Run -> RunState]
    <3>1. run[r].tree \cup NewWork(r) \cup (IF run[r].merging THEN run[r].base ELSE {}) \subseteq Commit
      BY <1>0, <2>1 DEF RunState
    <3> QED
      BY <1>0, <1>6, <3>1, CommitsExist DEF Committed, RunState
  <2> QED
    BY <1>6, <2>2 DEF Committed, Local, TypeOK
<1>7. CASE NothingToCommit(r)
  <2>1. run' \in [Run -> RunState]
    BY <1>7, GoesTyped, ReturnsTyped DEF NothingToCommit
  <2> QED
    BY <1>7, <2>1 DEF NothingToCommit, Local, TypeOK
<1>8. CASE Push(r)
  <2>1. run' \in [Run -> RunState]
    BY <1>8, GoesTyped, ReturnsTyped DEF Push
  <2>2. branch' \subseteq Commit
    BY <1>0, <1>8 DEF Push, TypeOK, RunState
  <2> QED
    BY <1>8, <2>1, <2>2 DEF Push, TypeOK
<1>9. CASE FindPr(r)
  <2>1. [run[r] EXCEPT !.at = "create", !.missed = @ \/ pr = "open"] \in RunState
    BY <1>0 DEF RunState
  <2>2. run' \in [Run -> RunState]
    BY <1>0, <1>9, <2>1, ReturnsTyped DEF FindPr
  <2> QED
    BY <1>9, <2>2 DEF FindPr, Local, TypeOK
<1>10. CASE CreatePr(r)
  <2>1. run' \in [Run -> RunState]
    BY <1>10, GoesTyped, ReturnsTyped DEF CreatePr
  <2> QED
    BY <1>10, <2>1 DEF CreatePr, TypeOK
<1>11. CASE Refused(r)
  <2>1. run' \in [Run -> RunState]
    BY <1>11, ReturnsTyped DEF Refused
  <2> QED
    BY <1>11, <2>1 DEF Refused, Local, TypeOK
<1>12. CASE Return(r)
  <2>1. run' \in [Run -> RunState]
    BY <1>0, <1>12, NoRunIsRunState DEF Return
  <2>2. story' \in {"ready", "in-progress", "in-review", "changes-requested", "done"}
    <3>1. CASE UNCHANGED story
      BY <3>1 DEF TypeOK
    <3>2. CASE story' = AfterFix(run[r].ret)
      BY <3>2 DEF AfterFix
    <3>3. ASSUME NEW channel \in BOOLEAN, story' \in AfterCode(Told(run[r].ret, channel))
          PROVE  story' \in {"ready", "in-progress", "in-review", "changes-requested", "done"}
      <4>1. run[r].ret \in {"success", "no_changes", "error", "killed"}
        BY <1>0, <1>12 DEF Return, AnswerGiven, RunState
      <4>2. Told(run[r].ret, channel) \in {"success", "no_changes", "error"}
        BY <4>1 DEF Told
      <4> QED
        BY <3>3, <4>2 DEF AfterCode
    <3> QED
      BY <1>12, <3>1, <3>2, <3>3 DEF Return
  <2> QED
    BY <1>12, <2>1, <2>2 DEF Return, TypeOK
<1> QED
  BY <1>1, <1>2, <1>3, <1>4, <1>5, <1>6, <1>7, <1>8, <1>9, <1>10, <1>11, <1>12 DEF RunStep

LEMMA TypeStep ==
  ASSUME TypeOK, AnswerGiven, [Next]_vars
  PROVE  TypeOK'
<1>1. CASE UNCHANGED vars
  BY <1>1 DEF vars, TypeOK
<1>2. CASE MainMoves
  <2>1. made + 1 \in Commit /\ made + 1 \in 0..MaxCommits
    BY <1>2, CommitsExist, CodingAgentAssumption DEF MainMoves, TypeOK
  <2> QED
    BY <1>2, <2>1 DEF MainMoves, TypeOK
<1>3. CASE Merge \/ Reset
  BY <1>3 DEF Merge, Reset, TypeOK
<1>4. CASE Crash
  <2>1. ASSUME NEW r \in Run
        PROVE  [run[r] EXCEPT !.heard = FALSE] \in RunState
    <3>1. run[r] \in RunState
      BY DEF TypeOK
    <3> QED
      BY <3>1 DEF RunState
  <2>2. run' \in [Run -> RunState]
    BY <1>4, <2>1, NoRunIsRunState DEF Crash, TypeOK
  <2> QED
    BY <1>4, <2>2 DEF Crash, TypeOK
<1>5. CASE Restart
  <2>1. run' \in [Run -> RunState]
    BY <1>5, NoRunIsRunState DEF Restart, TypeOK
  <2> QED
    BY <1>5, <2>1 DEF Restart, TypeOK
<1>6. ASSUME NEW r \in Run, Code(r) \/ Fix(r)
      PROVE  TypeOK'
  <2>1. run' \in [Run -> RunState]
    BY <1>6, StartsTyped DEF Code, Fix
  <2> QED
    BY <1>6, <2>1 DEF Code, Fix, TypeOK
<1>7. ASSUME NEW r \in Run, ApiFails(r) \/ ContainerDies(r)
      PROVE  TypeOK'
  <2>1. run' \in [Run -> RunState]
    BY <1>7, ReturnsTyped DEF ApiFails, ContainerDies
  <2> QED
    BY <1>7, <2>1 DEF ApiFails, ContainerDies, Local, TypeOK
<1> QED
  BY <1>1, <1>2, <1>3, <1>4, <1>5, <1>6, <1>7, RunStepTyped DEF Next

-----------------------------------------------------------------------------
(* What a step does to the runs.                                           *)

\* Crash and Restart end runs or leave them as they were, but for heard; Code and Fix
\* tell the others that they have company; any other step is of one run.
Keeps(r) ==
  /\ run'[r].kind = run[r].kind /\ run'[r].at = run[r].at /\ run'[r].tree = run[r].tree
  /\ run'[r].origin = run[r].origin /\ run'[r].base = run[r].base /\ run'[r].work = run[r].work
  /\ run'[r].merging = run[r].merging /\ run'[r].ret = run[r].ret
  /\ run'[r].missed = run[r].missed
OneRuns(r) ==
  \A q \in Run \ {r} : run'[q] = run[q]

LEMMA StepOfOne ==
  ASSUME TypeOK, NEW r \in Run, RunStep(r) \/ ApiFails(r) \/ ContainerDies(r)
  PROVE  OneRuns(r)
BY DEF TypeOK, OneRuns, RunStep, ApiFails, ContainerDies, Clone, Checkout, MergeBase, Agent, Test,
       AgentAgain, TestsOver, Committed, NothingToCommit, Push, FindPr, CreatePr, Refused, Return,
       Goes, Returns

LEMMA EndedOrKept ==
  ASSUME TypeOK, Crash \/ Restart \/ MainMoves \/ Merge \/ Reset \/ UNCHANGED vars, NEW q \in Run
  PROVE  run'[q] = NoRun \/ (Keeps(q) /\ run'[q].company = run[q].company)
<1>1. run[q] \in RunState
  BY DEF TypeOK
<1> QED
  BY <1>1 DEF Crash, Restart, MainMoves, Merge, Reset, vars, Keeps, RunState

LEMMA StartedOrKept ==
  ASSUME TypeOK, NEW r \in Run, NEW kind \in {"code", "fix"}, Starts(r, kind)
  PROVE  /\ \A q \in Run \ {r} : Keeps(q) /\ run'[q].company = (Alive(q) \/ run[q].company)
         /\ run'[r].kind = kind /\ run'[r].at = "clone"
         /\ run'[r].company = \E o \in Run : Alive(o)
<1>1. ASSUME NEW q \in Run \ {r}
      PROVE  Keeps(q) /\ run'[q].company = (Alive(q) \/ run[q].company)
  <2>1. run[q] \in RunState
    BY DEF TypeOK
  <2>2. run'[q] = IF Alive(q) THEN [run[q] EXCEPT !.company = TRUE] ELSE run[q]
    BY DEF Starts
  <2> QED
    BY <2>1, <2>2 DEF Keeps, RunState
<1>2. run'[r] = [NoRun EXCEPT !.kind = kind, !.at = "clone", !.heard = TRUE,
                              !.company = \E o \in Run : Alive(o)]
  BY DEF Starts
<1> QED
  BY <1>1, <1>2 DEF NoRun

\* An invariant of the runs needs a look at one step of each run, and at its start.
LEMMA AnswerStep ==
  ASSUME TypeOK, AnswerGiven, [Next]_vars
  PROVE  AnswerGiven'
<1> SUFFICES ASSUME NEW q \in Run, run'[q].at = "return"
             PROVE  run'[q].ret # "none"
  BY DEF AnswerGiven
<1>0. run \in [Run -> RunState] /\ run[q] \in RunState /\ NoRun.at = "none"
  BY NoRunIsRunState DEF TypeOK
<1>1. Keeps(q) => run'[q].ret # "none"
  BY DEF Keeps, AnswerGiven
<1>2. CASE Crash \/ Restart \/ MainMoves \/ Merge \/ Reset \/ UNCHANGED vars
  BY <1>0, <1>1, <1>2, EndedOrKept
<1>3. ASSUME NEW r \in Run, Code(r) \/ Fix(r)
      PROVE  run'[q].ret # "none"
  <2>1. PICK kind \in {"code", "fix"} : Starts(r, kind)
    BY <1>3 DEF Code, Fix
  <2> QED
    BY <1>1, <2>1, StartedOrKept
<1>4. ASSUME NEW r \in Run, RunStep(r) \/ ApiFails(r) \/ ContainerDies(r)
      PROVE  run'[q].ret # "none"
  <2>1. CASE q # r
    BY <1>4, <2>1, StepOfOne DEF OneRuns, AnswerGiven
  <2>2. CASE q = r
    <3>1. \/ \E ret \in {"success", "no_changes", "error", "killed"} : Returns(r, ret)
          \/ run'[r].at # "return"
      <4>1. ASSUME NEW step, Goes(r, step)
            PROVE  run'[r].at = step
        BY <1>0, <2>2, <4>1 DEF Goes, RunState
      <4>2. CASE Clone(r) \/ Checkout(r) \/ MergeBase(r) \/ Committed(r)
        BY <1>0, <2>2, <4>2 DEF Clone, Checkout, MergeBase, Committed, RunState
      <4>3. CASE Test(r)
        BY <1>0, <2>2, <4>3 DEF Test, AgentAgain, TestsOver, RunState
      <4>4. CASE Agent(r)
        <5>1. After(r) # "return"
          BY DEF After
        <5>2. CASE run' = [run EXCEPT ![r].at = After(r), ![r].work = made + 1]
          BY <1>0, <2>2, <5>1, <5>2 DEF RunState
        <5> QED
          BY <4>1, <4>4, <5>1, <5>2 DEF Agent
      <4>5. CASE NothingToCommit(r) \/ Push(r) \/ CreatePr(r) \/ Refused(r)
        BY <4>1, <4>5 DEF NothingToCommit, Push, CreatePr, Refused
      <4>8. CASE FindPr(r)
        BY <1>0, <2>2, <4>8 DEF FindPr, RunState
      <4>6. CASE Return(r)
        BY <1>0, <2>2, <4>6 DEF Return
      <4>7. CASE ApiFails(r) \/ ContainerDies(r)
        BY <4>7 DEF ApiFails, ContainerDies
      <4> QED
        BY <1>4, <4>2, <4>3, <4>4, <4>5, <4>6, <4>7, <4>8 DEF RunStep
    <3> QED
      BY <1>0, <2>2, <3>1 DEF Returns, RunState
  <2> QED
    BY <2>1, <2>2
<1> QED
  BY <1>2, <1>3, <1>4 DEF Next

AgentInv == TypeOK /\ AnswerGiven

LEMMA AgentInit == Init => AgentInv
<1> SUFFICES ASSUME Init PROVE AgentInv
  OBVIOUS
<1>1. run \in [Run -> RunState] /\ \A r \in Run : run[r].at = "none"
  BY NoRunIsRunState DEF Init
<1>2. main \subseteq Commit /\ branch \subseteq Commit /\ made \in 0..MaxCommits
  BY CommitsExist, CodingAgentAssumption DEF Init
<1> QED
  BY <1>1, <1>2 DEF Init, AgentInv, TypeOK, AnswerGiven

LEMMA AgentInvHolds == Spec => []AgentInv
<1>1. AgentInv /\ [Next]_vars => AgentInv'
  BY TypeStep, AnswerStep DEF AgentInv
<1> QED
  BY <1>1, AgentInit, PTL DEF Spec

\* The runs stay at the steps the agent has and keep to its attempts, also when they are
\* cut off, run beside each other or outlive the server (run_coding_agent, _MAX_TEST_ITERS).
THEOREM TypeCorrect == Spec => []TypeOK
<1>1. AgentInv => TypeOK
  BY DEF AgentInv
<1> QED
  BY <1>1, AgentInvHolds, PTL

-----------------------------------------------------------------------------
(* How stories end. *)

EndsByOutcome ==
  story # "done" /\ story' = "done" =>
    \/ pr' = "merged" /\ pr # "merged"
    \/ \E r \in Run : /\ run[r].at = "return" /\ run'[r].at = "none"
                      /\ run[r].ret \in {"no_changes"} \cup (IF May("lost") THEN {"success"} ELSE {})

LEMMA ReturnEnds ==
  ASSUME AgentInv, NEW r \in Run, Return(r), story # "done", story' = "done"
  PROVE  EndsByOutcome
<1>0. run \in [Run -> RunState] /\ run[r] \in RunState /\ run[r].at = "return"
  BY DEF AgentInv, TypeOK, Return
<1>1. run'[r].at = "none"
  BY <1>0, NoRunIsRunState DEF Return
<1>2. PICK channel \in BOOLEAN :
        /\ story' \in AfterCode(Told(run[r].ret, channel))
        /\ channel = FALSE => May("lost")
  BY DEF Return, AfterFix
<1>3. run[r].ret \in {"success", "no_changes", "error", "killed"}
  BY <1>0 DEF AgentInv, AnswerGiven, RunState
<1>4. Told(run[r].ret, channel) = "no_changes"
  <2>1. Told(run[r].ret, channel) \in {"success", "no_changes", "error"}
    BY <1>3 DEF Told
  <2> QED
    BY <1>2, <2>1 DEF AfterCode
<1>5. run[r].ret \in {"no_changes"} \cup (IF May("lost") THEN {"success"} ELSE {})
  BY <1>2, <1>3, <1>4 DEF Told
<1> QED
  BY <1>0, <1>1, <1>5 DEF EndsByOutcome

LEMMA OutcomeStep ==
  ASSUME AgentInv, [Next]_vars
  PROVE  EndsByOutcome
<1> SUFFICES ASSUME story # "done", story' = "done"
             PROVE  EndsByOutcome
  BY DEF EndsByOutcome
<1>1. CASE Merge
  BY <1>1 DEF Merge, EndsByOutcome
<1>2. ~(MainMoves \/ Reset \/ Crash \/ Restart \/ UNCHANGED vars)
  BY DEF MainMoves, Reset, Crash, Restart, vars
<1>3. \A r \in Run : ~(Code(r) \/ Fix(r) \/ ApiFails(r) \/ ContainerDies(r))
  BY DEF Code, Fix, ApiFails, ContainerDies, Local
<1>4. ASSUME NEW r \in Run, RunStep(r)
      PROVE  Return(r)
  BY <1>4 DEF RunStep, Clone, Checkout, MergeBase, Agent, Test, Committed, NothingToCommit, Push,
              FindPr, CreatePr, Refused, Local
<1> QED
  BY <1>1, <1>2, <1>3, <1>4, ReturnEnds DEF Next

\* A story ends by the merge of its pull request or by a run that said it changed nothing;
\* a run that was killed or raised never ends it, and one that succeeded only if neither
\* way of telling the result has worked (_run_coding_agent_sandboxed_sync).
THEOREM OutcomesEndStories == Spec => OnlyOutcomesEndStories
<1>1. AgentInv /\ [Next]_vars => [EndsByOutcome]_vars
  BY OutcomeStep
<1>2. Spec => [][EndsByOutcome]_vars
  BY <1>1, AgentInvHolds, PTL DEF Spec
<1> QED
  BY <1>2 DEF OnlyOutcomesEndStories, EndsByOutcome

-----------------------------------------------------------------------------
(* What the tree of a run holds.                                           *)

\* A fix has merged main into its tree, or is in the middle of a merge that changed
\* nothing yet, so that an agent that changes nothing leaves nothing to push.
FixFits(q) ==
  run[q].kind = "fix" =>
    /\ run[q].at \notin {"test", "find", "create"}
    /\ run[q].at = "merge" => run[q].tree \subseteq run[q].origin
    /\ run[q].at \in {"agent", "commit"} =>
         run[q].base \subseteq run[q].tree \/ (run[q].merging /\ run[q].tree \subseteq run[q].origin)
    /\ run[q].at = "push" => run[q].base \subseteq run[q].tree
    /\ run[q].at = "return" /\ run[q].ret = "success" => run[q].base \subseteq branch

\* A run that never had company is the only one; unless it missed what is there, it has
\* the whole branch in its tree and is the only one to open a pull request.
AloneFits(q) ==
  Alive(q) /\ ~run[q].company =>
    /\ \A o \in Run : Alive(o) => o = q
    /\ run[q].kind = "fix" /\ run[q].at \in {"checkout"} => branch \subseteq run[q].origin
    /\ run[q].at \in {"merge", "agent", "test", "commit", "push"} =>
         run[q].missed \/ branch \subseteq run[q].tree
    /\ run[q].at = "create" => run[q].missed \/ pr # "open"
    /\ run[q].at = "refused" => run[q].missed

RunsFit == \A q \in Run : FixFits(q) /\ AloneFits(q)

LEMMA StepIsAlive ==
  ASSUME TypeOK, NEW r \in Run, RunStep(r) \/ ApiFails(r) \/ ContainerDies(r)
  PROVE  Alive(r) /\ branch \subseteq branch' /\ up' = up /\ scenario' = scenario
BY DEF TypeOK, RunState, Alive, RunStep, ApiFails, ContainerDies, Clone, Checkout, MergeBase, Agent,
       Test, Committed, NothingToCommit, Push, FindPr, CreatePr, Refused, Return, At, Local

\* Who lives after a step of r lived before it, in the same company.
LEMMA NobodyJoins ==
  ASSUME TypeOK, NEW r \in Run, RunStep(r) \/ ApiFails(r) \/ ContainerDies(r), NEW o \in Run,
         Alive(o)'
  PROVE  Alive(o) /\ run'[o].company = run[o].company
<1>1. CASE o # r
  BY <1>1, StepOfOne DEF OneRuns, Alive
<1>2. CASE o = r
  <2>0. run[r] \in RunState /\ run \in [Run -> RunState] /\ NoRun.at = "none"
    BY NoRunIsRunState DEF TypeOK
  <2>1. CASE Clone(r) \/ Checkout(r) \/ MergeBase(r) \/ Committed(r) \/ Test(r)
    BY <1>2, <2>0, <2>1, StepIsAlive
    DEF Clone, Checkout, MergeBase, Committed, Test, AgentAgain, TestsOver, RunState
  <2>2. CASE Agent(r)
    BY <1>2, <2>0, <2>2, StepIsAlive DEF Agent, Goes, Returns, RunState
  <2>3. ASSUME NEW step, Goes(r, step)
        PROVE  run'[r].company = run[r].company
    BY <2>0, <2>3 DEF Goes, RunState
  <2>4. ASSUME NEW ret, Returns(r, ret)
        PROVE  run'[r].company = run[r].company
    BY <2>0, <2>4 DEF Returns, RunState
  <2>5. CASE NothingToCommit(r) \/ Push(r) \/ FindPr(r) \/ CreatePr(r) \/ Refused(r)
             \/ ApiFails(r) \/ ContainerDies(r)
    <3>1. run'[r].company = run[r].company
      <4>1. CASE FindPr(r)
        BY <2>0, <2>4, <4>1 DEF FindPr, RunState
      <4> QED
        BY <2>3, <2>4, <2>5, <4>1
        DEF NothingToCommit, Push, CreatePr, Refused, ApiFails, ContainerDies
    <3> QED
      BY <1>2, <3>1, StepIsAlive
  <2>6. CASE Return(r)
    BY <1>2, <2>0, <2>6 DEF Return, Alive
  <2> QED
    BY <2>1, <2>2, <2>5, <2>6 DEF RunStep
<1> QED
  BY <1>1, <1>2

\* The next step of the run itself, for a step on its tree.
LEMMA TreeStep ==
  ASSUME TypeOK, NEW r \in Run, FixFits(r), AloneFits(r),
         \/ Clone(r) \/ Checkout(r) \/ MergeBase(r) \/ Agent(r) \/ Test(r) \/ Committed(r)
         \/ NothingToCommit(r)
  PROVE  FixFits(r)' /\ AloneFits(r)'
<1>0. run[r] \in RunState /\ run \in [Run -> RunState] /\ run[r].merging \in BOOLEAN
  BY DEF TypeOK, RunState
<1>1. RunStep(r)
  BY DEF RunStep
<1>2. (\A o \in Run : Alive(o) => o = r) => (\A o \in Run : Alive(o)' => o = r)
  BY <1>1, NobodyJoins
<1>3. Alive(r)
  BY <1>1, StepIsAlive
<1>4. CASE Clone(r)
  <2>1. /\ run'[r].kind = run[r].kind /\ run'[r].at = "checkout" /\ branch' = branch
        /\ run'[r].origin = (IF run[r].kind = "fix" THEN branch ELSE {})
        /\ run'[r].company = run[r].company /\ run'[r].missed = run[r].missed
    BY <1>0, <1>4 DEF Clone, Local, RunState
  <2> QED
    BY <1>2, <1>3, <2>1 DEF FixFits, AloneFits
<1>5. CASE Checkout(r)
  <2>1. CASE run[r].kind = "code"
    <3>1. /\ run'[r].kind = "code" /\ run'[r].at = "agent" /\ branch' = branch
          /\ run'[r].company = run[r].company
          /\ run'[r].tree = StartingFrom(r) \/ run'[r].missed = (branch # {})
      BY <1>0, <1>5, <2>1 DEF Checkout, Local, RunState
    <3> QED
      BY <1>2, <1>3, <3>1 DEF FixFits, AloneFits, StartingFrom
  <2>2. CASE run[r].kind = "fix"
    <3>1. /\ run'[r].kind = "fix" /\ run'[r].at = "merge" /\ branch' = branch
          /\ run'[r].tree = run[r].origin /\ run'[r].origin = run[r].origin
          /\ run'[r].company = run[r].company /\ run'[r].missed = run[r].missed /\ run[r].at = "checkout"
      BY <1>0, <1>5, <2>2 DEF Checkout, Local, RunState
    <3> QED
      BY <1>2, <1>3, <2>2, <3>1 DEF FixFits, AloneFits
  <2> QED
    BY <1>0, <2>1, <2>2 DEF RunState
<1>6. CASE MergeBase(r)
  <2>1. /\ run'[r].kind = run[r].kind /\ run'[r].at = "agent" /\ branch' = branch
        /\ run'[r].company = run[r].company /\ run'[r].missed = run[r].missed /\ run[r].at = "merge" /\ run'[r].base = main
        /\ run'[r].origin = run[r].origin
        /\ \/ run'[r].tree = run[r].tree \cup main
           \/ run'[r].tree = run[r].tree /\ run'[r].merging = TRUE
    BY <1>0, <1>6 DEF MergeBase, Local, RunState
  <2> QED
    BY <1>2, <1>3, <2>1 DEF FixFits, AloneFits
<1>7. CASE Agent(r)
  <2>1. /\ run'[r].kind = run[r].kind /\ branch' = branch /\ run[r].at = "agent"
        /\ run'[r].company = run[r].company /\ run'[r].missed = run[r].missed /\ run'[r].base = run[r].base
        /\ run'[r].origin = run[r].origin /\ run'[r].tree = run[r].tree
        /\ run'[r].merging = run[r].merging
        /\ \/ run'[r].at = After(r)
           \/ run'[r].at = "return" /\ run'[r].ret = "error"
    BY <1>0, <1>7 DEF Agent, Goes, Returns, Local, RunState
  <2> QED
    BY <1>2, <1>3, <2>1 DEF FixFits, AloneFits, After
<1>8. CASE Test(r)
  <2>1. /\ run'[r].kind = run[r].kind /\ branch' = branch /\ run[r].at = "test"
        /\ run'[r].company = run[r].company /\ run'[r].missed = run[r].missed /\ run'[r].tree = run[r].tree
        /\ run'[r].at \in {"agent", "commit"}
    BY <1>0, <1>8 DEF Test, AgentAgain, TestsOver, Local, RunState
  <2> QED
    BY <1>2, <1>3, <2>1 DEF FixFits, AloneFits
<1>9. CASE Committed(r)
  <2>1. /\ run'[r].kind = run[r].kind /\ branch' = branch /\ run[r].at = "commit"
        /\ run'[r].company = run[r].company /\ run'[r].missed = run[r].missed /\ run'[r].base = run[r].base
        /\ run'[r].at = "push" /\ run[r].tree \subseteq run'[r].tree
        /\ run[r].merging => run[r].base \subseteq run'[r].tree
    BY <1>0, <1>9 DEF Committed, Local, RunState
  <2> QED
    BY <1>2, <1>3, <2>1 DEF FixFits, AloneFits
<1>10. CASE NothingToCommit(r)
  <2>1. /\ run'[r].kind = run[r].kind /\ branch' = branch /\ run[r].at = "commit"
        /\ run'[r].company = run[r].company /\ run'[r].missed = run[r].missed /\ run'[r].base = run[r].base
        /\ run'[r].tree = run[r].tree
        /\ \/ run'[r].at = "return" /\ run'[r].ret \in {"no_changes", "error"}
           \/ run'[r].at = "push" /\ ~(run[r].tree \subseteq run[r].origin)
    BY <1>0, <1>10 DEF NothingToCommit, Goes, Returns, Unpushed, Local, RunState
  <2> QED
    BY <1>2, <1>3, <2>1 DEF FixFits, AloneFits
<1> QED
  BY <1>4, <1>5, <1>6, <1>7, <1>8, <1>9, <1>10

\* ... and for its push, its pull request and its end.
LEMMA PublishStep ==
  ASSUME TypeOK, NEW r \in Run, FixFits(r), AloneFits(r),
         \/ Push(r) \/ FindPr(r) \/ CreatePr(r) \/ Refused(r) \/ Return(r)
         \/ ApiFails(r) \/ ContainerDies(r)
  PROVE  FixFits(r)' /\ AloneFits(r)'
<1>0. run[r] \in RunState /\ run \in [Run -> RunState]
  BY DEF TypeOK
<1>1. RunStep(r) \/ ApiFails(r) \/ ContainerDies(r)
  BY DEF RunStep
<1>2. (\A o \in Run : Alive(o) => o = r) => (\A o \in Run : Alive(o)' => o = r)
  BY <1>1, NobodyJoins
<1>3. Alive(r)
  BY <1>1, StepIsAlive
<1>4. ASSUME NEW ret \in {"error", "killed"}, Returns(r, ret)
      PROVE  FixFits(r)' /\ AloneFits(r)'
  <2>1. /\ run'[r].kind = run[r].kind /\ run'[r].company = run[r].company /\ run'[r].missed = run[r].missed
        /\ run'[r].at = "return" /\ run'[r].ret = ret
    BY <1>0, <1>4 DEF Returns, RunState
  <2> QED
    BY <1>2, <1>3, <2>1 DEF FixFits, AloneFits
<1>5. CASE Push(r)
  <2>1. /\ run'[r].kind = run[r].kind /\ run[r].at = "push" /\ run'[r].base = run[r].base
        /\ run'[r].company = run[r].company /\ run'[r].missed = run[r].missed /\ run'[r].tree = run[r].tree
        /\ \/ branch' = run[r].tree /\ run[r].kind = "code" /\ run'[r].at = "find"
           \/ /\ branch' = run[r].tree /\ run[r].kind # "code"
              /\ run'[r].at = "return" /\ run'[r].ret = "success"
           \/ ~(branch \subseteq run[r].tree) /\ run'[r].at = "refused"
    BY <1>0, <1>5 DEF Push, Goes, Returns, RunState
  <2> QED
    BY <1>2, <1>3, <2>1 DEF FixFits, AloneFits
<1>6. CASE FindPr(r)
  <2>1. /\ run'[r].kind = run[r].kind /\ run[r].at = "find" /\ pr' = pr
        /\ run'[r].company = run[r].company
        /\ \/ run'[r].at = "return" /\ run'[r].ret = "success" /\ run[r].kind # "fix"
           \/ run'[r].at = "create" /\ (pr = "open" => run'[r].missed)
    BY <1>0, <1>6 DEF FindPr, FixFits, Returns, Local, RunState
  <2> QED
    BY <1>2, <1>3, <2>1 DEF FixFits, AloneFits
<1>7. CASE CreatePr(r)
  <2>1. /\ run'[r].kind = run[r].kind /\ run[r].at = "create"
        /\ run'[r].company = run[r].company /\ run'[r].missed = run[r].missed
        /\ IF pr = "open" THEN run'[r].at = "refused" ELSE run'[r].at = "return"
    BY <1>0, <1>7 DEF CreatePr, Goes, Returns, RunState
  <2> QED
    BY <1>2, <1>3, <2>1 DEF FixFits, AloneFits
<1>8. CASE Return(r)
  <2>1. run'[r] = NoRun
    BY <1>0, <1>8 DEF Return
  <2> QED
    BY <2>1 DEF FixFits, AloneFits, Alive, NoRun
<1> QED
  BY <1>1, <1>4, <1>5, <1>6, <1>7, <1>8 DEF Refused, ApiFails, ContainerDies

LEMMA FitStep ==
  ASSUME TypeOK, RunsFit, [Next]_vars
  PROVE  RunsFit'
<1> SUFFICES ASSUME NEW q \in Run
             PROVE  FixFits(q)' /\ AloneFits(q)'
  BY DEF RunsFit
<1>0. FixFits(q) /\ AloneFits(q)
  BY DEF RunsFit
<1>1. CASE Crash \/ Restart \/ MainMoves \/ Merge \/ Reset \/ UNCHANGED vars
  <2>1. branch' = branch /\ (pr' = pr \/ pr' = "merged")
    BY <1>1 DEF Crash, Restart, MainMoves, Merge, Reset, vars
  <2>2. \A o \in Run : run'[o] = NoRun \/ (Keeps(o) /\ run'[o].company = run[o].company)
    BY <1>1, EndedOrKept
  <2>3. \A o \in Run : Alive(o)' => Alive(o)
    BY <2>2 DEF Keeps, Alive, NoRun
  <2>4. CASE run'[q] = NoRun
    BY <2>4 DEF FixFits, AloneFits, Alive, NoRun
  <2>5. CASE Keeps(q) /\ run'[q].company = run[q].company
    BY <1>0, <2>1, <2>3, <2>5 DEF Keeps, FixFits, AloneFits
  <2> QED
    BY <2>2, <2>4, <2>5
<1>2. ASSUME NEW r \in Run, Code(r) \/ Fix(r)
      PROVE  FixFits(q)' /\ AloneFits(q)'
  <2>1. PICK kind \in {"code", "fix"} : Starts(r, kind)
    BY <1>2 DEF Code, Fix
  <2>2. branch' = branch
    BY <1>2 DEF Code, Fix
  <2>3. CASE q # r
    <3>1. Keeps(q) /\ run'[q].company = (Alive(q) \/ run[q].company)
      BY <2>1, <2>3, StartedOrKept
    <3>2. FixFits(q)'
      BY <1>0, <2>2, <3>1 DEF Keeps, FixFits
    <3>3. AloneFits(q)'
      BY <3>1 DEF Keeps, Alive, AloneFits
    <3> QED
      BY <3>2, <3>3
  <2>4. CASE q = r
    <3>1. /\ run'[r].kind = kind /\ run'[r].at = "clone"
          /\ run'[r].company = \E o \in Run : Alive(o)
          /\ \A o \in Run \ {r} : Keeps(o)
      BY <2>1, StartedOrKept
    <3>2. ~run'[r].company => \A o \in Run : Alive(o)' => o = r
      BY <3>1 DEF Keeps, Alive
    <3> QED
      BY <2>4, <3>1, <3>2 DEF FixFits, AloneFits
  <2> QED
    BY <2>3, <2>4
<1>3. ASSUME NEW r \in Run, RunStep(r) \/ ApiFails(r) \/ ContainerDies(r)
      PROVE  FixFits(q)' /\ AloneFits(q)'
  <2>1. CASE q = r
    BY <1>0, <1>3, <2>1, TreeStep, PublishStep DEF RunStep
  <2>2. CASE q # r
    <3>1. run'[q] = run[q] /\ Alive(r) /\ branch \subseteq branch'
      BY <1>3, <2>2, StepOfOne, StepIsAlive DEF OneRuns
    <3>2. FixFits(q)'
      BY <1>0, <3>1 DEF FixFits
    <3>3. AloneFits(q)'
      BY <1>0, <2>2, <3>1 DEF AloneFits, Alive
    <3> QED
      BY <3>2, <3>3
  <2> QED
    BY <2>1, <2>2
<1> QED
  BY <1>1, <1>2, <1>3 DEF Next

LEMMA FitHolds == Spec => []RunsFit
<1>1. Init => RunsFit
  BY DEF Init, RunsFit, FixFits, AloneFits, Alive, NoRun
<1>2. AgentInv => TypeOK
  BY DEF AgentInv
<1> QED
  BY <1>1, <1>2, FitStep, AgentInvHolds, PTL DEF Spec

\* A fix that reports success has brought the branch up to main as it was when the fix
\* merged it, also when that merge conflicted and when the agent then changed nothing
\* (merge_base_branch, commit_all, has_unpushed).
THEOREM FixKeepsUp == Spec => []FixHoldsMain
<1>1. RunsFit => FixHoldsMain
  BY DEF RunsFit, FixFits, FixHoldsMain, At
<1> QED
  BY <1>1, FitHolds, PTL

-----------------------------------------------------------------------------
(* Runs beside each other.                                                 *)

Untwinned == scenario \cap {"twin", "stray"} = {}

\* Without a second dispatch and a container that outlives the restart there is one run
\* at a time, and the story is at it for as long as the server knows of it.
OneAtATime ==
  Untwinned =>
    /\ \A r, q \in Run : Alive(r) /\ Alive(q) => r = q
    /\ \A r \in Run : Alive(r) => ~run[r].company
    /\ up /\ (\E r \in Run : Alive(r)) => story \in {"in-progress", "changes-requested", "done"}

LEMMA OneStep ==
  ASSUME TypeOK, OneAtATime, [Next]_vars
  PROVE  OneAtATime'
<1> SUFFICES ASSUME Untwinned
             PROVE  OneAtATime'
  <2>1. scenario' = scenario
    BY StepIsAlive DEF Next, MainMoves, Merge, Reset, Crash, Restart, Code, Fix, vars
  <2> QED
    BY <2>1 DEF OneAtATime, Untwinned
<1>0. /\ \A r, q \in Run : Alive(r) /\ Alive(q) => r = q
      /\ \A r \in Run : Alive(r) => ~run[r].company
      /\ up /\ (\E r \in Run : Alive(r)) => story \in {"in-progress", "changes-requested", "done"}
  BY DEF OneAtATime
<1>1. ASSUME \A r \in Run : Alive(r)' => Alive(r) /\ run'[r].company = run[r].company,
             up' => up /\ (story' = story \/ (\A r \in Run : ~Alive(r)')
                              \/ story' \in {"in-progress", "changes-requested", "done"})
      PROVE  OneAtATime'
  BY <1>0, <1>1 DEF OneAtATime
<1>2. CASE Restart
  <2>1. \A r \in Run : run'[r] = NoRun
    BY <1>2 DEF Restart, Strays, May, Untwinned
  <2> QED
    BY <2>1 DEF OneAtATime, Alive, NoRun
<1>3. CASE Crash \/ MainMoves \/ Merge \/ Reset \/ UNCHANGED vars
  <2>1. \A r \in Run : run'[r] = NoRun \/ (Keeps(r) /\ run'[r].company = run[r].company)
    BY <1>3, EndedOrKept
  <2>2. \A r \in Run : Alive(r)' => Alive(r) /\ run'[r].company = run[r].company
    BY <2>1 DEF Alive, Keeps, NoRun
  <2>3. up' => up /\ (story' = story \/ (\A r \in Run : ~Alive(r)') \/ story' = "done")
    BY <1>3, <2>2 DEF Crash, MainMoves, Merge, Reset, vars
  <2> QED
    BY <1>1, <2>2, <2>3
<1>4. ASSUME NEW r \in Run, Code(r) \/ Fix(r)
      PROVE  OneAtATime'
  <2>1. PICK kind \in {"code", "fix"} : Starts(r, kind)
    BY <1>4 DEF Code, Fix
  <2>2. \A o \in Run : ~Alive(o)
    BY <1>0, <1>4 DEF Code, Fix, Starts, May, Untwinned
  <2>3. /\ \A q \in Run \ {r} : Keeps(q)
        /\ run'[r].company = \E o \in Run : Alive(o)
    BY <2>1, StartedOrKept
  <2>4. \A q \in Run : Alive(q)' => q = r
    BY <2>2, <2>3 DEF Alive, Keeps
  <2>5. story' \in {"in-progress", "changes-requested"}
    BY <1>4 DEF Code, Fix
  <2> QED
    BY <2>2, <2>3, <2>4, <2>5 DEF OneAtATime
<1>5. ASSUME NEW r \in Run, RunStep(r) \/ ApiFails(r) \/ ContainerDies(r)
      PROVE  OneAtATime'
  <2>1. \A o \in Run : Alive(o)' => Alive(o) /\ run'[o].company = run[o].company
    BY <1>5, NobodyJoins
  <2>2. CASE Return(r)
    <3>1. run'[r] = NoRun /\ \A o \in Run : Alive(o) => o = r
      BY <1>0, <1>5, <2>2, StepIsAlive DEF TypeOK, Return
    <3>2. \A o \in Run : ~Alive(o)'
      BY <2>1, <3>1 DEF Alive, NoRun
    <3> QED
      BY <3>2 DEF OneAtATime
  <2>3. CASE ~Return(r)
    <3>1. story' = story
      BY <1>5, <2>3
      DEF RunStep, ApiFails, ContainerDies, Clone, Checkout, MergeBase, Agent, Test, Committed,
          NothingToCommit, Push, FindPr, CreatePr, Refused, Local
    <3> QED
      BY <1>1, <1>5, <2>1, <3>1, StepIsAlive
  <2> QED
    BY <2>2, <2>3
<1> QED
  BY <1>2, <1>3, <1>4, <1>5 DEF Next

\* A push and a pull request are refused only to a run that was told that its branch or
\* its pull request is not there, or that shares the story with another one; and none
\* does unless it was dispatched twice or its container outlived the restart, whatever
\* earlier attempts left on the branch (create_or_checkout_branch, find_open_pr,
\* _reap_orphan_coder_sandboxes).
THEOREM AloneIsNotRefused == Spec => []AloneIsNeverRefusedElse
<1>1. Init => OneAtATime
  BY DEF Init, OneAtATime, Alive, NoRun
<1>2. RunsFit /\ OneAtATime => AloneIsNeverRefusedElse
  <2> SUFFICES ASSUME RunsFit, OneAtATime, NEW r \in Run, run[r].at = "refused", ~run[r].missed
               PROVE  run[r].company /\ scenario \cap {"twin", "stray"} # {}
    BY DEF AloneIsNeverRefusedElse
  <2>1. Alive(r)
    BY DEF Alive
  <2>2. run[r].company
    BY <2>1 DEF RunsFit, AloneFits
  <2> QED
    BY <2>1, <2>2 DEF OneAtATime, Untwinned
<1>3. AgentInv => TypeOK
  BY DEF AgentInv
<1> QED
  BY <1>1, <1>2, <1>3, OneStep, FitHolds, AgentInvHolds, PTL DEF Spec

-----------------------------------------------------------------------------
(* Work that was pushed.                                                   *)

Uncut == scenario \cap {"crash", "api", "killed", "lost", "late", "twin"} = {}
Publishing(r) == run[r].at \in {"find", "create"}

\* Between runs the branch is merged or under review; a fix keeps its pull request.
Published ==
  Uncut =>
    /\ up
    /\ \A r \in Run : Alive(r) /\ run[r].kind = "fix" => pr = "open"
    /\ (\A r \in Run : ~Publishing(r)) => branch \subseteq main \/ pr = "open"

LEMMA PublishedStep ==
  ASSUME TypeOK, Published, [Next]_vars
  PROVE  Published'
<1> SUFFICES ASSUME Uncut
             PROVE  Published'
  <2>1. scenario' = scenario
    BY StepIsAlive DEF Next, MainMoves, Merge, Reset, Crash, Restart, Code, Fix, vars
  <2> QED
    BY <2>1 DEF Published, Uncut
<1>0. /\ up
      /\ \A r \in Run : Alive(r) /\ run[r].kind = "fix" => pr = "open"
      /\ (\A r \in Run : ~Publishing(r)) => branch \subseteq main \/ pr = "open"
      /\ run \in [Run -> RunState] /\ NoRun.at = "none"
      /\ ~May("crash") /\ ~May("api") /\ ~May("killed") /\ ~May("late")
  BY NoRunIsRunState DEF Published, TypeOK, May, Uncut
<1>1. ~Crash /\ ~Restart
  BY <1>0 DEF Crash, Restart
<1>2. CASE MainMoves \/ Reset \/ UNCHANGED vars
  <2>1. /\ up' = up /\ branch' = branch /\ pr' = pr /\ main \subseteq main' /\ run' = run
    BY <1>2 DEF MainMoves, Reset, vars
  <2> QED
    BY <1>0, <2>1 DEF Published, Alive, Publishing
<1>3. CASE Merge
  <2>1. up' = up /\ branch' = branch /\ branch \subseteq main' /\ run' = run
    BY <1>3 DEF Merge
  <2>2. \A r \in Run : ~Alive(r)
    BY <1>0, <1>3 DEF Merge
  <2> QED
    BY <1>0, <2>1, <2>2 DEF Published, Alive
<1>4. ASSUME NEW r \in Run, Code(r) \/ Fix(r)
      PROVE  Published'
  <2>1. PICK kind \in {"code", "fix"} : Starts(r, kind) /\ (kind = "fix" => pr = "open")
    BY <1>4 DEF Code, Fix
  <2>2. /\ \A q \in Run \ {r} : Keeps(q)
        /\ run'[r].kind = kind /\ run'[r].at = "clone"
    BY <2>1, StartedOrKept
  <2>3. up' = up /\ branch' = branch /\ pr' = pr /\ main' = main
    BY <1>4 DEF Code, Fix
  <2>4. \A q \in Run : Publishing(q)' <=> Publishing(q)
    <3>1. ~Publishing(r) /\ ~Publishing(r)'
      BY <2>1, <2>2 DEF Starts, Publishing, Alive
    <3> QED
      BY <2>2, <3>1 DEF Publishing, Keeps
  <2>5. \A q \in Run : Alive(q)' /\ run'[q].kind = "fix" => pr = "open"
    BY <1>0, <2>1, <2>2 DEF Alive, Keeps
  <2> QED
    BY <1>0, <2>3, <2>4, <2>5 DEF Published
<1>5. ASSUME NEW r \in Run, RunStep(r)
      PROVE  Published'
  <2>0. run[r] \in RunState /\ main' = main /\ up' = up
    BY <1>0, <1>5
    DEF RunStep, Clone, Checkout, MergeBase, Agent, Test, Committed, NothingToCommit, Push,
        FindPr, CreatePr, Refused, Return, Local
  <2>1. \A q \in Run \ {r} : run'[q] = run[q]
    BY <1>5, StepOfOne DEF OneRuns
  <2>2. /\ \A o \in Run : Alive(o)' => Alive(o)
        /\ Alive(r)
    BY <1>5, NobodyJoins, StepIsAlive
  <2>3. CASE Push(r)
    <3>1. /\ pr' = pr /\ run[r].at = "push" /\ run'[r].kind = run[r].kind
          /\ \/ run'[r].at = "find"
             \/ run[r].kind = "fix"
             \/ branch' = branch
      BY <1>0, <2>0, <2>3 DEF Push, Goes, Returns, RunState
    <3>2. \A q \in Run : Alive(q)' /\ run'[q].kind = "fix" => pr = "open"
      BY <1>0, <2>1, <2>2, <3>1
    <3>3. ASSUME \A q \in Run : ~Publishing(q)'
          PROVE  branch' \subseteq main \/ pr = "open"
      <4>1. \A q \in Run : ~Publishing(q)
        BY <2>1, <3>1, <3>3 DEF Publishing
      <4> QED
        BY <1>0, <2>2, <3>1, <3>3, <4>1 DEF Publishing
    <3> QED
      BY <1>0, <2>0, <3>1, <3>2, <3>3 DEF Published
  <2>4. CASE FindPr(r)
    <3>1. /\ pr' = pr /\ branch' = branch /\ run'[r].kind = run[r].kind
          /\ pr # "open" => run'[r].at = "create"
      BY <1>0, <2>0, <2>4 DEF FindPr, Goes, Returns, Local, RunState
    <3>2. \A q \in Run : Alive(q)' /\ run'[q].kind = "fix" => pr = "open"
      BY <1>0, <2>1, <2>2, <3>1
    <3> QED
      BY <1>0, <2>0, <3>1, <3>2 DEF Published, Publishing
  <2>5. CASE CreatePr(r)
    <3>1. pr' = "open"
      BY <2>5 DEF CreatePr
    <3> QED
      BY <1>0, <2>0, <3>1 DEF Published
  <2>6. CASE Return(r)
    <3>1. pr' = pr /\ branch' = branch /\ run'[r] = NoRun /\ run[r].at = "return"
      BY <1>0, <2>6 DEF Return
    <3>2. \A q \in Run : Alive(q)' /\ run'[q].kind = "fix" => pr = "open"
      BY <1>0, <2>1, <2>2, <3>1 DEF Alive
    <3>3. \A q \in Run : Publishing(q)' <=> Publishing(q)
      BY <1>0, <2>1, <3>1 DEF Publishing
    <3> QED
      BY <1>0, <2>0, <3>1, <3>2, <3>3 DEF Published
  <2>7. CASE ~(Push(r) \/ FindPr(r) \/ CreatePr(r) \/ Return(r))
    <3>1. pr' = pr /\ branch' = branch /\ ~Publishing(r)
      BY <1>5, <2>7
      DEF RunStep, Clone, Checkout, MergeBase, Agent, Test, Committed, NothingToCommit, Refused,
          Local, Publishing
    <3>2. run'[r].kind = run[r].kind
      <4>1. CASE Clone(r) \/ Checkout(r) \/ MergeBase(r) \/ Committed(r) \/ Test(r)
        BY <1>0, <2>0, <4>1
        DEF Clone, Checkout, MergeBase, Committed, Test, AgentAgain, TestsOver, RunState
      <4>2. CASE Agent(r) \/ NothingToCommit(r) \/ Refused(r)
        BY <1>0, <2>0, <4>2 DEF Agent, NothingToCommit, Refused, Goes, Returns, RunState
      <4> QED
        BY <1>5, <2>7, <4>1, <4>2 DEF RunStep
    <3>3. \A q \in Run : Alive(q)' /\ run'[q].kind = "fix" => pr = "open"
      BY <1>0, <2>1, <2>2, <3>2
    <3>4. \A q \in Run : Publishing(q) => Publishing(q)'
      BY <2>1, <3>1 DEF Publishing
    <3> QED
      BY <1>0, <2>0, <3>1, <3>3, <3>4 DEF Published
  <2> QED
    BY <2>3, <2>4, <2>5, <2>6, <2>7
<1>6. \A r \in Run : ~ApiFails(r) /\ ~ContainerDies(r)
  BY <1>0 DEF ApiFails, ContainerDies
<1> QED
  BY <1>1, <1>2, <1>3, <1>4, <1>5, <1>6 DEF Next

\* A story that counts as reviewed or done leaves no commits behind on its branch, unless
\* an attempt was cut off between its push and its pull request (run_coding_agent: commit,
\* push, find_open_pr, create_pr) or the request was merged under a run.
THEOREM NoWorkForgotten == Spec => []NoForgottenWorkElse
<1>1. Init => Published
  BY DEF Init, Published, Alive, NoRun
<1>2. Published => NoForgottenWorkElse
  BY DEF Published, NoForgottenWorkElse, NoForgottenWork, Uncut, Publishing, Alive
<1>3. AgentInv => TypeOK
  BY DEF AgentInv
<1> QED
  BY <1>1, <1>2, <1>3, PublishedStep, AgentInvHolds, PTL DEF Spec

=============================================================================
