-------------------------- MODULE CoderFleetProofs --------------------------
(***************************************************************************)
(* Theorems about CoderFleet, for every board, cap and circumstance.       *)
(***************************************************************************)
EXTENDS CoderFleet, FiniteSetTheorems, WellFoundedInduction, TLAPS

-----------------------------------------------------------------------------
(* What the board's operators return. *)

Board == [Story -> StoryState]

\* Writing a known state to any stories gives a board.
LEMMA PutType ==
  ASSUME NEW st \in Board, NEW S, NEW v \in StoryState
  PROVE  Put(st, S, v) \in Board
BY DEF Put, Board

\* Unlocking after a story gives a board.
LEMMA UnlockType ==
  ASSUME NEW st \in Board, NEW s \in Story
  PROVE  Unlock(st, s) \in Board
BY PutType DEF Unlock, StoryState

\* A claim writes a board and creates one task.
LEMMA ClaimType ==
  ASSUME NEW st \in Board, NEW s \in Story, pending \subseteq Task, Claim(st, s)
  PROVE  state' \in Board /\ pending' \subseteq Task
BY PutType DEF Claim, StoryState, Task

\* So does a dispatch, which may also find nothing to do.
LEMMA DispatchType ==
  ASSUME NEW st \in Board, pending \subseteq Task, DispatchNextReady(st)
  PROVE  state' \in Board /\ pending' \subseteq Task
<1>1. CASE Ready(st) = {} /\ state' = st /\ UNCHANGED pending
  BY <1>1
<1>2. CASE \E s \in Ready(st) : Claim(st, s)
  BY <1>2, ClaimType DEF Ready
<1> QED
  BY <1>1, <1>2 DEF DispatchNextReady

-----------------------------------------------------------------------------
(* Type correctness, one part of TypeOK at a time. *)

\* The pull request side writes one story's state and leaves the fleet alone.
LEMMA ReviewEffect ==
  ASSUME NEW s \in Story, ReviewMoves(s) \/ RecodeEnds(s)
  PROVE  /\ up
         /\ \E v \in {"in-review", "changes-requested", "merged"} : state' = Put(state, {s}, v)
         /\ aged' \in {aged, aged \ {s}}
         /\ UNCHANGED <<tasks, keys, weather, sweep, up>>
BY DEF ReviewMoves, RecodeEnds

\* The part of a run's end that all its outcomes share.
LEMMA FinishBoard ==
  ASSUME BoardTypeOK, TasksTypeOK, NEW k \in Task, Finish(k)
  PROVE  BoardTypeOK' /\ TasksTypeOK'
<1>0. k[1] \in Story /\ state \in Board
  BY DEF Task, BoardTypeOK, Board
<1>1. ASSUME NEW st \in Board, ReleaseAndDispatch(k, st)
      PROVE  BoardTypeOK' /\ TasksTypeOK'
  <2>1. state' \in Board /\ pending' \subseteq Task
    BY <1>1, DispatchType DEF ReleaseAndDispatch, TasksTypeOK
  <2> QED
    BY <1>1, <2>1 DEF ReleaseAndDispatch, Refresh, BoardTypeOK, TasksTypeOK, Board
<1>2. \A v \in StoryState : Put(state, {k[1]}, v) \in Board
  BY <1>0, PutType
<1>3. Unlock(Put(state, {k[1]}, "done"), k[1]) \in Board
  BY <1>0, <1>2, UnlockType DEF StoryState
<1> QED
  BY <1>1, <1>2, <1>3 DEF Finish, FinishSuccess, FinishNoChanges, FinishNoCredit,
     FinishErrorRequeue, FinishErrorPark, FinishException, StoryState

LEMMA BoardStep ==
  ASSUME BoardTypeOK, TasksTypeOK, [Next]_vars
  PROVE  BoardTypeOK' /\ TasksTypeOK'
<1>0. state \in Board /\ pending \subseteq Task
  BY DEF BoardTypeOK, TasksTypeOK, Board
<1>a. \A S : \A v \in StoryState : Put(state, S, v) \in Board
  BY <1>0, PutType
<1>b. \A s \in Story : Claim(state, s) => state' \in Board /\ pending' \subseteq Task
  BY <1>0, ClaimType
<1> USE DEF BoardTypeOK, TasksTypeOK, Board, board, tasks, keys, weather
<1>1. ASSUME NEW p \in Project, StartPlan(p)
      PROVE  BoardTypeOK' /\ TasksTypeOK'
  BY <1>1, <1>b DEF StartPlan, Refresh
<1>2. ASSUME NEW p \in Project, CancelIdea(p)
      PROVE  BoardTypeOK' /\ TasksTypeOK'
  BY <1>2, <1>a DEF CancelIdea, StoryState
<1>3. ASSUME NEW k \in Task, Start(k)
      PROVE  BoardTypeOK' /\ TasksTypeOK'
  BY <1>3, <1>a DEF Start, HoldRun, AcquireSlot, RefuseSlot, Refresh, StoryState
<1>4. ASSUME NEW k \in Task, Finish(k)
      PROVE  BoardTypeOK' /\ TasksTypeOK'
  BY <1>4, FinishBoard
<1>5. ASSUME NEW k \in Task, TaskDies(k)
      PROVE  BoardTypeOK' /\ TasksTypeOK'
  BY <1>5 DEF TaskDies
<1>6. ASSUME NEW k \in Task, CrashInNoChanges(k)
      PROVE  BoardTypeOK' /\ TasksTypeOK'
  BY <1>6, <1>a DEF CrashInNoChanges, ProcessGone, StoryState
<1>7. ASSUME NEW s \in Story, Code(s) \/ Reset(s)
      PROVE  BoardTypeOK' /\ TasksTypeOK'
  BY <1>7, <1>b DEF Code, Reset, Refresh
<1>8. ASSUME NEW s \in Story, Abandon(s)
      PROVE  BoardTypeOK' /\ TasksTypeOK'
  <2>1. Unlock(Put(state, {s}, "abandoned"), s) \in Board
    BY <1>a, UnlockType DEF StoryState
  <2>2. state' \in Board /\ pending' \subseteq Task
    BY <1>0, <1>8, <2>1, DispatchType DEF Abandon
  <2> QED
    BY <1>8, <2>2 DEF Abandon, Refresh
<1>9. ASSUME NEW s \in Story, ReviewMoves(s) \/ RecodeEnds(s)
      PROVE  BoardTypeOK' /\ TasksTypeOK'
  <2>1. PICK v \in {"in-review", "changes-requested", "merged"} : state' = Put(state, {s}, v)
    BY <1>9, ReviewEffect
  <2>2. aged' \in {aged, aged \ {s}} /\ UNCHANGED <<pending, running, dead, slots>>
    BY <1>9, ReviewEffect
  <2> QED
    BY <1>a, <2>1, <2>2 DEF StoryState
<1>10. ASSUME NEW s \in Story, PostMergeDone(s)
       PROVE  BoardTypeOK' /\ TasksTypeOK'
  <2> DEFINE st == Put(state, {s}, "done")
  <2>1. st \in Board /\ Unlock(st, s) \in Board
    BY <1>a, UnlockType DEF StoryState
  <2>2. NextBacklog(st, s) \subseteq Story
    BY DEF NextBacklog
  <2>3. state' \in Board /\ pending' \subseteq Task
    BY <1>0, <1>10, <2>1, <2>2, ClaimType DEF PostMergeDone
  <2> QED
    BY <1>10, <2>3 DEF PostMergeDone, Refresh
<1>11. ASSUME NEW s \in Story, PostMergeFix(s)
       PROVE  BoardTypeOK' /\ TasksTypeOK'
  <2>1. state' \in Board /\ pending' \subseteq Task
    BY <1>0, <1>11, <1>a, <1>b DEF PostMergeFix, StoryState
  <2> QED
    BY <1>11, <2>1 DEF PostMergeFix, Refresh
<1>12. ASSUME NEW s \in Story, GrowOld(s) \/ SweepStep(s)
       PROVE  BoardTypeOK' /\ TasksTypeOK'
  BY <1>12, <1>a DEF GrowOld, SweepStep, SweepSkip, SweepRecover, SweepGiveUp, StoryState
<1>13. ASSUME NEW s \in Story, CrashInPostMerge(s) \/ CrashInAbandon(s)
       PROVE  BoardTypeOK' /\ TasksTypeOK'
  BY <1>13, <1>a DEF CrashInPostMerge, CrashInAbandon, ProcessGone, StoryState
<1>14. CASE SweepBegin \/ BreakerChanges \/ CapsChange \/ Crash
  BY <1>14 DEF SweepBegin, BreakerChanges, CapsChange, Crash, ProcessGone
<1>15. CASE Restart
  <2> DEFINE st == Put(state, {s \in Story : state[s] = "in-progress"}, "ready")
  <2>1. st \in Board
    BY <1>a DEF StoryState
  <2>2. \A D : Put(st, D, "in-progress") \in Board
    BY <2>1, PutType DEF StoryState
  <2>3. Ready(st) \subseteq Story
    BY DEF Ready
  <2>4. ASSUME NEW D \in SUBSET Ready(st), NEW r \in [D -> Run]
        PROVE  {<<s, r[s]>> : s \in D} \subseteq Task
    <3>1. D \subseteq Story
      BY <2>3
    <3>2. \A s \in D : r[s] \in Run
      OBVIOUS
    <3> HIDE DEF st
    <3> QED
      BY <3>1, <3>2 DEF Task
  <2>5. state' \in Board /\ pending' \subseteq Task /\ aged' \subseteq Story
    BY <1>0, <1>15, <2>2, <2>4 DEF Restart
  <2> QED
    BY <1>15, <2>5 DEF Restart
<1>16. CASE CrashInRestart
  BY <1>16, <1>a DEF CrashInRestart, StoryState
<1>17. CASE UNCHANGED vars
  BY <1>17 DEF vars
<1> QED
  BY <1>1, <1>2, <1>3, <1>4, <1>5, <1>6, <1>7, <1>8, <1>9, <1>10, <1>11, <1>12,
     <1>13, <1>14, <1>15, <1>16, <1>17 DEF Next

LEMMA KeysStep ==
  ASSUME KeysTypeOK, BoardTypeOK, TasksTypeOK, [Next]_vars
  PROVE  KeysTypeOK'
<1> USE FleetAssumption DEF FleetAssumption, KeysTypeOK, BoardTypeOK, TasksTypeOK, board, tasks, keys, weather
<1>0. \A k \in Task : k[1] \in Story
  BY DEF Task
<1>1. ASSUME NEW p \in Project, StartPlan(p) \/ CancelIdea(p)
      PROVE  KeysTypeOK'
  BY <1>1 DEF StartPlan, CancelIdea
<1>2. ASSUME NEW k \in Task, Start(k) \/ TaskDies(k) \/ CrashInNoChanges(k)
      PROVE  KeysTypeOK'
  BY <1>2, <1>0 DEF Start, HoldRun, AcquireSlot, RefuseSlot, TaskDies, CrashInNoChanges, ProcessGone
<1>3. ASSUME NEW k \in Task, Finish(k)
      PROVE  KeysTypeOK'
  BY <1>3, <1>0 DEF Finish, FinishSuccess, FinishNoChanges, FinishNoCredit,
     FinishErrorRequeue, FinishErrorPark, FinishException
<1>4. ASSUME NEW s \in Story, Code(s) \/ Reset(s) \/ Abandon(s)
      PROVE  KeysTypeOK'
  BY <1>4 DEF Code, Reset, Abandon
<1>5. ASSUME NEW s \in Story, \/ ReviewMoves(s) \/ RecodeEnds(s)
                             \/ PostMergeDone(s) \/ PostMergeFix(s)
      PROVE  KeysTypeOK'
  <2>1. CASE ReviewMoves(s) \/ RecodeEnds(s)
    BY <2>1, ReviewEffect
  <2>2. CASE PostMergeDone(s) \/ PostMergeFix(s)
    BY <2>2 DEF PostMergeDone, PostMergeFix
  <2> QED
    BY <1>5, <2>1, <2>2
<1>6. ASSUME NEW s \in Story, GrowOld(s) \/ SweepStep(s)
      PROVE  KeysTypeOK'
  BY <1>6 DEF GrowOld, SweepStep, SweepSkip, SweepRecover, SweepGiveUp
<1>7. ASSUME NEW s \in Story, CrashInPostMerge(s) \/ CrashInAbandon(s)
      PROVE  KeysTypeOK'
  BY <1>7 DEF CrashInPostMerge, CrashInAbandon, ProcessGone
<1>8. CASE SweepBegin \/ BreakerChanges \/ CapsChange \/ Crash
  BY <1>8 DEF SweepBegin, BreakerChanges, CapsChange, Crash, ProcessGone
<1>9. CASE Restart \/ CrashInRestart
  BY <1>9 DEF Restart, CrashInRestart
<1>10. CASE UNCHANGED vars
  BY <1>10 DEF vars
<1> QED
  BY <1>1, <1>2, <1>3, <1>4, <1>5, <1>6, <1>7, <1>8, <1>9, <1>10 DEF Next

LEMMA FlagsStep ==
  ASSUME FlagsTypeOK, [Next]_vars
  PROVE  FlagsTypeOK'
<1> USE DEF FlagsTypeOK, weather
<1>1. ASSUME NEW p \in Project, StartPlan(p) \/ CancelIdea(p)
      PROVE  FlagsTypeOK'
  BY <1>1, Zenon DEF StartPlan, CancelIdea
<1>2. ASSUME NEW k \in Task, Start(k) \/ TaskDies(k) \/ CrashInNoChanges(k)
      PROVE  FlagsTypeOK'
  BY <1>2, Zenon DEF Start, HoldRun, AcquireSlot, RefuseSlot, TaskDies, CrashInNoChanges, ProcessGone
<1>3. ASSUME NEW k \in Task, Finish(k)
      PROVE  FlagsTypeOK'
  BY <1>3, Zenon DEF Finish, FinishSuccess, FinishNoChanges, FinishNoCredit,
     FinishErrorRequeue, FinishErrorPark, FinishException
<1>4. ASSUME NEW s \in Story, Code(s) \/ Reset(s) \/ Abandon(s)
      PROVE  FlagsTypeOK'
  BY <1>4, Zenon DEF Code, Reset, Abandon
<1>5. ASSUME NEW s \in Story, \/ ReviewMoves(s) \/ RecodeEnds(s)
                             \/ PostMergeDone(s) \/ PostMergeFix(s)
      PROVE  FlagsTypeOK'
  BY <1>5, ReviewEffect, Zenon DEF PostMergeDone, PostMergeFix
<1>6. ASSUME NEW s \in Story, GrowOld(s) \/ SweepStep(s)
      PROVE  FlagsTypeOK'
  BY <1>6, Zenon DEF GrowOld, SweepStep, SweepSkip, SweepRecover, SweepGiveUp
<1>7. ASSUME NEW s \in Story, CrashInPostMerge(s) \/ CrashInAbandon(s)
      PROVE  FlagsTypeOK'
  BY <1>7, Zenon DEF CrashInPostMerge, CrashInAbandon, ProcessGone
<1>8. CASE SweepBegin \/ BreakerChanges \/ CapsChange \/ Crash
  BY <1>8, Zenon DEF SweepBegin, BreakerChanges, CapsChange, Crash, ProcessGone
<1>9. CASE Restart \/ CrashInRestart
  BY <1>9, Zenon DEF Restart, CrashInRestart
<1>10. CASE UNCHANGED vars
  BY <1>10, Zenon DEF vars
<1> QED
  BY <1>1, <1>2, <1>3, <1>4, <1>5, <1>6, <1>7, <1>8, <1>9, <1>10 DEF Next

LEMMA ReviewsStep ==
  ASSUME ReviewsTypeOK, [Next]_vars
  PROVE  ReviewsTypeOK'
<1> USE DEF ReviewsTypeOK, reviews
<1>1. ASSUME NEW p \in Project, StartPlan(p) \/ CancelIdea(p)
      PROVE  ReviewsTypeOK'
  BY <1>1, Zenon DEF StartPlan, CancelIdea
<1>2. ASSUME NEW k \in Task, Start(k) \/ TaskDies(k)
      PROVE  ReviewsTypeOK'
  BY <1>2, Zenon DEF Start, HoldRun, AcquireSlot, RefuseSlot, TaskDies
<1>3. ASSUME NEW k \in Task, Finish(k)
      PROVE  ReviewsTypeOK'
  BY <1>3, Zenon DEF Finish, FinishSuccess, FinishNoChanges, FinishNoCredit,
     FinishErrorRequeue, FinishErrorPark, FinishException
<1>4. ASSUME NEW s \in Story, \/ Code(s) \/ Reset(s) \/ Abandon(s)
                             \/ PostMergeDone(s) \/ PostMergeFix(s)
      PROVE  ReviewsTypeOK'
  BY <1>4, Zenon DEF Code, Reset, Abandon, PostMergeDone, PostMergeFix
<1>5. ASSUME NEW s \in Story, ReviewMoves(s) \/ RecodeEnds(s)
      PROVE  ReviewsTypeOK'
  <2>1. recodes' \in {recodes, recodes \cup {s}, recodes \ {s}}
    BY <1>5 DEF ReviewMoves, RecodeEnds
  <2>2. late' \in {late, late \cup {s}}
    BY <1>5 DEF ReviewMoves, RecodeEnds
  <2> QED
    BY <2>1, <2>2
<1>6. ASSUME NEW s \in Story, GrowOld(s) \/ SweepStep(s)
      PROVE  ReviewsTypeOK'
  BY <1>6, Zenon DEF GrowOld, SweepStep, SweepSkip, SweepRecover, SweepGiveUp
<1>7. ASSUME ProcessGone PROVE ReviewsTypeOK'
  BY <1>7 DEF ProcessGone
<1>8. CASE SweepBegin \/ BreakerChanges \/ CapsChange \/ Restart \/ CrashInRestart
  BY <1>8, Zenon DEF SweepBegin, BreakerChanges, CapsChange, Restart, CrashInRestart
<1>9. CASE UNCHANGED vars
  BY <1>9 DEF vars
<1>10. /\ Crash => ProcessGone
       /\ \A k \in Task : CrashInNoChanges(k) => ProcessGone
       /\ \A s \in Story : CrashInPostMerge(s) \/ CrashInAbandon(s) => ProcessGone
  BY DEF Crash, CrashInNoChanges, CrashInPostMerge, CrashInAbandon
<1> QED
  BY <1>1, <1>2, <1>3, <1>4, <1>5, <1>6, <1>7, <1>8, <1>9, <1>10 DEF Next

LEMMA InitTypeOK == Init => TypeOK
<1> SUFFICES ASSUME Init PROVE TypeOK
  OBVIOUS
<1>1. BoardTypeOK /\ TasksTypeOK
  BY DEF Init, BoardTypeOK, TasksTypeOK, StoryState
<1>2. KeysTypeOK
  BY FleetAssumption DEF FleetAssumption, Init, KeysTypeOK
<1>3. FlagsTypeOK /\ ReviewsTypeOK
  BY DEF Init, FlagsTypeOK, ReviewsTypeOK
<1> QED
  BY <1>1, <1>2, <1>3 DEF TypeOK

\* Type correctness: every handler writes states the board knows, and every
\* counter that gates a story's recovery stays within its cap.
THEOREM TypeCorrect == Spec => []TypeOK
<1>1. TypeOK /\ [Next]_vars => TypeOK'
  BY BoardStep, KeysStep, ReviewsStep, FlagsStep DEF TypeOK
<1> QED
  BY InitTypeOK, <1>1, PTL DEF Spec

-----------------------------------------------------------------------------
(* Slots.  What a step does to the tasks is one of a few effects; both the  *)
(* slot accounting and the refinement of SlotPool follow from them.         *)

\* New tasks are created; the slots and their holders stay.
Created ==
  /\ up
  /\ pending \subseteq pending'
  /\ (pending' \ pending) \cap Holding = {}
  /\ UNCHANGED <<running, dead, slots, up>>
\* A pending run gives up before it takes a slot.
PutBack ==
  /\ pending' \subseteq pending
  /\ UNCHANGED <<running, dead, slots, up>>
Taken(k) ==
  /\ up /\ k \in pending
  /\ slots < MaxCoders /\ slots' = slots + 1
  /\ pending' = pending \ {k} /\ running' = running \cup {k}
  /\ UNCHANGED <<dead, up>>
Given(k) ==
  /\ up /\ k \in running
  /\ slots' = slots - 1 /\ running' = running \ {k}
  /\ pending \subseteq pending'
  /\ (pending' \ pending) \cap Holding = {}
  /\ UNCHANGED <<dead, up>>
Dies(k) ==
  /\ up /\ k \in running
  /\ running' = running \ {k} /\ dead' = dead \cup {k}
  /\ UNCHANGED <<pending, slots, up>>
Gone == up /\ ProcessGone
Born ==
  /\ ~up /\ slots' = 0
  /\ UNCHANGED <<running, dead>>
  /\ up' \/ UNCHANGED pending

Effect ==
  \/ Created \/ PutBack \/ Gone \/ Born
  \/ \E k \in Task : Taken(k) \/ Given(k) \/ Dies(k)

\* A claim, and a dispatch, create tasks that no run had.
LEMMA ClaimCreates ==
  ASSUME NEW st, NEW s, Claim(st, s)
  PROVE  pending \subseteq pending' /\ (pending' \ pending) \cap Holding = {}
BY DEF Claim, Live, Holding

LEMMA DispatchCreates ==
  ASSUME NEW st, DispatchNextReady(st)
  PROVE  pending \subseteq pending' /\ (pending' \ pending) \cap Holding = {}
BY ClaimCreates DEF DispatchNextReady

LEMMA StepEffect ==
  ASSUME TasksTypeOK, FlagsTypeOK, [Next]_vars
  PROVE  Effect
<1> USE DEF board, tasks, keys, weather
<1>1. ASSUME NEW p \in Project, StartPlan(p)
      PROVE  Created
  BY <1>1, ClaimCreates DEF StartPlan, Created
<1>2. ASSUME NEW p \in Project, CancelIdea(p)
      PROVE  PutBack
  BY <1>2 DEF CancelIdea, PutBack
<1>3. ASSUME NEW k \in Task, HoldRun(k)
      PROVE  PutBack
  BY <1>3 DEF HoldRun, PutBack
<1>4. ASSUME NEW k \in Task, AcquireSlot(k)
      PROVE  Taken(k)
  BY <1>4, FleetAssumption DEF AcquireSlot, Taken, TasksTypeOK, FleetAssumption
<1>5. ASSUME NEW k \in Task, RefuseSlot(k)
      PROVE  PutBack
  BY <1>5 DEF RefuseSlot, PutBack, TasksTypeOK
<1>6. ASSUME NEW k \in Task, Finish(k)
      PROVE  Given(k)
  <2>1. ASSUME NEW st, ReleaseAndDispatch(k, st), up, k \in running, up' = up
        PROVE  Given(k)
    BY <2>1, DispatchCreates DEF ReleaseAndDispatch, Given
  <2> QED
    BY <1>6, <2>1 DEF Finish, FinishSuccess, FinishNoChanges, FinishNoCredit,
       FinishErrorRequeue, FinishErrorPark, FinishException
<1>7. ASSUME NEW k \in Task, TaskDies(k)
      PROVE  Dies(k)
  BY <1>7 DEF TaskDies, Dies
<1>8. ASSUME NEW k \in Task, CrashInNoChanges(k)
      PROVE  Gone
  BY <1>8 DEF CrashInNoChanges, Gone
<1>9. ASSUME NEW s \in Story, Code(s) \/ Reset(s)
      PROVE  Created
  BY <1>9, ClaimCreates DEF Code, Reset, Created
<1>10. ASSUME NEW s \in Story, Abandon(s)
       PROVE  Created
  BY <1>10, DispatchCreates DEF Abandon, Created
<1>11. ASSUME NEW s \in Story, \/ ReviewMoves(s) \/ RecodeEnds(s)
                              \/ GrowOld(s) \/ SweepStep(s)
       PROVE  PutBack
  BY <1>11, ReviewEffect DEF GrowOld, SweepStep, SweepSkip, SweepRecover, SweepGiveUp, PutBack
<1>12. ASSUME NEW s \in Story, PostMergeDone(s) \/ PostMergeFix(s)
       PROVE  Created
  BY <1>12, ClaimCreates DEF PostMergeDone, PostMergeFix, Created
<1>13. ASSUME NEW s \in Story, CrashInPostMerge(s) \/ CrashInAbandon(s)
       PROVE  Gone
  BY <1>13 DEF CrashInPostMerge, CrashInAbandon, Gone
<1>14. CASE SweepBegin \/ BreakerChanges \/ CapsChange \/ UNCHANGED vars
  <2>1. CASE SweepBegin
    BY <2>1 DEF SweepBegin, PutBack, Effect
  <2>2. CASE BreakerChanges
    BY <2>2 DEF BreakerChanges, PutBack, Effect
  <2>3. CASE CapsChange
    BY <2>3 DEF CapsChange, PutBack, Effect
  <2>4. CASE UNCHANGED vars
    BY <2>4 DEF vars, PutBack, Effect
  <2> QED
    BY <1>14, <2>1, <2>2, <2>3, <2>4
<1>15. CASE Crash
  <2>1. up /\ ProcessGone
    BY <1>15 DEF Crash
  <2> QED
    BY <2>1 DEF Gone, Effect
<1>16. CASE Restart \/ CrashInRestart
  <2>1. CASE Restart
    <3>1. ~up /\ slots' = 0 /\ UNCHANGED <<running, dead>> /\ up' = TRUE
      BY <2>1, Zenon DEF Restart
    <3> QED
      BY <3>1 DEF Born, Effect
  <2>2. CASE CrashInRestart
    <3>1. ~up /\ slots' = 0 /\ UNCHANGED <<pending, running, dead>>
      BY <2>2, Zenon DEF CrashInRestart
    <3> QED
      BY <3>1 DEF Born, Effect
  <2> QED
    BY <1>16, <2>1, <2>2
<1> QED
  BY <1>1, <1>2, <1>3, <1>4, <1>5, <1>6, <1>7, <1>8, <1>9, <1>10, <1>11, <1>12,
     <1>13, <1>14, <1>15, <1>16 DEF Next, Start, Effect

\* The inductive invariant: the counter is the number of holders, who never
\* outnumber the cap; no run is in two phases; a dead process has no tasks.
SlotInv ==
  /\ IsFiniteSet(Holding)
  /\ running \cap dead = {} /\ pending \cap Holding = {}
  /\ SlotsCountRuns
  /\ Cardinality(Holding) <= MaxCoders
  /\ ~up => Holding = {} /\ pending = {}

LEMMA SlotStep ==
  ASSUME SlotInv, TasksTypeOK, FlagsTypeOK, [Next]_vars
  PROVE  SlotInv'
<1> USE FleetAssumption DEF FleetAssumption
<1>0. Effect
  BY StepEffect
<1>1. CASE Created \/ PutBack
  <2>1. Holding' = Holding /\ slots' = slots /\ up' = up /\ (running \cap dead)' = running \cap dead
    BY <1>1 DEF Created, PutBack, Holding
  <2>2. pending' \cap Holding = {}
    BY <1>1, Zenon DEF Created, PutBack, SlotInv
  <2>3. ASSUME ~up PROVE pending' = {}
    <3>1. pending = {}
      BY <2>3, Zenon DEF SlotInv
    <3> QED
      BY <1>1, <2>3, <3>1 DEF Created, PutBack
  <2> QED
    BY <2>1, <2>2, <2>3 DEF SlotInv, SlotsCountRuns
<1>2. ASSUME NEW k \in Task, Taken(k)
      PROVE  SlotInv'
  <2>1. Holding' = Holding \cup {k} /\ k \notin Holding
    BY <1>2 DEF Taken, Holding, SlotInv
  <2>2. IsFiniteSet(Holding') /\ Cardinality(Holding') = Cardinality(Holding) + 1
    BY <2>1, FS_AddElement DEF SlotInv
  <2>3. Cardinality(Holding) \in Nat
    BY FS_CardinalityType DEF SlotInv
  <2> QED
    BY <1>2, <2>1, <2>2, <2>3 DEF Taken, SlotInv, SlotsCountRuns, Holding
<1>3. ASSUME NEW k \in Task, Given(k)
      PROVE  SlotInv'
  <2>1. Holding' = Holding \ {k} /\ k \in Holding
    BY <1>3 DEF Given, Holding, SlotInv
  <2>2. IsFiniteSet(Holding') /\ Cardinality(Holding') = Cardinality(Holding) - 1
    BY <2>1, FS_RemoveElement DEF SlotInv
  <2>3. Cardinality(Holding) \in Nat
    BY FS_CardinalityType DEF SlotInv
  <2>4. pending' \cap Holding' = {} /\ running' \cap dead' = {}
    BY <1>3, <2>1 DEF Given, SlotInv
  <2> QED
    BY <1>3, <2>1, <2>2, <2>3, <2>4 DEF Given, SlotInv, SlotsCountRuns
<1>4. ASSUME NEW k \in Task, Dies(k)
      PROVE  SlotInv'
  <2>1. Holding' = Holding
    BY <1>4 DEF Dies, Holding
  <2>2. running' \cap dead' = {} /\ pending' = pending /\ slots' = slots /\ up' = up
    BY <1>4 DEF Dies, SlotInv
  <2> QED
    BY <2>1, <2>2 DEF SlotInv, SlotsCountRuns
<1>5. CASE Gone
  <2>1. Holding' = {} /\ pending' = {} /\ running' = {} /\ ~up'
    BY <1>5 DEF Gone, ProcessGone, Holding
  <2> QED
    BY <2>1, FS_EmptySet DEF SlotInv, SlotsCountRuns
<1>6. CASE Born
  <2>1. Holding' = {} /\ running' = {} /\ slots' = 0
    BY <1>6 DEF Born, SlotInv, Holding
  <2>2. ~up' => pending' = {}
    BY <1>6 DEF Born, SlotInv
  <2> QED
    BY <2>1, <2>2, FS_EmptySet DEF SlotInv, SlotsCountRuns
<1> QED
  BY <1>0, <1>1, <1>2, <1>3, <1>4, <1>5, <1>6 DEF Effect

LEMMA SlotInvCorrect == Spec => [](TypeOK /\ SlotInv)
<1>1. Init => TypeOK /\ SlotInv
  <2>1. Init => SlotInv
    BY FS_EmptySet, FleetAssumption DEF FleetAssumption, Init, SlotInv, SlotsCountRuns, Holding
  <2> QED
    BY <2>1, InitTypeOK
<1>2. (TypeOK /\ SlotInv) /\ [Next]_vars => (TypeOK /\ SlotInv)'
  BY BoardStep, KeysStep, ReviewsStep, FlagsStep, SlotStep DEF TypeOK
<1> QED
  BY <1>1, <1>2, PTL DEF Spec

\* The slot counter is the number of runs that hold a slot, in every state of
\* every execution: no slot leaks and none is given back twice.
THEOREM SlotAccounting == Spec => []SlotsCountRuns
<1>1. SlotInv => SlotsCountRuns
  BY DEF SlotInv
<1> QED
  BY <1>1, SlotInvCorrect, PTL

\* The pool counts its holders as FiniteSets does.
LEMMA PoolCardinality == \A S : Pool!Cardinality(S) = Cardinality(S)
BY DEF Cardinality, Pool!Cardinality

\* The coder slots implement a pool of MaxCoders slots: never more runs at
\* work than the cap, whatever crashes, resets and deaths happen.
THEOREM FleetImplementsSlotPool == Spec => ImplementsSlotPool
<1>1. Init => Pool!Init
  BY DEF Init, Pool!Init, Holding
<1>2. (TypeOK /\ SlotInv) /\ [Next]_vars => [Pool!Next]_Holding
  <2> SUFFICES ASSUME TypeOK, SlotInv, [Next]_vars
               PROVE  Pool!Next \/ Holding' = Holding
    OBVIOUS
  <2>0. Effect
    BY StepEffect DEF TypeOK
  <2>1. CASE Created \/ PutBack \/ Born
    BY <2>1 DEF Created, PutBack, Born, Holding
  <2>2. ASSUME NEW k \in Task, Taken(k)
        PROVE  Pool!Acquire(k)
    <3>1. k \notin Holding /\ Holding' = Holding \cup {k}
      BY <2>2 DEF Taken, SlotInv, Holding
    <3>2. slots = Cardinality(Holding)
      BY <2>2 DEF Taken, SlotInv, SlotsCountRuns
    <3> QED
      BY <2>2, <3>1, <3>2, PoolCardinality DEF Pool!Acquire, Taken
  <2>3. ASSUME NEW k \in Task, Given(k)
        PROVE  Pool!Release({k})
    BY <2>3 DEF Pool!Release, Given, SlotInv, Holding
  <2>4. ASSUME NEW k \in Task, Dies(k)
        PROVE  Holding' = Holding
    BY <2>4 DEF Dies, Holding
  <2>5. ASSUME Gone, Holding # {}
        PROVE  Pool!Release(Holding)
    BY <2>5 DEF Pool!Release, Gone, ProcessGone, Holding
  <2>6. ASSUME Gone, Holding = {}
        PROVE  Holding' = Holding
    BY <2>6 DEF Gone, ProcessGone, Holding
  <2> QED
    BY <2>0, <2>1, <2>2, <2>3, <2>4, <2>5, <2>6 DEF Effect, Pool!Next, Given, Holding
<1> QED
  BY <1>1, <1>2, SlotInvCorrect, PTL DEF Spec, ImplementsSlotPool, Pool!Spec

-----------------------------------------------------------------------------
(* Claims.  A board is backed by a set of tasks when each of its            *)
(* in-progress stories has one in it.                                       *)

Backed(st, W) ==
  \A s \in Story : st[s] = "in-progress" => \E k \in W : k[1] = s

\* Writing another state than in-progress keeps a board backed.
LEMMA PutBacked ==
  ASSUME NEW st \in Board, NEW S, NEW v \in StoryState \ {"in-progress"},
         NEW W, Backed(st, W)
  PROVE  Backed(Put(st, S, v), W)
BY DEF Backed, Put, Board

\* The end of a run takes its task away and moves its story on.
LEMMA EndBacked ==
  ASSUME NEW k \in Task, NEW v \in StoryState \ {"in-progress"}, NEW st \in Board,
         NEW W \in SUBSET Task, Backed(st, W)
  PROVE  Backed(Put(st, {k[1]}, v), W \ {k})
<1> SUFFICES ASSUME NEW s \in Story, Put(st, {k[1]}, v)[s] = "in-progress"
             PROVE  \E m \in W \ {k} : m[1] = s
  BY DEF Backed
<1>1. s # k[1] /\ st[s] = "in-progress"
  BY DEF Put, Board
<1>2. PICK m \in W : m[1] = s
  BY <1>1 DEF Backed
<1>3. m # k
  BY <1>1, <1>2
<1> QED
  BY <1>2, <1>3

\* A claim backs what it writes, and so does a dispatch.
LEMMA ClaimBacked ==
  ASSUME NEW st \in Board, NEW s \in Story, NEW W, Claim(st, s), Backed(st, pending \cup W)
  PROVE  Backed(state', pending' \cup W)
<1>1. PICK r \in Run : pending' = pending \cup {<<s, r>>}
  BY DEF Claim
<1>2. state' = Put(st, {s}, "in-progress")
  BY DEF Claim
<1>3. SUFFICES ASSUME NEW u \in Story, state'[u] = "in-progress"
               PROVE  \E k \in pending' \cup W : k[1] = u
  BY DEF Backed
<1>4. CASE u = s
  <2>1. <<s, r>> \in pending' \cup W /\ <<s, r>>[1] = s
    BY <1>1
  <2> QED
    BY <1>4, <2>1
<1>5. CASE u # s
  <2>1. st[u] = "in-progress"
    BY <1>2, <1>3, <1>5 DEF Put, Board
  <2>2. PICK k \in pending \cup W : k[1] = u
    BY <2>1 DEF Backed
  <2> QED
    BY <1>1, <2>2
<1> QED
  BY <1>4, <1>5

LEMMA DispatchBacked ==
  ASSUME NEW st \in Board, NEW W, DispatchNextReady(st), Backed(st, pending \cup W)
  PROVE  Backed(state', pending' \cup W)
<1>1. CASE Ready(st) = {} /\ state' = st /\ UNCHANGED pending
  BY <1>1
<1>2. CASE \E s \in Ready(st) : Claim(st, s)
  BY <1>2, ClaimBacked DEF Ready
<1> QED
  BY <1>1, <1>2 DEF DispatchNextReady
\* A whole step keeps the board backed while the process is up.
LEMMA ClaimStep ==
  ASSUME TypeOK, ClaimHasTask, SlotInv, [Next]_vars
  PROVE  ClaimHasTask'
<1> DEFINE Back == Backed(state, pending \cup Holding)
<1>0. state \in Board /\ pending \cup Holding \subseteq Task
  BY DEF TypeOK, BoardTypeOK, TasksTypeOK, Board, Holding
<1>a. Live \cup dead = pending \cup Holding /\ (Live \cup dead)' = (pending \cup Holding)'
  BY DEF Live, Holding
<1>b. up => Back
  BY <1>a DEF ClaimHasTask, Backed
<1>c. Back' => ClaimHasTask'
  BY <1>a DEF ClaimHasTask, Backed
<1>d. ~up' => ClaimHasTask'
  BY DEF ClaimHasTask
<1>e. ASSUME UNCHANGED up, UNCHANGED state, UNCHANGED pending, UNCHANGED Holding
      PROVE  ClaimHasTask'
  <2>1. up' = up /\ Back' = Back
    BY <1>e
  <2> QED
    BY <1>b, <1>c, <1>d, <2>1
<1> USE DEF board, tasks, keys, weather
<1>1. ASSUME NEW p \in Project, StartPlan(p)
      PROVE  ClaimHasTask'
  <2>1. PICK s \in Story : Claim(state, s)
    BY <1>1 DEF StartPlan
  <2>2. Holding' = Holding /\ Back
    BY <1>1, <1>b DEF StartPlan, Holding
  <2> QED
    BY <1>0, <1>c, <2>1, <2>2, ClaimBacked
<1>2. ASSUME NEW p \in Project, CancelIdea(p)
      PROVE  ClaimHasTask'
  <2>1. PICK S : state' = Put(state, S, "abandoned")
    BY <1>2 DEF CancelIdea
  <2>2. Holding' = Holding /\ pending' = pending /\ Back
    BY <1>2, <1>b DEF CancelIdea, Holding
  <2> QED
    BY <1>0, <1>c, <2>1, <2>2, PutBacked DEF StoryState
<1>3. ASSUME NEW k \in Task, HoldRun(k) \/ RefuseSlot(k)
      PROVE  ClaimHasTask'
  <2>1. /\ Back /\ state' = Put(state, {k[1]}, "ready")
        /\ pending' = pending \ {k} /\ Holding' = Holding /\ k \in pending
    BY <1>3, <1>b DEF HoldRun, RefuseSlot, Holding
  <2>2. pending' \cup Holding' = (pending \cup Holding) \ {k}
    BY <2>1 DEF SlotInv
  <2> QED
    BY <1>0, <1>c, <2>1, <2>2, EndBacked DEF StoryState
<1>4. ASSUME NEW k \in Task, AcquireSlot(k)
      PROVE  ClaimHasTask'
  <2>1. Back /\ state' = state /\ pending' \cup Holding' = pending \cup Holding
    BY <1>4, <1>b DEF AcquireSlot, Holding
  <2> QED
    BY <1>c, <2>1
<1>5. ASSUME NEW k \in Task, Finish(k)
      PROVE  ClaimHasTask'
  <2>0. Back /\ k \in running
    BY <1>5, <1>b DEF Finish, FinishSuccess, FinishNoChanges, FinishNoCredit,
       FinishErrorRequeue, FinishErrorPark, FinishException
  <2>1. ASSUME NEW v \in StoryState \ {"in-progress"}
        PROVE  /\ Put(state, {k[1]}, v) \in Board
               /\ Backed(Put(state, {k[1]}, v), (pending \cup Holding) \ {k})
    BY <1>0, <2>0, PutType, EndBacked
  <2>2. (pending \cup Holding) \ {k} = pending \cup (Holding \ {k})
    BY <2>0 DEF SlotInv, Holding
  <2>3. ASSUME NEW st \in Board, Backed(st, pending \cup (Holding \ {k})), ReleaseAndDispatch(k, st)
        PROVE  ClaimHasTask'
    <3>1. Holding' = Holding \ {k}
      BY <2>0, <2>3 DEF ReleaseAndDispatch, Holding, SlotInv
    <3>2. DispatchNextReady(st)
      BY <2>3 DEF ReleaseAndDispatch
    <3> QED
      BY <1>c, <2>3, <3>1, <3>2, DispatchBacked
  <2>4. \A v \in StoryState \ {"in-progress"} :
          ReleaseAndDispatch(k, Put(state, {k[1]}, v)) => ClaimHasTask'
    BY <2>1, <2>2, <2>3
  <2>5. FinishNoChanges(k) => ClaimHasTask'
    <3> DEFINE st == Put(state, {k[1]}, "done")
    <3>1. st \in Board /\ Backed(st, pending \cup (Holding \ {k})) /\ k[1] \in Story
      BY <2>1, <2>2 DEF StoryState, Task
    <3> HIDE DEF st
    <3>2. Unlock(st, k[1]) \in Board /\ Backed(Unlock(st, k[1]), pending \cup (Holding \ {k}))
      BY <3>1, UnlockType, PutBacked DEF Unlock, StoryState
    <3> QED
      BY <2>3, <3>2 DEF FinishNoChanges, st
  <2> QED
    BY <1>5, <2>4, <2>5 DEF Finish, FinishSuccess, FinishNoCredit,
       FinishErrorRequeue, FinishErrorPark, FinishException, StoryState
<1>6. ASSUME NEW k \in Task, TaskDies(k)
      PROVE  ClaimHasTask'
  <2>1. Back /\ state' = state /\ pending' = pending /\ Holding' = Holding
    BY <1>6, <1>b DEF TaskDies, Holding
  <2> QED
    BY <1>c, <2>1
<1>7. ASSUME NEW k \in Task, CrashInNoChanges(k)
      PROVE  ClaimHasTask'
  BY <1>7, <1>d DEF CrashInNoChanges, ProcessGone
<1>8. ASSUME NEW s \in Story, Code(s) \/ Reset(s)
      PROVE  ClaimHasTask'
  <2>1. Claim(state, s) /\ Holding' = Holding /\ Back
    BY <1>8, <1>b DEF Code, Reset, Holding
  <2> QED
    BY <1>0, <1>c, <2>1, ClaimBacked
<1>9. ASSUME NEW s \in Story, Abandon(s)
      PROVE  ClaimHasTask'
  <2> DEFINE st == Put(state, {s}, "abandoned")
  <2>1. DispatchNextReady(Unlock(st, s)) /\ Holding' = Holding /\ Back
    BY <1>9, <1>b DEF Abandon, Holding
  <2>2. st \in Board /\ Backed(st, pending \cup Holding)
    BY <1>0, <2>1, PutType, PutBacked DEF StoryState
  <2> HIDE DEF st
  <2>3. Unlock(st, s) \in Board /\ Backed(Unlock(st, s), pending \cup Holding)
    BY <2>2, UnlockType, PutBacked DEF Unlock, StoryState
  <2> QED
    BY <1>c, <2>1, <2>3, DispatchBacked
<1>10. ASSUME NEW s \in Story, ReviewMoves(s) \/ RecodeEnds(s)
       PROVE  ClaimHasTask'
  <2>1. PICK v \in {"in-review", "changes-requested", "merged"} : state' = Put(state, {s}, v)
    BY <1>10, ReviewEffect
  <2>2. Back /\ pending' = pending /\ Holding' = Holding
    BY <1>10, <1>b, ReviewEffect DEF Holding
  <2> QED
    BY <1>0, <1>c, <2>1, <2>2, PutBacked DEF StoryState
<1>11. ASSUME NEW s \in Story, PostMergeDone(s)
       PROVE  ClaimHasTask'
  <2> DEFINE st == Put(state, {s}, "done")
  <2>1. Back /\ Holding' = Holding
    BY <1>11, <1>b DEF PostMergeDone, Holding
  <2>2. st \in Board /\ Backed(st, pending \cup Holding)
    BY <1>0, <2>1, PutType, PutBacked DEF StoryState
  <2>3. \/ state' = st /\ pending' = pending
        \/ \E t \in Story : Claim(Unlock(st, s), t)
    BY <1>11 DEF PostMergeDone, NextBacklog
  <2> HIDE DEF st
  <2>4. Unlock(st, s) \in Board /\ Backed(Unlock(st, s), pending \cup Holding)
    BY <2>2, UnlockType, PutBacked DEF Unlock, StoryState
  <2> QED
    BY <1>c, <2>1, <2>2, <2>3, <2>4, ClaimBacked
<1>12. ASSUME NEW s \in Story, PostMergeFix(s)
       PROVE  ClaimHasTask'
  <2>1. Back /\ Holding' = Holding
    BY <1>12, <1>b DEF PostMergeFix, Holding
  <2>2. \/ Claim(state, s)
        \/ state' = Put(state, {s}, "changes-requested") /\ pending' = pending
    BY <1>12 DEF PostMergeFix
  <2> QED
    BY <1>0, <1>c, <2>1, <2>2, ClaimBacked, PutBacked DEF StoryState
<1>13. ASSUME NEW s \in Story, GrowOld(s) \/ SweepSkip(s) \/ SweepGiveUp(s)
       PROVE  ClaimHasTask'
  <2>1. UNCHANGED <<state, pending, running, dead, up>>
    BY <1>13 DEF GrowOld, SweepSkip, SweepGiveUp
  <2> QED
    BY <1>e, <2>1 DEF Holding
<1>14. ASSUME NEW s \in Story, SweepRecover(s)
       PROVE  ClaimHasTask'
  <2>1. /\ Back /\ pending' = pending /\ Holding' = Holding
        /\ state' = Put(state, {s}, "ready")
    BY <1>14, <1>b DEF SweepRecover, Holding
  <2> QED
    BY <1>0, <1>c, <2>1, PutBacked DEF StoryState
<1>15. ASSUME NEW s \in Story, CrashInPostMerge(s) \/ CrashInAbandon(s)
       PROVE  ClaimHasTask'
  BY <1>15, <1>d DEF CrashInPostMerge, CrashInAbandon, ProcessGone
<1>16. ASSUME SweepBegin \/ BreakerChanges \/ CapsChange \/ UNCHANGED vars
       PROVE  ClaimHasTask'
  <2>1. UNCHANGED <<state, pending, running, dead, up>>
    BY <1>16 DEF SweepBegin, BreakerChanges, CapsChange, vars
  <2> QED
    BY <1>e, <2>1 DEF Holding
<1>17. ASSUME Crash \/ CrashInRestart
       PROVE  ClaimHasTask'
  <2>1. ~up'
    BY <1>17, Zenon DEF Crash, CrashInRestart, ProcessGone
  <2> QED
    BY <1>d, <2>1
<1>18. ASSUME Restart
       PROVE  ClaimHasTask'
  <2> DEFINE orphaned == {s \in Story : state[s] = "in-progress"}
             st == Put(state, orphaned, "ready")
  <2>1. CASE orphaned = {} /\ UNCHANGED <<state, pending>>
    BY <1>c, <2>1 DEF Backed
  <2>2. ASSUME NEW D \in SUBSET Ready(st), state' = Put(st, D, "in-progress"),
               NEW r \in [D -> Run], pending' = {<<s, r[s]>> : s \in D}
        PROVE  ClaimHasTask'
    <3>1. SUFFICES ASSUME NEW s \in Story, state'[s] = "in-progress"
                   PROVE  \E k \in pending' : k[1] = s
      BY <1>c DEF Backed
    <3>2. st[s] # "in-progress"
      BY DEF Put
    <3> HIDE DEF st
    <3>3. s \in D
      BY <2>2, <3>1, <3>2 DEF Put
    <3>4. <<s, r[s]>> \in pending' /\ <<s, r[s]>>[1] = s
      BY <2>2, <3>3
    <3> QED
      BY <3>4
  <2> QED
    BY <1>18, <2>1, <2>2 DEF Restart
<1> QED
  BY <1>1, <1>2, <1>3, <1>4, <1>5, <1>6, <1>7, <1>8, <1>9, <1>10, <1>11, <1>12,
     <1>13, <1>14, <1>15, <1>16, <1>17, <1>18 DEF Next, Start, SweepStep

\* While the process is up, every story shown in progress has a task behind it,
\* alive or silently dead: no handler, sweep or restart leaves an orphan.
THEOREM ClaimsHaveTasks == Spec => []ClaimHasTask
<1>1. Init => ClaimHasTask
  BY DEF Init, ClaimHasTask
<1>2. ClaimHasTask /\ (TypeOK /\ SlotInv) /\ [Next]_vars => ClaimHasTask'
  BY ClaimStep
<1> QED
  BY <1>1, <1>2, SlotInvCorrect, PTL DEF Spec

-----------------------------------------------------------------------------
(* Sequencing.  A board flows when no story waits in backlog behind         *)
(* finished stories only.                                                   *)

Over == {"done", "abandoned"}
Flows(st) ==
  \A s \in Story :
    st[s] = "backlog" /\ (\A t \in Story : Ahead(t, s) => st[t] \in Over) => First(s)

\* Nothing enters backlog and nothing is newly finished: the board still flows.
LEMMA FlowsKept ==
  ASSUME NEW st, NEW nst, Flows(st),
         \A s \in Story : nst[s] = "backlog" => st[s] = "backlog",
         \A s \in Story : nst[s] \in Over => st[s] \in Over
  PROVE  Flows(nst)
BY DEF Flows

LEMMA PutFlows ==
  ASSUME NEW st \in Board, NEW S, NEW v \in StoryState \ (Over \cup {"backlog"}), Flows(st)
  PROVE  Flows(Put(st, S, v))
<1>1. \A s \in Story : Put(st, S, v)[s] \in {v, st[s]}
  BY DEF Put
<1>2. v # "backlog" /\ v \notin Over
  OBVIOUS
<1> QED
  BY <1>1, <1>2, FlowsKept

LEMMA ClaimFlows ==
  ASSUME NEW st \in Board, NEW s \in Story, Flows(st), Claim(st, s)
  PROVE  Flows(state')
BY PutFlows DEF Claim, StoryState, Over

LEMMA DispatchFlows ==
  ASSUME NEW st \in Board, Flows(st), DispatchNextReady(st)
  PROVE  Flows(state')
<1>1. CASE \E s \in Ready(st) : Claim(st, s)
  BY <1>1, ClaimFlows DEF Ready
<1> QED
  BY <1>1 DEF DispatchNextReady

\* A nonempty set of stories has one with the least sequence number.
LEMMA LeastSequence ==
  ASSUME NEW S \in SUBSET Story, NEW s \in S
  PROVE  \E u \in S : \A t \in S : SequenceOf[u] <= SequenceOf[t]
<1> DEFINE N == {SequenceOf[t] : t \in S}
<1>1. N \in SUBSET Nat /\ N # {}
  BY FleetAssumption DEF FleetAssumption
<1>2. PICK n \in N : \A m \in N : n <= m
  <2> HIDE DEF N
  <2>1. PICK n \in N : \A m \in N : ~(<<m, n>> \in OpToRel(<, Nat))
    BY <1>1, NatLessThanWellFounded, WFMin, Zenon
  <2>2. \A m \in N : ~(m < n)
    BY <1>1, <2>1 DEF OpToRel
  <2> QED
    BY <1>1, <2>2
<1>3. PICK u \in S : SequenceOf[u] = n
  OBVIOUS
<1> QED
  BY <1>2, <1>3

\* Finishing a story and unlocking the next one after it keeps the board
\* flowing: a story that waited for the finished one has the unlocked one ahead,
\* or is it.  Two stories of one plan never share a number (SequenceAssumption).
LEMMA UnlockFlows ==
  ASSUME NEW st \in Board, NEW s \in Story, NEW v \in Over, Flows(st)
  PROVE  Flows(Unlock(Put(st, {s}, v), s))
<1> DEFINE mid == Put(st, {s}, v)
           nst == Unlock(mid, s)
<1>1. SUFFICES ASSUME NEW x \in Story, nst[x] = "backlog",
                      \A t \in Story : Ahead(t, x) => nst[t] \in Over
               PROVE  First(x)
  BY DEF Flows
<1>2. /\ \A y \in Story : mid[y] = IF y = s THEN v ELSE st[y]
      /\ v # "backlog"
  BY DEF Put, Over
<1>3. \A y \in Story : nst[y] = IF y \in NextBacklog(mid, s) THEN "ready" ELSE mid[y]
  BY DEF Unlock, Put
<1> HIDE DEF mid, nst
<1>4. mid[x] = "backlog" /\ st[x] = "backlog" /\ x \notin NextBacklog(mid, s)
  BY <1>1, <1>2, <1>3
<1>5. CASE Ahead(s, x)
  <2> DEFINE later == {t \in Story : /\ ProjectOf[t] = ProjectOf[s]
                                     /\ SequenceOf[t] > SequenceOf[s]
                                     /\ mid[t] = "backlog"}
  <2>1. x \in later
    BY <1>4, <1>5, FleetAssumption DEF Ahead, FleetAssumption
  <2>2. PICK u \in later : \A t \in later : SequenceOf[u] <= SequenceOf[t]
    BY <2>1, LeastSequence
  <2>3. u \in NextBacklog(mid, s)
    BY <2>2 DEF NextBacklog
  <2>4. u # x /\ u \in Story /\ ProjectOf[u] = ProjectOf[x]
    BY <1>4, <2>1, <2>3
  <2>5. SequenceOf[u] < SequenceOf[x]
    BY <2>1, <2>2, <2>4, SequenceAssumption, FleetAssumption
       DEF SequenceAssumption, FleetAssumption
  <2>6. Ahead(u, x) /\ nst[u] = "ready"
    BY <1>3, <2>3, <2>4, <2>5 DEF Ahead
  <2> QED
    BY <1>1, <2>4, <2>6 DEF Over
<1>6. CASE ~Ahead(s, x)
  <2>1. \A t \in Story : Ahead(t, x) => st[t] \in Over
    BY <1>1, <1>2, <1>3, <1>6 DEF Over
  <2> QED
    BY <1>4, <2>1 DEF Flows
<1> QED
  BY <1>5, <1>6

LEMMA SequenceStep ==
  ASSUME "torn" \notin Enabled, TypeOK, Flows(state), [Next]_vars
  PROVE  Flows(state')
<1>0. state \in Board
  BY DEF TypeOK, BoardTypeOK, Board
<1> USE DEF board, tasks, keys, weather
<1>a. \A S : \A v \in StoryState \ (Over \cup {"backlog"}) : Flows(Put(state, S, v))
  BY <1>0, PutFlows
<1>b. \A s \in Story : Claim(state, s) => Flows(state')
  BY <1>0, ClaimFlows
<1>c. \A s \in Story : \A v \in Over :
        /\ Unlock(Put(state, {s}, v), s) \in Board
        /\ Flows(Unlock(Put(state, {s}, v), s))
  BY <1>0, PutType, UnlockType, UnlockFlows DEF Over, StoryState
<1>1. ASSUME NEW p \in Project, StartPlan(p)
      PROVE  Flows(state')
  BY <1>1, <1>b DEF StartPlan
<1>2. ASSUME NEW p \in Project, CancelIdea(p)
      PROVE  Flows(state')
  <2> DEFINE stopped == {s \in Story : ProjectOf[s] = p /\ state[s] \notin {"done", "abandoned"}}
  <2>1. state' = Put(state, stopped, "abandoned")
    BY <1>2 DEF CancelIdea
  <2>2. SUFFICES ASSUME NEW x \in Story, state'[x] = "backlog",
                        \A t \in Story : Ahead(t, x) => state'[t] \in Over
                 PROVE  First(x)
    BY DEF Flows
  <2>3. state[x] = "backlog" /\ ProjectOf[x] # p
    BY <2>1, <2>2 DEF Put
  <2>4. \A t \in Story : Ahead(t, x) => state[t] \in Over
    BY <2>1, <2>2, <2>3 DEF Put, Ahead
  <2> QED
    BY <2>3, <2>4 DEF Flows
<1>3. ASSUME NEW k \in Task, Start(k)
      PROVE  Flows(state')
  BY <1>3, <1>a DEF Start, HoldRun, AcquireSlot, RefuseSlot, StoryState, Over
<1>4. ASSUME NEW k \in Task, Finish(k)
      PROVE  Flows(state')
  <2>1. \A v \in StoryState \ (Over \cup {"backlog"}) :
          ReleaseAndDispatch(k, Put(state, {k[1]}, v)) => Flows(state')
    BY <1>0, <1>a, PutType, DispatchFlows DEF ReleaseAndDispatch
  <2>2. FinishNoChanges(k) => Flows(state')
    <3>1. k[1] \in Story /\ "done" \in Over
      BY DEF Task, Over
    <3> QED
      BY <1>c, <3>1, DispatchFlows DEF FinishNoChanges, ReleaseAndDispatch
  <2> QED
    BY <1>4, <2>1, <2>2 DEF Finish, FinishSuccess, FinishNoCredit,
       FinishErrorRequeue, FinishErrorPark, FinishException, StoryState, Over
<1>5. ASSUME NEW k \in Task, TaskDies(k) \/ CrashInNoChanges(k)
      PROVE  Flows(state')
  BY <1>5 DEF TaskDies, CrashInNoChanges
<1>6. ASSUME NEW s \in Story, Code(s) \/ Reset(s)
      PROVE  Flows(state')
  BY <1>6, <1>b DEF Code, Reset
<1>7. ASSUME NEW s \in Story, Abandon(s)
      PROVE  Flows(state')
  <2>1. "abandoned" \in Over /\ DispatchNextReady(Unlock(Put(state, {s}, "abandoned"), s))
    BY <1>7 DEF Abandon, Over
  <2> QED
    BY <1>c, <2>1, DispatchFlows
<1>8. ASSUME NEW s \in Story, ReviewMoves(s) \/ RecodeEnds(s)
      PROVE  Flows(state')
  <2>1. PICK v \in {"in-review", "changes-requested", "merged"} : state' = Put(state, {s}, v)
    BY <1>8, ReviewEffect
  <2> QED
    BY <1>a, <2>1 DEF StoryState, Over
<1>9. ASSUME NEW s \in Story, PostMergeDone(s)
      PROVE  Flows(state')
  <2> DEFINE st == Put(state, {s}, "done")
  <2>1. "done" \in Over
    BY DEF Over
  <2>2. Unlock(st, s) \in Board /\ Flows(Unlock(st, s))
    BY <1>c, <2>1
  <2>3. CASE NextBacklog(st, s) = {} /\ state' = st
    <3>1. \A y \in Story : Unlock(st, s)[y] = st[y]
      BY <2>3 DEF Unlock, Put
    <3> QED
      BY <2>2, <2>3, <3>1, FlowsKept
  <2>4. CASE \E t \in NextBacklog(st, s) : Claim(Unlock(st, s), t)
    BY <2>2, <2>4, ClaimFlows DEF NextBacklog
  <2> QED
    BY <1>9, <2>3, <2>4 DEF PostMergeDone
<1>10. ASSUME NEW s \in Story, PostMergeFix(s)
       PROVE  Flows(state')
  BY <1>10, <1>a, <1>b DEF PostMergeFix, StoryState, Over
<1>11. ASSUME NEW s \in Story, GrowOld(s) \/ SweepStep(s)
       PROVE  Flows(state')
  BY <1>11, <1>a DEF GrowOld, SweepStep, SweepSkip, SweepRecover, SweepGiveUp, StoryState, Over
<1>12. ASSUME NEW s \in Story, CrashInPostMerge(s) \/ CrashInAbandon(s)
       PROVE  FALSE
  BY <1>12 DEF CrashInPostMerge, CrashInAbandon
<1>13. ASSUME SweepBegin \/ BreakerChanges \/ CapsChange \/ Crash \/ UNCHANGED vars
       PROVE  Flows(state')
  BY <1>13 DEF SweepBegin, BreakerChanges, CapsChange, Crash, vars
<1>14. ASSUME Restart
       PROVE  Flows(state')
  <2> DEFINE st == Put(state, {s \in Story : state[s] = "in-progress"}, "ready")
  <2>1. st \in Board /\ Flows(st)
    BY <1>0, <1>a, PutType DEF StoryState, Over
  <2>2. \A D : Flows(Put(st, D, "in-progress"))
    BY <2>1, PutFlows DEF StoryState, Over
  <2> QED
    BY <1>14, <2>2 DEF Restart
<1>15. ASSUME CrashInRestart
       PROVE  Flows(state')
  BY <1>15, <1>a DEF CrashInRestart, StoryState, Over
<1> QED
  BY <1>1, <1>2, <1>3, <1>4, <1>5, <1>6, <1>7, <1>8, <1>9, <1>10, <1>11, <1>12,
     <1>13, <1>14, <1>15 DEF Next

\* Unless the process dies between the two writes of one handler, a plan under
\* way never stalls: no story waits in backlog behind finished ones only.
THEOREM PlansNeverStall ==
  ASSUME "torn" \notin Enabled
  PROVE  Spec => []NoStalledPlan
<1>1. Flows(state) <=> NoStalledPlan
  BY DEF Flows, NoStalledPlan, Blocked, Finished, Over
<1>2. Init => Flows(state)
  BY DEF Init, Flows, First, Over
<1>3. TypeOK /\ Flows(state) /\ [Next]_vars => Flows(state)'
  BY SequenceStep
<1> QED
  BY <1>1, <1>2, <1>3, TypeCorrect, PTL DEF Spec
=============================================================================
