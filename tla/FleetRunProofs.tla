---------------------------- MODULE FleetRunProofs ----------------------------
(***************************************************************************)
(* Theorems about the runs of CoderFleet, for every board and cap, and for *)
(* the circumstances each of them names: no story has two coders and no    *)
(* late run revives a story that is done, unless a recode task wrote its   *)
(* state after the review; no queued story lacks a run that will dispatch  *)
(* it.                                                                     *)
(***************************************************************************)
EXTENDS CoderFleetProofs

-----------------------------------------------------------------------------
(* One coder for each story.  It is not enough that no story has two runs:  *)
(* what keeps a second one from being started is that a story with a run is *)
(* claimed, or was abandoned under it, and that nothing takes such a claim  *)
(* back while the run is alive.  A recode that ends late does, so this is   *)
(* said of the stories outside a set X, which will be the late ones.        *)

Held == {"in-progress", "abandoned"}
Single(X, st, L) ==
  /\ \A j, k \in L : j[1] = k[1] /\ j[1] \notin X => j = k
  /\ \A k \in L : k[1] \notin X => st[k[1]] \in Held

OneRunEach == aged = {} /\ sweep = {} /\ Single(late, state, Live)

\* A claim of a story without a run gives it one, and so does a dispatch.
LEMMA ClaimSingle ==
  ASSUME NEW X, NEW st \in Board, NEW s \in Story, st[s] \notin Held,
         NEW W \in SUBSET Task, pending \subseteq Task,
         Single(X, st, pending \cup W), Claim(st, s)
  PROVE  Single(X, state', pending' \cup W)
<1>1. PICK r \in Run : pending' = pending \cup {<<s, r>>}
  BY DEF Claim
<1>2. state' = Put(st, {s}, "in-progress")
  BY DEF Claim
<1>3. \A k \in pending \cup W : k[1] \in Story /\ (k[1] \notin X => k[1] # s)
  BY DEF Single, Task
<1>4. \A k \in pending' \cup W : k \in pending \cup W \/ k = <<s, r>>
  BY <1>1
<1>5. \A k \in pending' \cup W : k[1] \notin X => state'[k[1]] \in Held
  BY <1>2, <1>3, <1>4 DEF Put, Single, Held
<1>6. \A j, k \in pending' \cup W : j[1] = k[1] /\ j[1] \notin X => j = k
  BY <1>3, <1>4 DEF Single
<1> QED
  BY <1>5, <1>6 DEF Single

LEMMA DispatchSingle ==
  ASSUME NEW X, NEW st \in Board, NEW W \in SUBSET Task, pending \subseteq Task,
         Single(X, st, pending \cup W), DispatchNextReady(st)
  PROVE  Single(X, state', pending' \cup W)
<1>1. CASE Ready(st) = {} /\ state' = st /\ UNCHANGED pending
  BY <1>1
<1>2. CASE \E s \in Ready(st) : Claim(st, s)
  BY <1>2, ClaimSingle DEF Ready, Held
<1> QED
  BY <1>1, <1>2 DEF DispatchNextReady

\* The end of a run leaves its story without one, whatever is written.
LEMMA EndSingle ==
  ASSUME NEW X, NEW st \in Board, NEW L \in SUBSET Task, Single(X, st, L), NEW k \in L, NEW v
  PROVE  Single(X, Put(st, {k[1]}, v), L \ {k})
<1>1. \A j \in L \ {k} : j[1] \in Story /\ (j[1] \notin X => j[1] # k[1])
  BY DEF Single, Task
<1>2. \A j \in L \ {k} : j[1] \notin X => Put(st, {k[1]}, v)[j[1]] = st[j[1]]
  BY <1>1 DEF Put
<1> QED
  BY <1>2 DEF Single

\* Other writes are to stories without a run, or abandon one.
LEMMA PutSingle ==
  ASSUME NEW X, NEW st \in Board, NEW L \in SUBSET Task, Single(X, st, L), NEW S, NEW v,
         v = "abandoned" \/ \A s \in S : st[s] \notin Held
  PROVE  Single(X, Put(st, S, v), L)
BY DEF Single, Put, Board, Held, Task

LEMMA UnlockSingle ==
  ASSUME NEW X, NEW st \in Board, NEW L \in SUBSET Task, Single(X, st, L), NEW s
  PROVE  Single(X, Unlock(st, s), L)
BY PutSingle DEF Unlock, NextBacklog, Held

\* What the end of a run shares with every other end.
LEMMA FinishSingle ==
  ASSUME NEW X, TypeOK, Single(X, state, Live), pending \cap running = {},
         NEW k \in running, NEW st \in Board,
         Single(X, st, Live \ {k}), ReleaseAndDispatch(k, st)
  PROVE  Single(X, state', Live')
<1>1. running' = running \ {k} /\ DispatchNextReady(st) /\ pending \subseteq Task
      /\ running' \in SUBSET Task
  BY DEF ReleaseAndDispatch, TypeOK, TasksTypeOK
<1>2. Live \ {k} = pending \cup running'
  BY <1>1 DEF Live
<1>3. Single(X, state', pending' \cup running')
  BY <1>1, <1>2, DispatchSingle
<1> QED
  BY <1>3 DEF Live


\* Only the end of a recode makes a story late.
LEMMA LateGrows ==
  ASSUME [Next]_vars
  PROVE  late' = late \/ \E s \in Story : RecodeEnds(s) /\ late' \in {late, late \cup {s}}
<1> USE DEF reviews
<1>1. ASSUME NEW p \in Project, StartPlan(p) \/ CancelIdea(p)
      PROVE  late' = late
  BY <1>1, Zenon DEF StartPlan, CancelIdea
<1>2. ASSUME NEW k \in Task, Start(k) \/ TaskDies(k)
      PROVE  late' = late
  BY <1>2, Zenon DEF Start, HoldRun, AcquireSlot, RefuseSlot, TaskDies
<1>3. ASSUME NEW k \in Task, Finish(k)
      PROVE  late' = late
  BY <1>3, Zenon DEF Finish, FinishSuccess, FinishNoChanges, FinishNoCredit,
     FinishErrorRequeue, FinishErrorPark, FinishException
<1>4. ASSUME NEW s \in Story, \/ Code(s) \/ Reset(s) \/ Abandon(s) \/ ReviewMoves(s)
                             \/ PostMergeDone(s) \/ PostMergeFix(s)
      PROVE  late' = late
  BY <1>4, Zenon DEF Code, Reset, Abandon, ReviewMoves, PostMergeDone, PostMergeFix
<1>5. ASSUME NEW s \in Story, RecodeEnds(s)
      PROVE  late' \in {late, late \cup {s}}
  BY <1>5 DEF RecodeEnds
<1>6. ASSUME NEW s \in Story, GrowOld(s) \/ SweepStep(s)
      PROVE  late' = late
  BY <1>6, Zenon DEF GrowOld, SweepStep, SweepSkip, SweepRecover, SweepGiveUp
<1>7. CASE SweepBegin \/ BreakerChanges \/ CapsChange \/ Restart \/ CrashInRestart
  BY <1>7, Zenon DEF SweepBegin, BreakerChanges, CapsChange, Restart, CrashInRestart
<1>8. CASE UNCHANGED vars
  BY <1>8 DEF vars
<1>9. /\ Crash => late' = late
      /\ \A k \in Task : CrashInNoChanges(k) => late' = late
      /\ \A s \in Story : CrashInPostMerge(s) \/ CrashInAbandon(s) => late' = late
  BY DEF Crash, CrashInNoChanges, CrashInPostMerge, CrashInAbandon, ProcessGone
<1> QED
  BY <1>1, <1>2, <1>3, <1>4, <1>5, <1>6, <1>7, <1>8, <1>9 DEF Next

\* Without the two circumstances that take a claim back under its coder, every step
\* keeps one run for each story.
LEMMA SingleStep ==
  ASSUME {"reset", "watchdog"} \cap Enabled = {},
         TypeOK, SlotInv, OneRunEach, [Next]_vars
  PROVE  OneRunEach'
<1> USE DEF board, tasks, keys, weather
<1> DEFINE After == aged' = {} /\ sweep' = {} /\ Single(late, state', Live')
<1>0. /\ state \in Board /\ pending \in SUBSET Task /\ running \in SUBSET Task
      /\ Live \in SUBSET Task /\ pending \cap running = {}
      /\ aged = {} /\ sweep = {} /\ Single(late, state, Live)
      /\ Single(late, state, pending \cup running)
  BY DEF TypeOK, BoardTypeOK, TasksTypeOK, Board, Live, SlotInv, Holding, OneRunEach
<1>a. \A L, M : Single(late, state, L) /\ M \subseteq L => Single(late, state, M)
  BY DEF Single
<1>b. ASSUME NEW st \in Board, NEW s \in Story, st[s] \notin Held, Single(late, st, Live),
             Claim(st, s), UNCHANGED running
      PROVE  Single(late, state', Live')
  <2>1. Single(late, st, pending \cup running) /\ Claim(st, s) /\ st[s] \notin Held
    BY <1>b DEF Live
  <2>2. Single(late, state', pending' \cup running)
    BY <1>0, <2>1, ClaimSingle
  <2> QED
    BY <1>b, <2>2 DEF Live
<1>c. ASSUME NEW st \in Board, Single(late, st, Live), DispatchNextReady(st), UNCHANGED running
      PROVE  Single(late, state', Live')
  <2>1. Single(late, st, pending \cup running)
    BY <1>c DEF Live
  <2>2. Single(late, state', pending' \cup running)
    BY <1>0, <1>c, <2>1, DispatchSingle
  <2> QED
    BY <1>c, <2>2 DEF Live
<1>1. ASSUME NEW p \in Project, StartPlan(p)
      PROVE  After
  <2>1. PICK s \in Story : ProjectOf[s] = p /\ Claim(state, s) /\ Refresh({s})
    BY <1>1 DEF StartPlan
  <2>2. state[s] \notin Held
    BY <1>1, <2>1 DEF StartPlan, Held
  <2>3. UNCHANGED <<running, sweep>>
    BY <1>1 DEF StartPlan
  <2>4. Single(late, state', Live')
    BY <1>0, <1>b, <2>1, <2>2, <2>3
  <2> QED
    BY <1>0, <2>1, <2>3, <2>4 DEF OneRunEach, Refresh
<1>2. ASSUME NEW p \in Project, CancelIdea(p)
      PROVE  After
  <2>1. PICK S : state' = Put(state, S, "abandoned") /\ aged' = aged \ S
    BY <1>2 DEF CancelIdea
  <2>2. UNCHANGED <<Live, sweep>>
    BY <1>2 DEF CancelIdea, Live
  <2> QED
    BY <1>0, <2>1, <2>2, PutSingle DEF OneRunEach
<1>3. ASSUME NEW k \in Task, HoldRun(k) \/ RefuseSlot(k)
      PROVE  After
  <2>1. /\ k \in Live /\ state' = Put(state, {k[1]}, "ready")
        /\ pending' = pending \ {k} /\ UNCHANGED <<running, sweep>> /\ Refresh({k[1]})
    BY <1>3 DEF HoldRun, RefuseSlot, Live
  <2>2. Live' = Live \ {k}
    BY <1>0, <1>3, <2>1 DEF Live, HoldRun, RefuseSlot
  <2> QED
    BY <1>0, <2>1, <2>2, EndSingle DEF OneRunEach, Refresh
<1>4. ASSUME NEW k \in Task, AcquireSlot(k) \/ TaskDies(k)
      PROVE  After
  <2>1. Live' \subseteq Live /\ UNCHANGED <<state, aged, sweep>>
    BY <1>4 DEF AcquireSlot, TaskDies, Live
  <2> QED
    BY <1>0, <1>a, <2>1 DEF OneRunEach
<1>5. ASSUME NEW k \in Task, Finish(k)
      PROVE  After
  <2>1. PICK st : /\ ReleaseAndDispatch(k, st)
                  /\ \/ \E v \in StoryState : st = Put(state, {k[1]}, v)
                     \/ st = Unlock(Put(state, {k[1]}, "done"), k[1])
    BY <1>5 DEF Finish, FinishSuccess, FinishNoChanges, FinishNoCredit,
       FinishErrorRequeue, FinishErrorPark, FinishException, StoryState
  <2>2. k \in running /\ k \in Live /\ k[1] \in Story /\ UNCHANGED sweep
    BY <1>5 DEF Finish, FinishSuccess, FinishNoChanges, FinishNoCredit,
       FinishErrorRequeue, FinishErrorPark, FinishException, Live, Task
  <2>3. \A v \in StoryState : /\ Put(state, {k[1]}, v) \in Board
                              /\ Single(late, Put(state, {k[1]}, v), Live \ {k})
    BY <1>0, <2>2, PutType, EndSingle
  <2>4. /\ Unlock(Put(state, {k[1]}, "done"), k[1]) \in Board
        /\ Single(late, Unlock(Put(state, {k[1]}, "done"), k[1]), Live \ {k})
    <3>1. "done" \in StoryState /\ Live \ {k} \in SUBSET Task
      BY <1>0 DEF StoryState
    <3> QED
      BY <2>2, <2>3, <3>1, UnlockType, UnlockSingle
  <2>5. st \in Board /\ Single(late, st, Live \ {k})
    BY <2>1, <2>3, <2>4
  <2>6. Single(late, state', Live')
    BY <1>0, <2>1, <2>2, <2>5, FinishSingle
  <2> QED
    BY <1>0, <2>1, <2>2, <2>6 DEF OneRunEach, ReleaseAndDispatch, Refresh
<1>6. ASSUME Gone /\ aged' \subseteq aged
      PROVE  After
  <2>1. Live' = {} /\ aged' = {} /\ sweep' = {}
    BY <1>0, <1>6 DEF Gone, ProcessGone, Live
  <2> QED
    BY <2>1 DEF OneRunEach, Single
<1>7. ASSUME NEW s \in Story, Code(s)
      PROVE  After
  <2>1. state[s] \notin Held /\ Claim(state, s) /\ Refresh({s}) /\ UNCHANGED <<running, sweep>>
    BY <1>7 DEF Code, Held
  <2>2. Single(late, state', Live')
    BY <1>0, <1>b, <2>1
  <2> QED
    BY <1>0, <2>1, <2>2 DEF OneRunEach, Refresh
<1>8. ASSUME NEW s \in Story, Abandon(s)
      PROVE  After
  <2> DEFINE st == Put(state, {s}, "abandoned")
  <2>1. /\ DispatchNextReady(Unlock(st, s)) /\ Refresh({s}) /\ UNCHANGED <<running, sweep>>
    BY <1>8 DEF Abandon
  <2>2. st \in Board /\ Single(late, st, Live)
    BY <1>0, PutType, PutSingle DEF StoryState
  <2> HIDE DEF st
  <2>3. Unlock(st, s) \in Board /\ Single(late, Unlock(st, s), Live)
    BY <1>0, <2>2, UnlockType, UnlockSingle
  <2>4. Single(late, state', Live')
    BY <1>c, <2>1, <2>3
  <2> QED
    BY <1>0, <2>1, <2>4 DEF OneRunEach, Refresh
<1>9. ASSUME NEW s \in Story, ReviewMoves(s)
      PROVE  After
  <2>1. PICK v : state' = Put(state, {s}, v)
    BY <1>9 DEF ReviewMoves
  <2>2. state[s] \notin Held /\ UNCHANGED <<Live, aged, sweep>>
    BY <1>9 DEF ReviewMoves, InReview, Held, Live
  <2> QED
    BY <1>0, <2>1, <2>2, PutSingle DEF OneRunEach
<1>10. ASSUME NEW s \in Story, PostMergeDone(s)
       PROVE  After
  <2> DEFINE st == Put(state, {s}, "done")
  <2>1. /\ state[s] = "merged" /\ Refresh({s}) /\ UNCHANGED <<running, sweep>>
        /\ \/ state' = st /\ UNCHANGED pending
           \/ \E t \in NextBacklog(st, s) : Claim(Unlock(st, s), t)
    BY <1>10 DEF PostMergeDone
  <2>2. st \in Board /\ Single(late, st, Live)
    BY <1>0, <2>1, PutType, PutSingle DEF StoryState, Held
  <2> HIDE DEF st
  <2>3. Unlock(st, s) \in Board /\ Single(late, Unlock(st, s), Live)
    BY <1>0, <2>2, UnlockType, UnlockSingle
  <2>4. CASE state' = st /\ UNCHANGED pending
    BY <1>0, <2>1, <2>2, <2>4 DEF OneRunEach, Refresh, Live
  <2>5. ASSUME NEW t \in NextBacklog(st, s), Claim(Unlock(st, s), t)
        PROVE  After
    <3>1. t \in Story /\ Unlock(st, s)[t] \notin Held
      BY <2>5 DEF NextBacklog, Unlock, Put, Held
    <3>2. Single(late, state', Live')
      BY <1>b, <2>1, <2>3, <2>5, <3>1
    <3> QED
      BY <1>0, <2>1, <3>2 DEF OneRunEach, Refresh
  <2> QED
    BY <2>1, <2>4, <2>5
<1>11. ASSUME NEW s \in Story, PostMergeFix(s)
       PROVE  After
  <2>1. /\ state[s] \notin Held /\ Refresh({s}) /\ UNCHANGED <<running, sweep>>
        /\ \/ Claim(state, s)
           \/ state' = Put(state, {s}, "changes-requested") /\ UNCHANGED pending
    BY <1>11 DEF PostMergeFix, Held
  <2>2. CASE Claim(state, s)
    <3>1. Single(late, state', Live')
      BY <1>0, <1>b, <2>1, <2>2
    <3> QED
      BY <1>0, <2>1, <3>1 DEF OneRunEach, Refresh
  <2>3. CASE state' = Put(state, {s}, "changes-requested") /\ UNCHANGED pending
    BY <1>0, <2>1, <2>3, PutSingle DEF OneRunEach, Refresh, Live
  <2> QED
    BY <2>1, <2>2, <2>3
<1>12. ASSUME SweepBegin \/ \E s \in Story : Reset(s) \/ GrowOld(s) \/ SweepStep(s)
       PROVE  After
  BY <1>0, <1>12 DEF SweepBegin, Reset, GrowOld, SweepStep, SweepSkip, SweepRecover, SweepGiveUp
<1>13. ASSUME BreakerChanges \/ CapsChange \/ UNCHANGED vars
       PROVE  After
  <2>1. UNCHANGED <<state, Live, aged, sweep>>
    BY <1>13 DEF BreakerChanges, CapsChange, vars, Live
  <2> QED
    BY <1>0, <2>1
<1>14. ASSUME Restart
       PROVE  After
  <2>1. ~up /\ UNCHANGED <<running, sweep>> /\ aged' \subseteq aged
    BY <1>14, Zenon DEF Restart
  <2>2. pending = {} /\ running = {}
    BY <2>1 DEF SlotInv, Holding
  <2>3. CASE UNCHANGED <<state, pending>>
    BY <1>0, <2>1, <2>2, <2>3 DEF OneRunEach, Single, Live
  <2>4. ASSUME NEW D \in SUBSET Story, NEW r \in [D -> Run], NEW st,
               state' = Put(st, D, "in-progress"), pending' = {<<s, r[s]>> : s \in D}
        PROVE  After
    <3>1. Live' = {<<s, r[s]>> : s \in D}
      BY <2>1, <2>2, <2>4 DEF Live
    <3>2. \A k \in Live' : k[1] \in D /\ k = <<k[1], r[k[1]]>>
      BY <3>1
    <3>3. \A k \in Live' : state'[k[1]] = "in-progress"
      BY <2>4, <3>2 DEF Put
    <3> QED
      BY <1>0, <2>1, <3>2, <3>3 DEF OneRunEach, Single, Held
  <2> DEFINE orphaned == {s \in Story : state[s] = "in-progress"}
             st == Put(state, orphaned, "ready")
  <2>5. CASE orphaned = {}
    <3>1. UNCHANGED <<state, pending>>
      BY <1>14, <2>5, Zenon DEF Restart
    <3> QED
      BY <2>3, <3>1
  <2>6. CASE orphaned # {}
    <3>1. PICK D \in SUBSET Ready(st) : /\ state' = Put(st, D, "in-progress")
                                        /\ \E r \in [D -> Run] : pending' = {<<s, r[s]>> : s \in D}
      BY <1>14, <2>6, Zenon DEF Restart
    <3>2. PICK r \in [D -> Run] : pending' = {<<s, r[s]>> : s \in D}
      BY <3>1
    <3>3. D \in SUBSET Story
      BY DEF Ready
    <3> HIDE DEF st, After
    <3> QED
      BY <2>4, <3>1, <3>2, <3>3
  <2> QED
    BY <2>5, <2>6
<1>15. ASSUME CrashInRestart
       PROVE  After
  <2>1. ~up /\ UNCHANGED <<pending, running, sweep>> /\ aged' \subseteq aged
    BY <1>15, Zenon DEF CrashInRestart
  <2>2. Live' = {} /\ aged' = {}
    BY <1>0, <2>1 DEF SlotInv, Holding, Live
  <2> QED
    BY <1>0, <2>1, <2>2 DEF OneRunEach, Single
<1>16. ASSUME NEW k \in Task, CrashInNoChanges(k)
       PROVE  Gone /\ aged' \subseteq aged
  BY <1>16 DEF CrashInNoChanges, Gone
<1>17. ASSUME NEW s \in Story, CrashInPostMerge(s) \/ CrashInAbandon(s)
       PROVE  Gone /\ aged' \subseteq aged
  BY <1>17 DEF CrashInPostMerge, CrashInAbandon, Gone
<1>18. ASSUME Crash
       PROVE  After
  BY <1>6, <1>18 DEF Crash, Gone
<1>19. ASSUME NEW s \in Story, RecodeEnds(s)
       PROVE  OneRunEach'
  <2>1. PICK v : state' = Put(state, {s}, v)
    BY <1>19 DEF RecodeEnds
  <2>2. UNCHANGED <<Live, sweep>> /\ aged' = {}
    BY <1>0, <1>19 DEF RecodeEnds, Live
  <2>3. CASE InReview(s)
    <3>1. state[s] \notin Held /\ late' = late
      BY <1>19, <2>3 DEF InReview, Held, RecodeEnds
    <3>2. Single(late, state', Live)
      BY <1>0, <2>1, <3>1, PutSingle
    <3> QED
      BY <1>0, <2>2, <3>1, <3>2 DEF OneRunEach
  <2>4. CASE ~InReview(s)
    <3>1. late' = late \cup {s}
      BY <1>19, <2>4 DEF RecodeEnds
    <3>2. Single(late', state', Live)
      BY <1>0, <2>1, <3>1 DEF Single, Put, Task
    <3> QED
      BY <1>0, <2>2, <3>2 DEF OneRunEach
  <2> QED
    BY <2>3, <2>4
<1>20. CASE \E s \in Story : RecodeEnds(s)
  BY <1>19, <1>20
<1>21. CASE ~\E s \in Story : RecodeEnds(s)
  <2>1. After
    BY <1>1, <1>2, <1>3, <1>4, <1>5, <1>6, <1>7, <1>8, <1>9, <1>10, <1>11, <1>12, <1>13,
       <1>14, <1>15, <1>16, <1>17, <1>18, <1>21 DEF Next, Start
  <2>2. late' = late
    BY <1>21, LateGrows
  <2> QED
    BY <2>1, <2>2 DEF OneRunEach
<1> QED
  BY <1>20, <1>21

LEMMA OneRunEachCorrect ==
  ASSUME {"reset", "watchdog"} \cap Enabled = {}
  PROVE  Spec => [](TypeOK /\ SlotInv /\ OneRunEach)
<1>1. Init => OneRunEach
  BY DEF Init, OneRunEach, Single, Live
<1>2. (TypeOK /\ SlotInv) /\ OneRunEach /\ [Next]_vars => OneRunEach'
  BY SingleStep
<1> QED
  BY <1>1, <1>2, SlotInvCorrect, PTL DEF Spec

\* Where nothing takes a claim back under its coder (the operator's reset, the
\* watchdog's sweep), no two coders ever work on one story that no late recode has
\* written, whatever is held, merged, abandoned, raised, killed or restarted
\* (_dispatch_next_ready, _recode_task).
THEOREM OneCoderEach ==
  ASSUME {"reset", "watchdog"} \cap Enabled = {}
  PROVE  Spec => []NoDoublePickup
<1>1. OneRunEach => NoDoublePickup
  <2> SUFFICES ASSUME OneRunEach, NEW s \in Story \ late PROVE Cardinality(RunsOf(s)) <= 1
    BY DEF NoDoublePickup
  <2>1. CASE RunsOf(s) = {}
    BY <2>1, FS_EmptySet
  <2>2. ASSUME NEW k \in RunsOf(s) PROVE Cardinality(RunsOf(s)) <= 1
    <3>1. RunsOf(s) = {k}
      BY DEF RunsOf, OneRunEach, Single
    <3> QED
      BY <3>1, FS_Singleton
  <2> QED
    BY <2>1, <2>2
<1> QED
  BY <1>1, OneRunEachCorrect, PTL

-----------------------------------------------------------------------------
(* What is done stays done.  A run writes its story's state when it ends,   *)
(* and it has none to end when the story is done.                           *)

LEMMA PutElsewhere ==
  ASSUME NEW st, NEW s \in Story, NEW S, NEW v, s \notin S
  PROVE  Put(st, S, v)[s] = st[s]
BY DEF Put

LEMMA ClaimSpares ==
  ASSUME NEW st, NEW s \in Story, NEW t, st[t] # "done", st[s] = "done", Claim(st, t)
  PROVE  state'[s] = "done"
BY PutElsewhere DEF Claim

LEMMA DispatchSpares ==
  ASSUME NEW st, NEW s \in Story, st[s] = "done", DispatchNextReady(st)
  PROVE  state'[s] = "done"
BY ClaimSpares DEF DispatchNextReady, Ready

LEMMA UnlockSpares ==
  ASSUME NEW st, NEW s \in Story, NEW t, st[s] = "done"
  PROVE  Unlock(st, t)[s] = "done"
BY PutElsewhere DEF Unlock, NextBacklog

\* A run that is alive is not the run of a story that is done.
LEMMA DoneStep ==
  ASSUME {"reset", "watchdog"} \cap Enabled = {},
         TypeOK, SlotInv, OneRunEach, [Next]_vars, NEW s \in Story, state[s] = "done",
         s \notin late'
  PROVE  state'[s] = "done"
<1> USE DEF board, tasks, keys, weather
<1>0. \A k \in Live : k[1] # s
  BY LateGrows DEF OneRunEach, Single, Held
<1>1. ASSUME NEW p \in Project, StartPlan(p)
      PROVE  state'[s] = "done"
  <2>1. PICK t \in Story : ProjectOf[t] = p /\ Claim(state, t)
    BY <1>1 DEF StartPlan
  <2>2. state[t] # "done"
    BY <1>1, <2>1 DEF StartPlan
  <2> QED
    BY <2>1, <2>2, ClaimSpares
<1>2. ASSUME NEW p \in Project, CancelIdea(p)
      PROVE  state'[s] = "done"
  BY <1>2, PutElsewhere DEF CancelIdea
<1>3. ASSUME NEW k \in Task, HoldRun(k) \/ RefuseSlot(k)
      PROVE  state'[s] = "done"
  <2>1. state' = Put(state, {k[1]}, "ready") /\ k[1] # s
    BY <1>0, <1>3 DEF HoldRun, RefuseSlot, Live
  <2> QED
    BY <2>1, PutElsewhere
<1>4. ASSUME NEW k \in Task, AcquireSlot(k) \/ TaskDies(k)
      PROVE  state'[s] = "done"
  BY <1>4 DEF AcquireSlot, TaskDies
<1>5. ASSUME NEW k \in Task, Finish(k)
      PROVE  state'[s] = "done"
  <2>1. PICK st : /\ DispatchNextReady(st)
                  /\ \/ \E v \in StoryState : st = Put(state, {k[1]}, v)
                     \/ st = Unlock(Put(state, {k[1]}, "done"), k[1])
    BY <1>5 DEF Finish, FinishSuccess, FinishNoChanges, FinishNoCredit,
       FinishErrorRequeue, FinishErrorPark, FinishException, StoryState, ReleaseAndDispatch
  <2>2. k[1] # s
    BY <1>0, <1>5 DEF Finish, FinishSuccess, FinishNoChanges, FinishNoCredit,
       FinishErrorRequeue, FinishErrorPark, FinishException, Live
  <2>3. \A v : Put(state, {k[1]}, v)[s] = "done"
    BY <2>2, PutElsewhere
  <2>4. st[s] = "done"
    BY <2>1, <2>3, UnlockSpares
  <2> QED
    BY <2>1, <2>4, DispatchSpares
<1>6. ASSUME NEW t \in Story, Code(t)
      PROVE  state'[s] = "done"
  BY <1>6, ClaimSpares DEF Code
<1>7. ASSUME NEW t \in Story, Abandon(t)
      PROVE  state'[s] = "done"
  <2>1. Put(state, {t}, "abandoned")[s] = "done" /\ DispatchNextReady(Unlock(Put(state, {t}, "abandoned"), t))
    BY <1>7, PutElsewhere DEF Abandon
  <2> QED
    BY <2>1, UnlockSpares, DispatchSpares
<1>8. ASSUME NEW t \in Story, ReviewMoves(t)
      PROVE  state'[s] = "done"
  BY <1>8, PutElsewhere DEF ReviewMoves, InReview
<1>9. ASSUME NEW t \in Story, PostMergeDone(t)
      PROVE  state'[s] = "done"
  <2> DEFINE st == Put(state, {t}, "done")
  <2>1. st[s] = "done"
    BY <1>9, PutElsewhere DEF PostMergeDone
  <2>2. \/ state' = st
        \/ \E u \in NextBacklog(st, t) : Claim(Unlock(st, t), u)
    BY <1>9 DEF PostMergeDone
  <2> HIDE DEF st
  <2>3. ASSUME NEW u \in NextBacklog(st, t), Claim(Unlock(st, t), u)
        PROVE  state'[s] = "done"
    <3>1. Unlock(st, t)[u] # "done"
      BY DEF Unlock, NextBacklog, Put
    <3> QED
      BY <2>1, <2>3, <3>1, UnlockSpares, ClaimSpares
  <2> QED
    BY <2>1, <2>2, <2>3
<1>10. ASSUME NEW t \in Story, PostMergeFix(t)
       PROVE  state'[s] = "done"
  BY <1>10, ClaimSpares, PutElsewhere DEF PostMergeFix
<1>11. CASE SweepBegin \/ \E t \in Story : Reset(t) \/ GrowOld(t) \/ SweepStep(t)
  BY <1>11 DEF SweepBegin, Reset, GrowOld, SweepStep, SweepSkip, SweepRecover, SweepGiveUp,
     OneRunEach
<1>12. CASE BreakerChanges \/ CapsChange \/ Crash \/ UNCHANGED vars
  BY <1>12 DEF BreakerChanges, CapsChange, Crash, vars
<1>13. ASSUME NEW k \in Task, CrashInNoChanges(k)
       PROVE  state'[s] = "done"
  BY <1>13 DEF CrashInNoChanges, Put
<1>14. ASSUME NEW t \in Story, CrashInPostMerge(t) \/ CrashInAbandon(t)
       PROVE  state'[s] = "done"
  BY <1>14, PutElsewhere DEF CrashInPostMerge, CrashInAbandon
<1>15. CASE CrashInRestart
  <2>1. PICK S \in SUBSET {t \in Story : state[t] = "in-progress"} : state' = Put(state, S, "ready")
    BY <1>15, Zenon DEF CrashInRestart
  <2> QED
    BY <2>1, PutElsewhere
<1>16. CASE Restart
  <2> DEFINE orphaned == {t \in Story : state[t] = "in-progress"}
             st == Put(state, orphaned, "ready")
  <2>1. st[s] = "done"
    BY PutElsewhere
  <2>2. CASE orphaned = {}
    BY <1>16, <2>2, Zenon DEF Restart
  <2>3. CASE orphaned # {}
    <3>1. PICK D \in SUBSET Ready(st) : state' = Put(st, D, "in-progress")
      BY <1>16, <2>3, Zenon DEF Restart
    <3> HIDE DEF st
    <3>2. s \notin D
      BY <2>1 DEF Ready
    <3> QED
      BY <2>1, <3>1, <3>2, PutElsewhere
  <2> QED
    BY <2>2, <2>3
<1>17. ASSUME NEW t \in Story, RecodeEnds(t)
       PROVE  state'[s] = "done"
  <2>1. s # t
    BY <1>17 DEF RecodeEnds, InReview
  <2> QED
    BY <1>17, <2>1, PutElsewhere DEF RecodeEnds
<1> QED
  BY <1>1, <1>2, <1>3, <1>4, <1>5, <1>6, <1>7, <1>8, <1>9, <1>10, <1>11, <1>12, <1>13,
     <1>14, <1>15, <1>16, <1>17 DEF Next, Start

\* A finished story is never brought back by a run that ends late, by a dispatch, by a
\* button or by a restart, where no claim is taken back under its coder
\* (_run_coding_agent writes the state without asking for it); a recode task does bring
\* it back when it ends after the merge, and only to that story (_recode_task).
THEOREM DoneStaysDone ==
  ASSUME {"reset", "watchdog"} \cap Enabled = {}
  PROVE  Spec => DoneIsFinal
<1>1. TypeOK /\ SlotInv /\ OneRunEach /\ [Next]_vars
      => [\A s \in Story : state[s] = "done" /\ s \notin late' => state'[s] = "done"]_vars
  BY DoneStep
<1> QED
  BY <1>1, OneRunEachCorrect, PTL DEF Spec, DoneIsFinal

-----------------------------------------------------------------------------
(* A waker for the queue.  Nothing looks at the ready queue but a step that *)
(* ends a run or abandons a story; so a run must be alive while a story is  *)
(* queued.  A run that is refused its slot queues its story: then the slots *)
(* are taken, and by runs that are alive, since none has died silently.     *)

Quiet == Enabled \subseteq {"exception", "reset", "stop", "review", "late"}
Awake ==
  /\ up /\ ~breaker /\ ~capped /\ dead = {} /\ aged = {} /\ sweep = {}
  /\ ReadyHasWaker

\* A dispatch leaves no story queued, or a run that has just been created.
LEMMA DispatchWakes ==
  ASSUME NEW st, DispatchNextReady(st)
  PROVE  Ready(state') = {} \/ pending' # {}
BY DEF DispatchNextReady, Claim

LEMMA AwakeStep ==
  ASSUME Quiet, TypeOK, SlotInv, Awake, [Next]_vars
  PROVE  Awake'
<1> USE DEF board, tasks, keys, weather
<1>0. /\ "crash" \notin Enabled /\ "torn" \notin Enabled /\ "death" \notin Enabled
      /\ "hold" \notin Enabled /\ "watchdog" \notin Enabled
  BY DEF Quiet
<1>a. /\ up /\ ~breaker /\ ~capped /\ dead = {} /\ aged = {} /\ sweep = {}
      /\ Ready(state) # {} => Live # {}
  BY DEF Awake, ReadyHasWaker
<1> DEFINE StaysQuiet == /\ UNCHANGED <<up, capped, dead, sweep>> /\ aged' \subseteq aged
                         /\ breaker' = breaker \/ breaker' = FALSE
           Wakes == \/ Ready(state') = {} \/ pending' # {} \/ running' # {}
                    \/ Ready(state') \subseteq Ready(state) /\ UNCHANGED Live
<1>b. ASSUME StaysQuiet, Wakes
      PROVE  Awake'
  <2>1. up' /\ ~breaker' /\ ~capped'
    BY <1>a, <1>b
  <2>2. dead' = {} /\ aged' = {} /\ sweep' = {}
    BY <1>a, <1>b
  <2>3. ReadyHasWaker'
    BY <1>a, <1>b DEF ReadyHasWaker, Live
  <2> QED
    BY <2>1, <2>2, <2>3 DEF Awake
\* Whoever claims a story creates a run, and whoever writes another state than ready
\* queues nothing.
<1>c. ASSUME NEW st, NEW s, Claim(st, s) PROVE pending' # {}
  BY <1>c DEF Claim
<1>d. ASSUME NEW S, NEW v, v # "ready"
      PROVE  Ready(Put(state, S, v)) \subseteq Ready(state)
  BY <1>d DEF Ready, Put
<1>e. \A S : Refresh(S) => aged' \subseteq aged
  BY DEF Refresh
<1>1. ASSUME NEW p \in Project, StartPlan(p)
      PROVE  StaysQuiet /\ Wakes
  BY <1>1, <1>c, <1>e DEF StartPlan
<1>2. ASSUME NEW p \in Project, CancelIdea(p)
      PROVE  StaysQuiet /\ Wakes
  <2>1. PICK S : state' = Put(state, S, "abandoned") /\ aged' = aged \ S
    BY <1>2 DEF CancelIdea
  <2>2. Ready(state') \subseteq Ready(state)
    BY <1>d, <2>1
  <2>3. UNCHANGED <<up, capped, dead, sweep, breaker, Live>>
    BY <1>2 DEF CancelIdea, Live
  <2> QED
    BY <2>1, <2>2, <2>3
<1>3. ASSUME NEW k \in Task, HoldRun(k) \/ AcquireSlot(k) \/ RefuseSlot(k)
      PROVE  StaysQuiet /\ Wakes
  <2>1. CASE HoldRun(k)
    BY <1>a, <2>1 DEF HoldRun
  <2>2. CASE AcquireSlot(k)
    <3>1. k \in running' /\ UNCHANGED <<up, capped, dead, sweep, breaker, aged>>
      BY <2>2 DEF AcquireSlot
    <3> QED
      BY <3>1
  <2>3. CASE RefuseSlot(k)
    <3>1. slots + 1 > MaxCoders /\ slots = Cardinality(running)
      BY <1>a, <2>3 DEF RefuseSlot, SlotInv, SlotsCountRuns, Holding
    <3>2. running # {}
      <4>1. Cardinality({}) = 0
        BY FS_EmptySet
      <4>2. ~(0 + 1 > MaxCoders)
        BY FleetAssumption DEF FleetAssumption
      <4> QED
        BY <3>1, <4>1, <4>2
    <3>3. UNCHANGED <<running, up, capped, dead, sweep, breaker>> /\ aged' \subseteq aged
      BY <1>e, <2>3 DEF RefuseSlot
    <3> QED
      BY <3>2, <3>3
  <2> QED
    BY <1>3, <2>1, <2>2, <2>3
<1>4. ASSUME NEW k \in Task, Finish(k)
      PROVE  StaysQuiet /\ Wakes
  <2>1. PICK st : ReleaseAndDispatch(k, st)
    BY <1>4 DEF Finish, FinishSuccess, FinishNoChanges, FinishNoCredit,
       FinishErrorRequeue, FinishErrorPark, FinishException
  <2>2. Wakes /\ dead' = dead /\ aged' \subseteq aged
    BY <1>e, <2>1, DispatchWakes DEF ReleaseAndDispatch
  <2>3. UNCHANGED <<up, capped, sweep>>
    BY <1>4 DEF Finish, FinishSuccess, FinishNoChanges, FinishNoCredit,
       FinishErrorRequeue, FinishErrorPark, FinishException
  <2>4. breaker' = breaker \/ breaker' = FALSE
    <3>1. CASE FinishException(k)
      <4>1. (breaker \/ "hold" \in Enabled) = FALSE
        BY <1>0, <1>a
      <4>2. breaker' \in {breaker, FALSE}
        BY <3>1, <4>1 DEF FinishException
      <4> QED
        BY <4>2
    <3>2. CASE FinishSuccess(k) \/ FinishNoChanges(k)
      BY <3>2 DEF FinishSuccess, FinishNoChanges
    <3>3. CASE FinishNoCredit(k) \/ FinishErrorRequeue(k) \/ FinishErrorPark(k)
      BY <3>3 DEF FinishNoCredit, FinishErrorRequeue, FinishErrorPark
    <3> QED
      BY <1>4, <3>1, <3>2, <3>3 DEF Finish
  <2> QED
    BY <2>2, <2>3, <2>4
<1>5. ASSUME NEW s \in Story, Code(s) \/ Reset(s)
      PROVE  StaysQuiet /\ Wakes
  BY <1>5, <1>c, <1>e DEF Code, Reset
<1>6. ASSUME NEW s \in Story, Abandon(s)
      PROVE  StaysQuiet /\ Wakes
  BY <1>6, <1>e, DispatchWakes DEF Abandon
<1>7. ASSUME NEW s \in Story, ReviewMoves(s) \/ RecodeEnds(s)
      PROVE  StaysQuiet /\ Wakes
  <2>1. PICK v \in {"in-review", "changes-requested", "merged"} : state' = Put(state, {s}, v)
    BY <1>7, ReviewEffect
  <2>2. Ready(state') \subseteq Ready(state)
    BY <1>d, <2>1
  <2>3. UNCHANGED <<up, capped, dead, sweep, breaker, Live>> /\ aged' \subseteq aged
    BY <1>7, ReviewEffect DEF Live
  <2> QED
    BY <2>2, <2>3
<1>8. ASSUME NEW s \in Story, PostMergeDone(s) \/ PostMergeFix(s)
      PROVE  StaysQuiet /\ Wakes
  <2>1. UNCHANGED <<up, capped, dead, sweep, breaker, running>> /\ aged' \subseteq aged
    BY <1>8, <1>e DEF PostMergeDone, PostMergeFix
  <2>2. \/ pending' # {}
        \/ /\ UNCHANGED pending
           /\ \E v \in {"done", "changes-requested"} : state' = Put(state, {s}, v)
    BY <1>8, <1>c DEF PostMergeDone, PostMergeFix
  <2>3. Wakes
    BY <1>d, <2>1, <2>2 DEF Live
  <2> QED
    BY <2>1, <2>3
<1>9. ASSUME NEW s \in Story, SweepStep(s) \/ GrowOld(s)
      PROVE  FALSE
  BY <1>0, <1>9, <1>a DEF SweepStep, SweepSkip, SweepRecover, SweepGiveUp, GrowOld
<1>10. ~SweepBegin
  BY <1>a DEF SweepBegin
<1>11. ~BreakerChanges /\ ~CapsChange /\ ~Crash /\ ~CrashInRestart
  BY <1>0 DEF BreakerChanges, CapsChange, Crash, CrashInRestart
<1>12. ~Restart
  BY <1>a DEF Restart
<1>13. ASSUME NEW k \in Task, TaskDies(k) \/ CrashInNoChanges(k)
       PROVE  FALSE
  BY <1>0, <1>13 DEF TaskDies, CrashInNoChanges
<1>14. ASSUME NEW s \in Story, CrashInPostMerge(s) \/ CrashInAbandon(s)
       PROVE  FALSE
  BY <1>0, <1>14 DEF CrashInPostMerge, CrashInAbandon
<1>15. CASE UNCHANGED vars
  <2>1. UNCHANGED <<up, capped, dead, sweep, breaker, aged, state, Live>>
    BY <1>15 DEF vars, Live
  <2> QED
    BY <1>b, <2>1
<1> QED
  BY <1>b, <1>1, <1>2, <1>3, <1>4, <1>5, <1>6, <1>7, <1>8, <1>9, <1>10, <1>11, <1>12,
     <1>13, <1>14, <1>15 DEF Next, Start

\* No lost wake-up: without holds, silent deaths, restarts and sweeps, a story that is
\* queued always has a live run, which dispatches the queue when it ends
\* (_dispatch_next_ready), whatever runs raise, are reset or abandoned.
THEOREM QueueIsWoken ==
  ASSUME Quiet
  PROVE  Spec => []ReadyHasWaker
<1>1. Init => Awake
  BY DEF Init, Awake, ReadyHasWaker, Ready
<1>2. (TypeOK /\ SlotInv) /\ Awake /\ [Next]_vars => Awake'
  BY AwakeStep
<1>3. Awake => ReadyHasWaker
  BY DEF Awake
<1> QED
  BY <1>1, <1>2, <1>3, SlotInvCorrect, PTL DEF Spec

=============================================================================
