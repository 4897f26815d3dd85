-------------------------- MODULE AdmissionProofs --------------------------
(***************************************************************************)
(* Theorems about Admission, for every number of workers and pull          *)
(* requests, all limits, TTLs and caps, and every choice of circumstances. *)
(***************************************************************************)
EXTENDS Admission, FiniteSetTheorems, TLAPS

-----------------------------------------------------------------------------
(* Workers and jobs. *)

\* A worker at a job has one; a refused one has counted itself.
Engaged(w) == worker[w].at \in {"refused", "work", "release", "floor"}
WorkFits ==
  \A w \in Worker :
    /\ Engaged(w) => worker[w].round \in Round /\ worker[w].role \in Role
    /\ worker[w].at = "refused" => worker[w].counted

\* Each round announced after the first was paid for with an attempt or a push.
RoundsFit == \A p \in Pr : round[p] <= attempts[p] + faults

LEMMA RoundsAreFinite ==
  /\ IsFiniteSet(Round) /\ IsFiniteSet(Role) /\ IsFiniteSet(Round \X Role)
  /\ MostRounds \in Nat /\ MostCalls \in Nat
<1>1. MostRounds \in Nat
  BY AdmissionAssumption DEF MostRounds
<1>2. IsFiniteSet(Round)
  <2>1. IsFiniteSet(0..MostRounds)
    BY <1>1, FS_Interval
  <2>2. IsFiniteSet(Pr)
    BY AdmissionAssumption
  <2> QED
    BY <2>1, <2>2, FS_Product DEF Round
<1>3. IsFiniteSet(Role)
  <2>1. IsFiniteSet({"reviewer"} \cup {"tester"})
    BY FS_Singleton, FS_AddElement
  <2>2. Role = {"reviewer"} \cup {"tester"}
    BY DEF Role
  <2> QED
    BY <2>1, <2>2
<1>4. IsFiniteSet(Round \X Role)
  BY <1>2, <1>3, FS_Product
<1>5. Cardinality(Round) \in Nat /\ Cardinality(Role) \in Nat
  BY <1>2, <1>3, FS_CardinalityType
<1>6. Cardinality(Round) * Cardinality(Role) \in Nat
  BY <1>5
<1>7. MostCalls \in Nat
  BY <1>6, AdmissionAssumption DEF MostCalls
<1> QED
  BY <1>1, <1>2, <1>3, <1>4, <1>7

LEMMA PrOfRound ==
  ASSUME NEW d \in Round
  PROVE  PrOf(d) \in Pr
BY DEF Round, PrOf

LEMMA IdleIsWork == Idle \in Work
BY DEF Idle, Work

\* A count that a strike raises stays under the cap, whatever the strike.
LEMMA BackoffBounded ==
  ASSUME NEW n \in 1..MostStrikes
  PROVE  Backoff(n) \in 0..MaxBackoff
<1>1. PICK k \in {0, 1, 2, 3, 4} : n - 1 = k
  BY DEF MostStrikes
<1>2. 2 ^ 0 = 1 /\ 2 ^ 1 = 2 /\ 2 ^ 2 = 4 /\ 2 ^ 3 = 8 /\ 2 ^ 4 = 16
  OBVIOUS
<1>3. 2 ^ k \in {2 ^ 0, 2 ^ 1, 2 ^ 2, 2 ^ 3, 2 ^ 4}
  BY Zenon
<1>4. BaseBackoff * 2 ^ (n - 1) \in Nat
  BY <1>1, <1>2, <1>3, AdmissionAssumption
<1> QED
  BY <1>4, AdmissionAssumption DEF Backoff

LEMMA TrippedTyped ==
  ASSUME GuardOK
  PROVE  Tripped \in [pause : 0..MaxBackoff, strikes : 0..MostStrikes, streak : 0..StrikeTtl]
<1>1. NextStrike \in 1..MostStrikes
  BY DEF GuardOK, NextStrike, MostStrikes
<1> QED
  BY <1>1, BackoffBounded, AdmissionAssumption DEF Tripped

LEMMA LapsedTyped ==
  ASSUME GuardOK
  PROVE  Lapsed \in [pause : 0..MaxBackoff, strikes : 0..MostStrikes, streak : 0..StrikeTtl]
BY AdmissionAssumption DEF GuardOK, Lapsed, LeftOf, Down, MostStrikes

-----------------------------------------------------------------------------
(* The ranges of what the guards and the jobs keep. *)

LEMMA SpendTyped ==
  ASSUME GuardOK, MayAsk
  PROVE  calls' \in 0..(MostCalls + 1)
<1>1. MostCalls \in Nat
  BY RoundsAreFinite
<1> QED
  BY <1>1 DEF GuardOK, MayAsk, CallMade

LEMMA GuardStep ==
  ASSUME GuardOK, Next
  PROVE  GuardOK'
<1>0. MostCalls \in Nat
  BY RoundsAreFinite
<1>1. ASSUME NEW d \in Round, HandlePrEvent(d)
      PROVE  GuardOK'
  BY <1>1, AdmissionAssumption DEF HandlePrEvent, GuardOK, Counted
<1>2. ASSUME NEW p \in Pr, Push(p) \/ Sweep(p)
      PROVE  GuardOK'
  BY <1>2 DEF Push, Sweep, GuardOK, budget
<1>3. ASSUME NEW w \in Worker, JobStep(w)
      PROVE  GuardOK'
  <2>1. CASE Judge(w)
    <3>1. calls' \in 0..(MostCalls + 1)
      BY <2>1, SpendTyped DEF Judge, GuardOK
    <3>2. Calm \in [pause : 0..MaxBackoff, strikes : 0..MostStrikes, streak : 0..StrikeTtl]
      BY AdmissionAssumption DEF Calm, MostStrikes
    <3> QED
      BY <2>1, <3>1, <3>2 DEF Judge, GuardOK
  <2>2. CASE ReviewerFails(w) \/ OthersFail(w)
    <3>1. calls' \in 0..(MostCalls + 1)
      <4>1. MayAsk
        BY <2>2 DEF ReviewerFails, OthersFail, MayAsk
      <4> QED
        BY <4>1, SpendTyped
    <3> QED
      BY <2>2, <3>1 DEF ReviewerFails, OthersFail, GuardOK
  <2>3. CASE ~Judge(w) /\ ~ReviewerFails(w) /\ ~OthersFail(w)
    BY <1>3, <2>3 DEF JobStep, Refuse, Release, Floor, Start, Take, GuardOK, budget
  <2> QED
    BY <2>1, <2>2, <2>3
<1>4. ASSUME NEW w \in Worker, Kill(w) \/ KillHorse(w)
      PROVE  GuardOK'
  BY <1>4 DEF Kill, KillHorse, GuardOK, budget
<1>5. CASE CoderEnd
  <2>1. calls' \in 0..(MostCalls + 1)
    BY <1>5, SpendTyped DEF CoderEnd, MayAsk
  <2>2. breaker' \in [pause : 0..MaxBackoff, strikes : 0..MostStrikes, streak : 0..StrikeTtl]
    <3>1. Calm \in [pause : 0..MaxBackoff, strikes : 0..MostStrikes, streak : 0..StrikeTtl]
      BY AdmissionAssumption DEF Calm, MostStrikes
    <3> QED
      BY <1>5, <3>1, TrippedTyped DEF CoderEnd, GuardOK
  <2> QED
    BY <1>5, <2>1, <2>2 DEF CoderEnd, GuardOK
<1>6. CASE Tick
  BY <1>6, LapsedTyped, AdmissionAssumption DEF Tick, GuardOK
<1>7. CASE NewDay
  BY <1>7, <1>0 DEF NewDay, GuardOK
<1>8. CASE Limit \/ Lift \/ CoderStart \/ CoderAsk \/ \E r \in Role : Retune(r)
  BY <1>8 DEF Limit, Lift, CoderStart, CoderAsk, Retune, GuardOK, budget
<1> QED
  BY <1>1, <1>2, <1>3, <1>4, <1>5, <1>6, <1>7, <1>8 DEF Next

\* Where a worker goes, it fits; the others stay.
LEMMA WorkerMoves ==
  ASSUME ReviewOK, WorkFits, NEW w \in Worker, NEW v \in Work,
         worker' = [worker EXCEPT ![w] = v],
         v.at \in {"refused", "work", "release", "floor"} => v.round \in Round /\ v.role \in Role,
         v.at = "refused" => v.counted
  PROVE  worker' \in [Worker -> Work] /\ WorkFits'
BY DEF ReviewOK, WorkFits, Engaged

\* A verdict job that ends, and a worker that does, leave jobs and pull requests typed.
LEMMA EndsTyped ==
  ASSUME ReviewOK, WorkFits, NEW w \in Worker, Engaged(w), Ends(w)
  PROVE  job' \in [Round -> [Role -> {"none", "queued", "running"}]]
BY DEF ReviewOK, WorkFits, Ends

LEMMA ExcusesTyped ==
  ASSUME ReviewOK, WorkFits, NEW w \in Worker, Engaged(w), Excuses(w)
  PROVE  excused' \subseteq Pr
<1>1. PrUnder(w) \in Pr
  BY PrOfRound DEF PrUnder, WorkFits
<1> QED
  BY <1>1 DEF ReviewOK, Excuses

LEMMA JobStepReview ==
  ASSUME ReviewOK, WorkFits, NEW w \in Worker, JobStep(w)
  PROVE  ReviewOK' /\ WorkFits'
<1>0. worker[w] \in Work /\ Idle \in Work /\ Idle.at = "idle"
  BY IdleIsWork DEF ReviewOK, Idle
<1>1. CASE Refuse(w)
  <2>1. Engaged(w)
    BY <1>1 DEF Refuse, Engaged
  <2>2. worker' \in [Worker -> Work] /\ WorkFits'
    BY <1>0, <1>1, WorkerMoves DEF Refuse
  <2> QED
    BY <1>1, <2>1, <2>2, EndsTyped, ExcusesTyped DEF Refuse, ReviewOK
<1>2. ASSUME NEW got \in {"verdict", "warn", "error", "limited"}, Ended(w, got)
      PROVE  worker' \in [Worker -> Work] /\ WorkFits' /\ Engaged(w)
  <2>1. Engaged(w) /\ worker[w].at = "work"
    BY <1>2 DEF Ended, Engaged
  <2>2. [worker[w] EXCEPT !.at = "release", !.got = got] \in Work
    BY <1>0 DEF Work
  <2>3. worker' = [worker EXCEPT ![w] = [worker[w] EXCEPT !.at = "release", !.got = got]]
    BY <1>2, <1>0 DEF Ended, ReviewOK
  <2>4. worker[w].round \in Round /\ worker[w].role \in Role
    BY <2>1 DEF WorkFits
  <2> QED
    BY <1>0, <2>1, <2>2, <2>3, <2>4, WorkerMoves DEF Work
<1>3. CASE Judge(w)
  <2>1. worker' \in [Worker -> Work] /\ WorkFits' /\ Engaged(w)
    BY <1>2, <1>3 DEF Judge
  <2>2. judged' \in [Pr -> SUBSET Role]
    BY <1>3, <2>1, PrOfRound DEF Judge, ReviewOK, WorkFits, PrUnder
  <2> QED
    BY <1>3, <2>1, <2>2, EndsTyped DEF Judge, ReviewOK
<1>4. CASE ReviewerFails(w)
  <2>1. worker' \in [Worker -> Work] /\ WorkFits' /\ Engaged(w)
    BY <1>2, <1>4 DEF ReviewerFails
  <2> QED
    BY <1>4, <2>1, EndsTyped, ExcusesTyped DEF ReviewerFails, ReviewOK
<1>5. CASE OthersFail(w)
  <2>1. worker' \in [Worker -> Work] /\ WorkFits' /\ Engaged(w)
    BY <1>2, <1>5 DEF OthersFail
  <2>2. job' \in [Round -> [Role -> {"none", "queued", "running"}]]
    BY <1>5, <2>1, EndsTyped DEF OthersFail, ReviewOK, WorkFits
  <2> QED
    BY <1>5, <2>1, <2>2, ExcusesTyped DEF OthersFail, ReviewOK
<1>6. CASE Release(w)
  <2>1. [worker[w] EXCEPT !.at = "floor"] \in Work
    BY <1>0 DEF Work
  <2>2. worker[w].round \in Round /\ worker[w].role \in Role
    BY <1>6 DEF Release, Engaged, WorkFits
  <2>3. worker' = [worker EXCEPT ![w] = [worker[w] EXCEPT !.at = "floor"]]
          \/ worker' = [worker EXCEPT ![w] = Idle]
    BY <1>6, <1>0 DEF Release, ReviewOK
  <2>4. worker' \in [Worker -> Work] /\ WorkFits'
    BY <1>0, <2>1, <2>2, <2>3, WorkerMoves DEF Work
  <2> QED
    BY <1>6, <2>4 DEF Release, ReviewOK, review
<1>7. CASE Floor(w) \/ Start(w)
  <2>1. worker' \in [Worker -> Work] /\ WorkFits'
    BY <1>0, <1>7, WorkerMoves DEF Floor, Start
  <2> QED
    BY <1>7, <2>1 DEF Floor, Start, ReviewOK, review
<1>8. ASSUME NEW d \in Round, NEW r \in Role, Take(w, d, r)
      PROVE  ReviewOK' /\ WorkFits'
  <2> DEFINE v == [Idle EXCEPT !.at = IF Room(r) THEN "work" ELSE "refused", !.round = d, !.role = r,
                    !.counted = limit[r] # 0]
  <2>1. v \in Work
    BY <1>0 DEF Idle, Work
  <2>2. v.round \in Round /\ v.role \in Role /\ (v.at = "refused" => v.counted)
    BY DEF Idle, Room
  <2>3. worker' \in [Worker -> Work] /\ WorkFits'
    <3> HIDE DEF v
    <3> QED
      BY <1>8, <2>1, <2>2, WorkerMoves DEF Take, v
  <2>4. job' \in [Round -> [Role -> {"none", "queued", "running"}]]
    BY <1>8 DEF Take, ReviewOK
  <2> QED
    BY <1>8, <2>3, <2>4 DEF Take, ReviewOK
<1> QED
  BY <1>1, <1>3, <1>4, <1>5, <1>6, <1>7, <1>8 DEF JobStep

LEMMA FewerDebts ==
  ASSUME ReviewOK, RoundsFit, faults \in 0..MaxFaults, UNCHANGED <<round, attempts>>,
         faults' \in {faults, faults + 1}
  PROVE  RoundsFit'
BY AdmissionAssumption DEF ReviewOK, RoundsFit

LEMMA ReviewStep ==
  ASSUME ReviewOK, WorkFits, RoundsFit, faults \in 0..MaxFaults, Next
  PROVE  ReviewOK' /\ WorkFits' /\ RoundsFit'
<1>1. ASSUME NEW d \in Round, HandlePrEvent(d)
      PROVE  ReviewOK' /\ WorkFits' /\ RoundsFit'
  <2>1. job' \in [Round -> [Role -> {"none", "queued", "running"}]]
    BY <1>1 DEF HandlePrEvent, Queued, ReviewOK
  <2>2. PrOf(d) \in Pr /\ excused' \subseteq excused \cup {PrOf(d)}
    BY <1>1, PrOfRound DEF HandlePrEvent
  <2>3. RoundsFit'
    BY <1>1 DEF HandlePrEvent, RoundsFit
  <2> QED
    BY <1>1, <2>1, <2>2, <2>3 DEF HandlePrEvent, ReviewOK, WorkFits, Engaged
<1>2. ASSUME NEW p \in Pr, Push(p) \/ Sweep(p)
      PROVE  ReviewOK' /\ WorkFits' /\ RoundsFit'
  <2>1. WorkFits'
    BY <1>2 DEF Push, Sweep, WorkFits, Engaged
  <2>2. /\ round \in [Pr -> 0..MostRounds] /\ attempts \in [Pr -> 0..WatchCap]
        /\ MostRounds = WatchCap + MaxFaults /\ WatchCap \in Nat /\ MaxFaults \in Nat
        /\ round[p] <= attempts[p] + faults
    BY AdmissionAssumption DEF ReviewOK, RoundsFit, MostRounds
  <2>3. CASE Announce(p)
    <3>1. \/ faults' = faults + 1 /\ faults < MaxFaults /\ attempts' = attempts
          \/ faults' = faults /\ attempts[p] < WatchCap
               /\ attempts' = [attempts EXCEPT ![p] = @ + 1]
          \/ attempts[p] = WatchCap /\ round' = round
      BY <1>2 DEF Push, Sweep, Fault
    <3>2. ~(round' = round)
      BY <2>2, <2>3 DEF Announce
    <3>3. round[p] + 1 \in 0..MostRounds
      BY <2>2, <3>1, <3>2
    <3>4. round' \in [Pr -> 0..MostRounds] /\ event' \subseteq Round
      BY <2>2, <2>3, <3>3 DEF Announce, ReviewOK, Round
    <3>5. RoundsFit'
      BY <2>2, <2>3, <3>1, <3>2 DEF Announce, RoundsFit
    <3>6. attempts' \in [Pr -> 0..WatchCap]
      BY <2>2, <3>1, <3>2
    <3> QED
      BY <1>2, <2>1, <3>4, <3>5, <3>6 DEF Push, Sweep, ReviewOK
  <2>4. CASE UNCHANGED <<attempts, round, event, faults>>
    <3>1. RoundsFit'
      BY <2>4 DEF RoundsFit
    <3> QED
      BY <1>2, <2>1, <2>4, <3>1 DEF Push, Sweep, ReviewOK
  <2> QED
    BY <1>2, <2>3, <2>4 DEF Push, Sweep
<1>3. ASSUME NEW w \in Worker, JobStep(w)
      PROVE  ReviewOK' /\ WorkFits' /\ RoundsFit'
  <2>1. UNCHANGED <<round, attempts>> /\ faults' \in {faults, faults + 1}
    BY <1>3 DEF JobStep, Refuse, Judge, ReviewerFails, OthersFail, Release, Floor, Start, Take,
                Fault, review
  <2> QED
    BY <1>3, <2>1, FewerDebts, JobStepReview
<1>4. ASSUME NEW w \in Worker, Kill(w) \/ KillHorse(w)
      PROVE  ReviewOK' /\ WorkFits' /\ RoundsFit'
  <2>1. PICK v \in {Idle, [Idle EXCEPT !.at = "dead"]} : worker' = [worker EXCEPT ![w] = v]
    BY <1>4 DEF Kill, KillHorse
  <2>2. v \in Work /\ v.at \in {"idle", "dead"}
    <3>1. Idle \in Work /\ [Idle EXCEPT !.at = "dead"] \in Work
      BY IdleIsWork DEF Work
    <3>2. Idle.at = "idle" /\ [Idle EXCEPT !.at = "dead"].at = "dead"
      BY DEF Idle
    <3> QED
      BY <3>1, <3>2
  <2>3. worker' \in [Worker -> Work] /\ WorkFits'
    BY <2>1, <2>2, WorkerMoves
  <2>4. Engaged(w)
    BY <1>4 DEF Kill, KillHorse, Working, Engaged
  <2>5. job' \in [Round -> [Role -> {"none", "queued", "running"}]] /\ excused' \subseteq Pr
    BY <1>4, <2>4, EndsTyped, ExcusesTyped DEF Kill, KillHorse, Drop, ReviewOK
  <2>6. RoundsFit'
    BY <1>4, FewerDebts DEF Kill, KillHorse, Fault
  <2> QED
    BY <1>4, <2>3, <2>5, <2>6 DEF Kill, KillHorse, ReviewOK
<1>5. CASE Limit \/ Lift \/ CoderStart \/ CoderAsk \/ CoderEnd \/ Tick \/ NewDay
             \/ \E r \in Role : Retune(r)
  <2>1. UNCHANGED <<review, worker>> /\ faults' \in {faults, faults + 1}
    BY <1>5 DEF Limit, Lift, CoderStart, CoderAsk, CoderEnd, Tick, NewDay, Retune, Fault
  <2>2. ReviewOK' /\ WorkFits'
    BY <2>1 DEF ReviewOK, WorkFits, Engaged, review
  <2>3. RoundsFit'
    BY <2>1, FewerDebts DEF review
  <2> QED
    BY <2>2, <2>3
<1> QED
  BY <1>1, <1>2, <1>3, <1>4, <1>5 DEF Next

-----------------------------------------------------------------------------
(* What a step does to the slots of a role.                                *)
(* Holders count in Redis and take their count back; who is at the floor   *)
(* has driven the count below zero and is about to set it to zero.         *)

Holders(r) == {w \in Worker : Holds(w, r)}
AtFloor(r) == {w \in Worker : worker[w].role = r /\ worker[w].at = "floor"}

KeepFaults == faults' = faults /\ leaked' = leaked
\* A counter is set to zero at a release, at a start, or when its TTL is over.
ResetCause(r) == Holders(r) = {} \/ \E w \in Worker : worker[w].at \in {"floor", "dead"}
Uncounted(w) == worker[w].at = "release" /\ ~worker[w].counted
\* A job is taken and counted; a holder takes its count back, or its job's process is
\* killed; a job that was not counted when it was taken takes one back as well.
Counts(r) ==
  \E w \in Worker \ Holders(r) :
    /\ Holders(r)' = Holders(r) \cup {w} /\ AtFloor(r)' = AtFloor(r)
    /\ slots'[r] = slots[r] + 1 /\ KeepFaults
TakesBack(r) ==
  \E w \in Holders(r) :
    /\ Holders(r)' = Holders(r) \ {w} /\ slots'[r] = slots[r] - 1 /\ KeepFaults
    /\ AtFloor(r)' = AtFloor(r) \/ (slots'[r] < 0 /\ AtFloor(r)' = AtFloor(r) \cup {w})
Overdraws(r) ==
  \E w \in Worker \ AtFloor(r) :
    /\ Holders(r)' = Holders(r) /\ slots'[r] = slots[r] - 1 /\ KeepFaults
    /\ IF slots'[r] < 0 THEN AtFloor(r)' = AtFloor(r) \cup {w} ELSE AtFloor(r)' = AtFloor(r)
    /\ Uncounted(w)
IsKilled(r) ==
  /\ slots'[r] = slots[r] /\ faults' = faults + 1
  /\ \/ /\ Holders(r)' = Holders(r) /\ leaked \subseteq leaked'
        /\ \E w \in Worker : AtFloor(r)' = AtFloor(r) \ {w}
     \/ /\ AtFloor(r)' = AtFloor(r) /\ r \in leaked'
        /\ \E w \in Holders(r) : Holders(r)' = Holders(r) \ {w}
IsReset(r) ==
  /\ slots'[r] = 0 /\ Holders(r)' = Holders(r) /\ AtFloor(r)' \subseteq AtFloor(r)
  /\ faults' = faults /\ ResetCause(r)
Rests(r) ==
  /\ slots'[r] = slots[r] /\ Holders(r)' = Holders(r) /\ AtFloor(r)' = AtFloor(r)
  /\ faults' \in {faults, faults + 1} /\ (r \in leaked' <=> r \in leaked)
Effect(r) ==
  Counts(r) \/ TakesBack(r) \/ Overdraws(r) \/ IsKilled(r) \/ IsReset(r) \/ Rests(r)

\* Only the worker of a step changes what it holds.
LEMMA OthersHold ==
  ASSUME ReviewOK, NEW w \in Worker, NEW v \in Work, worker' = [worker EXCEPT ![w] = v],
         NEW r \in Role
  PROVE  /\ \A u \in Worker \ {w} : (Holds(u, r)' <=> Holds(u, r))
                                     /\ (u \in AtFloor(r)' <=> u \in AtFloor(r))
         /\ Holds(w, r)' <=> v.role = r /\ v.counted /\ v.at \in {"refused", "work", "release"}
         /\ w \in AtFloor(r)' <=> v.role = r /\ v.at = "floor"
BY DEF ReviewOK, Holds, AtFloor

LEMMA NobodyMoves ==
  ASSUME worker' = worker, NEW r \in Role
  PROVE  Holders(r)' = Holders(r) /\ AtFloor(r)' = AtFloor(r)
BY DEF Holders, AtFloor, Holds

\* The sets, when one worker goes from what it was to v.
Held(v, r) == v.role = r /\ v.counted /\ v.at \in {"refused", "work", "release"}
LEMMA OneMoves ==
  ASSUME ReviewOK, NEW w \in Worker, NEW v \in Work, worker' = [worker EXCEPT ![w] = v],
         NEW r \in Role
  PROVE  /\ Held(v, r) => Holders(r)' = Holders(r) \cup {w}
         /\ ~Held(v, r) => Holders(r)' = Holders(r) \ {w}
         /\ v.role = r /\ v.at = "floor" => AtFloor(r)' = AtFloor(r) \cup {w}
         /\ ~(v.role = r /\ v.at = "floor") => AtFloor(r)' = AtFloor(r) \ {w}
<1>1. /\ \A u \in Worker \ {w} : (Holds(u, r)' <=> Holds(u, r))
                                  /\ (u \in AtFloor(r)' <=> u \in AtFloor(r))
      /\ Holds(w, r)' <=> Held(v, r)
      /\ w \in AtFloor(r)' <=> v.role = r /\ v.at = "floor"
  BY OthersHold DEF Held
<1>2. /\ Holders(r) \subseteq Worker /\ Holders(r)' \subseteq Worker
      /\ AtFloor(r) \subseteq Worker /\ AtFloor(r)' \subseteq Worker
  BY DEF Holders, AtFloor
<1>3. \A u \in Worker : (u \in Holders(r) <=> Holds(u, r)) /\ (u \in Holders(r)' <=> Holds(u, r)')
  BY DEF Holders
<1>4. Held(v, r) => Holders(r)' = Holders(r) \cup {w}
  BY <1>1, <1>2, <1>3
<1>5. ~Held(v, r) => Holders(r)' = Holders(r) \ {w}
  BY <1>1, <1>2, <1>3
<1>6. v.role = r /\ v.at = "floor" => AtFloor(r)' = AtFloor(r) \cup {w}
  BY <1>1, <1>2
<1>7. ~(v.role = r /\ v.at = "floor") => AtFloor(r)' = AtFloor(r) \ {w}
  BY <1>1, <1>2
<1> QED
  BY <1>4, <1>5, <1>6, <1>7

LEMMA MoveEffects ==
  ASSUME TypeOK, WorkFits, NEW w \in Worker, NEW r \in Role,
         Refuse(w) \/ Release(w) \/ Floor(w) \/ Start(w)
  PROVE  Effect(r)
<1>0. /\ ReviewOK /\ worker[w] \in Work /\ Idle \in Work /\ slots \in [Role -> Int]
      /\ Idle.at = "idle" /\ faults \in Nat
  BY IdleIsWork, AdmissionAssumption DEF TypeOK, ReviewOK, PoolOK, SlotRange, Idle
<1>1. CASE Refuse(w)
  <2>1. worker' = [worker EXCEPT ![w] = Idle]
    BY <1>1 DEF Refuse
  <2>2. Holders(r)' = Holders(r) \ {w} /\ AtFloor(r)' = AtFloor(r) \ {w}
    BY <1>0, <2>1, OneMoves DEF Held
  <2>3. w \notin AtFloor(r) /\ worker[w].counted /\ worker[w].role \in Role
    BY <1>1 DEF Refuse, AtFloor, WorkFits, Engaged
  <2>4. w \in Holders(r) <=> worker[w].role = r
    BY <1>1, <2>3 DEF Refuse, Holders, Holds
  <2>5. slots' = [slots EXCEPT ![worker[w].role] = @ - 1] /\ KeepFaults
    BY <1>1 DEF Refuse, SetSlots, KeepFaults
  <2>6. CASE worker[w].role = r
    BY <1>0, <2>2, <2>3, <2>4, <2>5, <2>6 DEF Effect, TakesBack
  <2>7. CASE worker[w].role # r
    BY <1>0, <2>2, <2>3, <2>4, <2>5, <2>7 DEF Effect, Rests, KeepFaults, Holders
  <2> QED
    BY <2>6, <2>7
<1>2. CASE Release(w)
  <2> DEFINE q == worker[w].role
             low == [worker[w] EXCEPT !.at = "floor"]
  <2>1. /\ worker[w].at = "release" /\ q \in Role /\ low \in Work /\ low.role = q
        /\ low.at = "floor" /\ w \notin AtFloor(r)
        /\ w \in Holders(r) <=> q = r /\ worker[w].counted
    BY <1>0, <1>2 DEF Release, WorkFits, Engaged, Work, AtFloor, Holders, Holds
  <2>2. /\ slots' = [slots EXCEPT ![q] = @ - 1] /\ KeepFaults
        /\ slots[q] - 1 < 0 => worker' = [worker EXCEPT ![w] = low]
        /\ ~(slots[q] - 1 < 0) => worker' = [worker EXCEPT ![w] = Idle]
    BY <1>0, <1>2 DEF Release, SetSlots, KeepFaults, ReviewOK
  <2> HIDE DEF low
  <2>3. Holders(r)' = Holders(r) \ {w}
    BY <1>0, <2>1, <2>2, OneMoves DEF Held
  <2>4. AtFloor(r)' = IF slots[q] - 1 < 0 /\ q = r THEN AtFloor(r) \cup {w} ELSE AtFloor(r)
    BY <1>0, <2>1, <2>2, OneMoves DEF AtFloor
  <2>5. CASE q = r /\ worker[w].counted
    BY <1>0, <2>1, <2>2, <2>3, <2>4, <2>5 DEF Effect, TakesBack
  <2>6. CASE q = r /\ ~worker[w].counted
    BY <1>0, <2>1, <2>2, <2>3, <2>4, <2>6 DEF Effect, Overdraws, Uncounted, Release, Holders
  <2>7. CASE q # r
    BY <1>0, <2>1, <2>2, <2>3, <2>4, <2>7 DEF Effect, Rests, KeepFaults, Holders
  <2> QED
    BY <2>5, <2>6, <2>7
<1>3. CASE Floor(w) \/ Start(w)
  <2>1. worker' = [worker EXCEPT ![w] = Idle] /\ faults' = faults
    BY <1>3 DEF Floor, Start
  <2>2. Holders(r)' = Holders(r) \ {w} /\ AtFloor(r)' = AtFloor(r) \ {w}
    BY <1>0, <2>1, OneMoves DEF Held
  <2>3. w \notin Holders(r)
    BY <1>3 DEF Floor, Start, Holders, Holds
  <2>4. slots'[r] = 0 \/ (Floor(w) /\ worker[w].role # r /\ slots'[r] = slots[r])
    BY <1>0, <1>3 DEF Floor, Start, SetSlots
  <2>5. CASE slots'[r] = 0
    BY <1>3, <2>1, <2>2, <2>3, <2>5 DEF Effect, IsReset, ResetCause, Floor, Start, Holders
  <2>6. CASE Floor(w) /\ worker[w].role # r /\ slots'[r] = slots[r]
    BY <2>1, <2>2, <2>3, <2>6 DEF Effect, Rests, Holders, AtFloor, Floor
  <2> QED
    BY <2>4, <2>5, <2>6
<1> QED
  BY <1>1, <1>2, <1>3

LEMMA StepEffect ==
  ASSUME TypeOK, WorkFits, Next, NEW r \in Role
  PROVE  Effect(r)
<1>0. /\ ReviewOK /\ Idle \in Work /\ slots \in [Role -> Int] /\ Idle.at = "idle"
      /\ faults \in Nat /\ \A w \in Worker : worker[w] \in Work
  BY IdleIsWork, AdmissionAssumption DEF TypeOK, ReviewOK, PoolOK, SlotRange, Idle
<1>1. CASE worker' = worker /\ UNCHANGED <<slots, leaked>> /\ faults' \in {faults, faults + 1}
  BY <1>1, NobodyMoves DEF Effect, Rests
<1>2. ASSUME NEW w \in Worker, Refuse(w) \/ Release(w) \/ Floor(w) \/ Start(w)
      PROVE  Effect(r)
  BY <1>2, MoveEffects
<1>3. ASSUME NEW w \in Worker, Judge(w) \/ ReviewerFails(w) \/ OthersFail(w)
      PROVE  Effect(r)
  <2>1. PICK got \in {"verdict", "warn", "error", "limited"} : Ended(w, got)
    BY <1>3 DEF Judge, ReviewerFails, OthersFail
  <2> DEFINE v == [worker[w] EXCEPT !.at = "release", !.got = got]
  <2>2. worker' = [worker EXCEPT ![w] = v] /\ v \in Work /\ v.at = "release"
          /\ v.role = worker[w].role /\ v.counted = worker[w].counted /\ worker[w].at = "work"
    BY <1>0, <2>1 DEF Ended, ReviewOK, Work
  <2> HIDE DEF v
  <2>3. Holders(r)' = Holders(r) /\ AtFloor(r)' = AtFloor(r)
    BY <1>0, <2>2, OneMoves DEF Held, Holders, Holds, AtFloor
  <2>4. slots' = slots /\ leaked' = leaked /\ faults' \in {faults, faults + 1}
    BY <1>3 DEF Judge, ReviewerFails, OthersFail, pool, Fault
  <2> QED
    BY <2>3, <2>4 DEF Effect, Rests
<1>4. ASSUME NEW w \in Worker, NEW d \in Round, NEW q \in Role, Take(w, d, q)
      PROVE  Effect(r)
  <2> DEFINE v == [Idle EXCEPT !.at = IF Room(q) THEN "work" ELSE "refused", !.round = d, !.role = q,
                    !.counted = limit[q] # 0]
  <2>1. /\ worker' = [worker EXCEPT ![w] = v] /\ v \in Work /\ v.at \in {"work", "refused"}
        /\ v.role = q /\ v.counted = (limit[q] # 0)
    BY <1>4, <1>0 DEF Take, Idle, Work
  <2> HIDE DEF v
  <2>2. w \notin Holders(r) /\ w \notin AtFloor(r) /\ KeepFaults
    BY <1>4 DEF Take, AtEase, Holders, Holds, AtFloor, KeepFaults
  <2>3. AtFloor(r)' = AtFloor(r)
    BY <1>0, <2>1, <2>2, OneMoves DEF AtFloor
  <2>4. CASE q = r /\ limit[q] # 0
    <3>1. Holders(r)' = Holders(r) \cup {w}
      BY <1>0, <2>1, <2>4, OneMoves DEF Held
    <3>2. slots'[r] = slots[r] + 1
      BY <1>0, <1>4, <2>4 DEF Take, AcquireSlot, SetSlots
    <3> QED
      BY <2>2, <2>3, <3>1, <3>2 DEF Effect, Counts
  <2>5. CASE ~(q = r /\ limit[q] # 0)
    <3>0. ~(v.role = r /\ v.counted)
      BY <2>1, <2>5
    <3>1. Holders(r)' = Holders(r)
      <4>1. Holders(r)' = Holders(r) \ {w}
        BY <1>0, <2>1, <3>0, OneMoves DEF Held
      <4> QED
        BY <4>1, <2>2
    <3>2. slots'[r] = slots[r]
      BY <1>0, <1>4, <2>5 DEF Take, AcquireSlot, SetSlots
    <3> QED
      BY <2>2, <2>3, <3>1, <3>2 DEF Effect, Rests, KeepFaults
  <2> QED
    BY <2>4, <2>5
<1>5. ASSUME NEW w \in Worker, Kill(w) \/ KillHorse(w)
      PROVE  Effect(r)
  <2>1. PICK v \in Work : worker' = [worker EXCEPT ![w] = v] /\ v.at \in {"idle", "dead"}
    <3>1. [Idle EXCEPT !.at = "dead"] \in Work /\ [Idle EXCEPT !.at = "dead"].at = "dead"
      BY <1>0 DEF Work
    <3> QED
      BY <1>0, <1>5, <3>1 DEF Kill, KillHorse
  <2>2. slots' = slots /\ faults' = faults + 1 /\ Leaks(w)
    BY <1>5 DEF Kill, KillHorse, Fault
  <2>3. Holders(r)' = Holders(r) \ {w} /\ AtFloor(r)' = AtFloor(r) \ {w}
    BY <1>0, <2>1, OneMoves DEF Held
  <2>4. CASE w \in Holders(r)
    <3>1. r \in leaked' /\ w \notin AtFloor(r)
      BY <2>2, <2>4 DEF Leaks, Holders, Holds, AtFloor
    <3> QED
      BY <2>2, <2>3, <2>4, <3>1 DEF Effect, IsKilled, AtFloor
  <2>5. CASE w \notin Holders(r)
    <3>1. leaked \subseteq leaked' /\ Holders(r)' = Holders(r)
      BY <2>2, <2>3, <2>5 DEF Leaks, Holders
    <3> QED
      BY <2>2, <2>3, <3>1 DEF Effect, IsKilled
  <2> QED
    BY <2>4, <2>5
<1>6. CASE Tick
  <2>1. worker' = worker /\ faults' = faults
    BY <1>6 DEF Tick, review
  <2>2. IF Expiring(r) THEN slots'[r] = 0 /\ Holders(r) = {}
                       ELSE slots'[r] = slots[r] /\ (r \in leaked' <=> r \in leaked)
    BY <1>6 DEF Tick, Holders
  <2> QED
    BY <2>1, <2>2, NobodyMoves DEF Effect, IsReset, ResetCause, Rests
<1>7. CASE (\E d \in Round : HandlePrEvent(d)) \/ \E p \in Pr : Push(p) \/ Sweep(p)
  BY <1>1, <1>7 DEF HandlePrEvent, Push, Sweep, Fault, pool
<1>8. CASE Limit \/ Lift \/ CoderStart \/ CoderAsk \/ CoderEnd \/ NewDay \/ \E q \in Role : Retune(q)
  BY <1>1, <1>8 DEF Limit, Lift, CoderStart, CoderAsk, CoderEnd, NewDay, Retune, Fault, pool
<1> QED
  BY <1>2, <1>3, <1>4, <1>5, <1>6, <1>7, <1>8 DEF Next, JobStep

-----------------------------------------------------------------------------
(* Types, and the range of the slot counters. *)

\* How many hold a slot of r, and how many are at its floor.
HolderCount(r) == Cardinality(Holders(r))
FloorCount(r) == Cardinality(AtFloor(r))

LEMMA CountsAreNat ==
  ASSUME NEW r \in Role
  PROVE  /\ IsFiniteSet(Holders(r)) /\ IsFiniteSet(AtFloor(r)) /\ Cardinality(Worker) \in Nat
         /\ HolderCount(r) \in Nat /\ HolderCount(r) <= Cardinality(Worker)
         /\ FloorCount(r) \in Nat /\ FloorCount(r) <= Cardinality(Worker)
<1>1. Holders(r) \subseteq Worker /\ AtFloor(r) \subseteq Worker
  BY DEF Holders, AtFloor
<1>2. IsFiniteSet(Worker)
  BY AdmissionAssumption
<1> QED
  BY <1>1, <1>2, FS_Subset, FS_CardinalityType DEF HolderCount, FloorCount

\* The effects in numbers.
CountEffect(r) ==
  \/ HolderCount(r)' = HolderCount(r) + 1 /\ FloorCount(r)' = FloorCount(r)
       /\ slots'[r] = slots[r] + 1 /\ KeepFaults
  \/ HolderCount(r)' = HolderCount(r) - 1 /\ FloorCount(r)' >= FloorCount(r)
       /\ slots'[r] = slots[r] - 1 /\ KeepFaults
  \/ HolderCount(r)' = HolderCount(r) /\ slots'[r] = slots[r] - 1 /\ KeepFaults
       /\ (\E w \in Worker : Uncounted(w))
       /\ IF slots'[r] < 0 THEN FloorCount(r)' = FloorCount(r) + 1
                           ELSE FloorCount(r)' = FloorCount(r)
  \/ slots'[r] = slots[r] /\ faults' = faults + 1 /\ leaked \subseteq leaked'
       /\ HolderCount(r)' = HolderCount(r) /\ FloorCount(r)' >= FloorCount(r) - 1
  \/ slots'[r] = slots[r] /\ faults' = faults + 1 /\ r \in leaked'
       /\ HolderCount(r)' = HolderCount(r) - 1 /\ FloorCount(r)' = FloorCount(r)
  \/ slots'[r] = 0 /\ HolderCount(r)' = HolderCount(r) /\ faults' = faults /\ ResetCause(r)
  \/ slots'[r] = slots[r] /\ HolderCount(r)' = HolderCount(r) /\ FloorCount(r)' = FloorCount(r)
       /\ faults' \in {faults, faults + 1} /\ (r \in leaked' <=> r \in leaked)

\* One element added or removed changes a cardinality by one at most.
LEMMA OneMoreOrLess ==
  ASSUME NEW S, IsFiniteSet(S), NEW x
  PROVE  /\ Cardinality(S \cup {x}) >= Cardinality(S)
         /\ Cardinality(S \ {x}) >= Cardinality(S) - 1
<1>1. Cardinality(S) \in Nat
  BY FS_CardinalityType
<1>2. Cardinality(S \cup {x}) = IF x \in S THEN Cardinality(S) ELSE Cardinality(S) + 1
  BY FS_AddElement
<1>3. Cardinality(S \ {x}) = IF x \in S THEN Cardinality(S) - 1 ELSE Cardinality(S)
  BY FS_RemoveElement
<1> QED
  BY <1>1, <1>2, <1>3

LEMMA EffectInNumbers ==
  ASSUME NEW r \in Role, Effect(r)
  PROVE  CountEffect(r)
<1>0. /\ IsFiniteSet(Holders(r)) /\ IsFiniteSet(AtFloor(r))
      /\ HolderCount(r) \in Nat /\ FloorCount(r) \in Nat
  BY CountsAreNat
<1>1. ASSUME NEW S, IsFiniteSet(S), NEW x
      PROVE  /\ Cardinality(S \cup {x}) = IF x \in S THEN Cardinality(S) ELSE Cardinality(S) + 1
             /\ Cardinality(S \ {x}) = IF x \in S THEN Cardinality(S) - 1 ELSE Cardinality(S)
  BY <1>1, FS_AddElement, FS_RemoveElement
<1>2. CASE Counts(r)
  BY <1>0, <1>1, <1>2 DEF Counts, CountEffect, HolderCount, FloorCount
<1>3. CASE TakesBack(r)
  <2>1. FloorCount(r)' >= FloorCount(r)
    <3>1. CASE AtFloor(r)' = AtFloor(r)
      BY <1>0, <3>1 DEF FloorCount
    <3>2. CASE \E w \in Worker : AtFloor(r)' = AtFloor(r) \cup {w}
      <4>1. PICK w \in Worker : AtFloor(r)' = AtFloor(r) \cup {w}
        BY <3>2
      <4>2. Cardinality(AtFloor(r) \cup {w}) >= Cardinality(AtFloor(r))
        BY <1>0, OneMoreOrLess
      <4> QED
        BY <4>1, <4>2 DEF FloorCount
    <3> QED
      BY <1>3, <3>1, <3>2 DEF TakesBack, Holders
  <2> QED
    BY <1>0, <1>1, <1>3, <2>1 DEF TakesBack, CountEffect, HolderCount
<1>4. CASE Overdraws(r)
  BY <1>0, <1>1, <1>4 DEF Overdraws, CountEffect, HolderCount, FloorCount
<1>5. CASE IsKilled(r)
  <2>1. CASE /\ Holders(r)' = Holders(r) /\ leaked \subseteq leaked'
             /\ \E w \in Worker : AtFloor(r)' = AtFloor(r) \ {w}
    <3>1. FloorCount(r)' >= FloorCount(r) - 1
      <4>1. PICK w \in Worker : AtFloor(r)' = AtFloor(r) \ {w}
        BY <2>1
      <4>2. Cardinality(AtFloor(r) \ {w}) >= Cardinality(AtFloor(r)) - 1
        BY <1>0, OneMoreOrLess
      <4> QED
        BY <4>1, <4>2 DEF FloorCount
    <3> QED
      BY <1>5, <2>1, <3>1 DEF IsKilled, CountEffect, HolderCount
  <2>2. CASE /\ AtFloor(r)' = AtFloor(r) /\ r \in leaked'
             /\ \E w \in Holders(r) : Holders(r)' = Holders(r) \ {w}
    BY <1>0, <1>1, <1>5, <2>2 DEF IsKilled, CountEffect, HolderCount, FloorCount
  <2> QED
    BY <1>5, <2>1, <2>2 DEF IsKilled
<1>6. CASE IsReset(r)
  BY <1>6 DEF IsReset, CountEffect, HolderCount
<1>7. CASE Rests(r)
  BY <1>7 DEF Rests, CountEffect, HolderCount, FloorCount
<1> QED
  BY <1>2, <1>3, <1>4, <1>5, <1>6, <1>7 DEF Effect

\* A counter exceeds its holders by no more than faults, and falls short of them by no
\* more than those that hold nothing, are at the floor, or were killed there.
SlotsBounded ==
  \A r \in Role :
    /\ slots[r] <= HolderCount(r) + faults
    /\ slots[r] >= HolderCount(r) - Cardinality(Worker) - FloorCount(r) - faults

AdmissionInv == TypeOK /\ WorkFits /\ RoundsFit /\ SlotsBounded

\* Each step leaves integers in the counters.
LEMMA PoolStep ==
  ASSUME TypeOK, WorkFits, Next
  PROVE  /\ limit' \in [Role -> 0..StartLimit] /\ slots' \in [Role -> Int]
         /\ life' \in [Role -> 0..SlotTtl] /\ leaked' \subseteq Role
         /\ faults' \in 0..MaxFaults /\ scenario' = scenario
<1>0. /\ limit \in [Role -> 0..StartLimit] /\ slots \in [Role -> Int]
      /\ life \in [Role -> 0..SlotTtl] /\ leaked \subseteq Role /\ faults \in 0..MaxFaults
      /\ SlotTtl \in Nat /\ MaxFaults \in Nat /\ StartLimit \in Nat
  BY AdmissionAssumption DEF TypeOK, PoolOK, SlotRange
<1>1. ASSUME NEW w \in Worker, JobStep(w)
      PROVE  /\ limit' \in [Role -> 0..StartLimit] /\ slots' \in [Role -> Int]
             /\ life' \in [Role -> 0..SlotTtl] /\ leaked' \subseteq Role
             /\ faults' \in 0..MaxFaults /\ scenario' = scenario
  <2>1. CASE Refuse(w) \/ Release(w) \/ Floor(w) \/ Start(w)
    BY <1>0, <2>1 DEF Refuse, Release, Floor, Start, SetSlots
  <2>2. CASE Judge(w) \/ ReviewerFails(w) \/ OthersFail(w)
    BY <1>0, <2>2 DEF Judge, ReviewerFails, OthersFail, Fault, pool
  <2>3. CASE \E d \in Round, r \in Role : Take(w, d, r)
    BY <1>0, <2>3 DEF Take, AcquireSlot, SetSlots
  <2> QED
    BY <1>1, <2>1, <2>2, <2>3 DEF JobStep
<1>2. ASSUME NEW w \in Worker, Kill(w) \/ KillHorse(w)
      PROVE  /\ limit' \in [Role -> 0..StartLimit] /\ slots' \in [Role -> Int]
             /\ life' \in [Role -> 0..SlotTtl] /\ leaked' \subseteq Role
             /\ faults' \in 0..MaxFaults /\ scenario' = scenario
  BY <1>0, <1>2 DEF Kill, KillHorse, Fault, Leaks
<1>3. CASE Tick
  BY <1>0, <1>3 DEF Tick, Down
<1>4. CASE \E r \in Role : Retune(r)
  BY <1>0, <1>4 DEF Retune, Fault
<1>5. CASE Limit \/ Lift \/ CoderStart \/ CoderAsk \/ CoderEnd \/ NewDay
             \/ (\E d \in Round : HandlePrEvent(d)) \/ \E p \in Pr : Push(p) \/ Sweep(p)
  BY <1>0, <1>5 DEF Limit, Lift, CoderStart, CoderAsk, CoderEnd, NewDay, HandlePrEvent, Push,
                    Sweep, Fault, pool
<1> QED
  BY <1>1, <1>2, <1>3, <1>4, <1>5 DEF Next

LEMMA AdmissionInit == Init => AdmissionInv
<1> SUFFICES ASSUME Init PROVE AdmissionInv
  OBVIOUS
<1>0. /\ MostCalls \in Nat /\ MostRounds \in Nat /\ Cardinality(Worker) \in Nat
      /\ MaxFaults \in Nat
      /\ StartLimit \in Nat /\ SlotTtl \in Nat /\ Rpm \in Nat /\ WatchCap \in Nat
      /\ 0 \in 0..MaxBackoff /\ 0 \in 0..StrikeTtl
  BY RoundsAreFinite, FS_CardinalityType, AdmissionAssumption
<1>1. PoolOK
  <2>1. limit \in [Role -> 0..StartLimit]
    BY <1>0 DEF Init
  <2> QED
    BY <1>0, <2>1 DEF Init, PoolOK, SlotRange
<1>2. ReviewOK
  <2>1. event \subseteq Round
    BY <1>0 DEF Init, Round
  <2> QED
    BY <1>0, <2>1, IdleIsWork DEF Init, ReviewOK
<1>3. GuardOK
  BY <1>0 DEF Init, GuardOK, Calm, MostStrikes
<1>4. WorkFits
  BY DEF Init, Idle, WorkFits, Engaged
<1>5. SlotsBounded
  <2>1. \A r \in Role : Holders(r) = {} /\ AtFloor(r) = {}
    BY DEF Init, Idle, Holders, Holds, AtFloor
  <2>2. \A r \in Role : HolderCount(r) = 0 /\ FloorCount(r) = 0
    BY <2>1, FS_EmptySet DEF HolderCount, FloorCount
  <2> QED
    BY <1>0, <2>2 DEF Init, SlotsBounded
<1>6. RoundsFit
  BY <1>0 DEF Init, RoundsFit
<1> QED
  BY <1>0, <1>1, <1>2, <1>3, <1>4, <1>5, <1>6 DEF Init, TypeOK, AdmissionInv

LEMMA AdmissionStep == AdmissionInv /\ [Next]_vars => AdmissionInv'
<1> SUFFICES ASSUME AdmissionInv, [Next]_vars
             PROVE  AdmissionInv'
  OBVIOUS
<1>1. CASE UNCHANGED vars
  BY <1>1 DEF vars, pool, review, budget, AdmissionInv, TypeOK, PoolOK, ReviewOK, GuardOK,
              WorkFits, Engaged, RoundsFit, SlotsBounded, HolderCount, FloorCount, Holders, Holds, AtFloor
<1>2. CASE Next
  <2>1. ReviewOK' /\ WorkFits' /\ RoundsFit'
    BY <1>2, ReviewStep DEF AdmissionInv, TypeOK
  <2>2. GuardOK'
    BY <1>2, GuardStep DEF AdmissionInv, TypeOK
  <2>3. /\ limit' \in [Role -> 0..StartLimit] /\ slots' \in [Role -> Int]
        /\ life' \in [Role -> 0..SlotTtl] /\ leaked' \subseteq Role
        /\ faults' \in 0..MaxFaults /\ scenario' = scenario
    BY <1>2, PoolStep DEF AdmissionInv
  <2>4. slots \in [Role -> Int] /\ faults \in Nat /\ MaxFaults \in Nat
    BY AdmissionAssumption DEF AdmissionInv, TypeOK, PoolOK, SlotRange
  <2>5. SlotsBounded'
    <3> SUFFICES ASSUME NEW r \in Role
                 PROVE  /\ slots'[r] <= HolderCount(r)' + faults'
                        /\ slots'[r] >= HolderCount(r)' - Cardinality(Worker) - FloorCount(r)' - faults'
      BY DEF SlotsBounded
    <3>1. CountEffect(r)
      BY <1>2, StepEffect, EffectInNumbers DEF AdmissionInv
    <3>2. /\ HolderCount(r) \in Nat /\ FloorCount(r) \in Nat /\ Cardinality(Worker) \in Nat
      BY CountsAreNat
    <3>3. /\ HolderCount(r)' \in Nat /\ FloorCount(r)' \in Nat
          /\ HolderCount(r)' <= Cardinality(Worker)
      <4>1. Holders(r)' \subseteq Worker /\ AtFloor(r)' \subseteq Worker
        BY DEF Holders, AtFloor
      <4> QED
        BY <4>1, FS_Subset, FS_CardinalityType, AdmissionAssumption DEF HolderCount, FloorCount
    <3>4. /\ slots[r] <= HolderCount(r) + faults
          /\ slots[r] >= HolderCount(r) - Cardinality(Worker) - FloorCount(r) - faults
      BY DEF AdmissionInv, SlotsBounded
    <3>5. slots[r] \in Int /\ slots'[r] \in Int /\ faults' \in Nat
      BY <2>3, <2>4
    <3> QED
      BY <2>4, <3>1, <3>2, <3>3, <3>4, <3>5 DEF CountEffect, KeepFaults
  <2>6. slots' \in [Role -> SlotRange]
    <3> SUFFICES ASSUME NEW r \in Role
                 PROVE  slots'[r] \in SlotRange
      BY <2>3
    <3>1. /\ HolderCount(r)' \in Nat /\ FloorCount(r)' \in Nat /\ Cardinality(Worker) \in Nat
          /\ HolderCount(r)' <= Cardinality(Worker) /\ FloorCount(r)' <= Cardinality(Worker)
      <4>1. Holders(r)' \subseteq Worker /\ AtFloor(r)' \subseteq Worker
        BY DEF Holders, AtFloor
      <4> QED
        BY <4>1, FS_Subset, FS_CardinalityType, AdmissionAssumption DEF HolderCount, FloorCount
    <3> QED
      BY <2>3, <2>4, <2>5, <3>1 DEF SlotsBounded, SlotRange
  <2> QED
    BY <2>1, <2>2, <2>3, <2>5, <2>6 DEF AdmissionInv, TypeOK, PoolOK
<1> QED
  BY <1>1, <1>2

\* The counters of the guards, the slots and the watchdog keep to their ranges, for any
\* number of workers and faults (limits.py, ratelimit.py, _sweep_stuck_stories).
THEOREM TypeCorrect == Spec => []TypeOK
<1>1. AdmissionInv => TypeOK
  BY DEF AdmissionInv
<1> QED
  BY <1>1, AdmissionInit, AdmissionStep, PTL DEF Spec

LEMMA AdmissionInvHolds == Spec => []AdmissionInv
BY AdmissionInit, AdmissionStep, PTL DEF Spec

-----------------------------------------------------------------------------
(* The slots that are free. *)

\* A counter of which no killed job holds a slot exceeds no count of its holders.
Returned == \A r \in Role : r \notin leaked => slots[r] <= HolderCount(r)

LEMMA ReturnedStep ==
  ASSUME AdmissionInv, Returned, [Next]_vars
  PROVE  Returned'
<1>1. CASE UNCHANGED vars
  BY <1>1 DEF vars, pool, Returned, HolderCount, Holders, Holds
<1>2. CASE Next
  <2> SUFFICES ASSUME NEW r \in Role, r \notin leaked'
               PROVE  slots'[r] <= HolderCount(r)'
    BY DEF Returned
  <2>1. CountEffect(r)
    BY <1>2, StepEffect, EffectInNumbers DEF AdmissionInv
  <2>2. HolderCount(r) \in Nat /\ slots[r] \in Int
    BY CountsAreNat DEF AdmissionInv, TypeOK, PoolOK, SlotRange
  <2>3. r \notin leaked => slots[r] <= HolderCount(r)
    BY DEF Returned
  <2> QED
    BY <2>1, <2>2, <2>3 DEF CountEffect, KeepFaults
<1> QED
  BY <1>1, <1>2

\* Every slot a verdict job takes comes back, whether the job is refused, fails, or is
\* overtaken by a reset or a change of the limit; only a killed job keeps one, until a
\* worker starts (acquire_slot, release_slot, reconcile_slots).
THEOREM SlotsReturn == Spec => []SlotsComeBack
<1>1. Init => Returned
  <2> SUFFICES ASSUME Init, NEW r \in Role
               PROVE  slots[r] <= HolderCount(r)
    BY DEF Returned
  <2> QED
    BY CountsAreNat DEF Init
<1>2. AdmissionInv /\ Returned => SlotsComeBack
  <2> SUFFICES ASSUME Returned, NEW r \in Role, r \notin leaked, \A w \in Worker : ~Holds(w, r)
               PROVE  slots[r] <= 0
    BY DEF SlotsComeBack
  <2>1. Holders(r) = {}
    BY DEF Holders
  <2> QED
    BY <2>1, FS_EmptySet DEF Returned, HolderCount
<1> QED
  BY <1>1, <1>2, ReturnedStep, AdmissionInvHolds, PTL DEF Spec

-----------------------------------------------------------------------------
(* The breaker. *)

LEMMA StreakStep ==
  ASSUME GuardOK, StreakOutlivesPause, [Next]_vars
  PROVE  StreakOutlivesPause'
<1>1. breaker' \in {breaker, Calm, Tripped, Lapsed}
  BY DEF vars, Next, JobStep, HandlePrEvent, Push, Sweep, Refuse, Judge, ReviewerFails, OthersFail,
         Release, Floor, Start, Take, Kill, KillHorse, Retune, Limit, Lift, CoderStart, CoderAsk,
         CoderEnd, Tick, NewDay
<1>2. CASE breaker' = breaker
  BY <1>2 DEF StreakOutlivesPause
<1>3. CASE breaker' = Calm
  BY <1>3 DEF StreakOutlivesPause, Calm
<1>4. CASE breaker' = Tripped
  <2>1. NextStrike \in 1..MostStrikes
    BY DEF GuardOK, NextStrike, MostStrikes
  <2>2. Tripped.pause \in 0..MaxBackoff /\ Tripped.streak = StrikeTtl
    BY <2>1, BackoffBounded DEF Tripped
  <2> QED
    BY <1>4, <2>2, AdmissionAssumption DEF StreakOutlivesPause
<1>5. CASE breaker' = Lapsed
  <2>1. /\ Lapsed.pause = Down(breaker.pause) /\ Lapsed.streak = Down(breaker.streak)
        /\ breaker.pause \in Nat /\ breaker.streak \in Nat
    BY AdmissionAssumption DEF Lapsed, LeftOf, GuardOK
  <2> QED
    BY <1>5, <2>1 DEF StreakOutlivesPause, Down
<1> QED
  BY <1>1, <1>2, <1>3, <1>4, <1>5

\* However strikes, verdicts and time follow each other, the count of strikes outlives the
\* pause, so that the next 429 finds it (ratelimit.trip: _STRIKE_TTL above _MAX_BACKOFF).
THEOREM StreakOutlives == Spec => []StreakOutlivesPause
<1>1. Init => StreakOutlivesPause
  BY DEF Init, Calm, StreakOutlivesPause
<1>2. AdmissionInv => GuardOK
  BY DEF AdmissionInv, TypeOK
<1> QED
  BY <1>1, <1>2, StreakStep, AdmissionInvHolds, PTL DEF Spec

-----------------------------------------------------------------------------
(* The limit of a role, without starts and retunes. *)

Undisturbed == scenario \cap {"kill", "retune"} = {}

\* Every job at work counts, and no counter falls short of its holders.
CountsCover ==
  /\ \A r \in Role : limit[r] = StartLimit /\ HolderCount(r) <= slots[r]
  /\ \A w \in Worker : /\ worker[w].at \notin {"floor", "dead"}
                       /\ Engaged(w) => worker[w].counted

\* Who holds a slot has it covered, so that giving it back never ends at the floor.
LEMMA ReleaseIsCovered ==
  ASSUME AdmissionInv, CountsCover, NEW w \in Worker, Release(w)
  PROVE  worker' = [worker EXCEPT ![w] = Idle]
<1> DEFINE r == worker[w].role
<1>1. r \in Role /\ worker[w].counted /\ worker[w].at = "release"
  BY DEF Release, AdmissionInv, WorkFits, CountsCover, Engaged
<1>2. w \in Holders(r)
  BY <1>1 DEF Holders, Holds
<1> HIDE DEF r
<1>3. HolderCount(r) # 0 /\ HolderCount(r) \in Nat
  BY <1>1, <1>2, CountsAreNat, FS_EmptySet DEF HolderCount
<1>4. HolderCount(r) <= slots[r] /\ slots[r] \in Int
  BY <1>1 DEF CountsCover, AdmissionInv, TypeOK, PoolOK, SlotRange
<1>5. ~(slots[r] - 1 < 0)
  BY <1>3, <1>4
<1> QED
  BY <1>5 DEF Release, r

\* Where a step of an undisturbed system leaves the workers.
LEMMA WhereWorkersGo ==
  ASSUME AdmissionInv, CountsCover, Undisturbed, Next
  PROVE  /\ limit' = limit
         /\ \/ worker' = worker
            \/ \E w \in Worker, d \in Round, r \in Role : Take(w, d, r)
            \/ \E w \in Worker : worker' = [worker EXCEPT ![w] = Idle]
            \/ \E w \in Worker, got \in {"verdict", "warn", "error", "limited"} : Ended(w, got)
<1>1. ~May("kill") /\ ~May("retune")
  BY DEF May, Undisturbed
<1>2. ASSUME NEW w \in Worker, JobStep(w)
      PROVE  /\ limit' = limit
             /\ \/ \E d \in Round, r \in Role : Take(w, d, r)
                \/ worker' = [worker EXCEPT ![w] = Idle]
                \/ \E got \in {"verdict", "warn", "error", "limited"} : Ended(w, got)
  BY <1>2, ReleaseIsCovered
  DEF JobStep, Refuse, Judge, ReviewerFails, OthersFail, Release, Floor, Start, Take, pool
<1>3. ASSUME NEW w \in Worker, Kill(w) \/ KillHorse(w)
      PROVE  limit' = limit /\ worker' = [worker EXCEPT ![w] = Idle]
  BY <1>1, <1>3 DEF Kill, KillHorse
<1>4. CASE (\E d \in Round : HandlePrEvent(d)) \/ \E p \in Pr : Push(p) \/ Sweep(p)
  BY <1>4 DEF HandlePrEvent, Push, Sweep, pool
<1>5. CASE Limit \/ Lift \/ CoderStart \/ CoderAsk \/ CoderEnd \/ Tick \/ NewDay
  BY <1>5 DEF Limit, Lift, CoderStart, CoderAsk, CoderEnd, Tick, NewDay, pool
<1>6. ~\E r \in Role : Retune(r)
  BY <1>1 DEF Retune
<1> QED
  BY <1>2, <1>3, <1>4, <1>5, <1>6 DEF Next

LEMMA CoverStep ==
  ASSUME AdmissionInv, CountsCover, Undisturbed, Next
  PROVE  CountsCover'
<1>0. /\ ReviewOK /\ slots \in [Role -> Int] /\ \A w \in Worker : worker[w] \in Work
      /\ StartLimit # 0
  BY AdmissionAssumption DEF AdmissionInv, TypeOK, ReviewOK, PoolOK, SlotRange
<1>1. ASSUME NEW r \in Role
      PROVE  limit'[r] = StartLimit /\ HolderCount(r)' <= slots'[r]
  <2>1. CountEffect(r)
    BY StepEffect, EffectInNumbers DEF AdmissionInv
  <2>2. HolderCount(r) \in Nat /\ slots[r] \in Int /\ HolderCount(r) <= slots[r]
    BY <1>0, CountsAreNat DEF CountsCover
  <2>3. ~\E w \in Worker : Uncounted(w)
    BY DEF CountsCover, Uncounted, Engaged
  <2>4. ResetCause(r) => HolderCount(r) = 0
    BY FS_EmptySet DEF ResetCause, CountsCover, HolderCount
  <2>5. HolderCount(r)' <= slots'[r]
    BY <2>1, <2>2, <2>3, <2>4 DEF CountEffect, KeepFaults
  <2> QED
    BY <2>5, WhereWorkersGo DEF CountsCover
<1>2. ASSUME NEW u \in Worker
      PROVE  worker'[u].at \notin {"floor", "dead"} /\ (Engaged(u)' => worker'[u].counted)
  <2>1. worker[u].at \notin {"floor", "dead"} /\ (Engaged(u) => worker[u].counted)
    BY DEF CountsCover
  <2>2. CASE worker' = worker
    BY <2>1, <2>2 DEF Engaged
  <2>3. ASSUME NEW w \in Worker, NEW d \in Round, NEW r \in Role, Take(w, d, r)
        PROVE  worker'[u].at \notin {"floor", "dead"} /\ (Engaged(u)' => worker'[u].counted)
    <3>1. CASE u = w
      BY <1>0, <2>3, <3>1 DEF Take, CountsCover, ReviewOK, Idle
    <3>2. CASE u # w
      BY <1>0, <2>1, <2>3, <3>2 DEF Take, ReviewOK, Engaged
    <3> QED
      BY <3>1, <3>2
  <2>4. ASSUME NEW w \in Worker, worker' = [worker EXCEPT ![w] = Idle]
        PROVE  worker'[u].at \notin {"floor", "dead"} /\ (Engaged(u)' => worker'[u].counted)
    BY <1>0, <2>1, <2>4 DEF ReviewOK, Engaged, Idle
  <2>5. ASSUME NEW w \in Worker, NEW got \in {"verdict", "warn", "error", "limited"}, Ended(w, got)
        PROVE  worker'[u].at \notin {"floor", "dead"} /\ (Engaged(u)' => worker'[u].counted)
    BY <1>0, <2>1, <2>5 DEF Ended, ReviewOK, Engaged, Work
  <2> QED
    BY <2>2, <2>3, <2>4, <2>5, WhereWorkersGo
<1> QED
  BY <1>1, <1>2 DEF CountsCover

\* A job is let to work only by a count within the limit.
LEMMA LimitStep ==
  ASSUME AdmissionInv, CountsCover, Undisturbed, Next, NEW r \in Role,
         Cardinality(AtWork(r)) <= StartLimit
  PROVE  Cardinality(AtWork(r))' <= StartLimit
<1>0. /\ ReviewOK /\ slots \in [Role -> Int] /\ \A w \in Worker : worker[w] \in Work
      /\ StartLimit \in Nat /\ StartLimit # 0 /\ IsFiniteSet(Worker)
  BY AdmissionAssumption DEF AdmissionInv, TypeOK, ReviewOK, PoolOK, SlotRange
<1>1. AtWork(r) \subseteq Worker /\ AtWork(r)' \subseteq Worker
  BY DEF AtWork
<1>2. IsFiniteSet(AtWork(r)) /\ Cardinality(AtWork(r)) \in Nat
  BY <1>0, <1>1, FS_Subset, FS_CardinalityType
<1>3. CASE AtWork(r)' \subseteq AtWork(r)
  <2>1. Cardinality(AtWork(r)') <= Cardinality(AtWork(r)) /\ Cardinality(AtWork(r)') \in Nat
    BY <1>2, <1>3, FS_Subset, FS_CardinalityType
  <2> QED
    BY <1>0, <1>2, <2>1
<1>4. ASSUME NEW w \in Worker, NEW d \in Round, NEW q \in Role, Take(w, d, q)
      PROVE  Cardinality(AtWork(r))' <= StartLimit
  <2>1. CASE r = q /\ Room(q)
    <3>1. limit[q] = StartLimit /\ slots[q] + 1 <= StartLimit
      BY <1>0, <2>1 DEF Room, CountsCover
    <3>2. slots'[q] = slots[q] + 1
      BY <1>0, <1>4, <3>1 DEF Take, AcquireSlot, SetSlots
    <3>3. HolderCount(r)' <= slots'[r]
      BY CoverStep DEF CountsCover
    <3>4. AtWork(r)' \subseteq Holders(r)'
      BY CoverStep DEF CountsCover, AtWork, Holders, Holds, Engaged
    <3>5. IsFiniteSet(Holders(r)')
      BY <1>0, FS_Subset DEF Holders
    <3>6. /\ Cardinality(AtWork(r)') <= Cardinality(Holders(r)')
          /\ Cardinality(AtWork(r)') \in Nat /\ Cardinality(Holders(r)') \in Nat
      BY <3>4, <3>5, FS_Subset, FS_CardinalityType
    <3>7. Cardinality(Holders(r)') <= slots'[r] /\ slots'[r] <= StartLimit /\ slots'[r] \in Int
      BY <1>0, <2>1, <3>1, <3>2, <3>3 DEF HolderCount
    <3> QED
      BY <1>0, <3>6, <3>7
  <2>2. CASE ~(r = q /\ Room(q))
    <3>1. AtWork(r)' \subseteq AtWork(r)
      BY <1>0, <1>4, <2>2 DEF Take, ReviewOK, AtWork, Idle
    <3> QED
      BY <1>3, <3>1
  <2> QED
    BY <2>1, <2>2
<1>5. ASSUME NEW w \in Worker, worker' = [worker EXCEPT ![w] = Idle]
      PROVE  AtWork(r)' \subseteq AtWork(r)
  BY <1>0, <1>5 DEF ReviewOK, AtWork, Idle
<1>6. ASSUME NEW w \in Worker, NEW got \in {"verdict", "warn", "error", "limited"}, Ended(w, got)
      PROVE  AtWork(r)' \subseteq AtWork(r)
  BY <1>0, <1>6 DEF Ended, ReviewOK, AtWork, Work
<1>7. CASE worker' = worker
  BY <1>3, <1>7 DEF AtWork
<1> QED
  BY <1>3, <1>4, <1>5, <1>6, <1>7, WhereWorkersGo

LimitInv == Undisturbed => CountsCover /\ LimitHolds

\* Unless a worker's start zeroes the counters or the limit is changed under the jobs, no
\* more of a role's jobs are at work than its limit, although each counts itself before it
\* is refused and takes the count back in a step of its own (acquire_slot, release_slot).
THEOREM LimitIsKept == Spec => []LimitHolds
<1>1. Init => LimitInv
  <2> SUFFICES ASSUME Init, Undisturbed
               PROVE  CountsCover /\ LimitHolds
    BY DEF LimitInv
  <2>1. \A r \in Role : Holders(r) = {} /\ AtWork(r) = {}
    BY DEF Init, Idle, Holders, Holds, AtWork
  <2>2. \A r \in Role : limit[r] = StartLimit
    BY DEF Init, Undisturbed, May
  <2>3. CountsCover
    <3>1. \A r \in Role : HolderCount(r) = 0 /\ slots[r] = 0
      BY <2>1, FS_EmptySet DEF Init, HolderCount
    <3>2. \A w \in Worker : worker[w].at = "idle"
      BY DEF Init, Idle
    <3> QED
      BY <2>2, <3>1, <3>2 DEF CountsCover, Engaged
  <2>4. LimitHolds
    BY <2>1, FS_EmptySet, AdmissionAssumption DEF LimitHolds
  <2> QED
    BY <2>3, <2>4
<1>2. AdmissionInv /\ LimitInv /\ [Next]_vars => LimitInv'
  <2> SUFFICES ASSUME AdmissionInv, LimitInv, [Next]_vars, Undisturbed'
               PROVE  CountsCover' /\ LimitHolds'
    BY DEF LimitInv
  <2>1. CASE UNCHANGED vars
    BY <2>1 DEF vars, pool, LimitInv, LimitHolds, Undisturbed, CountsCover, AtWork, Engaged,
                HolderCount, Holders, Holds
  <2>2. CASE Next
    <3>1. Undisturbed
      BY <2>2, PoolStep DEF AdmissionInv, Undisturbed
    <3>2. CountsCover /\ \A r \in Role : Cardinality(AtWork(r)) <= StartLimit
      BY <3>1 DEF LimitInv, LimitHolds, Undisturbed
    <3>3. CountsCover' /\ \A r \in Role : Cardinality(AtWork(r))' <= StartLimit
      BY <2>2, <3>1, <3>2, CoverStep, LimitStep
    <3> QED
      BY <3>3 DEF LimitHolds
  <2> QED
    BY <2>1, <2>2
<1>3. LimitInv => LimitHolds
  BY DEF LimitInv, LimitHolds, Undisturbed
<1> QED
  BY <1>1, <1>2, <1>3, AdmissionInvHolds, PTL DEF Spec

-----------------------------------------------------------------------------
(* The day's calls.                                                        *)

\* A job that runs has one worker, a round that is to come has no job yet, and one that was
\* not announced is not to come.
AtJob(w) == worker[w].at \in {"refused", "work"}
SameJob(u, v) == worker[u].round = worker[v].round /\ worker[u].role = worker[v].role
JobsFit ==
  /\ \A w \in Worker : AtJob(w) => job[worker[w].round][worker[w].role] = "running"
  /\ \A u, v \in Worker : AtJob(u) /\ AtJob(v) /\ SameJob(u, v) => u = v
NoJobYet(d) == \A r \in Role : job[d][r] = "none"
RoundsFollow ==
  /\ \A d \in event : NoJobYet(d)
  /\ \A p \in Pr, n \in 0..MostRounds : n > round[p] => <<p, n>> \notin event /\ NoJobYet(<<p, n>>)

\* A worker that leaves its job, the job gone or queued again, leaves the others alone.
LEMMA LeavesJob ==
  ASSUME ReviewOK, WorkFits, JobsFit, NEW w \in Worker, AtJob(w),
         NEW v \in Work, v.at \notin {"refused", "work"},
         worker' = [worker EXCEPT ![w] = v],
         NEW s \in {"none", "queued"},
         job' = [job EXCEPT ![worker[w].round][worker[w].role] = s]
  PROVE  JobsFit'
<1>1. worker[w].round \in Round /\ worker[w].role \in Role
  BY DEF WorkFits, Engaged, AtJob
<1>2. ASSUME NEW u \in Worker, AtJob(u)'
      PROVE  /\ u # w /\ AtJob(u) /\ worker'[u] = worker[u]
             /\ job'[worker[u].round][worker[u].role] = "running"
  <2>1. u # w /\ AtJob(u) /\ worker'[u] = worker[u]
    BY <1>2 DEF ReviewOK, AtJob
  <2>2. worker[u].round \in Round /\ worker[u].role \in Role
    BY <2>1 DEF WorkFits, Engaged, AtJob
  <2>3. ~SameJob(u, w) /\ job[worker[u].round][worker[u].role] = "running"
    BY <2>1 DEF JobsFit
  <2> QED
    BY <1>1, <2>1, <2>2, <2>3 DEF ReviewOK, SameJob
<1>3. \A u, x \in Worker : AtJob(u)' /\ AtJob(x)' /\ SameJob(u, x)' => u = x
  BY <1>2 DEF JobsFit, SameJob
<1>4. \A u \in Worker : AtJob(u)' => job'[worker'[u].round][worker'[u].role] = "running"
  BY <1>2
<1> QED
  BY <1>3, <1>4 DEF JobsFit

\* A step that leaves the jobs alone puts no worker at one.
LEMMA OffJob ==
  ASSUME ReviewOK, JobsFit, NEW w \in Worker, NEW v \in Work,
         ~(v.at \in {"refused", "work"}), worker' = [worker EXCEPT ![w] = v], job' = job
  PROVE  JobsFit'
<1>1. \A u \in Worker : AtJob(u)' => AtJob(u) /\ worker'[u] = worker[u]
  BY DEF ReviewOK, AtJob
<1> QED
  BY <1>1 DEF JobsFit, SameJob

LEMMA JobsStep ==
  ASSUME ReviewOK, WorkFits, JobsFit, RoundsFollow, [Next]_vars
  PROVE  JobsFit'
<1>0. /\ Idle \in Work /\ Idle.at = "idle" /\ \A w \in Worker : worker[w] \in Work
      /\ [Idle EXCEPT !.at = "dead"] \in Work /\ [Idle EXCEPT !.at = "dead"].at = "dead"
  BY IdleIsWork DEF Idle, Work, ReviewOK
<1>1. ASSUME UNCHANGED <<worker, job>>
      PROVE  JobsFit'
  BY <1>1 DEF JobsFit, AtJob, SameJob
<1>2. ASSUME NEW d \in Round, HandlePrEvent(d)
      PROVE  JobsFit'
  <2>0. d \in event /\ worker' = worker
    BY <1>2 DEF HandlePrEvent
  <2>1. \A c \in Round \ {d} : job'[c] = job[c]
    BY <1>2 DEF HandlePrEvent, Queued, ReviewOK
  <2>2. \A w \in Worker : AtJob(w) => worker[w].round \in Round \ {d}
    BY <2>0 DEF WorkFits, Engaged, AtJob, JobsFit, RoundsFollow, NoJobYet
  <2>3. \A w \in Worker : AtJob(w)' <=> AtJob(w)
    BY <2>0 DEF AtJob
  <2>4. \A u, v \in Worker : AtJob(u)' /\ AtJob(v)' /\ SameJob(u, v)' => u = v
    BY <2>0, <2>3 DEF JobsFit, SameJob
  <2>5. \A w \in Worker : AtJob(w)' => job'[worker'[w].round][worker'[w].role] = "running"
    BY <2>0, <2>1, <2>2, <2>3 DEF JobsFit
  <2> QED
    BY <2>4, <2>5 DEF JobsFit
<1>3. ASSUME NEW p \in Pr, Push(p) \/ Sweep(p)
      PROVE  JobsFit'
  BY <1>1, <1>3 DEF Push, Sweep
<1>4. ASSUME NEW w \in Worker, Refuse(w)
      PROVE  JobsFit'
  <2>1. AtJob(w)
    BY <1>4 DEF Refuse, AtJob
  <2> QED
    BY <1>0, <1>4, <2>1, LeavesJob DEF Refuse, Ends
<1>5. ASSUME NEW w \in Worker, Judge(w) \/ ReviewerFails(w) \/ OthersFail(w)
      PROVE  JobsFit'
  <2>1. PICK got \in {"verdict", "warn", "error", "limited"} : Ended(w, got)
    BY <1>5 DEF Judge, ReviewerFails, OthersFail
  <2> DEFINE v == [worker[w] EXCEPT !.at = "release", !.got = got]
  <2>2. worker' = [worker EXCEPT ![w] = v] /\ v \in Work /\ v.at = "release" /\ AtJob(w)
    BY <1>0, <2>1 DEF Ended, ReviewOK, Work, AtJob
  <2>3. \E s \in {"none", "queued"} :
          job' = [job EXCEPT ![worker[w].round][worker[w].role] = s]
    BY <1>5 DEF Judge, ReviewerFails, OthersFail, Ends
  <2> HIDE DEF v
  <2> QED
    BY <2>2, <2>3, LeavesJob
<1>6. ASSUME NEW w \in Worker, Release(w)
      PROVE  JobsFit'
  <2> DEFINE low == [worker[w] EXCEPT !.at = "floor"]
  <2>1. low \in Work /\ low.at = "floor"
    BY <1>0 DEF Work
  <2>2. worker' = [worker EXCEPT ![w] = low] \/ worker' = [worker EXCEPT ![w] = Idle]
    BY <1>6, <1>0 DEF Release, ReviewOK
  <2>3. job' = job
    BY <1>6 DEF Release, review
  <2> HIDE DEF low
  <2> QED
    BY <1>0, <2>1, <2>2, <2>3, OffJob
<1>7. ASSUME NEW w \in Worker, Floor(w) \/ Start(w)
      PROVE  JobsFit'
  BY <1>0, <1>7, OffJob DEF Floor, Start, review
<1>8. ASSUME NEW w \in Worker, Kill(w) \/ KillHorse(w)
      PROVE  JobsFit'
  <2>1. PICK v \in Work : worker' = [worker EXCEPT ![w] = v] /\ v.at \in {"idle", "dead"}
    BY <1>0, <1>8 DEF Kill, KillHorse
  <2>2. Working(w) /\ Drop(w)
    BY <1>8 DEF Kill, KillHorse
  <2>3. CASE AtJob(w)
    BY <2>1, <2>2, <2>3, LeavesJob DEF Drop, Ends, AtJob
  <2>4. CASE ~AtJob(w)
    BY <2>1, <2>2, <2>4, OffJob DEF Drop, AtJob, Working
  <2> QED
    BY <2>3, <2>4
<1>9. ASSUME NEW w \in Worker, NEW d \in Round, NEW r \in Role, Take(w, d, r)
      PROVE  JobsFit'
  <2> DEFINE v == [Idle EXCEPT !.at = IF Room(r) THEN "work" ELSE "refused", !.round = d, !.role = r,
                    !.counted = limit[r] # 0]
  <2>1. v.round = d /\ v.role = r /\ worker' = [worker EXCEPT ![w] = v]
    BY <1>9 DEF Take, Idle
  <2> HIDE DEF v
  <2>2. job[d][r] = "queued" /\ job' = [job EXCEPT ![d][r] = "running"]
    BY <1>9 DEF Take
  <2>3. \A u \in Worker \ {w} : AtJob(u)' =>
          /\ AtJob(u) /\ worker'[u] = worker[u] /\ worker[u].round \in Round
          /\ worker[u].role \in Role /\ job[worker[u].round][worker[u].role] = "running"
    BY <2>1 DEF ReviewOK, AtJob, JobsFit, WorkFits, Engaged
  <2>4. worker'[w] = v
    BY <2>1 DEF ReviewOK
  <2>5. \A u \in Worker : AtJob(u)' => job'[worker'[u].round][worker'[u].role] = "running"
    BY <2>1, <2>2, <2>3, <2>4 DEF ReviewOK
  <2>6. \A u \in Worker \ {w} : AtJob(u)' => ~SameJob(u, w)' /\ ~SameJob(w, u)'
    BY <2>1, <2>2, <2>3, <2>4 DEF SameJob
  <2>7. \A u, x \in Worker : AtJob(u)' /\ AtJob(x)' /\ SameJob(u, x)' => u = x
    BY <2>3, <2>6 DEF JobsFit, SameJob
  <2> QED
    BY <2>5, <2>7 DEF JobsFit
<1>10. CASE Limit \/ Lift \/ CoderStart \/ CoderAsk \/ CoderEnd \/ Tick \/ NewDay
              \/ \E r \in Role : Retune(r)
  BY <1>1, <1>10 DEF Limit, Lift, CoderStart, CoderAsk, CoderEnd, Tick, NewDay, Retune, review
<1>11. CASE UNCHANGED vars
  BY <1>1, <1>11 DEF vars, review
<1> QED
  BY <1>2, <1>3, <1>4, <1>5, <1>6, <1>7, <1>8, <1>9, <1>10, <1>11 DEF Next, JobStep

\* What becomes of the jobs: only the fan-out of a round brings new ones, a job ends or is
\* queued again with the worker that was at it, and a worker takes one that was queued.
JobMoves ==
  \/ job' = job
  \/ \E w \in Worker, s \in {"none", "queued"} :
       AtJob(w) /\ job' = [job EXCEPT ![worker[w].round][worker[w].role] = s]
  \/ \E d \in Round, r \in Role : job[d][r] = "queued" /\ job' = [job EXCEPT ![d][r] = "running"]

LEMMA JobsMove ==
  ASSUME [Next]_vars, ~\E d \in Round : HandlePrEvent(d)
  PROVE  JobMoves
<1>1. ASSUME NEW w \in Worker, Kill(w) \/ KillHorse(w)
      PROVE  JobMoves
  BY <1>1 DEF Kill, KillHorse, Working, Drop, Ends, AtJob, JobMoves
<1>2. ASSUME NEW w \in Worker, Refuse(w) \/ Judge(w) \/ ReviewerFails(w) \/ OthersFail(w)
      PROVE  JobMoves
  BY <1>2 DEF Refuse, Judge, ReviewerFails, OthersFail, Ended, Ends, AtJob, JobMoves
<1>3. ASSUME NEW w \in Worker, NEW d \in Round, NEW r \in Role, Take(w, d, r)
      PROVE  JobMoves
  BY <1>3 DEF Take, JobMoves
<1>4. ASSUME NEW w \in Worker, Release(w) \/ Floor(w) \/ Start(w)
      PROVE  JobMoves
  BY <1>4 DEF Release, Floor, Start, review, JobMoves
<1>5. CASE Limit \/ Lift \/ CoderStart \/ CoderAsk \/ CoderEnd \/ Tick \/ NewDay
             \/ (\E r \in Role : Retune(r)) \/ (\E p \in Pr : Push(p) \/ Sweep(p))
  BY <1>5 DEF Limit, Lift, CoderStart, CoderAsk, CoderEnd, Tick, NewDay, Retune, Push, Sweep, review,
              JobMoves
<1>6. CASE UNCHANGED vars
  BY <1>6 DEF vars, review, JobMoves
<1> QED
  BY <1>1, <1>2, <1>3, <1>4, <1>5, <1>6 DEF Next, JobStep

LEMMA NoNewJobs ==
  ASSUME ReviewOK, WorkFits, JobsFit, JobMoves
  PROVE  \A d \in Round, r \in Role : job'[d][r] # "none" => job[d][r] # "none"
<1> SUFFICES ASSUME NEW d \in Round, NEW r \in Role, job'[d][r] # "none"
             PROVE  job[d][r] # "none"
  OBVIOUS
<1>1. ASSUME NEW w \in Worker, NEW s \in {"none", "queued"}, AtJob(w),
             job' = [job EXCEPT ![worker[w].round][worker[w].role] = s]
      PROVE  job[d][r] # "none"
  <2>1. /\ worker[w].round \in Round /\ worker[w].role \in Role
        /\ job[worker[w].round][worker[w].role] = "running"
    BY <1>1 DEF AtJob, WorkFits, Engaged, JobsFit
  <2>2. CASE worker[w].round = d /\ worker[w].role = r
    BY <2>1, <2>2
  <2>3. CASE ~(worker[w].round = d /\ worker[w].role = r)
    BY <1>1, <2>1, <2>3 DEF ReviewOK
  <2> QED
    BY <2>2, <2>3
<1>2. ASSUME NEW c \in Round, NEW q \in Role, job[c][q] = "queued",
             job' = [job EXCEPT ![c][q] = "running"]
      PROVE  job[d][r] # "none"
  BY <1>2 DEF ReviewOK
<1> QED
  BY <1>1, <1>2 DEF JobMoves

LEMMA RoundsStep ==
  ASSUME ReviewOK, WorkFits, JobsFit, RoundsFollow, round' \in [Pr -> 0..MostRounds],
         [Next]_vars
  PROVE  RoundsFollow'
<1>1. ASSUME NEW d \in Round, HandlePrEvent(d)
      PROVE  RoundsFollow'
  <2>1. d \in event /\ event' = event \ {d} /\ round' = round
    BY <1>1 DEF HandlePrEvent
  <2>2. \A c \in Round \ {d} : job'[c] = job[c]
    BY <1>1 DEF HandlePrEvent, Queued, ReviewOK
  <2>3. \A c \in event' : NoJobYet(c)'
    BY <2>1, <2>2 DEF RoundsFollow, NoJobYet, ReviewOK
  <2>4. ASSUME NEW p \in Pr, NEW n \in 0..MostRounds, n > round'[p]
        PROVE  <<p, n>> \notin event' /\ NoJobYet(<<p, n>>)'
    <3>1. <<p, n>> \notin event /\ NoJobYet(<<p, n>>) /\ <<p, n>> \in Round
      BY <2>1, <2>4 DEF RoundsFollow, Round
    <3> QED
      BY <2>1, <2>2, <3>1 DEF NoJobYet
  <2> QED
    BY <2>3, <2>4 DEF RoundsFollow
<1>2. CASE ~\E d \in Round : HandlePrEvent(d)
  <2>1. \A d \in Round : NoJobYet(d) => NoJobYet(d)'
    BY <1>2, JobsMove, NoNewJobs DEF NoJobYet
  <2>2. CASE \E p \in Pr : Announce(p)
    <3>1. PICK p \in Pr : Announce(p)
      BY <2>2
    <3>2. round \in [Pr -> 0..MostRounds] /\ MostRounds \in Nat
      BY RoundsAreFinite DEF ReviewOK
    <3>3. round' = [round EXCEPT ![p] = @ + 1] /\ event' = event \cup {<<p, round[p] + 1>>}
      BY <3>1 DEF Announce
    <3>4. \A q \in Pr : round'[q] >= round[q] /\ round[q] \in Nat
      BY <3>2, <3>3
    <3>5. ASSUME NEW q \in Pr, NEW n \in 0..MostRounds, n > round'[q]
          PROVE  <<q, n>> \notin event' /\ NoJobYet(<<q, n>>)'
      <4>1. n > round[q] /\ <<q, n>> \in Round
        BY <3>2, <3>3, <3>4, <3>5 DEF Round
      <4>2. <<q, n>> \notin event /\ NoJobYet(<<q, n>>)
        BY <4>1 DEF RoundsFollow
      <4>3. ~(q = p /\ n = round[p] + 1)
        BY <3>2, <3>3, <3>5
      <4> QED
        BY <2>1, <3>3, <4>1, <4>2, <4>3
    <3>6. ASSUME NEW d \in event'
          PROVE  NoJobYet(d)'
      <4>1. CASE d \in event
        BY <2>1, <4>1 DEF RoundsFollow, ReviewOK
      <4>2. CASE d = <<p, round[p] + 1>>
        <5>1. round[p] + 1 \in 0..MostRounds
          BY <3>2, <3>3
        <5>2. d \in Round /\ NoJobYet(d)
          BY <3>2, <4>2, <5>1 DEF RoundsFollow, Round
        <5> QED
          BY <2>1, <5>2
      <4> QED
        BY <3>3, <4>1, <4>2
    <3> QED
      BY <3>5, <3>6 DEF RoundsFollow
  <2>3. CASE ~\E p \in Pr : Announce(p)
    <3>1. UNCHANGED <<round, event>>
      BY <1>2, <2>3
      DEF Next, vars, review, JobStep, Push, Sweep, Refuse, Judge, ReviewerFails, OthersFail,
          Release, Floor, Start, Take, Kill, KillHorse, Retune, Limit, Lift, CoderStart, CoderAsk,
          CoderEnd, Tick, NewDay
    <3>2. \A d \in event' : NoJobYet(d)'
      BY <2>1, <3>1 DEF RoundsFollow, ReviewOK
    <3>3. ASSUME NEW p \in Pr, NEW n \in 0..MostRounds, n > round'[p]
          PROVE  <<p, n>> \notin event' /\ NoJobYet(<<p, n>>)'
      BY <2>1, <3>1, <3>3 DEF RoundsFollow, Round
    <3> QED
      BY <3>2, <3>3 DEF RoundsFollow
  <2> QED
    BY <2>2, <2>3
<1> QED
  BY <1>1, <1>2

\* The calls that were let in and not made yet: of verdict jobs, and of the coder.
AdmittedCount == Cardinality(Admitted)
CoderLetIn == IF coder = "none" THEN 0 ELSE 1

LEMMA AdmittedIsFinite ==
  /\ IsFiniteSet(Admitted) /\ AdmittedCount \in Nat
  /\ Admitted' \subseteq Admitted => AdmittedCount' \in Nat /\ AdmittedCount' <= AdmittedCount
<1>1. Admitted \subseteq Round \X Role
  BY DEF Admitted
<1>2. IsFiniteSet(Admitted) /\ Cardinality(Admitted) \in Nat
  BY <1>1, RoundsAreFinite, FS_Subset, FS_CardinalityType
<1>3. ASSUME Admitted' \subseteq Admitted
      PROVE  Cardinality(Admitted') <= Cardinality(Admitted) /\ Cardinality(Admitted') \in Nat
  BY <1>2, <1>3, FS_Subset, FS_CardinalityType
<1> QED
  BY <1>2, <1>3 DEF AdmittedCount

\* Only the fan-out of a round lets a job in.
LEMMA NobodyLetIn ==
  ASSUME ReviewOK, WorkFits, JobsFit, JobMoves
  PROVE  AdmittedCount' \in Nat /\ AdmittedCount' <= AdmittedCount
<1>1. Admitted' \subseteq Admitted
  BY NoNewJobs DEF Admitted
<1> QED
  BY <1>1, AdmittedIsFinite

\* The job of a worker at its end was let in, and goes.
LEMMA EndedLeaves ==
  ASSUME ReviewOK, WorkFits, JobsFit, NEW w \in Worker, AtJob(w), Ends(w)
  PROVE  AdmittedCount' = AdmittedCount - 1
<1> DEFINE j == <<worker[w].round, worker[w].role>>
<1>1. /\ worker[w].round \in Round /\ worker[w].role \in Role
      /\ job[worker[w].round][worker[w].role] = "running"
  BY DEF AtJob, WorkFits, Engaged, JobsFit
<1>2. j \in Admitted
  BY <1>1 DEF Admitted
<1>3. ASSUME NEW k \in Round \X Role
      PROVE  k \in Admitted' <=> k \in Admitted /\ k # j
  <2>1. PICK d \in Round, r \in Role : k = <<d, r>>
    OBVIOUS
  <2>2. k \in Admitted' <=> job'[d][r] # "none"
    BY <2>1 DEF Admitted
  <2>3. k \in Admitted <=> job[d][r] # "none"
    BY <2>1 DEF Admitted
  <2>4. k = j <=> d = worker[w].round /\ r = worker[w].role
    BY <2>1
  <2> HIDE DEF j
  <2>5. job'[d][r] = IF k = j THEN "none" ELSE job[d][r]
    BY <1>1, <2>4 DEF Ends, ReviewOK
  <2> QED
    BY <2>2, <2>3, <2>5
<1> HIDE DEF j
<1>4. Admitted' = Admitted \ {j}
  <2>1. Admitted \subseteq Round \X Role /\ Admitted' \subseteq Round \X Role
    BY DEF Admitted
  <2> QED
    BY <1>3, <2>1
<1>5. Cardinality(Admitted \ {j}) = Cardinality(Admitted) - 1
  BY <1>2, AdmittedIsFinite, FS_RemoveElement
<1> QED
  BY <1>4, <1>5 DEF AdmittedCount

LEMMA SumFalls ==
  ASSUME NEW c \in Nat, NEW a \in Nat, NEW k \in Nat,
         NEW c2 \in Nat, NEW a2 \in Nat, NEW k2 \in Nat,
         \/ c2 <= c /\ a2 <= a /\ k2 <= k
         \/ c2 <= c + 1 /\ a2 <= a /\ k2 <= k - 1
         \/ c2 <= c + 1 /\ a2 <= a - 1 /\ k2 <= k
  PROVE  c2 + (a2 + k2) <= c + (a + k)
  OBVIOUS

LEMMA NothingIsLetInPastTheCap ==
  ASSUME TypeOK, WorkFits, JobsFit, Capped, calls >= DailyCap, ~TriesAgain, [Next]_vars
  PROVE  calls' + LetIn' <= calls + LetIn
<1>0. /\ ReviewOK /\ calls \in Nat /\ AdmittedCount \in Nat
      /\ CoderLetIn \in {0, 1} /\ CoderLetIn' \in {0, 1}
  BY AdmittedIsFinite, RoundsAreFinite DEF TypeOK, GuardOK, CoderLetIn
<1>1. OverBudget(TRUE) /\ Readable = {TRUE}
  BY DEF Capped, Readable, OverBudget
<1> DEFINE Falls == calls' + (AdmittedCount' + CoderLetIn') <= calls + (AdmittedCount + CoderLetIn)
<1>2. SUFFICES Falls
  BY DEF LetIn, AdmittedCount, CoderLetIn
<1>3. ASSUME calls' = calls, CoderLetIn' = CoderLetIn, JobMoves
      PROVE  Falls
  <2>1. AdmittedCount' \in Nat /\ AdmittedCount' <= AdmittedCount
    BY <1>0, <1>3, NobodyLetIn
  <2>2. calls' \in Nat /\ calls' <= calls /\ CoderLetIn' <= CoderLetIn
    BY <1>0, <1>3
  <2> QED
    BY <1>0, <2>1, <2>2, SumFalls
<1>4. ASSUME NEW d \in Round, HandlePrEvent(d)
      PROVE  Falls
  <2>1. job' = job /\ calls' = calls /\ coder' = coder
    BY <1>1, <1>4 DEF HandlePrEvent
  <2> QED
    BY <1>3, <2>1 DEF JobMoves, CoderLetIn
<1>5. CASE ~\E d \in Round : HandlePrEvent(d)
  <2>0. JobMoves
    BY <1>5, JobsMove
  <2>1. ~CoderStart
    BY <1>1 DEF CoderStart
  <2>2. CASE CoderEnd
    <3>1. CoderLetIn = 1 /\ CoderLetIn' = 0 /\ calls' \in {calls, calls + 1}
      BY <2>2 DEF CoderEnd, CoderLetIn, CallMade
    <3>2. AdmittedCount' \in Nat /\ AdmittedCount' <= AdmittedCount
      BY <1>0, <2>0, NobodyLetIn
    <3>3. calls' \in Nat /\ calls' <= calls + 1 /\ CoderLetIn' <= CoderLetIn - 1
      BY <1>0, <3>1
    <3> QED
      BY <1>0, <3>2, <3>3, SumFalls
  <2>3. CASE NewDay
    <3>1. calls' = 0 /\ coder' = coder
      BY <2>3 DEF NewDay
    <3>2. AdmittedCount' \in Nat /\ AdmittedCount' <= AdmittedCount /\ CoderLetIn' = CoderLetIn
      BY <1>0, <2>0, <3>1, NobodyLetIn DEF CoderLetIn
    <3>3. calls' \in Nat /\ calls' <= calls /\ CoderLetIn' <= CoderLetIn
      BY <1>0, <3>1, <3>2
    <3> QED
      BY <1>0, <3>2, <3>3, SumFalls
  <2>4. ASSUME NEW w \in Worker, Judge(w) \/ ReviewerFails(w) \/ OthersFail(w)
        PROVE  Falls
    <3>1. CoderLetIn' = CoderLetIn /\ calls' \in {calls, calls + 1} /\ AtJob(w)
      BY <2>4 DEF Judge, ReviewerFails, OthersFail, Ended, MayAsk, CallMade, CoderLetIn, AtJob
    <3>2. Ends(w)
      <4>1. /\ worker[w].at = "work" /\ worker[w].round \in Round /\ worker[w].role \in Role
        BY <2>4 DEF Judge, ReviewerFails, OthersFail, Ended, WorkFits, Engaged
      <4>2. ~(job' = [job EXCEPT ![worker[w].round][worker[w].role] = "queued"])
        BY <1>0, <4>1 DEF TriesAgain, ReviewOK
      <4> QED
        BY <2>4, <4>2 DEF Judge, ReviewerFails, OthersFail
    <3>3. AdmittedCount' = AdmittedCount - 1
      BY <1>0, <3>1, <3>2, EndedLeaves
    <3>4. calls' \in Nat /\ calls' <= calls + 1 /\ CoderLetIn' <= CoderLetIn
      BY <1>0, <3>1
    <3>5. AdmittedCount' \in Nat /\ AdmittedCount' <= AdmittedCount - 1
      <4>1. AdmittedCount' \in Nat
        BY <1>0, <2>0, NobodyLetIn
      <4> QED
        BY <1>0, <3>3, <4>1
    <3> QED
      BY <1>0, <3>4, <3>5, SumFalls
  <2>5. CASE CoderAsk
    BY <1>3, <2>0, <2>5 DEF CoderAsk, CoderLetIn, budget
  <2>6. ASSUME UNCHANGED <<calls, coder>>
        PROVE  Falls
    BY <1>3, <2>0, <2>6 DEF CoderLetIn
  <2>7. CASE Limit \/ Lift \/ Tick \/ (\E r \in Role : Retune(r))
               \/ (\E p \in Pr : Push(p) \/ Sweep(p)) \/ UNCHANGED vars
    BY <2>6, <2>7 DEF Limit, Lift, Tick, Retune, Push, Sweep, vars, budget
  <2>8. ASSUME NEW w \in Worker, Kill(w) \/ KillHorse(w)
        PROVE  Falls
    BY <2>6, <2>8 DEF Kill, KillHorse, budget
  <2>9. ASSUME NEW w \in Worker, JobStep(w), ~Judge(w), ~ReviewerFails(w), ~OthersFail(w)
        PROVE  Falls
    BY <2>6, <2>9 DEF JobStep, Refuse, Release, Floor, Start, Take, budget
  <2> QED
    BY <1>5, <2>1, <2>2, <2>3, <2>4, <2>5, <2>7, <2>8, <2>9 DEF Next
<1> QED
  BY <1>4, <1>5

\* Whatever is under way when the day's calls reach the cap, and however often the watchdog
\* and pushes announce rounds beside the ones that run, nothing more is let in: calls made
\* and calls let in only go down together, but where RQ tries a job again (over_budget is
\* asked before the fan-out and before the coder's run, the call is made later).
THEOREM OvershootIsLimited == Spec => OvershootIsSettled
<1>1. Init => JobsFit /\ RoundsFollow
  <2> SUFFICES ASSUME Init
               PROVE  JobsFit /\ RoundsFollow
    OBVIOUS
  <2>1. \A w \in Worker : worker[w].at = "idle"
    BY DEF Init, Idle
  <2>2. \A d \in Round : NoJobYet(d)
    BY DEF Init, NoJobYet
  <2>3. \A p \in Pr : round[p] = 0
    BY DEF Init
  <2>4. event \subseteq Round /\ \A p \in Pr, n \in 0..MostRounds : n > 0 => <<p, n>> \notin event
    BY RoundsAreFinite DEF Init, Round
  <2>5. JobsFit
    BY <2>1 DEF JobsFit, AtJob
  <2>6. RoundsFollow
    BY <2>2, <2>3, <2>4 DEF RoundsFollow, Round
  <2> QED
    BY <2>5, <2>6
<1>2. AdmissionInv /\ JobsFit /\ RoundsFollow /\ [Next]_vars => (JobsFit /\ RoundsFollow)'
  <2> SUFFICES ASSUME AdmissionInv, JobsFit, RoundsFollow, [Next]_vars
               PROVE  JobsFit' /\ RoundsFollow'
    OBVIOUS
  <2>1. round' \in [Pr -> 0..MostRounds]
    BY AdmissionStep DEF AdmissionInv, TypeOK, ReviewOK
  <2> QED
    BY <2>1, JobsStep, RoundsStep DEF AdmissionInv, TypeOK
<1>3. AdmissionInv /\ JobsFit /\ [Next]_vars =>
        (Capped /\ calls >= DailyCap /\ ~TriesAgain => calls' + LetIn' <= calls + LetIn)
  BY NothingIsLetInPastTheCap DEF AdmissionInv
<1>4. AdmissionInv /\ JobsFit /\ [Next]_vars =>
        [Capped /\ calls >= DailyCap /\ ~TriesAgain => calls' + LetIn' <= calls + LetIn]_vars
  BY <1>3
<1> QED
  BY <1>1, <1>2, <1>4, AdmissionInvHolds, PTL DEF Spec, OvershootIsSettled

=============================================================================
