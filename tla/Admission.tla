------------------------------ MODULE Admission ------------------------------
(***************************************************************************)
(* What stands between a pull request and the calls of its verdict jobs    *)
(* to a model: the guards on the day's spend, the rate window, the circuit *)
(* breaker of the model (ratelimit.py) and the slots of the role           *)
(* (limits.py), as jobs/handlers.py, jobs/pr_jobs.py, the coder and the    *)
(* watchdog of main.py use them, over several RQ workers (worker.py).      *)
(*                                                                         *)
(* The roles are given one model.  The security scanner is as the tester   *)
(* here, but that the tester may ask for a summary and does without one    *)
(* when there is none; the reviewer waits for its answer.  A step is one   *)
(* command to Redis, but for those of one trip, one fan-out and one sweep. *)
(* Time passes in ticks; the numbers keep their order: a pause is shorter  *)
(* than the streak it counts in.                                           *)
(*                                                                         *)
(* A round is one pr_event of a pull request and the jobs it fans out: of  *)
(* its opening, of a push, or of the watchdog, which goes by the age of    *)
(* the story alone.  Rounds of one pull request may run side by side.      *)
(***************************************************************************)
EXTENDS Integers, FiniteSets

CONSTANTS
  Worker,      \* RQ workers
  Pr,          \* pull requests under review
  StartLimit,  \* max_concurrent_<role> at first
  SlotTtl,     \* the safety TTL of a slot counter
  BaseBackoff, \* _BASE_BACKOFF
  MaxBackoff,  \* _MAX_BACKOFF
  StrikeTtl,   \* _STRIKE_TTL
  WatchCap,    \* _WATCH_ATTEMPT_CAP
  Rpm,         \* max_rpm_<role>
  DailyCap,    \* max_cost_usd_daily, a call costing one
  MaxFaults,   \* bound: faults in a behaviour
  Scenarios    \* the sets of circumstances to explore

Circumstance ==
  { "coder",   \* a coder uses the model of the reviewer
    "boxed",   \* ... in a container of its own
    "limited", \* the provider answers 429 for a while
    "fails",   \* an agent raises, or warns instead of passing or failing
    "kill",    \* a worker's container is killed; it comes back
    "oom",     \* the process RQ forks for a job is killed, its worker goes on
    "retune",  \* the operator turns a concurrency limit off and on
    "rush",    \* the rate limit is on
    "push",    \* a pull request is pushed to while it is reviewed
    "capped",  \* the daily cap is on
    "unread" } \* the day's spend may be unreadable

Role == {"reviewer", "tester"}

MostRounds == WatchCap + MaxFaults    \* sweeps and pushes
Round == Pr \X (0..MostRounds)
PrOf(d) == d[1]

ASSUME AdmissionAssumption ==
  /\ IsFiniteSet(Worker) /\ IsFiniteSet(Pr)
  /\ {StartLimit, SlotTtl, BaseBackoff, Rpm, DailyCap} \subseteq Nat \ {0}
  /\ {MaxBackoff, StrikeTtl, WatchCap, MaxFaults} \subseteq Nat
  /\ BaseBackoff <= MaxBackoff /\ MaxBackoff < StrikeTtl
  /\ Scenarios \subseteq SUBSET Circumstance

VARIABLES
  scenario,  \* the circumstances of this behaviour
  faults,    \* faults so far
  limit,     \* max_concurrent_<role>
  slots,     \* Redis limits:concurrency:<role>
  life,      \* ... and the ticks it has to live, 0 for ever
  round,     \* the last round announced of each pull request
  event,     \* rounds whose pr_event job is queued
  job,       \* the verdict jobs of each round
  judged,    \* the verdicts each pull request has
  worker,    \* what each worker does
  attempts,  \* Redis watch_attempts:<story>
  flagged,   \* Redis stuck:<story>
  provider,  \* whether the provider answers 429
  breaker,   \* Redis ratelimited:<model>, rl_strikes:<model>
  coder,     \* what the coder does
  calls,     \* the day's calls, in the telemetry
  window,    \* Redis limits:rate:<role>:<minute>
  leaked,    \* roles a killed job holds a slot of
  excused    \* pull requests a round of which was lost to something else than a 429, or
             \* that were swept before their round was over

budget == <<calls, window>>
review == <<round, event, job, judged, attempts, flagged, excused>>
pool   == <<limit, slots, life, leaked>>
vars == <<scenario, faults, pool, review, worker, provider, breaker, coder, budget>>

May(c) == c \in scenario
Calm == [pause |-> 0, strikes |-> 0, streak |-> 0]
Idle == [at |-> "idle", round |-> <<0, 0>>, role |-> "none", got |-> "none", counted |-> FALSE]
Work ==
  [at : {"idle", "refused", "work", "release", "floor", "dead"},
   round : Round \cup {Idle.round}, role : Role \cup {"none"}, got : {"none", "verdict", "warn", "error", "limited"},
   counted : BOOLEAN]
MostStrikes == 5
MostCalls == DailyCap + Cardinality(Round) * Cardinality(Role) + MaxFaults

\* No count without a worker or a fault to show for it, and no debt past what resets
\* leave to the workers they overtake.
SlotRange ==
  (0 - 2 * Cardinality(Worker) - MaxFaults)..(Cardinality(Worker) + MaxFaults)
PoolOK ==
  /\ limit \in [Role -> 0..StartLimit] /\ slots \in [Role -> SlotRange]
  /\ life \in [Role -> 0..SlotTtl] /\ leaked \subseteq Role
ReviewOK ==
  /\ round \in [Pr -> 0..MostRounds] /\ event \subseteq Round
  /\ flagged \subseteq Pr /\ excused \subseteq Pr
  /\ job \in [Round -> [Role -> {"none", "queued", "running"}]]
  /\ judged \in [Pr -> SUBSET Role] /\ attempts \in [Pr -> 0..WatchCap]
  /\ worker \in [Worker -> Work]
GuardOK ==
  /\ provider \in {"fine", "limited"}
  /\ breaker \in [pause : 0..MaxBackoff, strikes : 0..MostStrikes, streak : 0..StrikeTtl]
  /\ coder \in {"none", "work", "ok", "limited"}
  /\ calls \in 0..(MostCalls + 1) /\ window \in [Role -> 0..Rpm]

\* The counters keep to their ranges: the slots to SlotRange, the pause to its cap, the
\* watchdog to its attempts.
TypeOK ==
  /\ scenario \in Scenarios /\ faults \in 0..MaxFaults
  /\ PoolOK /\ ReviewOK /\ GuardOK

Init ==
  /\ scenario \in Scenarios /\ faults = 0
  /\ limit \in {[r \in Role |-> n] : n \in IF May("retune") THEN {0, StartLimit} ELSE {StartLimit}}
  /\ slots = [r \in Role |-> 0] /\ life = [r \in Role |-> 0]
  /\ round = [p \in Pr |-> 0]
  /\ event = {<<p, 0>> : p \in Pr} /\ judged = [p \in Pr |-> {}]
  /\ job = [d \in Round |-> [r \in Role |-> "none"]]
  /\ worker = [w \in Worker |-> Idle]
  /\ attempts = [p \in Pr |-> 0] /\ flagged = {} /\ excused = {} /\ leaked = {}
  /\ provider = "fine" /\ breaker = Calm /\ coder = "none"
  /\ calls = 0 /\ window = [r \in Role |-> 0]

Fault == faults < MaxFaults /\ faults' = faults + 1

-----------------------------------------------------------------------------
(* The guards.                                                             *)

Paused == breaker.pause > 0      \* is_tripped

\* over_budget, free_quota_exceeded: a spend that cannot be read counts as none.
OverBudget(readable) == May("capped") /\ readable /\ calls >= DailyCap
Readable == IF May("unread") THEN BOOLEAN ELSE {TRUE}
CallMade == calls' = IF May("capped") /\ calls <= MostCalls THEN calls + 1 ELSE calls
MayAsk == CallMade \/ UNCHANGED calls

\* trip: a longer pause for each strike, and a streak that outlives it.
\* (Mutant: the streak dates from its first strike.)
Backoff(strikes) ==
  LET pause == BaseBackoff * 2 ^ (strikes - 1)
  IN  IF pause > MaxBackoff THEN MaxBackoff ELSE pause
NextStrike == IF breaker.strikes < MostStrikes THEN breaker.strikes + 1 ELSE MostStrikes
TrippedOnce ==
  [pause |-> Backoff(NextStrike), strikes |-> NextStrike,
   streak |-> IF breaker.strikes = 0 THEN StrikeTtl ELSE breaker.streak]
Tripped == [pause |-> Backoff(NextStrike), strikes |-> NextStrike, streak |-> StrikeTtl]

\* check_rate: every ask counts, also one that is refused.
WithinRate == {r \in Role : May("rush") => window[r] < Rpm}
Counted == [r \in Role |-> IF May("rush") /\ window[r] < Rpm THEN window[r] + 1 ELSE window[r]]

-----------------------------------------------------------------------------
(* The fan-out of a round, pushes and the watchdog.                        *)

AtEase(w) == worker[w].at = "idle"
Queued(d, R) == job' = [job EXCEPT ![d] = [r \in Role |-> IF r \in R THEN "queued" ELSE @[r]]]

\* handle_pr_event.  (Mutant: nobody asks for the spend.)
HandlePrEventUncapped(d) ==
  /\ d \in event /\ event' = event \ {d}
  /\ window' = Counted
  /\ Queued(d, IF Paused THEN {} ELSE WithinRate)
  /\ excused' = IF WithinRate = Role THEN excused ELSE excused \cup {PrOf(d)}
  /\ UNCHANGED <<scenario, faults, pool, round, judged, worker, attempts, flagged, provider, breaker,
                 coder, calls>>
HandlePrEvent(d) ==
  /\ d \in event /\ event' = event \ {d} /\ \E w \in Worker : AtEase(w)
  /\ \E readable \in Readable :
       \/ /\ OverBudget(readable)
          /\ excused' = excused \cup {PrOf(d)} /\ UNCHANGED <<job, window>>
       \/ /\ ~OverBudget(readable)
          /\ window' = Counted
          /\ Queued(d, IF Paused THEN {} ELSE WithinRate)
          /\ excused' = IF WithinRate = Role THEN excused ELSE excused \cup {PrOf(d)}
  /\ UNCHANGED <<scenario, faults, pool, round, judged, worker, attempts, flagged, provider, breaker,
                 coder, calls>>

Announce(p) ==
  /\ round' = [round EXCEPT ![p] = @ + 1]
  /\ event' = event \cup {<<p, round[p] + 1>>}

\* dispatch_forgejo_event, of a push.
Push(p) ==
  /\ May("push") /\ Fault /\ Announce(p)
  /\ UNCHANGED <<scenario, pool, job, judged, worker, attempts, flagged, excused, provider, breaker,
                 coder, budget>>

\* Its rounds are over, and the pull request still has not all its verdicts.
Lost(p) ==
  /\ judged[p] # Role /\ \A d \in event : PrOf(d) # p
  /\ \A d \in Round : PrOf(d) = p => \A r \in Role : job[d][r] = "none"

\* _sweep_stuck_stories.  is_story_stuck asks for the age of a story in review and not for
\* its jobs: one that waits for its workers, or for its gate, is swept as well as one
\* whose round is lost.  A paused model's story waits, without losing an attempt.
\* (Mutant: one attempt too many.)
SweepOnceMore(p) ==
  /\ ~Paused /\ p \notin flagged
  /\ \/ /\ attempts[p] <= WatchCap
        /\ attempts' = [attempts EXCEPT ![p] = @ + 1]
        /\ Announce(p) /\ UNCHANGED flagged
     \/ /\ attempts[p] > WatchCap
        /\ flagged' = flagged \cup {p} /\ UNCHANGED <<attempts, round, event>>
  /\ excused' = IF Lost(p) THEN excused ELSE excused \cup {p}
  /\ UNCHANGED <<scenario, faults, pool, job, judged, worker, provider, breaker, coder, budget>>
Sweep(p) ==
  /\ ~Paused /\ p \notin flagged
  /\ \/ /\ attempts[p] < WatchCap
        /\ attempts' = [attempts EXCEPT ![p] = @ + 1]
        /\ Announce(p) /\ UNCHANGED flagged
     \/ /\ attempts[p] = WatchCap
        /\ flagged' = flagged \cup {p} /\ UNCHANGED <<attempts, round, event>>
  /\ excused' = IF Lost(p) THEN excused ELSE excused \cup {p}
  /\ UNCHANGED <<scenario, faults, pool, job, judged, worker, provider, breaker, coder, budget>>

-----------------------------------------------------------------------------
(* A verdict job.                                                          *)

\* A counter at 0 is as good as none.
SetSlots(r, n, ttl) ==
  /\ slots' = [slots EXCEPT ![r] = n]
  /\ life' = [life EXCEPT ![r] = IF n = 0 THEN 0 ELSE ttl]

\* acquire_slot, its INCR and EXPIRE.  (Mutant: no EXPIRE.)
AcquireSlotNoTtl(r) ==
  IF limit[r] = 0 THEN UNCHANGED <<slots, life>> ELSE SetSlots(r, slots[r] + 1, 0)
AcquireSlot(r) ==
  IF limit[r] = 0 THEN UNCHANGED <<slots, life>> ELSE SetSlots(r, slots[r] + 1, SlotTtl)
RoomForOneMore(r) == limit[r] = 0 \/ slots[r] <= limit[r]
Room(r) == limit[r] = 0 \/ slots[r] + 1 <= limit[r]

\* A worker takes a job; what INCR answers decides.
Take(w, d, r) ==
  /\ AtEase(w) /\ job[d][r] = "queued"
  /\ job' = [job EXCEPT ![d][r] = "running"]
  /\ AcquireSlot(r)
  /\ worker' = [worker EXCEPT ![w] =
       [Idle EXCEPT !.at = IF Room(r) THEN "work" ELSE "refused", !.round = d, !.role = r,
                    !.counted = limit[r] # 0]]
  /\ UNCHANGED <<scenario, faults, limit, leaked, round, event, judged, attempts, flagged, excused,
                 provider, breaker, coder, budget>>

PrUnder(w) == PrOf(worker[w].round)
Ends(w) == job' = [job EXCEPT ![worker[w].round][worker[w].role] = "none"]
Excuses(w) == excused' = excused \cup {PrUnder(w)}

\* The refused INCR is taken back.
Refuse(w) ==
  /\ worker[w].at = "refused"
  /\ LET r == worker[w].role IN SetSlots(r, slots[r] - 1, life[r])
  /\ Ends(w) /\ Excuses(w) /\ worker' = [worker EXCEPT ![w] = Idle]
  /\ UNCHANGED <<scenario, faults, limit, leaked, round, event, judged, attempts, flagged, provider,
                 breaker, coder, budget>>

\* How the agent may end; only the reviewer waits for the model's answer.
Ending(w) ==
  IF worker[w].role = "reviewer" /\ provider = "limited" THEN {"limited"}
  ELSE {"verdict"} \cup (IF May("fails") THEN {"warn", "error"} ELSE {})
Ended(w, got) ==
  /\ worker[w].at = "work" /\ got \in Ending(w)
  /\ worker' = [worker EXCEPT ![w].at = "release", ![w].got = got]

\* run_*: a verdict is stored, and clears the breaker if it passes or fails
\* (_capture_verdict), whether or not the model was asked for it.  What was asked is on
\* the day's spend, also when the job fails afterwards.
Judge(w) ==
  /\ \E got \in {"verdict", "warn"} :
       /\ Ended(w, got)
       /\ breaker' = IF got = "verdict" THEN Calm ELSE breaker
  /\ Ends(w) /\ judged' = [judged EXCEPT ![PrUnder(w)] = @ \cup {worker[w].role}]
  /\ MayAsk
  /\ UNCHANGED <<scenario, faults, pool, round, event, attempts, flagged, excused, provider, coder, window>>

\* run_code_reviewer: what the agent raises, a 429 too, becomes an error without a
\* reason, so that _capture_verdict sees no rate limit in it.
ReviewerFails(w) ==
  /\ worker[w].role = "reviewer" /\ Ends(w)
  /\ \/ Ended(w, "limited") /\ UNCHANGED <<excused, calls>>
     \/ Ended(w, "error") /\ Excuses(w) /\ MayAsk
  /\ UNCHANGED <<scenario, faults, pool, round, event, judged, attempts, flagged, provider, breaker,
                 coder, window>>

\* run_tester and run_security_scanner raise it; RQ queues the job again, so often.
OthersFail(w) ==
  /\ worker[w].role # "reviewer" /\ Ended(w, "error") /\ Excuses(w) /\ MayAsk
  /\ \/ Ends(w) /\ UNCHANGED faults
     \/ Fault /\ job' = [job EXCEPT ![worker[w].round][worker[w].role] = "queued"]
  /\ UNCHANGED <<scenario, pool, round, event, judged, attempts, flagged, provider, breaker, coder,
                 window>>

\* release_slot: DECR, and then SET 0 when that answered less.
\* (Mutant: only a slot that did its work is released.)
ReleaseOnlyVerdict(w) ==
  /\ worker[w].at = "release"
  /\ LET r == worker[w].role IN
       IF worker[w].got = "verdict" THEN SetSlots(r, slots[r] - 1, life[r])
                                    ELSE UNCHANGED <<slots, life>>
  /\ worker' = [worker EXCEPT ![w] = Idle]
  /\ UNCHANGED <<scenario, faults, limit, leaked, review, provider, breaker, coder, budget>>
Release(w) ==
  /\ worker[w].at = "release"
  /\ LET r == worker[w].role IN
       /\ SetSlots(r, slots[r] - 1, life[r])
       /\ worker' = [worker EXCEPT ![w] = IF slots[r] - 1 < 0 THEN [@ EXCEPT !.at = "floor"] ELSE Idle]
  /\ UNCHANGED <<scenario, faults, limit, leaked, review, provider, breaker, coder, budget>>
Floor(w) ==
  /\ worker[w].at = "floor"
  /\ SetSlots(worker[w].role, 0, 0)
  /\ worker' = [worker EXCEPT ![w] = Idle]
  /\ UNCHANGED <<scenario, faults, limit, leaked, review, provider, breaker, coder, budget>>

-----------------------------------------------------------------------------
(* Faults, and the worker's start.                                         *)

Working(w) == worker[w].at \in {"refused", "work", "release", "floor"}
Holds(w, r) ==
  worker[w].role = r /\ worker[w].counted /\ worker[w].at \in {"refused", "work", "release"}
Leaks(w) == leaked' = leaked \cup {r \in Role : Holds(w, r)}
Drop(w) == IF worker[w].at \in {"release", "floor"} THEN UNCHANGED <<job, excused>> ELSE Ends(w) /\ Excuses(w)

\* The container is killed: the finally of its job never runs.
Kill(w) ==
  /\ May("kill") /\ Fault /\ Working(w) /\ Leaks(w) /\ Drop(w)
  /\ worker' = [worker EXCEPT ![w] = [Idle EXCEPT !.at = "dead"]]
  /\ UNCHANGED <<scenario, limit, slots, life, round, event, judged, attempts, flagged, provider, breaker,
                 coder, budget>>

\* Only the forked process is killed: the worker does not start again.
KillHorse(w) ==
  /\ May("oom") /\ Fault /\ Working(w) /\ Leaks(w) /\ Drop(w)
  /\ worker' = [worker EXCEPT ![w] = Idle]
  /\ UNCHANGED <<scenario, limit, slots, life, round, event, judged, attempts, flagged, provider, breaker,
                 coder, budget>>

\* worker.main: reconcile_slots, for every role, whatever the other workers do.
Start(w) ==
  /\ worker[w].at = "dead" /\ worker' = [worker EXCEPT ![w] = Idle]
  /\ slots' = [r \in Role |-> 0] /\ life' = [r \in Role |-> 0] /\ leaked' = {}
  /\ UNCHANGED <<scenario, faults, limit, review, provider, breaker, coder, budget>>

\* The operator turns a role's limit off or on in the configuration.
Retune(r) ==
  /\ May("retune") /\ Fault
  /\ limit' = [limit EXCEPT ![r] = IF @ = 0 THEN StartLimit ELSE 0]
  /\ UNCHANGED <<scenario, slots, life, leaked, review, worker, provider, breaker, coder, budget>>

Limit ==
  /\ May("limited") /\ provider = "fine" /\ Fault /\ provider' = "limited"
  /\ UNCHANGED <<scenario, pool, review, worker, breaker, coder, budget>>
Lift ==
  /\ provider = "limited" /\ provider' = "fine"
  /\ UNCHANGED <<scenario, faults, pool, review, worker, breaker, coder, budget>>

-----------------------------------------------------------------------------
(* The coder, and time.                                                    *)

\* _run_coding_agent up to its run, and what it makes of the answer.  In a container
\* a 429 comes back as a result and not as an exception, and trips nothing.
CoderStart ==
  /\ May("coder") /\ coder = "none" /\ ~Paused
  /\ \E readable \in Readable : ~OverBudget(readable)
  /\ coder' = "work"
  /\ UNCHANGED <<scenario, faults, pool, review, worker, provider, breaker, budget>>
CoderAsk ==
  /\ coder = "work" /\ coder' = IF provider = "fine" THEN "ok" ELSE "limited"
  /\ UNCHANGED <<scenario, faults, pool, review, worker, provider, breaker, budget>>
CoderEnd ==
  /\ coder \in {"ok", "limited"} /\ coder' = "none"
  /\ IF coder = "ok" THEN CallMade ELSE UNCHANGED calls
  /\ breaker' = IF coder = "ok" THEN Calm ELSE IF May("boxed") THEN breaker ELSE Tripped
  /\ UNCHANGED <<scenario, faults, pool, review, worker, provider, window>>

Down(n) == IF n = 0 THEN 0 ELSE n - 1

\* What the TTLs leave of the breaker.  (Mutant: the pause has none.)
LeftOf(pause) ==
  [pause |-> pause, streak |-> Down(breaker.streak),
   strikes |-> IF breaker.streak <= 1 THEN 0 ELSE breaker.strikes]
LapsedNever == LeftOf(breaker.pause)
Lapsed == LeftOf(Down(breaker.pause))

\* A job ends long before a counter does.
Expiring(r) == life[r] = 1
Tick ==
  /\ breaker # Calm \/ (\E r \in Role : life[r] > 0 \/ window[r] > 0)
  /\ \A r \in Role : Expiring(r) => \A w \in Worker : ~Holds(w, r)
  /\ breaker' = Lapsed
  /\ life' = [r \in Role |-> Down(life[r])]
  /\ slots' = [r \in Role |-> IF Expiring(r) THEN 0 ELSE slots[r]]
  /\ leaked' = {r \in leaked : ~Expiring(r)}
  /\ window' = [r \in Role |-> 0]
  /\ UNCHANGED <<scenario, faults, limit, review, worker, provider, coder, calls>>

\* Midnight.
NewDay ==
  /\ calls > 0 /\ Fault /\ calls' = 0
  /\ UNCHANGED <<scenario, pool, review, worker, provider, breaker, coder, window>>

JobStep(w) ==
  \/ Refuse(w) \/ Judge(w) \/ ReviewerFails(w) \/ OthersFail(w)
  \/ Release(w) \/ Floor(w) \/ Start(w) \/ \E d \in Round, r \in Role : Take(w, d, r)

Next ==
  \/ \E d \in Round : HandlePrEvent(d)
  \/ \E p \in Pr : Push(p) \/ Sweep(p)
  \/ \E w \in Worker : JobStep(w) \/ Kill(w) \/ KillHorse(w)
  \/ \E r \in Role : Retune(r)
  \/ Limit \/ Lift \/ CoderStart \/ CoderAsk \/ CoderEnd \/ Tick \/ NewDay

Spec == Init /\ [][Next]_vars

\* Workers work and are restarted (restart: unless-stopped), a story nothing works for
\* grows old enough to be swept, the provider's limits lift, time passes.
Fairness ==
  /\ WF_vars(\E w \in Worker : JobStep(w))
  /\ WF_vars((\E d \in Round : HandlePrEvent(d)) \/ \E p \in Pr : Lost(p) /\ Sweep(p))
  /\ WF_vars(Lift) /\ WF_vars(CoderAsk \/ CoderEnd) /\ WF_vars(Tick)

FairSpec == Spec /\ Fairness

-----------------------------------------------------------------------------
(* What must hold.                                                         *)

\* A role none of whose jobs holds a slot has all its slots free, however jobs were
\* refused, failed and overtook a reset, but for the slots of killed jobs
\* (release_slot "starves that role").
SlotsComeBack ==
  \A r \in Role : r \notin leaked /\ (\A w \in Worker : ~Holds(w, r)) => slots[r] <= 0

\* No more jobs of a role run at a time than its limit, unless a worker's start resets
\* the counters under them or the limit is turned off and on (acquire_slot).
AtWork(r) == {w \in Worker : worker[w].role = r /\ worker[w].at = "work"}
LimitHolds ==
  scenario \cap {"kill", "retune"} = {} =>
    \A r \in Role : Cardinality(AtWork(r)) <= StartLimit

\* Once the day's calls have reached the cap, what they come to is settled: every further
\* call was let in before, whatever the watchdog and pushes announce, so that calls made
\* and calls let in only go down together; but for a job that RQ tries again, which may ask
\* once more (over_budget).
Admitted == {j \in Round \X Role : job[j[1]][j[2]] # "none"}
LetIn == Cardinality(Admitted) + (IF coder = "none" THEN 0 ELSE 1)
Capped == May("capped") /\ ~May("unread")
TriesAgain ==
  \E w \in Worker : worker[w].at = "work" /\ job'[worker[w].round][worker[w].role] = "queued"
OvershootIsSettled ==
  [][Capped /\ calls >= DailyCap /\ ~TriesAgain => calls' + LetIn' <= calls + LetIn]_vars

\* The streak outlives the pause, so that a retry when the pause ends is answered by a
\* longer one (trip).
StreakOutlivesPause == breaker.pause > 0 => breaker.streak > breaker.pause

\* A pull request that was only ever held up by 429s is never given up by the watchdog
\* (ratelimit.py: "the watchdog treats them as "paused", not "stuck"").
PausedNotStuck == flagged \subseteq excused

\* The slots that killed jobs held are free in the end: a worker starts, or the role is
\* left alone for the life of its counter (reconcile_slots, acquire_slot).
LeaksEnd == leaked # {} ~> leaked = {}

\* Every pull request gets all its verdicts or is handed to the operator.
ReviewsSettle == <>(\A p \in Pr : judged[p] = Role \/ p \in flagged)

=============================================================================
