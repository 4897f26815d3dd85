-------------------------- MODULE VerdictGateProofs --------------------------
(***************************************************************************)
(* Theorems about VerdictGate, for every number of workers, commits and    *)
(* retries, and for every choice of the circumstances.                     *)
(***************************************************************************)
EXTENDS VerdictGate, SequenceTheorems, TLAPS

-----------------------------------------------------------------------------
(* What the helpers return. *)

Works == [Worker -> {NoWork} \cup Work]

\* The store without a verdict is a store.
LEMMA NoVerdicts == <<>> \in Verdicts
<1>1. <<>> \in [{} -> Verdict]
  OBVIOUS
<1> QED
  BY <1>1 DEF Verdicts

\* A store with all three verdicts in has one of each.
LEMMA OneOfEach ==
  ASSUME NEW all \in Verdicts, DOMAIN all = Role
  PROVE  all \in [Role -> Verdict]
BY DEF Verdicts

\* A new job is a job.
LEMMA NewJobType ==
  ASSUME NEW kind \in Role \cup {"pr_event", "merge"}, NEW c \in Commit
  PROVE  NewJob(kind, c) \in Job
BY GateAssumption DEF NewJob, Job, JobOf

\* The fan-out enqueues jobs.
LEMMA RoleJobsType ==
  ASSUME NEW S \in SUBSET Role, NEW c \in Commit
  PROVE  RoleJobs(S, c) \in Seq(Job)
<1>1. \A r \in Role : JobIf(S, r, c) \in Seq(Job)
  BY NewJobType DEF JobIf
<1> QED
  BY <1>1 DEF RoleJobs, Role

\* A webhook leaves a queue of jobs.
LEMMA AnnounceType ==
  ASSUME queue \in Seq(Job), NEW c \in Commit, Announce(c)
  PROVE  queue' \in Seq(Job)
<1>1. NewJob("pr_event", c) \in Job
  BY NewJobType
<1> QED
  BY <1>1 DEF Announce

\* So does a job that fails, and only while it has tries left does it come back.
LEMMA RetryType ==
  ASSUME queue \in Seq(Job), NEW j \in JobOf(Role), RetryOrDrop(j)
  PROVE  queue' \in Seq(Job)
<1>1. j \in Job
  BY DEF Job, JobOf
<1>2. ASSUME j.tries < RetryMax
      PROVE  [j EXCEPT !.tries = @ + 1] \in Job
  BY <1>1, <1>2, GateAssumption DEF Job, JobOf
<1> QED
  BY <1>1, <1>2 DEF RetryOrDrop

\* A worker that is not idle has work.
LEMMA BusyHasWork ==
  ASSUME work \in Works, NEW w \in Worker, work[w].pc # "idle"
  PROVE  work[w] \in Work
BY DEF Works, NoWork

\* A worker that goes on with its work, or ends it, leaves the others to theirs.
LEMMA GotoType ==
  ASSUME work \in Works, NEW w \in Worker, work[w] \in Work,
         NEW pc \in Busy, Goto(w, pc)
  PROVE  work' \in Works
<1>1. [work[w] EXCEPT !.pc = pc] \in Work
  BY DEF Work
<1> QED
  BY <1>1 DEF Goto, Works

LEMMA EndType ==
  ASSUME work \in Works, NEW w \in Worker, End(w)
  PROVE  work' \in Works
BY DEF End, Works

-----------------------------------------------------------------------------
(* Type correctness. *)

LEMMA TypeInit == Init => TypeOK
<1> SUFFICES ASSUME Init PROVE TypeOK
  OBVIOUS
<1>1. head \in Commit /\ queue \in Seq(Job)
  <2>1. 1 \in Commit
    BY GateAssumption DEF Commit
  <2>2. NewJob("pr_event", 1) \in Job
    BY <2>1, NewJobType
  <2> QED
    BY <2>1, <2>2 DEF Init
<1>2. work \in [Worker -> {NoWork} \cup Work]
  BY DEF Init
<1>3. retries \in 0..RecodeCap /\ attempts \in 0..WatchAttemptCap /\ recodes \in Nat
  BY GateAssumption DEF Init
<1>4. /\ merged \subseteq [commit : Commit, all : Verdicts, ci : CiSeen, by : {"gate", "human"}]
      /\ verdict \in Verdicts /\ lock \in BOOLEAN /\ awaiting \in BOOLEAN
      /\ gated \subseteq Commit
  BY NoVerdicts DEF Init
<1> QED
  BY <1>1, <1>2, <1>3, <1>4 DEF TypeOK

\* The jobs up to the verdict store keep the types.
LEMMA TypeReview ==
  ASSUME TypeOK, NEW w \in Worker,
         HandlePrEvent(w) \/ Take(w) \/ EndWithoutVerdict(w) \/ JobRaises(w)
           \/ StoreVerdict(w) \/ Collect(w) \/ Claim(w) \/ DoMerge(w) \/ Kill(w)
  PROVE  TypeOK'
<1>0. work \in Works /\ (work[w].pc # "idle" => work[w] \in Work)
  BY BusyHasWork DEF TypeOK, Works
<1>a. queue # <<>> => Head(queue) \in Job /\ Tail(queue) \in Seq(Job)
  BY DEF TypeOK
<1>b. work[w] \in Work => work[w].job \in JobOf(Role) /\ work[w].job.kind \in Role
                            /\ work[w].job.commit \in Commit
  BY DEF Work, JobOf
<1>1. CASE HandlePrEvent(w)
  <2> PICK S \in SUBSET Role :
          queue' = Tail(queue) \o RoleJobs(S, Head(queue).commit)
    BY <1>1 DEF HandlePrEvent
  <2>1. Head(queue).commit \in Commit
    BY <1>1, <1>a DEF HandlePrEvent, Job, JobOf
  <2>2. queue' \in Seq(Job)
    BY <1>1, <1>a, <2>1, RoleJobsType DEF HandlePrEvent
  <2> QED
    BY <1>1, <2>2 DEF HandlePrEvent, TypeOK, pr, store, story
<1>2. CASE Take(w)
  <2>1. Head(queue) \in JobOf(Role)
    BY <1>2, <1>a DEF Take, Job, JobOf
  <2>2. [pc |-> "working", job |-> Head(queue), all |-> <<>>, ci |-> 0] \in Work
    BY <2>1, NoVerdicts, GateAssumption DEF Work, Busy, CiSeen, Unread
  <2>3. work' \in Works
    BY <1>2, <1>0, <2>2 DEF Take, Works
  <2> QED
    BY <1>2, <1>a, <2>3 DEF Take, TypeOK, Works, pr, store, story
<1>3. CASE EndWithoutVerdict(w)
  <2>1. work' \in Works
    BY <1>3, <1>0, EndType DEF EndWithoutVerdict
  <2> QED
    BY <1>3, <2>1 DEF EndWithoutVerdict, TypeOK, Works, pr, store, story
<1>4. CASE JobRaises(w)
  <2>1. work[w] \in Work
    BY <1>4, <1>0 DEF JobRaises, At
  <2>2. work' \in Works
    BY <1>4, <1>0, EndType DEF JobRaises
  <2>3. queue' \in Seq(Job)
    BY <1>4, <2>1, <1>b, RetryType DEF JobRaises, TypeOK
  <2> QED
    BY <1>4, <2>2, <2>3 DEF JobRaises, TypeOK, Works, pr, store, story
<1>5. CASE StoreVerdict(w)
  <2>1. work[w] \in Work
    BY <1>5, <1>0 DEF StoreVerdict, At
  <2>2. work' \in Works
    BY <1>5, <1>0, <2>1, GotoType DEF StoreVerdict, Busy
  <2>3. verdict' \in Verdicts
    <3>1. PICK R \in SUBSET Role : verdict \in [R -> Verdict]
      BY DEF TypeOK, Verdicts
    <3>2. verdict' \in [R \cup {work[w].job.kind} -> Verdict]
      BY <1>5, <1>b, <2>1, <3>1 DEF StoreVerdict, Verdict
    <3>3. R \cup {work[w].job.kind} \in SUBSET Role
      BY <1>b, <2>1
    <3> QED
      BY <3>2, <3>3 DEF Verdicts
  <2> QED
    BY <1>5, <2>2, <2>3 DEF StoreVerdict, TypeOK, Works, pr, story
<1>6. CASE Collect(w)
  <2>1. work[w] \in Work
    BY <1>6, <1>0 DEF Collect, At
  <2>2. [work[w] EXCEPT !.pc = "collected", !.all = verdict] \in Work
    BY <2>1 DEF Work, Busy, TypeOK
  <2>3. work' \in Works
    <3>1. CASE AllIn
      BY <1>6, <1>0, <2>2, <3>1 DEF Collect, Works
    <3>2. CASE ~AllIn
      BY <1>6, <1>0, <3>2, EndType DEF Collect
    <3> QED
      BY <3>1, <3>2
  <2> QED
    BY <1>6, <2>3 DEF Collect, TypeOK, Works, pr, store, story
<1>7. CASE Claim(w)
  <2>1. work[w] \in Work
    BY <1>7, <1>0 DEF Claim, At
  <2>2. work' \in Works
    BY <1>7, <1>0, <2>1, GotoType, EndType DEF Claim, Busy
  <2> QED
    BY <1>7, <2>2 DEF Claim, TypeOK, Works, pr, story
<1>8. CASE DoMerge(w)
  <2>1. [commit |-> head, all |-> <<>>, ci |-> 0, by |-> "human"]
          \in [commit : Commit, all : Verdicts, ci : CiSeen, by : {"gate", "human"}]
    BY NoVerdicts, GateAssumption DEF TypeOK, CiSeen, Unread
  <2> QED
    BY <1>8, <1>a, <2>1 DEF DoMerge, TypeOK, store, story
<1>9. CASE Kill(w)
  <2>1. work[w] \in Work
    BY <1>9, <1>0 DEF Kill, At
  <2>2. queue' \in Seq(Job) /\ work' \in Works
    BY <1>9, <1>0, <1>b, <2>1, RetryType, EndType DEF Kill, TypeOK
  <2> QED
    BY <1>9, <2>2 DEF Kill, TypeOK, Works, pr, store, story
<1> QED
  BY <1>1, <1>2, <1>3, <1>4, <1>5, <1>6, <1>7, <1>8, <1>9

\* So does the gate.
LEMMA TypeGate ==
  ASSUME TypeOK, NEW w \in Worker,
         ApplyGate(w) \/ CiGreen(w) \/ CiUnread(w) \/ CiRed(w) \/ CiStall(w)
           \/ UpdateBranch(w) \/ Conflict(w) \/ AutoMerge(w) \/ ClearVerdicts(w) \/ TriggerRecode(w)
  PROVE  TypeOK'
<1>0. work \in Works /\ (work[w].pc # "idle" => work[w] \in Work)
  BY BusyHasWork DEF TypeOK, Works
<1> USE DEF At
<1>1. CASE ApplyGate(w)
  <2>1. work' \in Works
    BY <1>0, <1>1, GotoType, EndType DEF ApplyGate, Busy
  <2>2. awaiting' \in BOOLEAN /\ gated' \subseteq Commit
    BY <1>1 DEF ApplyGate, TypeOK
  <2> QED
    BY <1>1, <2>1, <2>2 DEF ApplyGate, TypeOK, Works, pr, store, story
<1>2. CASE CiGreen(w) \/ CiUnread(w)
  <2>1. work[w] \in Work
    BY <1>0, <1>2 DEF CiGreen, CiUnread
  <2>a. head \in CiSeen /\ Unread \in CiSeen
    BY GateAssumption DEF TypeOK, Commit, CiSeen, Unread
  <2>2. \A c \in CiSeen : [work[w] EXCEPT !.pc = "merge", !.ci = c] \in Work
    BY <2>1 DEF Work, Busy
  <2>3. work' \in Works
    BY <1>0, <1>2, <2>a, <2>2 DEF CiGreen, CiUnread, Works
  <2> QED
    BY <1>2, <2>3 DEF CiGreen, CiUnread, TypeOK, Works, pr, store, story
<1>3. CASE CiRed(w)
  <2>1. work' \in Works
    BY <1>0, <1>3, GotoType DEF CiRed, Busy
  <2> QED
    BY <1>3, <2>1 DEF CiRed, TypeOK, Works, pr, store, story
<1>4. CASE CiStall(w)
  <2>1. work' \in Works
    BY <1>0, <1>4, EndType DEF CiStall
  <2> QED
    BY <1>4, <2>1 DEF CiStall, TypeOK, Works, pr, store, story
<1>5. CASE UpdateBranch(w)
  <2>1. head + 1 \in Commit
    BY <1>5, GateAssumption DEF UpdateBranch, TypeOK, Commit
  <2>2. queue' \in Seq(Job)
    BY <1>5, <2>1, AnnounceType DEF UpdateBranch, TypeOK
  <2>3. work' \in Works
    BY <1>0, <1>5, GotoType DEF UpdateBranch, Busy
  <2> QED
    BY <1>5, <2>1, <2>2, <2>3 DEF UpdateBranch, TypeOK, Works, store, story
<1>6. CASE Conflict(w)
  <2>1. work' \in Works
    BY <1>0, <1>6, GotoType DEF Conflict, Busy
  <2> QED
    BY <1>6, <2>1 DEF Conflict, TypeOK, Works, pr, store, story
<1>7. CASE AutoMerge(w)
  <2>1. work[w] \in Work
    BY <1>0, <1>7 DEF AutoMerge
  <2>2. [commit |-> head, all |-> work[w].all, ci |-> work[w].ci, by |-> "gate"]
          \in [commit : Commit, all : Verdicts, ci : CiSeen, by : {"gate", "human"}]
    BY <2>1 DEF TypeOK, Work
  <2>3. work' \in Works
    BY <1>0, <1>7, EndType DEF AutoMerge
  <2> QED
    BY <1>7, <2>2, <2>3 DEF AutoMerge, TypeOK, Works, store, story
<1>8. CASE ClearVerdicts(w)
  <2>1. work' \in Works
    BY <1>0, <1>8, GotoType DEF ClearVerdicts, Busy
  <2> QED
    BY <1>8, <2>1, NoVerdicts DEF ClearVerdicts, TypeOK, Works, pr, story
<1>9. CASE TriggerRecode(w)
  <2>1. work' \in Works
    BY <1>0, <1>9, EndType DEF TriggerRecode
  <2>2. retries' \in 0..RecodeCap /\ recodes' \in Nat
    BY <1>9, GateAssumption DEF TriggerRecode, TypeOK
  <2> QED
    BY <1>9, <2>1, <2>2 DEF TriggerRecode, TypeOK, Works, pr, store
<1> QED
  BY <1>1, <1>2, <1>3, <1>4, <1>5, <1>6, <1>7, <1>8, <1>9

\* So do the web process, the watchdog and the people.
LEMMA TypeWeb ==
  ASSUME TypeOK, Recode \/ Push \/ Watchdog \/ RetryItem \/ ApproveMerge
  PROVE  TypeOK'
<1>0. head < MaxCommit => head + 1 \in Commit
  BY GateAssumption DEF TypeOK, Commit
<1>a. NewJob("pr_event", head) \in Job /\ NewJob("merge", head) \in Job
  BY NewJobType DEF TypeOK
<1>1. CASE RecodePushes
  <2>1. queue' \in Seq(Job) /\ recodes' \in Nat
    BY <1>0, <1>1, AnnounceType DEF RecodePushes, TypeOK
  <2> QED
    BY <1>0, <1>1, <2>1 DEF RecodePushes, TypeOK, store
<1>2. CASE RecodeGivesUp
  BY <1>2 DEF RecodeGivesUp, TypeOK, pr, store
<1>3. CASE Push
  <2>1. queue' \in Seq(Job)
    BY <1>0, <1>3, AnnounceType DEF Push, TypeOK
  <2>2. retries' \in 0..RecodeCap
    BY <1>3, GateAssumption DEF Push, TypeOK
  <2> QED
    BY <1>0, <1>3, <2>1, <2>2 DEF Push, TypeOK, store
<1>4. CASE Watchdog
  <2>1. queue' \in Seq(Job)
    BY <1>4, <1>a DEF Watchdog, TypeOK
  <2>2. retries' \in 0..RecodeCap /\ attempts' \in 0..WatchAttemptCap
    BY <1>4, GateAssumption DEF Watchdog, TypeOK
  <2> QED
    BY <1>4, <2>1, <2>2 DEF Watchdog, TypeOK, pr, store
<1>5. CASE ApproveMerge
  <2>1. queue' \in Seq(Job)
    BY <1>5, <1>a DEF ApproveMerge, TypeOK
  <2> QED
    BY <1>5, <2>1 DEF ApproveMerge, TypeOK, pr, store, story
<1>6. CASE RetryItem
  <2>1. queue' \in Seq(Job)
    BY <1>6, <1>a DEF RetryItem, TypeOK
  <2>2. retries' \in 0..RecodeCap /\ attempts' \in 0..WatchAttemptCap
    BY <1>6, GateAssumption DEF RetryItem
  <2> QED
    BY <1>6, <2>1, <2>2 DEF RetryItem, TypeOK, pr, store
<1> QED
  BY <1>1, <1>2, <1>3, <1>4, <1>5, <1>6 DEF Recode

LEMMA TypeStep == TypeOK /\ [Next]_vars => TypeOK'
<1> SUFFICES ASSUME TypeOK, [Next]_vars PROVE TypeOK'
  OBVIOUS
<1>1. CASE Next
  BY <1>1, TypeReview, TypeGate, TypeWeb DEF Next, JobStep
<1>2. CASE UNCHANGED vars
  BY <1>2 DEF TypeOK, vars, pr, store, story
<1> QED
  BY <1>1, <1>2

\* Every handler keeps the keys, the queue and the counters in their shapes, and
\* no retry counter passes its cap (handlers.py, pr_jobs.py, verdicts.py, gate.py).
THEOREM TypeCorrect == Spec => []TypeOK
BY TypeInit, TypeStep, PTL DEF Spec

-----------------------------------------------------------------------------
(* One gate at a time.  OneGate alone is not inductive: that a claim finds  *)
(* nobody at the gate needs the lock to be held by whoever is.             *)

GateHoldsLock == \A w \in Worker : Gating(w) => lock

GateInv == TypeOK /\ GateHoldsLock /\ OneGate

\* A step that brings nobody to the gate and leaves the lock alone.
LEMMA NobodyEnters ==
  ASSUME GateInv, UNCHANGED lock, \A v \in Worker : Gating(v)' => Gating(v)
  PROVE  GateHoldsLock' /\ OneGate'
BY DEF GateInv, GateHoldsLock, OneGate

\* A worker's step that ends its work brings nobody to the gate, and one that goes
\* on with it brings that worker at most.
LEMMA EndLeaves ==
  ASSUME TypeOK, NEW w \in Worker, End(w)
  PROVE  \A v \in Worker : Gating(v)' => Gating(v)
<1>1. ~Gating(w)'
  BY DEF TypeOK, End, NoWork, Gating
<1>2. \A v \in Worker \ {w} : work'[v] = work[v]
  BY DEF TypeOK, End
<1> QED
  BY <1>1, <1>2 DEF Gating

LEMMA GotoMoves ==
  ASSUME TypeOK, NEW w \in Worker, work[w].pc # "idle", NEW pc \in Busy, Goto(w, pc)
  PROVE  /\ work'[w].pc = pc
         /\ \A v \in Worker \ {w} : work'[v] = work[v]
<1>1. work[w] \in Work
  BY BusyHasWork DEF TypeOK, Works
<1> QED
  BY <1>1 DEF TypeOK, Goto, Work

\* The claim is where the lock matters: nobody is at the gate when it is free.
LEMMA ClaimEnters ==
  ASSUME GateInv, NEW w \in Worker, Claim(w)
  PROVE  GateHoldsLock' /\ OneGate'
<1>1. CASE ~lock /\ lock' = TRUE /\ Goto(w, "summary")
  <2>1. \A v \in Worker : ~Gating(v)
    BY <1>1 DEF GateInv, GateHoldsLock
  <2>2. \A v \in Worker \ {w} : work'[v] = work[v]
    BY <1>1, GotoMoves DEF GateInv, Claim, At, Busy
  <2>3. \A v \in Worker \ {w} : ~Gating(v)'
    BY <2>1, <2>2 DEF Gating
  <2>4. lock'
    BY <1>1
  <2> QED
    BY <2>3, <2>4 DEF GateHoldsLock, OneGate
<1>2. CASE lock /\ End(w) /\ UNCHANGED lock
  BY <1>2, EndLeaves, NobodyEnters DEF GateInv
<1> QED
  BY <1>1, <1>2 DEF Claim

\* The clear is the other: it frees the lock as its worker leaves the gate for the
\* call that starts a recode.
LEMMA ClearLeaves ==
  ASSUME GateInv, NEW w \in Worker, work[w].pc = "clear", Goto(w, "recode")
  PROVE  GateHoldsLock' /\ OneGate'
<1>1. \A v \in Worker \ {w} : ~Gating(v)
  BY DEF GateInv, OneGate, Gating
<1>2. work'[w].pc = "recode" /\ \A v \in Worker \ {w} : work'[v] = work[v]
  BY GotoMoves DEF GateInv, Busy
<1>3. \A v \in Worker : ~Gating(v)'
  BY <1>1, <1>2 DEF Gating
<1> QED
  BY <1>3 DEF GateHoldsLock, OneGate

LEMMA GateInvStep ==
  ASSUME GateInv, [Next]_vars
  PROVE  GateHoldsLock' /\ OneGate'
<1> USE DEF GateInv
<1>a. ASSUME NEW w \in Worker, Goto(w, "stored"), work[w].pc = "working"
      PROVE  \A v \in Worker : Gating(v)' => Gating(v)
  BY <1>a, GotoMoves DEF Busy, Gating
<1>b. ASSUME NEW w \in Worker, Gating(w), NEW pc \in Busy, Goto(w, pc)
      PROVE  \A v \in Worker : Gating(v)' => Gating(v)
  BY <1>b, GotoMoves DEF Busy, Gating
<1>1. ASSUME NEW w \in Worker, EndWithoutVerdict(w) \/ JobRaises(w) \/ Kill(w)
                                 \/ CiStall(w) \/ AutoMerge(w) \/ TriggerRecode(w)
      PROVE  GateHoldsLock' /\ OneGate'
  BY <1>1, EndLeaves, NobodyEnters
     DEF EndWithoutVerdict, JobRaises, Kill, CiStall, AutoMerge, TriggerRecode, store
<1>2. ASSUME NEW w \in Worker, HandlePrEvent(w) \/ DoMerge(w)
      PROVE  GateHoldsLock' /\ OneGate'
  BY <1>2, NobodyEnters DEF HandlePrEvent, DoMerge, store, Gating
<1>3. ASSUME NEW w \in Worker, Take(w)
      PROVE  GateHoldsLock' /\ OneGate'
  <2>1. ~Gating(w)' /\ \A v \in Worker \ {w} : work'[v] = work[v]
    BY <1>3 DEF Take, TypeOK, Gating
  <2>2. \A v \in Worker : Gating(v)' => Gating(v)
    BY <2>1 DEF Gating
  <2> QED
    BY <1>3, <2>2, NobodyEnters DEF Take, store
<1>4. ASSUME NEW w \in Worker, StoreVerdict(w)
      PROVE  GateHoldsLock' /\ OneGate'
  BY <1>4, <1>a, NobodyEnters DEF StoreVerdict, At
<1>5. ASSUME NEW w \in Worker, Collect(w)
      PROVE  GateHoldsLock' /\ OneGate'
  <2>1. \A v \in Worker : Gating(v)' => Gating(v)
    <3>1. CASE AllIn
      <4>1. work[w] \in Work
        BY <1>5, BusyHasWork DEF Collect, At, TypeOK, Works
      <4>2. work'[w].pc = "collected" /\ \A v \in Worker \ {w} : work'[v] = work[v]
        BY <1>5, <3>1, <4>1 DEF Collect, TypeOK, Work
      <4> QED
        BY <4>2 DEF Gating
    <3>2. CASE ~AllIn
      BY <1>5, <3>2, EndLeaves DEF Collect
    <3> QED
      BY <3>1, <3>2
  <2> QED
    BY <1>5, <2>1, NobodyEnters DEF Collect, store
<1>6. ASSUME NEW w \in Worker, ApplyGate(w)
      PROVE  GateHoldsLock' /\ OneGate'
  <2>1. Gating(w)
    BY <1>6 DEF ApplyGate, At, Gating
  <2>2. Goto(w, "clear") \/ Goto(w, "ci") \/ End(w)
    BY <1>6 DEF ApplyGate
  <2>3. \A v \in Worker : Gating(v)' => Gating(v)
    BY <1>b, <2>1, <2>2, EndLeaves DEF Busy
  <2> QED
    BY <1>6, <2>3, NobodyEnters DEF ApplyGate, store
<1>7. ASSUME NEW w \in Worker, CiGreen(w) \/ CiUnread(w)
      PROVE  GateHoldsLock' /\ OneGate'
  <2>1. Gating(w) /\ \A v \in Worker \ {w} : work'[v] = work[v]
    BY <1>7 DEF CiGreen, CiUnread, At, Gating, TypeOK
  <2>2. \A v \in Worker : Gating(v)' => Gating(v)
    BY <2>1 DEF Gating
  <2> QED
    BY <1>7, <2>2, NobodyEnters DEF CiGreen, CiUnread, store
<1>8. ASSUME NEW w \in Worker, CiRed(w) \/ UpdateBranch(w) \/ Conflict(w)
      PROVE  GateHoldsLock' /\ OneGate'
  <2>1. Gating(w)
    BY <1>8 DEF CiRed, UpdateBranch, Conflict, At, Gating
  <2>2. Goto(w, "clear") \/ Goto(w, "updated")
    BY <1>8 DEF CiRed, UpdateBranch, Conflict
  <2>3. \A v \in Worker : Gating(v)' => Gating(v)
    BY <1>b, <2>1, <2>2 DEF Busy
  <2> QED
    BY <1>8, <2>3, NobodyEnters DEF CiRed, UpdateBranch, Conflict, store
<1>9. ASSUME NEW w \in Worker, ClearVerdicts(w)
      PROVE  GateHoldsLock' /\ OneGate'
  BY <1>9, ClearLeaves DEF ClearVerdicts, At
<1>10. CASE Recode \/ Push \/ Watchdog \/ RetryItem \/ ApproveMerge \/ UNCHANGED vars
  BY <1>10, NobodyEnters
     DEF Recode, RecodePushes, RecodeGivesUp, Push, Watchdog, RetryItem, ApproveMerge,
         vars, store, Gating
<1> QED
  BY <1>1, <1>2, <1>3, <1>4, <1>5, <1>6, <1>7, <1>8, <1>9, <1>10, ClaimEnters
     DEF Next, JobStep

\* At most one worker at a time is between the claim of the aggregation lock and
\* the clear of the store, whatever is pushed, re-run, killed or raised meanwhile
\* and however the jobs overtake each other (verdicts.py, try_claim_aggregation;
\* gate.py, _clear_verdicts).
THEOREM GateIsExclusive == Spec => []OneGate
<1>1. Init => GateInv
  BY TypeInit DEF Init, GateInv, GateHoldsLock, OneGate, Gating, NoWork
<1>2. GateInv /\ [Next]_vars => GateInv'
  BY TypeStep, GateInvStep DEF GateInv
<1>3. GateInv => OneGate
  BY DEF GateInv
<1> QED
  BY <1>1, <1>2, <1>3, PTL DEF Spec

=============================================================================
