------------------------- MODULE VerdictRoundProofs -------------------------
(***************************************************************************)
(* What the gate goes by, as theorems of VerdictGate: while nothing but    *)
(* the gate's own recodes pushes to the pull request, one round of reviews *)
(* follows another, and every gate goes by a round of the head.            *)
(***************************************************************************)
EXTENDS VerdictGateProofs

\* Nobody pushes, re-runs or kills beside the round that is under way; checks fail, jobs
\* are refused, raise and are held, CI hangs, approvals wait and webhooks are lost.
Orderly ==
  Enabled \cap {"push", "reply", "behind", "gate_raise", "kill", "watchdog", "overtake", "retry"} = {}

-----------------------------------------------------------------------------
(* The round that is under way.                                            *)

Has(q, k) == \E i \in 1..Len(q) : q[i].kind = k
Once(q, k) ==
  \A i, j \in 1..Len(q) : q[i].kind = k /\ q[j].kind = k => i = j
OfCommit(q, c) == \A i \in 1..Len(q) : q[i].kind # "merge" => q[i].commit = c

WorkingOn(w, r) == At(w, "working") /\ work[w].job.kind = r
\* The report of r is still to come.
Due(r) == Has(queue, r) \/ \E w \in Worker : WorkingOn(w, r)

\* A role has one job at most in a round, and none once it has reported.
OneJobEach ==
  /\ \A k \in Role \cup {"pr_event"} : Once(queue, k)
  /\ \A r \in Role : /\ Has(queue, r) => \A w \in Worker : ~WorkingOn(w, r)
                     /\ \A v, w \in Worker : WorkingOn(v, r) /\ WorkingOn(w, r) => v = w
                     /\ Due(r) => r \notin DOMAIN verdict
  /\ Has(queue, "pr_event") => \A r \in Role : ~Due(r) /\ r \notin DOMAIN verdict

\* All jobs and reports are of the head, and who has collected them has what is stored.
Deciding(w) == At(w, "collected") \/ Gating(w)
OfTheHead ==
  /\ OfCommit(queue, head)
  /\ \A w \in Worker : At(w, "working") => work[w].job.commit = head
  /\ \A r \in DOMAIN verdict : verdict[r].commit = head
  /\ \A w \in Worker : Deciding(w) => AllIn /\ work[w].all = verdict

\* One recode at a time, when the round is over and its reports are gone.
Recoding == recodes > 0 \/ \E w \in Worker : At(w, "recode")
OneRecode ==
  /\ Recoding => /\ ~lock /\ verdict = <<>> /\ ~Has(queue, "pr_event")
                 /\ \A r \in Role : ~Due(r)
  /\ recodes \in {0, 1}
  /\ \A v, w \in Worker : At(v, "recode") /\ At(w, "recode") => v = w
  /\ recodes > 0 => \A w \in Worker : ~At(w, "recode")

\* What is known to a gate that has come so far.
Passing(w) ==
  /\ work[w].pc \in {"ci", "merge"} =>
       FailingChecks(work[w].all) = {} /\ ~SecurityFails(work[w].all)
  /\ At(w, "merge") => work[w].ci = head \/ ("unread" \in Enabled /\ work[w].ci = Unread)
  /\ ~At(w, "updated")

RoundInv ==
  /\ OneJobEach /\ OfTheHead /\ OneRecode
  /\ \A w \in Worker : Passing(w)

\* A full store is on its way to the gate, or has been there.
Attended ==
  /\ lock => AllIn /\ (head \in gated \/ \E w \in Worker : At(w, "summary"))
  /\ AllIn => lock \/ \E w \in Worker : work[w].pc \in {"stored", "collected"}

-----------------------------------------------------------------------------
(* The queue.                                                              *)

\* What is in two queues is in their concatenation, once if it was once in one.
LEMMA Joined ==
  ASSUME NEW s \in Seq(Job), NEW t \in Seq(Job)
  PROVE  /\ \A k : Has(s \o t, k) => Has(s, k) \/ Has(t, k)
         /\ \A k : Once(s, k) /\ Once(t, k) /\ ~(Has(s, k) /\ Has(t, k)) => Once(s \o t, k)
         /\ \A c : OfCommit(s, c) /\ OfCommit(t, c) => OfCommit(s \o t, c)
<1> DEFINE n == Len(s)
           m == Len(t)
           q == s \o t
<1>1. /\ n \in Nat /\ m \in Nat /\ Len(q) = n + m
      /\ \A i \in 1..n + m : q[i] = IF i <= n THEN s[i] ELSE t[i - n]
  BY ConcatProperties, LenProperties
<1> HIDE DEF n, m, q
<1>2. \A i \in 1..Len(q) : \/ i \in 1..n /\ q[i] = s[i]
                           \/ i - n \in 1..m /\ i - n \in Int /\ q[i] = t[i - n] /\ i > n
  BY <1>1
<1>3. \A k : Has(q, k) => Has(s, k) \/ Has(t, k)
  BY <1>2 DEF Has, n, m
<1>4. ASSUME NEW k, Once(s, k), Once(t, k), ~(Has(s, k) /\ Has(t, k)),
             NEW i \in 1..Len(q), NEW j \in 1..Len(q), q[i].kind = k, q[j].kind = k
      PROVE  i = j
  <2>1. CASE Has(s, k)
    <3>1. \A x \in 1..m : t[x].kind # k
      BY <1>4, <2>1 DEF Has, m
    <3>2. i \in 1..n /\ q[i] = s[i] /\ j \in 1..n /\ q[j] = s[j]
      BY <1>2, <1>4, <3>1
    <3> QED
      BY <1>4, <3>2 DEF Once, n
  <2>2. CASE ~Has(s, k)
    <3>1. \A x \in 1..n : s[x].kind # k
      BY <2>2 DEF Has, n
    <3>2. i - n \in 1..m /\ q[i] = t[i - n] /\ j - n \in 1..m /\ q[j] = t[j - n]
      BY <1>2, <1>4, <3>1
    <3>3. i - n = j - n
      BY <1>4, <3>2 DEF Once, m
    <3> QED
      BY <1>1, <3>3
  <2> QED
    BY <2>1, <2>2
<1>5. \A c : OfCommit(s, c) /\ OfCommit(t, c) => OfCommit(q, c)
  BY <1>2 DEF OfCommit, n, m
<1>6. \A k : Once(s, k) /\ Once(t, k) /\ ~(Has(s, k) /\ Has(t, k)) => Once(q, k)
  BY <1>4 DEF Once
<1> QED
  BY <1>3, <1>5, <1>6 DEF q

LEMMA OneJob ==
  ASSUME NEW x \in Job
  PROVE  /\ <<x>> \in Seq(Job)
         /\ \A k : Has(<<x>>, k) => k = x.kind
         /\ \A k : Once(<<x>>, k)
         /\ \A c : (x.kind # "merge" => x.commit = c) => OfCommit(<<x>>, c)
<1>1. Len(<<x>>) = 1 /\ <<x>>[1] = x /\ <<x>> \in Seq(Job) /\ \A i \in 1..1 : i = 1
  OBVIOUS
<1> QED
  BY <1>1 DEF Has, Once, OfCommit

LEMMA NoJob == <<>> \in Seq(Job) /\ (\A k : ~Has(<<>>, k) /\ Once(<<>>, k)) /\ \A c : OfCommit(<<>>, c)
<1>1. Len(<<>>) = 0 /\ <<>> \in Seq(Job) /\ 1..0 = {}
  OBVIOUS
<1> QED
  BY <1>1 DEF Has, Once, OfCommit

LEMMA Appended ==
  ASSUME NEW q \in Seq(Job), NEW x \in Job
  PROVE  /\ \A k : Has(Append(q, x), k) => Has(q, k) \/ k = x.kind
         /\ \A k : Once(q, k) /\ (k = x.kind => ~Has(q, k)) => Once(Append(q, x), k)
         /\ \A c : OfCommit(q, c) /\ (x.kind # "merge" => x.commit = c)
                     => OfCommit(Append(q, x), c)
<1>1. Append(q, x) = q \o <<x>>
  OBVIOUS
<1>2. /\ <<x>> \in Seq(Job)
      /\ \A k : Has(<<x>>, k) => k = x.kind
      /\ \A k : Once(<<x>>, k)
      /\ \A c : (x.kind # "merge" => x.commit = c) => OfCommit(<<x>>, c)
  BY OneJob
<1> DEFINE t == <<x>>
<1>3. t = <<x>> /\ t \in Seq(Job)
  BY <1>2
<1> HIDE DEF t
<1>4. /\ \A k : Has(q \o t, k) => Has(q, k) \/ Has(t, k)
      /\ \A k : Once(q, k) /\ Once(t, k) /\ ~(Has(q, k) /\ Has(t, k)) => Once(q \o t, k)
      /\ \A c : OfCommit(q, c) /\ OfCommit(t, c) => OfCommit(q \o t, c)
  BY <1>3, Joined
<1>5. \A k : Has(Append(q, x), k) => Has(q, k) \/ k = x.kind
  BY <1>1, <1>2, <1>3, <1>4
<1>6. \A k : Once(q, k) /\ (k = x.kind => ~Has(q, k)) => Once(Append(q, x), k)
  BY <1>1, <1>2, <1>3, <1>4
<1>7. \A c : OfCommit(q, c) /\ (x.kind # "merge" => x.commit = c) => OfCommit(Append(q, x), c)
  BY <1>1, <1>2, <1>3, <1>4
<1> QED
  BY <1>5, <1>6, <1>7

LEMMA Popped ==
  ASSUME NEW q \in Seq(Job), q # <<>>
  PROVE  /\ Has(q, Head(q).kind)
         /\ \A k : Has(Tail(q), k) => Has(q, k)
         /\ \A k : Once(q, k) => Once(Tail(q), k)
         /\ Once(q, Head(q).kind) => ~Has(Tail(q), Head(q).kind)
         /\ \A c : OfCommit(q, c) => /\ OfCommit(Tail(q), c)
                                     /\ Head(q).kind # "merge" => Head(q).commit = c
<1> DEFINE t == Tail(q)
<1>1. /\ Len(q) \in Nat /\ Len(t) = Len(q) - 1 /\ Len(q) >= 1 /\ Head(q) = q[1]
      /\ \A i \in 1..Len(t) : t[i] = q[i + 1]
  BY HeadTailProperties, EmptySeq
<1>2. 1 \in 1..Len(q) /\ \A i \in 1..Len(t) : i \in Int /\ i + 1 \in 1..Len(q) /\ i + 1 # 1
  BY <1>1
<1> HIDE DEF t
<1>3. Has(q, Head(q).kind)
  BY <1>1, <1>2 DEF Has
<1>4. \A k : Has(t, k) => Has(q, k)
  BY <1>1, <1>2 DEF Has
<1>5. ASSUME NEW k, Once(q, k), NEW i \in 1..Len(t), NEW j \in 1..Len(t), t[i].kind = k, t[j].kind = k
      PROVE  i = j
  <2>1. i + 1 = j + 1
    BY <1>1, <1>2, <1>5 DEF Once
  <2> QED
    BY <1>2, <2>1
<1>6. Once(q, Head(q).kind) => ~Has(t, Head(q).kind)
  BY <1>1, <1>2 DEF Once, Has
<1>7. \A c : OfCommit(q, c) => OfCommit(t, c) /\ (Head(q).kind # "merge" => Head(q).commit = c)
  BY <1>1, <1>2 DEF OfCommit
<1>8. \A k : Once(q, k) => Once(t, k)
  BY <1>5 DEF Once
<1> QED
  BY <1>3, <1>4, <1>6, <1>7, <1>8 DEF t

LEMMA Fanned ==
  ASSUME NEW S \in SUBSET Role, NEW c \in Commit
  PROVE  /\ RoleJobs(S, c) \in Seq(Job)
         /\ \A k : Has(RoleJobs(S, c), k) => k \in Role
         /\ \A k : Once(RoleJobs(S, c), k)
         /\ OfCommit(RoleJobs(S, c), c)
<1>1. ASSUME NEW r \in Role
      PROVE  /\ JobIf(S, r, c) \in Seq(Job)
             /\ \A k : Has(JobIf(S, r, c), k) => k = r
             /\ \A k : Once(JobIf(S, r, c), k)
             /\ OfCommit(JobIf(S, r, c), c)
  <2>1. NewJob(r, c) \in Job /\ NewJob(r, c).kind = r /\ NewJob(r, c).commit = c
    BY NewJobType DEF NewJob
  <2> QED
    BY <2>1, OneJob, NoJob DEF JobIf
<1> DEFINE a == JobIf(S, "code_review", c)
           b == JobIf(S, "test_run", c)
           d == JobIf(S, "security", c)
<1>2. /\ a \in Seq(Job) /\ b \in Seq(Job) /\ d \in Seq(Job)
      /\ \A k : Has(a, k) => k = "code_review"
      /\ \A k : Has(b, k) => k = "test_run"
      /\ \A k : Has(d, k) => k = "security"
      /\ \A k : Once(a, k) /\ Once(b, k) /\ Once(d, k)
      /\ OfCommit(a, c) /\ OfCommit(b, c) /\ OfCommit(d, c)
  BY <1>1 DEF Role
<1> HIDE DEF a, b, d
<1>3. /\ a \o b \in Seq(Job)
      /\ \A k : Has(a \o b, k) => k \in {"code_review", "test_run"}
      /\ \A k : Once(a \o b, k)
      /\ OfCommit(a \o b, c)
  BY <1>2, Joined
<1> DEFINE ab == a \o b
<1>4. /\ ab \in Seq(Job)
      /\ \A k : Has(ab, k) => k \in {"code_review", "test_run"}
      /\ \A k : Once(ab, k)
      /\ OfCommit(ab, c)
  BY <1>3
<1> HIDE DEF ab
<1>6. /\ \A k : Has(ab \o d, k) => Has(ab, k) \/ Has(d, k)
      /\ \A k : Once(ab, k) /\ Once(d, k) /\ ~(Has(ab, k) /\ Has(d, k)) => Once(ab \o d, k)
      /\ OfCommit(ab, c) /\ OfCommit(d, c) => OfCommit(ab \o d, c)
      /\ ab \o d \in Seq(Job)
  BY <1>2, <1>4, Joined
<1>7. \A k : Has(ab \o d, k) => k \in Role
  BY <1>2, <1>4, <1>6 DEF Role
<1>8. \A k : ~(Has(ab, k) /\ Has(d, k))
  <2>1. "security" \notin {"code_review", "test_run"}
    OBVIOUS
  <2> QED
    BY <1>2, <1>4, <2>1
<1>9. \A k : Once(ab \o d, k)
  BY <1>2, <1>4, <1>6, <1>8
<1>5. RoleJobs(S, c) = ab \o d
  BY DEF RoleJobs, a, b, d, ab
<1> QED
  BY <1>2, <1>4, <1>5, <1>6, <1>7, <1>9

-----------------------------------------------------------------------------
(* One round after another.                                                *)

\* A full store is not an empty one.
LEMMA FullOrEmpty == verdict = <<>> => ~AllIn /\ DOMAIN verdict = {}
BY DEF AllIn, Role

\* While a report is due or stored, or somebody decides, no recode is under way.
LEMMA NotRecoding ==
  ASSUME RoundInv
  PROVE  /\ \A r \in Role : Due(r) \/ r \in DOMAIN verdict => ~Recoding /\ ~Has(queue, "pr_event")
         /\ Has(queue, "pr_event") => ~Recoding /\ ~AllIn /\ DOMAIN verdict \cap Role = {}
         /\ AllIn => ~Recoding /\ \A r \in Role : ~Due(r)
         /\ ~Recoding => recodes = 0 /\ \A w \in Worker : ~At(w, "recode")
BY FullOrEmpty DEF RoundInv, OneJobEach, OneRecode, Recoding, AllIn, Role

\* A worker that is past its job, and goes on or ends, keeps the round as it is.
LEMMA GoesOn ==
  ASSUME RoundInv, NEW w \in Worker,
         UNCHANGED <<head, verdict, queue, recodes>>,
         \A v \in Worker \ {w} : work'[v] = work[v],
         work'[w].pc \notin {"working", "recode"},
         Deciding(w)' => AllIn /\ work'[w].all = verdict,
         Passing(w)',
         lock' => lock \/ AllIn
  PROVE  RoundInv'
<1>1. \A r \in Role, v \in Worker : WorkingOn(v, r)' => WorkingOn(v, r)
  BY DEF WorkingOn, At
<1>2. \A r \in Role : Due(r)' => Due(r)
  BY <1>1 DEF Due
<1>3. \A v \in Worker : At(v, "recode")' => At(v, "recode")
  BY DEF At
<1>4. OneJobEach'
  BY <1>1, <1>2 DEF RoundInv, OneJobEach
<1>5. OfTheHead'
  <2>1. \A v \in Worker : At(v, "working")' => work'[v].job.commit = head
    BY DEF RoundInv, OfTheHead, At
  <2>2. \A v \in Worker : Deciding(v)' => AllIn /\ work'[v].all = verdict
    <3>1. \A v \in Worker \ {w} : Deciding(v)' => Deciding(v)
      BY DEF Deciding, At, Gating
    <3> QED
      BY <3>1 DEF RoundInv, OfTheHead
  <2> QED
    BY <2>1, <2>2 DEF RoundInv, OfTheHead, AllIn
<1>6. OneRecode'
  <2>1. Recoding' => Recoding
    BY <1>3 DEF Recoding
  <2>2. Recoding => ~lock'
    BY NotRecoding DEF RoundInv, OneRecode
  <2> QED
    BY <1>2, <1>3, <2>1, <2>2 DEF RoundInv, OneRecode
<1>7. \A v \in Worker : Passing(v)'
  BY DEF RoundInv, Passing, At
<1> QED
  BY <1>4, <1>5, <1>6, <1>7 DEF RoundInv

\* A step of the queue alone that brings no job of the round keeps it too.
LEMMA QueueMoves ==
  ASSUME RoundInv, UNCHANGED <<head, verdict, lock, recodes, work>>,
         \A k \in Role \cup {"pr_event"} :
           (Has(queue', k) => Has(queue, k)) /\ Once(queue', k),
         OfCommit(queue', head)
  PROVE  RoundInv'
<1>1. \A r \in Role : Due(r)' => Due(r)
  BY DEF Due, WorkingOn, At
<1>2. OneJobEach'
  BY <1>1 DEF RoundInv, OneJobEach, WorkingOn, At
<1>3. OfTheHead'
  BY DEF RoundInv, OfTheHead, Deciding, At, Gating, AllIn
<1>4. OneRecode'
  BY <1>1 DEF RoundInv, OneRecode, Recoding, At
<1>5. \A v \in Worker : Passing(v)'
  BY DEF RoundInv, Passing, At
<1> QED
  BY <1>2, <1>3, <1>4, <1>5 DEF RoundInv

\* What ends its work is idle, and the others go on with theirs.
LEMMA Ended ==
  ASSUME TypeOK, NEW w \in Worker, End(w)
  PROVE  /\ \A v \in Worker \ {w} : work'[v] = work[v]
         /\ work'[w].pc = "idle" /\ ~Deciding(w)' /\ Passing(w)'
<1>1. work'[w] = NoWork /\ \A v \in Worker \ {w} : work'[v] = work[v]
  BY DEF TypeOK, End
<1> QED
  BY <1>1 DEF NoWork, Deciding, Passing, At, Gating

\* The fan-out opens a round on an empty store.
LEMMA RoundFansOut ==
  ASSUME GateInv, RoundInv, NEW w \in Worker, HandlePrEvent(w)
  PROVE  RoundInv'
<1>1. /\ queue \in Seq(Job) /\ queue # <<>> /\ Head(queue).kind = "pr_event"
      /\ Head(queue) \in Job /\ Tail(queue) \in Seq(Job)
      /\ UNCHANGED <<head, verdict, lock, recodes, work>>
  BY DEF HandlePrEvent, GateInv, TypeOK, pr, store, story
<1> DEFINE t == Tail(queue)
           c == Head(queue).commit
<1>2. PICK S \in SUBSET Role : queue' = t \o RoleJobs(S, c)
  BY DEF HandlePrEvent
<1>3. /\ Has(queue, "pr_event")
      /\ \A k : Has(t, k) => Has(queue, k)
      /\ \A k : Once(queue, k) => Once(t, k)
      /\ Once(queue, "pr_event") => ~Has(t, "pr_event")
      /\ OfCommit(queue, head) => OfCommit(t, head) /\ c = head
  BY <1>1, Popped
<1>4. c = head /\ OfCommit(t, head) /\ ~Has(t, "pr_event") /\ c \in Commit
  BY <1>1, <1>3 DEF RoundInv, OneJobEach, OfTheHead, Job, JobOf
<1>5. \A r \in Role : ~Due(r) /\ r \notin DOMAIN verdict
  BY <1>3 DEF RoundInv, OneJobEach
<1> DEFINE f == RoleJobs(S, c)
<1>6. /\ f \in Seq(Job) /\ OfCommit(f, head)
      /\ \A k : (Has(f, k) => k \in Role) /\ Once(f, k)
  BY <1>4, Fanned
<1>7. queue' = t \o f /\ t \in Seq(Job)
  BY <1>1, <1>2
<1> HIDE DEF t, c, f
<1>8. /\ \A k : Has(queue', k) => Has(t, k) \/ Has(f, k)
      /\ \A k : Once(t, k) /\ Once(f, k) /\ ~(Has(t, k) /\ Has(f, k)) => Once(queue', k)
      /\ OfCommit(t, head) /\ OfCommit(f, head) => OfCommit(queue', head)
  BY <1>6, <1>7, Joined
<1>9. \A r \in Role : ~Has(t, r) /\ \A v \in Worker : ~WorkingOn(v, r)
  BY <1>3, <1>5 DEF Due
<1>10. ~Has(queue', "pr_event") /\ \A k \in Role \cup {"pr_event"} : Once(queue', k)
  BY <1>3, <1>4, <1>6, <1>8, <1>9 DEF RoundInv, OneJobEach, Role
<1>11. OneJobEach'
  <2>1. \A r \in Role, v \in Worker : ~WorkingOn(v, r)'
    BY <1>1, <1>9 DEF WorkingOn, At
  <2>2. \A r \in Role : r \notin DOMAIN verdict'
    BY <1>1, <1>5
  <2> QED
    BY <1>10, <2>1, <2>2 DEF OneJobEach
<1>12. OfTheHead'
  BY <1>1, <1>4, <1>6, <1>8 DEF RoundInv, OfTheHead, Deciding, At, Gating, AllIn
<1>13. OneRecode'
  <2>1. ~Recoding
    BY <1>3, NotRecoding
  <2>2. ~Recoding'
    BY <1>1, <2>1 DEF Recoding, At
  <2> QED
    BY <1>1, <2>2 DEF RoundInv, OneRecode, Recoding, At
<1>14. \A v \in Worker : Passing(v)'
  BY <1>1 DEF RoundInv, Passing, At
<1> QED
  BY <1>11, <1>12, <1>13, <1>14 DEF RoundInv

\* A job that is taken is as due as before.
LEMMA RoundTakes ==
  ASSUME GateInv, RoundInv, NEW w \in Worker, Take(w)
  PROVE  RoundInv'
<1> DEFINE k0 == Head(queue).kind
           t == Tail(queue)
<1>1. /\ queue \in Seq(Job) /\ queue # <<>> /\ k0 \in Role /\ queue' = t
      /\ UNCHANGED <<head, verdict, lock, recodes>>
      /\ work \in Works /\ At(w, "idle")
      /\ work' = [work EXCEPT ![w] = [pc |-> "working", job |-> Head(queue),
                                     all |-> <<>>, ci |-> 0]]
  BY DEF Take, GateInv, TypeOK, pr, store, story, Works
<1>2. /\ work'[w].pc = "working" /\ work'[w].job = Head(queue)
      /\ \A v \in Worker \ {w} : work'[v] = work[v]
  BY <1>1 DEF Works
<1>3. /\ Has(queue, k0)
      /\ \A k : Has(t, k) => Has(queue, k)
      /\ \A k : Once(queue, k) => Once(t, k)
      /\ Once(queue, k0) => ~Has(t, k0)
      /\ OfCommit(queue, head) => OfCommit(t, head) /\ (k0 # "merge" => Head(queue).commit = head)
  BY <1>1, Popped
<1>4. /\ OfCommit(t, head) /\ Head(queue).commit = head /\ ~Has(t, k0)
      /\ \A v \in Worker : ~WorkingOn(v, k0)
  BY <1>1, <1>3 DEF RoundInv, OneJobEach, OfTheHead, Role
<1> HIDE DEF t, k0
<1>5. Due(k0) /\ ~Recoding /\ ~Has(queue, "pr_event") /\ ~Has(t, "pr_event")
  BY <1>1, <1>3, NotRecoding DEF Due
<1>6. \A r \in Role, v \in Worker :
        /\ WorkingOn(v, r)' => WorkingOn(v, r) \/ (v = w /\ r = k0)
        /\ v # w => (WorkingOn(v, r)' => WorkingOn(v, r))
  BY <1>2 DEF WorkingOn, At, k0
<1>7. \A r \in Role : Due(r)' => Due(r)
  BY <1>1, <1>3, <1>5, <1>6 DEF Due
<1>8. OneJobEach'
  <2>1. \A k \in Role \cup {"pr_event"} : Once(queue', k)
    BY <1>1, <1>3 DEF RoundInv, OneJobEach
  <2>2. \A r \in Role : Has(queue', r) => \A v \in Worker : ~WorkingOn(v, r)'
    BY <1>1, <1>3, <1>4, <1>6 DEF RoundInv, OneJobEach
  <2>3. \A r \in Role : \A u, v \in Worker : WorkingOn(u, r)' /\ WorkingOn(v, r)' => u = v
    BY <1>4, <1>6 DEF RoundInv, OneJobEach
  <2>4. \A r \in Role : Due(r)' => r \notin DOMAIN verdict'
    BY <1>1, <1>7 DEF RoundInv, OneJobEach
  <2> QED
    BY <1>1, <1>5, <2>1, <2>2, <2>3, <2>4 DEF OneJobEach
<1>9. OfTheHead'
  <2>1. OfCommit(queue', head')
    BY <1>1, <1>4
  <2>2. \A v \in Worker : At(v, "working")' => work'[v].job.commit = head'
    BY <1>1, <1>2, <1>4 DEF RoundInv, OfTheHead, At
  <2>3. \A v \in Worker : Deciding(v)' => AllIn' /\ work'[v].all = verdict'
    <3>1. ~Deciding(w)'
      BY <1>2 DEF Deciding, At, Gating
    <3>2. \A v \in Worker \ {w} : Deciding(v)' => Deciding(v)
      BY <1>2 DEF Deciding, At, Gating
    <3> QED
      BY <1>1, <1>2, <3>1, <3>2 DEF RoundInv, OfTheHead, AllIn
  <2> QED
    BY <1>1, <2>1, <2>2, <2>3 DEF RoundInv, OfTheHead
<1>10. OneRecode'
  <2>1. ~Recoding' /\ recodes' = 0 /\ \A v \in Worker : ~At(v, "recode")'
    BY <1>1, <1>2, <1>5, NotRecoding DEF Recoding, At
  <2> QED
    BY <2>1 DEF OneRecode
<1>11. \A v \in Worker : Passing(v)'
  BY <1>1, <1>2 DEF RoundInv, Passing, At
<1> QED
  BY <1>8, <1>9, <1>10, <1>11 DEF RoundInv

\* A job that raises is dropped, or goes back to the queue, once.
LEMMA RoundRaises ==
  ASSUME GateInv, RoundInv, NEW w \in Worker, JobRaises(w), At(w, "working")
  PROVE  RoundInv'
<1> DEFINE j == work[w].job
<1>1. /\ queue \in Seq(Job) /\ End(w) /\ UNCHANGED <<head, verdict, lock, recodes>>
      /\ UNCHANGED queue \/ (j.tries < RetryMax /\ queue' = Append(queue, [j EXCEPT !.tries = @ + 1]))
  BY DEF JobRaises, RetryOrDrop, GateInv, TypeOK, pr, store, story
<1>2. /\ \A v \in Worker \ {w} : work'[v] = work[v]
      /\ work'[w].pc = "idle" /\ ~Deciding(w)' /\ Passing(w)'
  BY <1>1, Ended DEF GateInv
<1>3. CASE UNCHANGED queue
  BY <1>1, <1>2, <1>3, GoesOn
<1>4. CASE j.tries < RetryMax /\ queue' = Append(queue, [j EXCEPT !.tries = @ + 1])
  <2> DEFINE x == [j EXCEPT !.tries = @ + 1]
  <2>1. j \in JobOf(Role)
    BY BusyHasWork DEF At, GateInv, TypeOK, Works, Work
  <2>2. x \in Job /\ x.kind = j.kind /\ x.commit = j.commit /\ j.kind \in Role
    BY <1>4, <2>1, GateAssumption DEF Job, JobOf
  <2>3. WorkingOn(w, j.kind) /\ Due(j.kind) /\ x.commit = head
    BY <2>2 DEF WorkingOn, Due, RoundInv, OfTheHead
  <2>4. queue' = Append(queue, x)
    BY <1>4
  <2> HIDE DEF x
  <2>5. /\ \A k : Has(queue', k) => Has(queue, k) \/ k = j.kind
        /\ \A k : Once(queue, k) /\ (k = j.kind => ~Has(queue, k)) => Once(queue', k)
        /\ OfCommit(queue, head) => OfCommit(queue', head)
    BY <1>1, <2>2, <2>3, <2>4, Appended
  <2>6. ~Has(queue, j.kind) /\ ~Recoding /\ ~Has(queue, "pr_event")
    BY <2>2, <2>3, NotRecoding DEF RoundInv, OneJobEach
  <2>7. ~Has(queue', "pr_event")
    BY <2>2, <2>5, <2>6 DEF Role
  <2>8. \A r \in Role, v \in Worker :
          WorkingOn(v, r)' => WorkingOn(v, r) /\ v # w
    BY <1>2 DEF WorkingOn, At
  <2>9. \A r \in Role : Due(r)' => Due(r)
    BY <2>3, <2>5, <2>8 DEF Due
  <2>10. OneJobEach'
    <3>1. \A k \in Role \cup {"pr_event"} : Once(queue', k)
      BY <2>5, <2>6 DEF RoundInv, OneJobEach
    <3>2. \A r \in Role, v \in Worker : r = j.kind => ~WorkingOn(v, r)'
      BY <2>2, <2>3, <2>8 DEF RoundInv, OneJobEach
    <3>3. \A r \in Role : Has(queue', r) => \A v \in Worker : ~WorkingOn(v, r)'
      BY <2>5, <2>8, <3>2 DEF RoundInv, OneJobEach
    <3> QED
      BY <1>1, <2>7, <2>8, <2>9, <3>1, <3>3 DEF RoundInv, OneJobEach
  <2>11. OfTheHead'
    <3>1. \A v \in Worker : At(v, "working")' => work'[v].job.commit = head
      BY <1>2 DEF RoundInv, OfTheHead, At
    <3>2. \A v \in Worker : Deciding(v)' => Deciding(v) /\ v # w
      BY <1>2 DEF Deciding, At, Gating
    <3>3. \A v \in Worker : Deciding(v)' => AllIn' /\ work'[v].all = verdict
      BY <1>1, <1>2, <3>2 DEF RoundInv, OfTheHead, AllIn
    <3> QED
      BY <1>1, <2>5, <3>1, <3>3 DEF RoundInv, OfTheHead
  <2>12. OneRecode'
    <3>1. ~Recoding' /\ recodes' = 0 /\ \A v \in Worker : ~At(v, "recode")'
      BY <1>1, <1>2, <2>6, NotRecoding DEF Recoding, At
    <3> QED
      BY <3>1 DEF OneRecode
  <2>13. \A v \in Worker : Passing(v)'
    BY <1>1, <1>2 DEF RoundInv, Passing, At
  <2> QED
    BY <2>10, <2>11, <2>12, <2>13 DEF RoundInv
<1> QED
  BY <1>1, <1>3, <1>4

\* A verdict is stored by the one job of its role.
LEMMA RoundStores ==
  ASSUME GateInv, RoundInv, NEW w \in Worker, StoreVerdict(w)
  PROVE  /\ RoundInv' /\ ~AllIn /\ work'[w].pc = "stored"
         /\ \A v \in Worker \ {w} : work'[v] = work[v]
<1> DEFINE k0 == work[w].job.kind
<1>1. /\ At(w, "working") /\ Goto(w, "stored") /\ UNCHANGED <<head, queue, lock, recodes>>
  BY DEF StoreVerdict, pr, story
<1>2. work[w] \in Work /\ k0 \in Role
  BY <1>1, BusyHasWork DEF At, GateInv, TypeOK, Works, Work, JobOf
<1>3. work'[w].pc = "stored" /\ \A v \in Worker \ {w} : work'[v] = work[v]
  BY <1>1, GotoMoves DEF GateInv, Busy, At
<1>4. PICK st : verdict' = [r \in DOMAIN verdict \cup {k0} |->
                     IF r = k0 THEN [status |-> st, commit |-> work[w].job.commit]
                     ELSE verdict[r]]
  BY DEF StoreVerdict
<1> HIDE DEF k0
<1>5. WorkingOn(w, k0) /\ Due(k0) /\ work[w].job.commit = head
  BY <1>1, <1>2 DEF WorkingOn, Due, RoundInv, OfTheHead, k0
<1>6. k0 \notin DOMAIN verdict /\ ~Recoding /\ ~Has(queue, "pr_event") /\ ~AllIn
      /\ ~Has(queue, k0)
  BY <1>2, <1>5, NotRecoding DEF RoundInv, OneJobEach
<1>7. DOMAIN verdict' = DOMAIN verdict \cup {k0}
      /\ \A r \in DOMAIN verdict' : verdict'[r].commit = head
  <2>1. verdict'[k0].commit = head
    BY <1>4, <1>5
  <2>2. \A r \in DOMAIN verdict : r # k0 /\ verdict'[r] = verdict[r]
    BY <1>4, <1>6
  <2>3. DOMAIN verdict' = DOMAIN verdict \cup {k0}
    BY <1>4
  <2> QED
    BY <2>1, <2>2, <2>3 DEF RoundInv, OfTheHead
<1>8. \A r \in Role, v \in Worker : WorkingOn(v, r)' => WorkingOn(v, r) /\ v # w
  BY <1>3 DEF WorkingOn, At
<1>9. \A r \in Role, v \in Worker : r = k0 => ~WorkingOn(v, r)'
  BY <1>2, <1>5, <1>8 DEF RoundInv, OneJobEach
<1>10. \A r \in Role : Due(r)' => Due(r) /\ r # k0
  BY <1>1, <1>6, <1>8, <1>9 DEF Due
<1>11. OneJobEach'
  BY <1>1, <1>6, <1>7, <1>8, <1>10 DEF RoundInv, OneJobEach
<1>12. OfTheHead'
  <2>1. \A v \in Worker : ~Deciding(v)'
    <3>1. \A v \in Worker : Deciding(v)' => Deciding(v)
      BY <1>3 DEF Deciding, At, Gating
    <3> QED
      BY <1>6, <3>1 DEF RoundInv, OfTheHead
  <2>2. \A v \in Worker : At(v, "working")' => work'[v].job.commit = head
    BY <1>3 DEF RoundInv, OfTheHead, At
  <2> QED
    BY <1>1, <1>7, <2>1, <2>2 DEF RoundInv, OfTheHead
<1>13. OneRecode'
  <2>1. ~Recoding' /\ recodes' = 0 /\ \A v \in Worker : ~At(v, "recode")'
    BY <1>1, <1>3, <1>6, NotRecoding DEF Recoding, At
  <2> QED
    BY <2>1 DEF OneRecode
<1>14. \A v \in Worker : Passing(v)'
  BY <1>1, <1>3 DEF RoundInv, Passing, At
<1> QED
  BY <1>3, <1>6, <1>11, <1>12, <1>13, <1>14 DEF RoundInv

\* A gate clears the store when its round is over, and nobody else has collected it.
LEMMA RoundClears ==
  ASSUME Orderly, GateInv, RoundInv, NEW w \in Worker, ClearVerdicts(w)
  PROVE  RoundInv'
<1>1. /\ At(w, "clear") /\ Goto(w, "recode") /\ verdict' = <<>> /\ ~lock'
      /\ UNCHANGED <<head, queue, recodes>>
      /\ \A v \in Worker : ~At(v, "collected")
  BY DEF ClearVerdicts, MayClear, Orderly, pr, story
<1>2. work'[w].pc = "recode" /\ \A v \in Worker \ {w} : work'[v] = work[v]
  BY <1>1, GotoMoves DEF GateInv, Busy, At
<1>3. AllIn /\ ~Recoding /\ ~Has(queue, "pr_event") /\ \A r \in Role : ~Due(r)
  <2>1. Deciding(w)
    BY <1>1 DEF Deciding, At, Gating
  <2>2. AllIn
    BY <2>1 DEF RoundInv, OfTheHead
  <2>3. "security" \in Role /\ "security" \in DOMAIN verdict
    BY <2>2 DEF AllIn, Role
  <2> QED
    BY <2>2, <2>3, NotRecoding
<1>4. \A v \in Worker : ~Deciding(v)'
  <2>1. \A v \in Worker \ {w} : ~Deciding(v)
    BY <1>1 DEF GateInv, OneGate, Deciding, Gating, At
  <2> QED
    BY <1>2, <2>1 DEF Deciding, Gating, At
<1>5. \A r \in Role : ~Due(r)' /\ \A v \in Worker : ~WorkingOn(v, r)'
  <2>1. \A r \in Role, v \in Worker : WorkingOn(v, r)' => WorkingOn(v, r)
    BY <1>2 DEF WorkingOn, At
  <2> QED
    BY <1>1, <1>3, <2>1 DEF Due
<1>6. DOMAIN verdict' = {}
  BY <1>1
<1>7. OneJobEach'
  BY <1>1, <1>5, <1>6 DEF RoundInv, OneJobEach
<1>8. OfTheHead'
  <2>1. \A v \in Worker : At(v, "working")' => work'[v].job.commit = head
    BY <1>2 DEF RoundInv, OfTheHead, At
  <2> QED
    BY <1>1, <1>4, <1>6, <2>1 DEF RoundInv, OfTheHead
<1>9. OneRecode'
  <2>1. recodes' = 0 /\ \A v \in Worker : At(v, "recode")' => v = w
    BY <1>1, <1>2, <1>3, NotRecoding DEF At
  <2> QED
    BY <1>1, <1>3, <1>5, <2>1 DEF OneRecode
<1>10. \A v \in Worker : Passing(v)'
  BY <1>1, <1>2 DEF RoundInv, Passing, At
<1> QED
  BY <1>7, <1>8, <1>9, <1>10 DEF RoundInv

\* The call for a recode hands the round over to the web process.
LEMMA RoundRecodes ==
  ASSUME GateInv, RoundInv, NEW w \in Worker, TriggerRecode(w)
  PROVE  RoundInv'
<1>1. /\ At(w, "recode") /\ End(w) /\ UNCHANGED <<head, verdict, lock, queue>>
      /\ recodes' \in {recodes, recodes + 1}
  BY DEF TriggerRecode, pr, store
<1>2. Recoding /\ recodes = 0 /\ \A v \in Worker : At(v, "recode") => v = w
  BY <1>1 DEF Recoding, RoundInv, OneRecode
<1>3. /\ \A v \in Worker \ {w} : work'[v] = work[v]
      /\ work'[w].pc = "idle" /\ ~Deciding(w)' /\ Passing(w)'
  BY <1>1, Ended DEF GateInv
<1>4. recodes' \in {0, 1} /\ \A v \in Worker : ~At(v, "recode")'
  BY <1>1, <1>2, <1>3 DEF At
<1>5. \A r \in Role, v \in Worker : WorkingOn(v, r)' => WorkingOn(v, r)
  BY <1>3 DEF WorkingOn, At
<1>6. \A r \in Role : Due(r)' => Due(r)
  BY <1>1, <1>5 DEF Due
<1>7. OneJobEach'
  BY <1>1, <1>5, <1>6 DEF RoundInv, OneJobEach
<1>8. OfTheHead'
  <2>1. \A v \in Worker : At(v, "working")' => work'[v].job.commit = head
    BY <1>3 DEF RoundInv, OfTheHead, At
  <2>2. \A v \in Worker : Deciding(v)' => AllIn /\ work'[v].all = verdict
    <3>1. \A v \in Worker \ {w} : Deciding(v)' => Deciding(v)
      BY <1>3 DEF Deciding, At, Gating
    <3> QED
      BY <1>3, <3>1 DEF RoundInv, OfTheHead
  <2> QED
    BY <1>1, <2>1, <2>2 DEF RoundInv, OfTheHead, AllIn
<1>9. OneRecode'
  BY <1>1, <1>2, <1>4, <1>6 DEF RoundInv, OneRecode
<1>10. \A v \in Worker : Passing(v)'
  BY <1>1, <1>3 DEF RoundInv, Passing, At
<1> QED
  BY <1>7, <1>8, <1>9, <1>10 DEF RoundInv

\* The fix that a recode pushes opens the next round.
LEMMA RoundPushes ==
  ASSUME GateInv, RoundInv, RecodePushes
  PROVE  RoundInv'
<1>1. /\ recodes > 0 /\ head' = head + 1 /\ head < MaxCommit /\ Announce(head + 1)
      /\ recodes' = recodes - 1
      /\ UNCHANGED <<verdict, lock, work>>
      /\ queue \in Seq(Job) /\ head \in Commit
  BY DEF RecodePushes, GateInv, TypeOK, store
<1>2. /\ verdict = <<>> /\ ~Has(queue, "pr_event") /\ \A r \in Role : ~Due(r)
      /\ recodes = 1 /\ \A v \in Worker : ~At(v, "recode")
  BY <1>1 DEF Recoding, RoundInv, OneRecode
<1>3. ~AllIn /\ DOMAIN verdict = {}
  BY <1>2, FullOrEmpty
<1>4. \A v \in Worker : ~Deciding(v) /\ ~At(v, "working")
  <2>1. \A v \in Worker : ~Deciding(v)
    BY <1>3 DEF RoundInv, OfTheHead
  <2>2. \A v \in Worker : At(v, "working") => work[v].job.kind \in Role
    BY BusyHasWork DEF At, GateInv, TypeOK, Works, Work, JobOf
  <2>3. \A v \in Worker : ~At(v, "working")
    BY <1>2, <2>2 DEF Due, WorkingOn
  <2> QED
    BY <2>1, <2>3
<1>5. OfCommit(queue, head + 1) /\ \A r \in Role : ~Has(queue, r)
  <2>1. \A r \in Role : ~Has(queue, r)
    BY <1>2 DEF Due
  <2>2. \A i \in 1..Len(queue) : queue[i] \in Job
    BY <1>1
  <2>3. \A i \in 1..Len(queue) : queue[i].kind = "merge"
    BY <1>2, <2>1, <2>2 DEF Has, Job, JobOf
  <2> QED
    BY <2>1, <2>3 DEF OfCommit
<1>6. /\ OfCommit(queue', head + 1) /\ \A r \in Role : ~Has(queue', r)
      /\ \A k \in Role \cup {"pr_event"} : Once(queue', k)
  <2> DEFINE x == NewJob("pr_event", head + 1)
  <2>1. x \in Job /\ x.kind = "pr_event" /\ x.commit = head + 1
    BY <1>1, GateAssumption, NewJobType DEF NewJob, Commit
  <2>2. UNCHANGED queue \/ queue' = Append(queue, x)
    BY <1>1 DEF Announce
  <2> HIDE DEF x
  <2>3. \A k \in Role \cup {"pr_event"} : Once(queue, k)
    BY DEF RoundInv, OneJobEach
  <2>4. CASE queue' = Append(queue, x)
    <3>1. /\ \A k : Has(queue', k) => Has(queue, k) \/ k = "pr_event"
          /\ \A k : Once(queue, k) /\ (k = "pr_event" => ~Has(queue, k)) => Once(queue', k)
          /\ OfCommit(queue, head + 1) => OfCommit(queue', head + 1)
      BY <1>1, <2>1, <2>4, Appended
    <3> QED
      BY <1>2, <1>5, <2>3, <3>1 DEF Role
  <2>5. CASE UNCHANGED queue
    BY <1>5, <2>3, <2>5
  <2> QED
    BY <2>2, <2>4, <2>5
<1>7. \A r \in Role : ~Due(r)' /\ \A v \in Worker : ~WorkingOn(v, r)'
  BY <1>1, <1>4, <1>6 DEF Due, WorkingOn, At
<1>8. OneJobEach'
  BY <1>1, <1>3, <1>6, <1>7 DEF OneJobEach
<1>9. OfTheHead'
  BY <1>1, <1>3, <1>4, <1>6 DEF OfTheHead, Deciding, At, Gating
<1>10. OneRecode'
  <2>1. ~Recoding' /\ recodes' = 0 /\ \A v \in Worker : ~At(v, "recode")'
    BY <1>1, <1>2 DEF Recoding, At
  <2> QED
    BY <2>1 DEF OneRecode
<1>11. \A v \in Worker : Passing(v)'
  BY <1>1, <1>4 DEF RoundInv, Passing, Deciding, Gating, At
<1> QED
  BY <1>8, <1>9, <1>10, <1>11 DEF RoundInv

LEMMA RoundGivesUp ==
  ASSUME GateInv, RoundInv, RecodeGivesUp
  PROVE  RoundInv'
<1>1. recodes > 0 /\ recodes' = recodes - 1 /\ UNCHANGED <<head, queue, verdict, lock, work>>
  BY DEF RecodeGivesUp, pr, store
<1>2. recodes = 1 /\ recodes' = 0 /\ \A v \in Worker : ~At(v, "recode")
  BY <1>1 DEF RoundInv, OneRecode
<1>3. OneJobEach' /\ OfTheHead'
  BY <1>1 DEF RoundInv, OneJobEach, OfTheHead, Due, WorkingOn, Deciding, Gating, At, AllIn
<1>4. OneRecode'
  <2>1. ~Recoding' /\ \A v \in Worker : ~At(v, "recode")'
    BY <1>1, <1>2 DEF Recoding, At
  <2> QED
    BY <1>2, <2>1 DEF OneRecode
<1>5. \A v \in Worker : Passing(v)'
  BY <1>1 DEF RoundInv, Passing, At
<1> QED
  BY <1>3, <1>4, <1>5 DEF RoundInv

\* The gate itself: from the collected store to its decision.
LEMMA RoundGates ==
  ASSUME GateInv, RoundInv, NEW w \in Worker,
         EndWithoutVerdict(w) \/ Collect(w) \/ Claim(w) \/ ApplyGate(w) \/ CiGreen(w)
           \/ CiUnread(w) \/ CiRed(w) \/ CiStall(w) \/ Conflict(w) \/ AutoMerge(w)
  PROVE  RoundInv'
<1>0. /\ UNCHANGED <<head, verdict, queue, recodes>>
      /\ TypeOK
  BY DEF EndWithoutVerdict, Collect, Claim, ApplyGate, CiGreen, CiUnread, CiRed, CiStall, Conflict,
         AutoMerge, pr, store, story, GateInv
<1>1. CASE End(w) /\ UNCHANGED lock
  BY <1>0, <1>1, Ended, GoesOn
<1>2. CASE Collect(w) /\ AllIn
  <2>1. work[w] \in Work
    BY <1>2, BusyHasWork DEF Collect, At, GateInv, TypeOK, Works
  <2>2. /\ work'[w].pc = "collected" /\ work'[w].all = verdict
        /\ \A v \in Worker \ {w} : work'[v] = work[v]
    BY <1>0, <1>2, <2>1 DEF Collect, TypeOK, Work
  <2>3. Passing(w)' /\ UNCHANGED lock
    BY <1>2, <2>2 DEF Passing, At, Collect, store
  <2> QED
    BY <1>0, <1>2, <2>2, <2>3, GoesOn
<1>3. ASSUME Deciding(w), NEW pc \in {"summary", "clear", "ci"}, Goto(w, pc),
             pc = "ci" => FailingChecks(work[w].all) = {} /\ ~SecurityFails(work[w].all),
             lock' => lock \/ AllIn
      PROVE  RoundInv'
  <2>1. work[w] \in Work
    BY <1>0, <1>3, BusyHasWork DEF Deciding, At, Gating, TypeOK, Works
  <2>2. /\ work'[w].pc = pc /\ work'[w].all = work[w].all
        /\ \A v \in Worker \ {w} : work'[v] = work[v]
    BY <1>0, <1>3, <2>1 DEF Goto, TypeOK, Work
  <2>3. AllIn /\ work'[w].all = verdict
    BY <1>3, <2>2 DEF RoundInv, OfTheHead
  <2>4. Passing(w)'
    BY <1>3, <2>2 DEF Passing, At, FailingChecks, SecurityFails
  <2> QED
    BY <1>0, <1>3, <2>2, <2>3, <2>4, GoesOn
<1>4. CASE Claim(w) /\ Goto(w, "summary")
  <2>1. At(w, "collected") /\ Goto(w, "summary") /\ Deciding(w)
    BY <1>4 DEF Claim, Deciding
  <2>2. AllIn
    BY <2>1 DEF RoundInv, OfTheHead
  <2> QED
    BY <1>3, <2>1, <2>2
<1>5. CASE ApplyGate(w) /\ ~End(w)
  <2>1. Deciding(w) /\ UNCHANGED lock
    BY <1>5 DEF ApplyGate, Deciding, Gating, At, store
  <2>2. \/ Goto(w, "clear")
        \/ Goto(w, "ci") /\ FailingChecks(work[w].all) = {} /\ ~SecurityFails(work[w].all)
    BY <1>5 DEF ApplyGate
  <2> QED
    BY <1>3, <2>1, <2>2
<1>6. CASE CiRed(w) \/ Conflict(w)
  <2>1. Deciding(w) /\ UNCHANGED lock /\ Goto(w, "clear")
    BY <1>6 DEF CiRed, Conflict, Deciding, Gating, At, store
  <2> QED
    BY <1>3, <2>1
<1>7. CASE CiGreen(w) \/ CiUnread(w)
  <2>1. work[w] \in Work /\ work[w].pc = "ci"
    BY <1>0, <1>7, BusyHasWork DEF CiGreen, CiUnread, At, TypeOK, Works
  <2>2. /\ work'[w].pc = "merge" /\ work'[w].all = work[w].all
        /\ work'[w].ci = head \/ ("unread" \in Enabled /\ work'[w].ci = Unread)
        /\ \A v \in Worker \ {w} : work'[v] = work[v]
    BY <1>0, <1>7, <2>1 DEF CiGreen, CiUnread, TypeOK, Work
  <2>3. Deciding(w) /\ Passing(w)
    BY <2>1 DEF Deciding, Gating, RoundInv
  <2>4. AllIn /\ work'[w].all = verdict
    BY <2>2, <2>3 DEF RoundInv, OfTheHead
  <2>5. Passing(w)' /\ UNCHANGED lock
    BY <1>0, <1>7, <2>1, <2>2, <2>3
    DEF Passing, At, FailingChecks, SecurityFails, CiGreen, CiUnread, Unread, store
  <2> QED
    BY <1>0, <2>2, <2>4, <2>5, GoesOn
<1>8. CASE EndWithoutVerdict(w) \/ CiStall(w) \/ AutoMerge(w)
  BY <1>1, <1>8 DEF EndWithoutVerdict, CiStall, AutoMerge, store
<1>9. CASE Collect(w)
  BY <1>1, <1>2, <1>9 DEF Collect, store
<1>10. CASE Claim(w)
  BY <1>1, <1>4, <1>10 DEF Claim
<1>11. CASE ApplyGate(w)
  BY <1>1, <1>5, <1>11 DEF ApplyGate, store
<1> QED
  BY <1>6, <1>7, <1>8, <1>9, <1>10, <1>11

\* Beside the round there is only the merge that an operator approved.
LEMMA RoundMerges ==
  ASSUME GateInv, RoundInv, ApproveMerge \/ \E w \in Worker : DoMerge(w)
  PROVE  RoundInv'
<1>0. queue \in Seq(Job) /\ UNCHANGED <<head, verdict, lock, recodes, work>>
  BY DEF ApproveMerge, DoMerge, pr, store, story, GateInv, TypeOK
<1>a. /\ OfCommit(queue, head)
      /\ \A k \in Role \cup {"pr_event"} : Once(queue, k) /\ k # "merge"
  BY DEF RoundInv, OneJobEach, OfTheHead, Role
<1>1. CASE ApproveMerge
  <2> DEFINE x == NewJob("merge", head)
  <2>1. x \in Job /\ x.kind = "merge" /\ queue' = Append(queue, x)
    BY <1>1, NewJobType DEF ApproveMerge, GateInv, TypeOK, NewJob
  <2> HIDE DEF x
  <2>2. /\ \A k : Has(queue', k) => Has(queue, k) \/ k = "merge"
        /\ \A k : Once(queue, k) /\ (k = "merge" => ~Has(queue, k)) => Once(queue', k)
        /\ OfCommit(queue, head) => OfCommit(queue', head)
    BY <1>0, <2>1, Appended
  <2> QED
    BY <1>0, <1>a, <2>2, QueueMoves
<1>2. CASE \E w \in Worker : DoMerge(w)
  <2>1. queue # <<>> /\ queue' = Tail(queue)
    BY <1>2 DEF DoMerge
  <2>2. /\ \A k : Has(queue', k) => Has(queue, k)
        /\ \A k : Once(queue, k) => Once(queue', k)
        /\ OfCommit(queue, head) => OfCommit(queue', head)
    BY <1>0, <2>1, Popped
  <2> QED
    BY <1>0, <1>a, <2>2, QueueMoves
<1> QED
  BY <1>1, <1>2

LEMMA RoundInit == Init => RoundInv
<1> SUFFICES ASSUME Init PROVE RoundInv
  OBVIOUS
<1> DEFINE x == NewJob("pr_event", 1)
<1>1. x \in Job /\ x.kind = "pr_event" /\ x.commit = 1
  BY NewJobType, GateAssumption DEF NewJob, Commit
<1>2. queue = <<x>> /\ head = 1 /\ recodes = 0 /\ verdict = <<>> /\ DOMAIN verdict = {}
  BY DEF Init
<1> HIDE DEF x
<1>3. /\ \A k : Has(queue, k) => k = "pr_event"
      /\ \A k : Once(queue, k)
      /\ OfCommit(queue, head)
  BY <1>1, <1>2, OneJob
<1>4. \A w \in Worker : At(w, "idle")
  BY DEF Init, NoWork, At
<1>5. \A r \in Role : ~Due(r) /\ \A w \in Worker : ~WorkingOn(w, r)
  BY <1>3, <1>4 DEF Due, WorkingOn, At, Role
<1>6. OneJobEach
  BY <1>2, <1>3, <1>5 DEF OneJobEach
<1>7. OfTheHead
  BY <1>2, <1>3, <1>4 DEF OfTheHead, Deciding, Gating, At
<1>8. OneRecode
  BY <1>2, <1>4 DEF OneRecode, Recoding, At
<1>9. \A w \in Worker : Passing(w)
  BY <1>4 DEF Passing, At
<1> QED
  BY <1>6, <1>7, <1>8, <1>9 DEF RoundInv

LEMMA RoundStep ==
  ASSUME Orderly, GateInv, RoundInv, [Next]_vars
  PROVE  RoundInv'
<1>1. ~Push /\ ~Watchdog /\ ~RetryItem
  BY DEF Orderly, Push, Watchdog, RetryItem
<1>2. \A w \in Worker : /\ ~UpdateBranch(w) /\ ~Kill(w)
                        /\ JobRaises(w) => At(w, "working")
  BY DEF Orderly, UpdateBranch, Kill, JobRaises
<1>3. CASE UNCHANGED vars
  BY <1>3 DEF vars, pr, store, story, RoundInv, OneJobEach, OfTheHead, OneRecode, Recoding,
              Passing, Due, WorkingOn, Deciding, Gating, At, AllIn
<1> QED
  BY <1>1, <1>2, <1>3, RoundFansOut, RoundTakes, RoundRaises, RoundStores, RoundClears,
     RoundRecodes, RoundPushes, RoundGivesUp, RoundGates, RoundMerges
     DEF Next, JobStep, Recode

\* From the first webhook on, step by step.
LEMMA RoundsStart == Init => GateInv /\ RoundInv
BY TypeInit, RoundInit DEF Init, GateInv, GateHoldsLock, OneGate, Gating, NoWork

LEMMA RoundsGoOn == Orderly => (GateInv /\ RoundInv /\ [Next]_vars => GateInv' /\ RoundInv')
BY TypeStep, GateInvStep, RoundStep DEF GateInv

\* The verdicts a gate goes by are all about the head: three jobs report them one
\* by one and the store keeps no commit, but the next round starts only when the
\* last one's verdicts are cleared (handlers.py, verdicts.py, gate.py).
THEOREM GateGoesByHead == Orderly => (Spec => []GateSeesHead)
<1> SUFFICES ASSUME Orderly PROVE Spec => []GateSeesHead
  OBVIOUS
<1>1. RoundInv => GateSeesHead
  BY DEF RoundInv, OfTheHead, Deciding, GateSeesHead, AllIn
<1> QED
  BY <1>1, RoundsStart, RoundsGoOn, PTL DEF Spec

-----------------------------------------------------------------------------
(* What was merged.                                                        *)

\* A merge by the gate is of the head that its reviews and its CI saw.
LEMMA MergeStep ==
  ASSUME GateInv, RoundInv, MergedWasReviewed, [Next]_vars, Orderly
  PROVE  MergedWasReviewed'
<1>1. CASE UNCHANGED merged
  BY <1>1 DEF MergedWasReviewed
<1>2. ASSUME NEW w \in Worker, DoMerge(w)
      PROVE  MergedWasReviewed'
  BY <1>2 DEF DoMerge, MergedWasReviewed
<1>3. ASSUME NEW w \in Worker, AutoMerge(w)
      PROVE  MergedWasReviewed'
  <2>1. Deciding(w) /\ Passing(w)
    BY <1>3 DEF AutoMerge, Deciding, Gating, RoundInv
  <2>2. work[w].pc = "merge"
    BY <1>3, <2>1 DEF AutoMerge, Passing, At
  <2>3. /\ FailingChecks(work[w].all) = {} /\ ~SecurityFails(work[w].all)
        /\ work[w].ci = head \/ ("unread" \in Enabled /\ work[w].ci = Unread)
    BY <2>1, <2>2 DEF Passing, At
  <2>4. work[w].all = verdict /\ DOMAIN verdict = Role
    BY <2>1 DEF RoundInv, OfTheHead, AllIn
  <2>5. verdict \in [Role -> Verdict]
    BY <2>4, OneOfEach DEF GateInv, TypeOK
  <2>6. \A r \in Role : verdict[r].status = "ok" /\ verdict[r].commit = head
    BY <2>3, <2>4, <2>5 DEF FailingChecks, SecurityFails, Verdict, Role, RoundInv, OfTheHead
  <2> DEFINE m == [commit |-> head, all |-> work[w].all, ci |-> work[w].ci, by |-> "gate"]
  <2>7. merged' \subseteq merged \cup {m}
    BY <1>3 DEF AutoMerge
  <2>8. /\ m.all = verdict /\ m.commit = head
        /\ m.ci = head \/ ("unread" \in Enabled /\ m.ci = Unread)
    BY <2>3, <2>4
  <2> HIDE DEF m
  <2> QED
    BY <2>6, <2>7, <2>8 DEF MergedWasReviewed
<1>4. UNCHANGED merged \/ \E w \in Worker : DoMerge(w) \/ AutoMerge(w)
  BY DEF Next, JobStep, Recode, HandlePrEvent, Take, StoreVerdict, Collect, Claim, ApplyGate,
         CiGreen, CiUnread, CiRed, CiStall, Conflict, ClearVerdicts, TriggerRecode, UpdateBranch,
         EndWithoutVerdict, JobRaises, Kill, RecodePushes, RecodeGivesUp, Push, Watchdog,
         RetryItem, ApproveMerge, pr, vars
<1> QED
  BY <1>1, <1>2, <1>3, <1>4

\* README.md, "A PR auto-merges only when all three verdicts and CI are green": what
\* the gate merged was the commit that all three had passed and whose CI it had seen
\* pass, or had been unable to read, although merge_pr names no commit (gate.py,
\* apply_merge_gate, _wait_for_ci, _gate_merge).
THEOREM MergesAreReviewed == Orderly => (Spec => []MergedWasReviewed)
<1> SUFFICES ASSUME Orderly PROVE Spec => []MergedWasReviewed
  OBVIOUS
<1>1. Init => MergedWasReviewed
  BY DEF Init, MergedWasReviewed
<1>2. GateInv /\ RoundInv /\ MergedWasReviewed /\ [Next]_vars => MergedWasReviewed'
  BY MergeStep
<1> QED
  BY <1>1, <1>2, RoundsStart, RoundsGoOn, PTL DEF Spec

-----------------------------------------------------------------------------
(* No round is left unfinished.                                            *)

\* A full store stays attended by a step that leaves the jobs which are about to
\* look at it, and those about to gate it, where they are.
LEMMA StillAttended ==
  ASSUME Attended, UNCHANGED <<head, store>>, gated \subseteq gated',
         \A v \in Worker : work[v].pc \in {"stored", "collected", "summary"}
                             => work'[v].pc = work[v].pc
  PROVE  Attended'
BY DEF Attended, AllIn, At, store

\* So it does when there is no full store and no lock.
LEMMA NothingToAttend ==
  ASSUME ~lock', ~AllIn'
  PROVE  Attended'
BY DEF Attended

LEMMA AttendedStep ==
  ASSUME Orderly, GateInv, RoundInv, Attended, [Next]_vars
  PROVE  Attended'
<1>0. TypeOK
  BY DEF GateInv
<1>a. ASSUME NEW w \in Worker, End(w), UNCHANGED <<head, store>>, gated \subseteq gated',
             work[w].pc \notin {"stored", "collected", "summary"}
      PROVE  Attended'
  BY <1>0, <1>a, Ended, StillAttended
<1>b. ASSUME NEW w \in Worker, NEW pc \in Busy, Goto(w, pc), UNCHANGED <<head, store>>,
             gated \subseteq gated', work[w].pc \notin {"idle", "stored", "collected", "summary"}
      PROVE  Attended'
  BY <1>0, <1>b, GotoMoves, StillAttended
<1>1. ASSUME NEW w \in Worker, HandlePrEvent(w) \/ DoMerge(w)
      PROVE  Attended'
  BY <1>1, StillAttended DEF HandlePrEvent, DoMerge, pr
<1>2. ASSUME NEW w \in Worker, Take(w)
      PROVE  Attended'
  <2>1. \A v \in Worker \ {w} : work'[v] = work[v]
    BY <1>0, <1>2 DEF Take, TypeOK
  <2> QED
    BY <1>2, <2>1, StillAttended DEF Take, At, pr
<1>3. ASSUME NEW w \in Worker, EndWithoutVerdict(w) \/ JobRaises(w)
      PROVE  Attended'
  <2>1. At(w, "working") /\ End(w) /\ UNCHANGED <<head, store, gated>>
    BY <1>3 DEF EndWithoutVerdict, JobRaises, Orderly, pr
  <2> QED
    BY <1>a, <2>1 DEF At
<1>4. ASSUME NEW w \in Worker, StoreVerdict(w)
      PROVE  Attended'
  <2>1. ~AllIn /\ work'[w].pc = "stored" /\ UNCHANGED lock
    BY <1>4, RoundStores DEF StoreVerdict
  <2> QED
    BY <2>1 DEF Attended
<1>5. ASSUME NEW w \in Worker, Collect(w)
      PROVE  Attended'
  <2>1. CASE AllIn
    <3>1. work[w] \in Work /\ work[w].pc = "stored"
      BY <1>0, <1>5, BusyHasWork DEF Collect, At, TypeOK, Works
    <3>2. work'[w].pc = "collected" /\ \A v \in Worker \ {w} : work'[v] = work[v]
      BY <1>0, <1>5, <2>1, <3>1 DEF Collect, TypeOK, Work
    <3> QED
      BY <1>5, <3>1, <3>2 DEF Attended, Collect, pr, store, AllIn, At
  <2>2. CASE ~AllIn
    BY <1>5, <2>2 DEF Attended, Collect, store, AllIn
  <2> QED
    BY <2>1, <2>2
<1>6. ASSUME NEW w \in Worker, Claim(w)
      PROVE  Attended'
  <2>1. AllIn /\ work[w].pc = "collected" /\ UNCHANGED <<verdict, head, gated>>
    BY <1>6 DEF Claim, At, RoundInv, OfTheHead, Deciding, pr
  <2>2. CASE lock' = TRUE /\ Goto(w, "summary")
    <3>1. work'[w].pc = "summary"
      BY <1>0, <2>1, <2>2, GotoMoves DEF Busy
    <3> QED
      BY <2>1, <2>2, <3>1 DEF Attended, AllIn, At
  <2>3. CASE lock /\ End(w) /\ UNCHANGED lock
    <3>1. \A v \in Worker \ {w} : work'[v] = work[v]
      BY <1>0, <2>3, Ended
    <3> QED
      BY <2>1, <2>3, <3>1 DEF Attended, AllIn, At
  <2> QED
    BY <1>6, <2>2, <2>3 DEF Claim
<1>7. ASSUME NEW w \in Worker, ApplyGate(w)
      PROVE  Attended'
  <2>1. Gating(w) /\ lock /\ AllIn /\ work[w].all = verdict
    BY <1>7 DEF ApplyGate, Gating, At, GateInv, GateHoldsLock, RoundInv, OfTheHead, Deciding
  <2>2. head \in gated'
    BY <1>0, <1>7, <2>1 DEF ApplyGate, RoundInv, OfTheHead, AllIn, TypeOK
  <2>3. UNCHANGED <<lock, verdict, head>>
    BY <1>7 DEF ApplyGate, pr, store
  <2> QED
    BY <2>1, <2>2, <2>3 DEF Attended, AllIn
<1>8. ASSUME NEW w \in Worker, CiGreen(w) \/ CiUnread(w)
      PROVE  Attended'
  <2>1. \A v \in Worker \ {w} : work'[v] = work[v]
    BY <1>0, <1>8 DEF CiGreen, CiUnread, TypeOK
  <2> QED
    BY <1>8, <2>1, StillAttended DEF CiGreen, CiUnread, At, pr
<1>9. ASSUME NEW w \in Worker, CiRed(w) \/ Conflict(w)
      PROVE  Attended'
  BY <1>b, <1>9 DEF CiRed, Conflict, At, Busy, pr
<1>10. ASSUME NEW w \in Worker, CiStall(w) \/ AutoMerge(w) \/ TriggerRecode(w)
       PROVE  Attended'
  BY <1>a, <1>10 DEF CiStall, AutoMerge, TriggerRecode, At, pr
<1>11. ASSUME NEW w \in Worker, ClearVerdicts(w)
       PROVE  Attended'
  BY <1>11, NothingToAttend DEF ClearVerdicts, AllIn, Role
<1>12. CASE RecodePushes
  <2>1. verdict = <<>> /\ ~lock /\ UNCHANGED store
    BY <1>12 DEF RecodePushes, RoundInv, OneRecode, Recoding
  <2> QED
    BY <2>1, NothingToAttend DEF AllIn, Role, store
<1>13. CASE RecodeGivesUp \/ ApproveMerge \/ UNCHANGED vars
  BY <1>13, StillAttended DEF RecodeGivesUp, ApproveMerge, vars, pr
<1>14. ~Push /\ ~Watchdog /\ ~RetryItem /\ \A w \in Worker : ~UpdateBranch(w) /\ ~Kill(w)
  BY DEF Orderly, Push, Watchdog, RetryItem, UpdateBranch, Kill
<1> QED
  BY <1>1, <1>2, <1>3, <1>4, <1>5, <1>6, <1>7, <1>8, <1>9, <1>10, <1>11, <1>12, <1>13, <1>14
     DEF Next, JobStep, Recode

\* A round whose three verdicts are stored is gated, whichever of the jobs comes last
\* and however they overtake each other: when nothing is under way, a fully reviewed
\* head has had its summary and its gate (verdicts.py, try_collect_all,
\* try_claim_aggregation).
THEOREM RoundsAreFinished == Orderly => (Spec => []NoForgottenRound)
<1> SUFFICES ASSUME Orderly PROVE Spec => []NoForgottenRound
  OBVIOUS
<1>1. Init => Attended
  BY DEF Init, Attended, AllIn, Role
<1>2. GateInv /\ RoundInv /\ Attended /\ [Next]_vars => Attended'
  BY AttendedStep
<1>3. Attended => NoForgottenRound
  BY DEF Attended, NoForgottenRound, AllQuiet, At
<1> QED
  BY <1>1, <1>2, <1>3, RoundsStart, RoundsGoOn, PTL DEF Spec

=============================================================================
