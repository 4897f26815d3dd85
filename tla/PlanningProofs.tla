--------------------------- MODULE PlanningProofs ---------------------------
(***************************************************************************)
(* What Planning promises, for every plan, every number of tasks, every    *)
(* bound on the board and every set of circumstances.                      *)
(***************************************************************************)
EXTENDS Planning, FiniteSetTheorems, TLAPS

-----------------------------------------------------------------------------
(* Plans: sequences of the parts an epic, the critic or the fallback gives. *)

AnyEpic == Epic \cup {Whole}
AnyPart == [epic : AnyEpic, part : {"plan", "critic", "fallback"}]
OfEpics(E) == Parts(E, "plan") \cup Parts(E, "critic")

LEMMA EpicsAreFinite == IsFiniteSet(AnyEpic) /\ AnyEpic \subseteq Int
<1>1. IsFiniteSet(Epic) /\ Epic \subseteq Int
  BY PlanningAssumption, FS_Interval DEF PlanningAssumption, Epic
<1>2. IsFiniteSet({Whole}) /\ Whole \in Int
  BY FS_Singleton DEF Whole
<1> QED
  BY <1>1, <1>2, FS_Union DEF AnyEpic

LEMMA PartsAreFinite ==
  ASSUME NEW p
  PROVE  IsFiniteSet(Parts(AnyEpic, p))
<1> DEFINE f == [e \in AnyEpic |-> Part(e, p)]
<1>1. f \in Surjection(AnyEpic, Parts(AnyEpic, p))
  BY DEF Surjection, Parts
<1> QED
  BY <1>1, EpicsAreFinite, FS_Surjection

LEMMA SomePartsAreFinite ==
  ASSUME NEW P \in SUBSET OfEpics(AnyEpic)
  PROVE  IsFiniteSet(P) /\ Cardinality(P) \in Nat
<1>1. IsFiniteSet(OfEpics(AnyEpic))
  BY PartsAreFinite, FS_Union DEF OfEpics
<1> QED
  BY <1>1, FS_Subset, FS_CardinalityType

\* The order of parts is total and strict.
LEMMA BeforeOrders ==
  ASSUME NEW x \in OfEpics(AnyEpic), NEW y \in OfEpics(AnyEpic)
  PROVE  /\ ~Before(x, x)
         /\ x # y => Before(x, y) \/ Before(y, x)
         /\ \A z \in OfEpics(AnyEpic) : Before(x, y) /\ Before(y, z) => Before(x, z)
<1>1. \A z \in OfEpics(AnyEpic) : /\ z.epic \in Int /\ z.part \in {"plan", "critic"}
                                  /\ z = [epic |-> z.epic, part |-> z.part]
  BY EpicsAreFinite DEF OfEpics, Parts, Part
<1>2. x.epic = y.epic /\ x.part = y.part => x = y
  BY <1>1
<1> QED
  BY <1>1, <1>2 DEF Before

LEMMA RankCounts ==
  ASSUME NEW P \in SUBSET OfEpics(AnyEpic), NEW x \in P
  PROVE  /\ Rank(x, P) \in 0..(Cardinality(P) - 1)
         /\ \A y \in P : Before(x, y) => Rank(x, P) < Rank(y, P)
<1> DEFINE Ahead(z) == {y \in P : Before(y, z)}
<1>1. \A z \in P : IsFiniteSet(Ahead(z)) /\ Cardinality(Ahead(z)) \in Nat
  <2> TAKE z \in P
  <2>1. Ahead(z) \in SUBSET OfEpics(AnyEpic)
    OBVIOUS
  <2> QED
    BY <2>1, SomePartsAreFinite
<1>2. IsFiniteSet(P) /\ Cardinality(P) \in Nat
  BY SomePartsAreFinite
<1>3. Cardinality(Ahead(x)) < Cardinality(P)
  <2>1. Ahead(x) \in SUBSET P /\ x \notin Ahead(x)
    BY BeforeOrders
  <2>2. Cardinality(Ahead(x)) <= Cardinality(P) /\ Cardinality(Ahead(x)) # Cardinality(P)
    BY <1>2, <2>1, FS_Subset
  <2> QED
    BY <1>1, <1>2, <2>2
<1>4. ASSUME NEW y \in P, Before(x, y)
      PROVE  Cardinality(Ahead(x)) < Cardinality(Ahead(y))
  <2>1. Ahead(x) \in SUBSET Ahead(y) /\ x \in Ahead(y) /\ x \notin Ahead(x)
    BY <1>4, BeforeOrders
  <2>2. Cardinality(Ahead(x)) <= Cardinality(Ahead(y)) /\ Cardinality(Ahead(x)) # Cardinality(Ahead(y))
    BY <1>1, <2>1, FS_Subset
  <2> QED
    BY <1>1, <2>2
<1> QED
  BY <1>1, <1>2, <1>3, <1>4 DEF Rank

\* InOrder lists every part of P, and each of them once.
LEMMA InOrderLists ==
  ASSUME NEW P \in SUBSET OfEpics(AnyEpic)
  PROVE  /\ InOrder(P) \in Seq(P) /\ Len(InOrder(P)) = Cardinality(P)
         /\ \A i, j \in DOMAIN InOrder(P) : i # j => InOrder(P)[i] # InOrder(P)[j]
         /\ \A x \in P : \E i \in DOMAIN InOrder(P) : InOrder(P)[i] = x
<1> DEFINE n == Cardinality(P)
           f == [x \in P |-> Rank(x, P)]
<1>1. IsFiniteSet(P) /\ n \in Nat
  BY SomePartsAreFinite
<1>2. IsFiniteSet(0..(n - 1)) /\ Cardinality(0..(n - 1)) = n
  BY <1>1, FS_Interval
<1>3. f \in Injection(P, 0..(n - 1))
  <2>1. f \in [P -> 0..(n - 1)]
    BY RankCounts
  <2>2. ASSUME NEW x \in P, NEW y \in P, f[x] = f[y]
        PROVE  x = y
    <3>1. ~Before(x, y) /\ ~Before(y, x)
      BY <2>2, RankCounts
    <3> QED
      BY <3>1, BeforeOrders
  <2> QED
    BY <2>1, <2>2 DEF Injection, IsInjective
<1>4. f \in Surjection(P, 0..(n - 1))
  BY <1>1, <1>2, <1>3, FS_Injection
<1>5. ASSUME NEW i \in 1..n
      PROVE  \E x \in P : Rank(x, P) = i - 1
  <2>1. i - 1 \in 0..(n - 1)
    BY <1>1
  <2>2. PICK x \in P : f[x] = i - 1
    <3> HIDE DEF n
    <3> QED
      BY <1>4, <2>1 DEF Surjection
  <2> QED
    BY <2>2
<1>6. /\ InOrder(P) = [i \in 1..n |-> CHOOSE x \in P : Rank(x, P) = i - 1]
      /\ \A i \in 1..n : InOrder(P)[i] \in P /\ Rank(InOrder(P)[i], P) = i - 1
  BY <1>5 DEF InOrder
<1>7. InOrder(P) \in Seq(P) /\ Len(InOrder(P)) = n /\ DOMAIN InOrder(P) = 1..n
  BY <1>1, <1>6
<1>8. \A i, j \in 1..n : i # j => InOrder(P)[i] # InOrder(P)[j]
  <2> HIDE DEF n
  <2> QED
    BY <1>1, <1>6
<1>9. ASSUME NEW x \in P
      PROVE  \E i \in 1..n : InOrder(P)[i] = x
  <2>1. Rank(x, P) \in 0..(n - 1)
    BY RankCounts
  <2>2. Rank(x, P) + 1 \in 1..n
    BY <1>1, <2>1
  <2>3. InOrder(P)[Rank(x, P) + 1] \in P /\ Rank(InOrder(P)[Rank(x, P) + 1], P) = Rank(x, P)
    BY <1>6, <2>1, <2>2
  <2>4. InOrder(P)[Rank(x, P) + 1] = x
    BY <1>3, <2>3 DEF Injection, IsInjective
  <2> QED
    BY <2>2, <2>4
<1> QED
  BY <1>7, <1>8, <1>9

LEMMA Joined ==
  ASSUME NEW S, NEW s \in Seq(S), NEW t \in Seq(S)
  PROVE  /\ s \o t \in Seq(S) /\ Len(s \o t) = Len(s) + Len(t)
         /\ \A i \in DOMAIN s : i \in DOMAIN (s \o t) /\ (s \o t)[i] = s[i]
         /\ \A i \in DOMAIN t : Len(s) + i \in DOMAIN (s \o t) /\ (s \o t)[Len(s) + i] = t[i]
         /\ \A i \in DOMAIN (s \o t) : i \notin DOMAIN s => /\ i - Len(s) \in DOMAIN t
                                                       /\ (s \o t)[i] = t[i - Len(s)]
OBVIOUS

\* What is of an epic and no critic's.
Own(x) == x.epic = Whole \/ x.part = "plan"

Distinct(s) == \A i, j \in DOMAIN s : i # j => s[i] # s[j]

LEMMA FallbackIsPlan ==
  /\ Fallback \in Seq(AnyPart) /\ Len(Fallback) = 1 /\ Distinct(Fallback)
  /\ \A i \in DOMAIN Fallback : Fallback[i] = Part(Whole, "fallback")
<1>1. Part(Whole, "fallback") \in AnyPart
  BY DEF Part, AnyPart, AnyEpic
<1> QED
  BY <1>1 DEF Fallback, Distinct

\* What the planner's model may return for an idea.
LEMMA DecomposedPlans ==
  ASSUME NEW plan \in Decomposed
  PROVE  /\ plan \in Seq(AnyPart) /\ Distinct(plan)
         /\ ~May("critic") => \A i \in DOMAIN plan : Own(plan[i])
<1>1. CASE plan = Fallback
  BY <1>1, FallbackIsPlan DEF Part, Own
<1>2. ASSUME NEW done \in Yields(Epic), NEW crit \in Critic(Epic),
             plan = InOrder(Parts(done, "plan") \cup Parts(crit, "critic"))
      PROVE  /\ plan \in Seq(AnyPart) /\ Distinct(plan)
             /\ ~May("critic") => \A i \in DOMAIN plan : Own(plan[i])
  <2> DEFINE P == Parts(done, "plan") \cup Parts(crit, "critic")
  <2>1. done \in SUBSET Epic /\ crit \in SUBSET Epic /\ (~May("critic") => crit = {})
    BY DEF Yields, Critic
  <2>2. P \in SUBSET OfEpics(AnyEpic) /\ P \in SUBSET AnyPart
    BY <2>1 DEF OfEpics, Parts, Part, AnyEpic, AnyPart
  <2>3. ~May("critic") => \A x \in P : Own(x)
    BY <2>1 DEF Parts, Part, Own
  <2>4. /\ plan \in Seq(P)
        /\ \A i, j \in DOMAIN plan : i # j => plan[i] # plan[j]
    BY <1>2, <2>2, InOrderLists
  <2>5. plan \in Seq(AnyPart) /\ \A i \in DOMAIN plan : plan[i] \in P
    <3> HIDE DEF P
    <3> QED
      BY <2>2, <2>4
  <2> QED
    BY <2>3, <2>4, <2>5 DEF Distinct
<1>3. \/ plan = Fallback
      \/ \E done \in Yields(Epic), crit \in Critic(Epic) :
            plan = InOrder(Parts(done, "plan") \cup Parts(crit, "critic"))
  BY DEF Decomposed
<1> QED
  BY <1>1, <1>2, <1>3

\* What is pinned: every epic's story.
LEMMA PinnedPlan ==
  /\ InOrder(Parts(Epic, "plan")) \in Seq(AnyPart) /\ Distinct(InOrder(Parts(Epic, "plan")))
  /\ \A i \in DOMAIN InOrder(Parts(Epic, "plan")) :
       InOrder(Parts(Epic, "plan"))[i].part = "plan"
<1> DEFINE P == Parts(Epic, "plan")
           s == InOrder(P)
<1>1. P \in SUBSET OfEpics(AnyEpic) /\ P \in SUBSET AnyPart /\ \A x \in P : x.part = "plan"
  BY DEF OfEpics, Parts, Part, AnyEpic, AnyPart
<1> HIDE DEF P
<1>2. s \in Seq(P) /\ \A i, j \in DOMAIN s : i # j => s[i] # s[j]
  BY <1>1, InOrderLists
<1>3. s \in Seq(AnyPart) /\ \A i \in DOMAIN s : s[i] \in P
  <2> HIDE DEF s
  <2> QED
    BY <1>1, <1>2
<1> QED
  BY <1>1, <1>2, <1>3 DEF Distinct, P

\* The epics a call is about.
Asked(stored) == IF stored = {} THEN Epic ELSE stored

\* What the model gives for the epics of E that are not left out, under the names of
\* skip that its list gave otherwise.
LEMMA MatchedPlans ==
  ASSUME NEW stored \in SUBSET AnyEpic, NEW skip \in SUBSET AnyEpic, NEW names \in SUBSET skip,
         NEW n \in Matched(stored, skip, names)
  PROVE  /\ n.stories \in Seq(AnyPart) /\ Distinct(n.stories)
         /\ n.clean \in BOOLEAN
         /\ n.epics \in {Asked(stored), {Whole}}
         /\ ~May("outage") /\ skip # {} =>
              \A i \in DOMAIN n.stories : n.stories[i].epic \notin skip \ names
         /\ ~May("critic") => \A i \in DOMAIN n.stories : Own(n.stories[i])
         /\ n.clean => \A e \in Asked(stored) \ skip :
                         \E i \in DOMAIN n.stories : n.stories[i] = Part(e, "plan")
<1> DEFINE E == Asked(stored)
           left == skip \ names
           failed == [stories |-> Fallback, epics |-> {Whole}, clean |-> FALSE]
           Found(done, crit) ==
             [stories |-> InOrder(Parts(done, "plan"))
                            \o (IF skip = {} THEN InOrder(Parts(crit, "critic")) ELSE <<>>),
              epics |-> E, clean |-> done = ToNormalize(E, left)]
<1>1. E \in SUBSET AnyEpic
  BY DEF Asked, AnyEpic
<1>2. \/ n = failed /\ (skip = {} \/ May("outage"))
      \/ \E done \in SUBSET (E \ left), crit \in Critic(E) : n = Found(done, crit)
  <2> HIDE DEF E
  <2>1. Yields(ToNormalize(E, left)) \subseteq SUBSET (E \ left)
    BY DEF Yields, ToNormalize
  <2> DEFINE parts == Yields(ToNormalize(E, left))
             A == {Found(done, crit) : done \in {S \in parts : S # {} \/ ~(skip = {}) \/ May("drop")},
                                       crit \in Critic(E)}
             B == IF skip = {} /\ {} \in parts THEN {failed} ELSE {}
             D == IF May("outage") /\ stored = {} THEN {failed} ELSE {}
  <2>2. Matched(stored, skip, names) = A \cup B \cup D
    BY DEF Matched, E, Asked
  <2>3. n \in A => \E done \in SUBSET (E \ left), crit \in Critic(E) : n = Found(done, crit)
    <3> HIDE DEF Found, failed, left
    <3> QED
      BY <2>1
  <2>4. n \in B => n = failed /\ skip = {}
    BY Zenon
  <2>5. n \in D => n = failed /\ May("outage")
    BY Zenon
  <2> HIDE DEF A, B, D, failed, Found
  <2> QED
    BY <2>2, <2>3, <2>4, <2>5
<1>3. CASE n = failed /\ (skip = {} \/ May("outage"))
  <2>1. n.stories = Fallback /\ n.epics = {Whole} /\ n.clean = FALSE
    BY <1>3
  <2> QED
    BY <1>3, <2>1, FallbackIsPlan DEF Part, Own
<1>4. ASSUME NEW done \in SUBSET (E \ left), NEW crit \in Critic(E), n = Found(done, crit)
      PROVE  /\ n.stories \in Seq(AnyPart) /\ Distinct(n.stories)
             /\ n.clean \in BOOLEAN /\ n.epics = E
             /\ skip # {} => \A i \in DOMAIN n.stories : n.stories[i].epic \notin left
             /\ ~May("critic") => \A i \in DOMAIN n.stories : Own(n.stories[i])
             /\ n.clean => \A e \in E \ skip :
                             \E i \in DOMAIN n.stories : n.stories[i] = Part(e, "plan")
  <2> DEFINE P == Parts(done, "plan")
             C == IF skip = {} THEN Parts(crit, "critic") ELSE {}
             s == InOrder(P)
             t == IF skip = {} THEN InOrder(Parts(crit, "critic")) ELSE <<>>
  <2>1. crit \in SUBSET E /\ (~May("critic") => crit = {})
    BY <1>4 DEF Critic
  <2>2. /\ P \in SUBSET OfEpics(AnyEpic) /\ P \in SUBSET AnyPart
        /\ Parts(crit, "critic") \in SUBSET OfEpics(AnyEpic) /\ C \in SUBSET AnyPart
        /\ \A x \in P : x.part = "plan" /\ x.epic \notin left
        /\ \A x \in C : x.part = "critic" /\ May("critic") /\ skip = {}
    <3> HIDE DEF E
    <3> QED
      BY <1>1, <2>1 DEF OfEpics, Parts, Part, AnyEpic, AnyPart
  <2>3. /\ s \in Seq(P) /\ Distinct(s)
        /\ \A x \in P : \E i \in DOMAIN s : s[i] = x
    <3> HIDE DEF P
    <3> QED
      BY <2>2, InOrderLists DEF Distinct
  <2>4. t \in Seq(C) /\ Distinct(t)
    <3>1. CASE skip = {}
      <4>1. C = Parts(crit, "critic") /\ t = InOrder(C)
        BY <3>1
      <4>2. C \in SUBSET OfEpics(AnyEpic)
        BY <2>2, <4>1
      <4> HIDE DEF C, t
      <4>3. InOrder(C) \in Seq(C) /\ Distinct(InOrder(C))
        BY <4>2, InOrderLists DEF Distinct
      <4> QED
        BY <4>1, <4>3
    <3>2. CASE skip # {}
      <4>1. t = <<>>
        BY <3>2
      <4>2. <<>> \in Seq(C) /\ DOMAIN <<>> = {}
        OBVIOUS
      <4> HIDE DEF t, C
      <4> QED
        BY <4>1, <4>2, Zenon DEF Distinct
    <3> QED
      BY <3>1, <3>2
  <2>5. n.stories = s \o t /\ n.epics = E /\ n.clean = (done = ToNormalize(E, left))
    BY <1>4
  <2> HIDE DEF P, C, s, t, E, Found
  <2>6. /\ s \in Seq(AnyPart) /\ \A i \in DOMAIN s : s[i] \in P
        /\ t \in Seq(AnyPart) /\ \A i \in DOMAIN t : t[i] \in C
    BY <2>2, <2>3, <2>4
  <2>7. /\ s \o t \in Seq(AnyPart)
        /\ \A i \in DOMAIN s : i \in DOMAIN (s \o t) /\ (s \o t)[i] = s[i]
        /\ \A i \in DOMAIN (s \o t) : i \notin DOMAIN s => /\ i - Len(s) \in DOMAIN t
                                                      /\ (s \o t)[i] = t[i - Len(s)]
    BY <2>6, Joined
  <2>8. \A i \in DOMAIN (s \o t) : (s \o t)[i] \in P \cup C
    BY <2>6, <2>7
  <2>9. Distinct(s \o t)
    <3>1. SUFFICES ASSUME NEW i \in DOMAIN (s \o t), NEW j \in DOMAIN (s \o t), i # j
                   PROVE  (s \o t)[i] # (s \o t)[j]
      BY DEF Distinct
    <3>2. CASE i \in DOMAIN s /\ j \in DOMAIN s
      BY <2>3, <2>7, <3>1, <3>2 DEF Distinct
    <3>3. CASE i \notin DOMAIN s /\ j \notin DOMAIN s
      <4>1. i - Len(s) # j - Len(s)
        BY <2>6, <2>7, <3>1
      <4> QED
        BY <2>4, <2>7, <3>1, <3>3, <4>1 DEF Distinct
    <3>4. CASE i \in DOMAIN s /\ j \notin DOMAIN s
      BY <2>2, <2>6, <2>7, <3>1, <3>4
    <3>5. CASE i \notin DOMAIN s /\ j \in DOMAIN s
      BY <2>2, <2>6, <2>7, <3>1, <3>5
    <3> QED
      BY <3>2, <3>3, <3>4, <3>5
  <2>10. ASSUME n.clean, NEW e \in E \ skip
         PROVE  \E i \in DOMAIN (s \o t) : (s \o t)[i] = Part(e, "plan")
    <3>1. Part(e, "plan") \in P
      BY <2>5, <2>10 DEF P, Parts, ToNormalize
    <3>2. PICK i \in DOMAIN s : s[i] = Part(e, "plan")
      BY <2>3, <3>1
    <3> QED
      BY <2>7, <3>2
  <2>12. n.clean \in BOOLEAN
    BY <2>5
  <2>a. n.stories = s \o t
    BY <2>5
  <2>b. \A i \in DOMAIN n.stories : n.stories[i] \in P \cup C
    BY <2>a, <2>8
  <2>13. ASSUME skip # {}, NEW i \in DOMAIN n.stories
         PROVE  n.stories[i].epic \notin left
    BY <2>2, <2>b, <2>13
  <2>14. ASSUME ~May("critic"), NEW i \in DOMAIN n.stories
         PROVE  Own(n.stories[i])
    BY <2>2, <2>b, <2>14 DEF Own
  <2>15. n.clean => \A e \in E \ skip : \E i \in DOMAIN n.stories : n.stories[i] = Part(e, "plan")
    BY <2>5, <2>10
  <2>16. n.stories \in Seq(AnyPart) /\ Distinct(n.stories) /\ n.epics = E
    BY <2>5, <2>7, <2>9
  <2> QED
    BY <2>12, <2>13, <2>14, <2>15, <2>16
<1> QED
  BY <1>2, <1>3, <1>4

\* What an import or a resume may get from the model: a sound plan, without the epics
\* that are covered if a stored list names them, and with every epic that was asked for
\* and not covered when no call failed.
LEMMA NormalizedPlans ==
  ASSUME NEW stored \in SUBSET AnyEpic, NEW skip \in SUBSET AnyEpic,
         NEW n \in Normalized(stored, skip)
  PROVE  /\ n.stories \in Seq(AnyPart) /\ Distinct(n.stories)
         /\ n.clean \in BOOLEAN
         /\ n.epics \in {Asked(stored), {Whole}}
         /\ ~May("outage") /\ stored # {} /\ skip # {} =>
              \A i \in DOMAIN n.stories : n.stories[i].epic \notin skip
         /\ ~May("critic") => \A i \in DOMAIN n.stories : Own(n.stories[i])
         /\ n.clean => \A e \in Asked(stored) \ skip :
                         \E i \in DOMAIN n.stories : n.stories[i] = Part(e, "plan")
<1>1. PICK names \in Renamed(stored, skip) : n \in Matched(stored, skip, names)
  BY DEF Normalized
<1>2. names \in SUBSET skip /\ (stored # {} => skip \ names = skip)
  BY DEF Renamed
<1> QED
  BY <1>1, <1>2, MatchedPlans

-----------------------------------------------------------------------------
(* The board: what storing a plan and moving its stories does to it.        *)

StoryMoves == {"backlog", "ready", "in-progress", "done", "abandoned"}
AnyStory == [epic : AnyEpic, part : {"plan", "critic", "fallback"}, seq : Nat, st : StoryMoves]

\* The i-th story of a plan, as it is stored behind offset others.
NewStory(plan, offset, i) ==
  [epic |-> plan[i].epic, part |-> plan[i].part, seq |-> offset + i,
   st |-> IF i = 1 /\ ~Gated(offset) THEN "in-progress" ELSE "backlog"]

LEMMA StoredStories ==
  ASSUME NEW plan \in Seq(AnyPart), NEW offset \in Nat
  PROVE  /\ Stored(plan, offset) \in Seq(AnyStory) /\ Len(Stored(plan, offset)) = Len(plan)
         /\ \A i \in DOMAIN plan : Stored(plan, offset)[i] = NewStory(plan, offset, i)
<1>1. Stored(plan, offset) = [i \in 1..Len(plan) |-> NewStory(plan, offset, i)]
  BY DEF Stored, NewStory
<1>2. ASSUME NEW i \in 1..Len(plan)
      PROVE  NewStory(plan, offset, i) \in AnyStory
  <2>1. plan[i] \in AnyPart /\ offset + i \in Nat
    OBVIOUS
  <2>2. (IF i = 1 /\ ~Gated(offset) THEN "in-progress" ELSE "backlog") \in StoryMoves
    BY DEF StoryMoves
  <2> QED
    BY <2>1, <2>2 DEF NewStory, AnyPart, AnyStory
<1>3. [i \in 1..Len(plan) |-> NewStory(plan, offset, i)] \in [1..Len(plan) -> AnyStory]
  BY <1>2
<1> DEFINE f == [i \in 1..Len(plan) |-> NewStory(plan, offset, i)]
           m == Len(plan)
<1>4. m \in Nat /\ DOMAIN plan = 1..m
  OBVIOUS
<1>5. \A i \in 1..m : f[i] = NewStory(plan, offset, i)
  OBVIOUS
<1>6. f \in [1..m -> AnyStory]
  BY <1>3
<1> HIDE DEF f, m
<1>7. f \in Seq(AnyStory) /\ Len(f) = m
  BY <1>4, <1>6
<1> QED
  BY <1>1, <1>4, <1>5, <1>7 DEF f, m

\* The stories of before stay where and as they are; the plan's follow them.
Appended(plan, offset, n) ==
  /\ stories' \in Seq(AnyStory) /\ Len(stories') = Len(stories) + n
  /\ \A i \in DOMAIN stories : i \in DOMAIN stories' /\ stories'[i] = stories[i]
  /\ \A i \in 1..n : /\ i \in DOMAIN plan /\ Len(stories) + i \in DOMAIN stories'
                     /\ stories'[Len(stories) + i] = NewStory(plan, offset, i)
  /\ \A i \in DOMAIN stories' : i \notin DOMAIN stories => i - Len(stories) \in 1..n

LEMMA PersistAppends ==
  ASSUME stories \in Seq(AnyStory), NEW plan \in Seq(AnyPart), NEW offset \in Nat,
         Persist(plan, offset)
  PROVE  Appended(plan, offset, Len(plan)) /\ Len(stories') <= MaxStories
<1> DEFINE new == Stored(plan, offset)
<1>1. /\ new \in Seq(AnyStory) /\ Len(new) = Len(plan)
      /\ \A i \in DOMAIN plan : new[i] = NewStory(plan, offset, i)
  BY StoredStories
<1>2. stories' = stories \o new /\ Len(stories) + Len(plan) <= MaxStories
  BY DEF Persist
<1> HIDE DEF new
<1>3. /\ stories \o new \in Seq(AnyStory) /\ Len(stories \o new) = Len(stories) + Len(plan)
      /\ \A i \in DOMAIN stories : i \in DOMAIN (stories \o new) /\ (stories \o new)[i] = stories[i]
      /\ \A i \in DOMAIN new : /\ Len(stories) + i \in DOMAIN (stories \o new)
                              /\ (stories \o new)[Len(stories) + i] = new[i]
      /\ \A i \in DOMAIN (stories \o new) : i \notin DOMAIN stories => i - Len(stories) \in DOMAIN new
  <2> DEFINE s == stories
  <2>1. s \in Seq(AnyStory) /\ new \in Seq(AnyStory)
    BY <1>1
  <2> HIDE DEF s
  <2>2. /\ s \o new \in Seq(AnyStory) /\ Len(s \o new) = Len(s) + Len(new)
        /\ \A i \in DOMAIN s : i \in DOMAIN (s \o new) /\ (s \o new)[i] = s[i]
        /\ \A i \in DOMAIN new : /\ Len(s) + i \in DOMAIN (s \o new)
                                /\ (s \o new)[Len(s) + i] = new[i]
        /\ \A i \in DOMAIN (s \o new) : i \notin DOMAIN s => i - Len(s) \in DOMAIN new
    BY <2>1, Joined
  <2> QED
    BY <1>1, <2>2 DEF s
<1>4. DOMAIN new = 1..Len(plan) /\ DOMAIN plan = 1..Len(plan)
  BY <1>1
<1> QED
  BY <1>1, <1>2, <1>3, <1>4 DEF Appended

\* Everything else on the board changes nothing but what has become of the stories.
Moved ==
  /\ stories' \in Seq(AnyStory) /\ Len(stories') = Len(stories)
  /\ \A i \in DOMAIN stories : /\ i \in DOMAIN stories'
                              /\ stories'[i].epic = stories[i].epic
                              /\ stories'[i].part = stories[i].part
                              /\ stories'[i].seq = stories[i].seq

LEMMA FunctionMoves ==
  ASSUME stories \in Seq(AnyStory),
         stories' \in [DOMAIN stories -> AnyStory],
         \A i \in DOMAIN stories : /\ stories'[i].epic = stories[i].epic
                                 /\ stories'[i].part = stories[i].part
                                 /\ stories'[i].seq = stories[i].seq
  PROVE  Moved
<1>1. DOMAIN stories = 1..Len(stories) /\ Len(stories) \in Nat
  OBVIOUS
<1>2. stories' \in Seq(AnyStory) /\ Len(stories') = Len(stories) /\ DOMAIN stories' = DOMAIN stories
  BY <1>1
<1> QED
  BY <1>2 DEF Moved

LEMMA FinishMoves ==
  ASSUME stories \in Seq(AnyStory), NEW i \in DOMAIN stories, NEW st \in StoryMoves,
         Finish(i, st)
  PROVE  /\ Moved /\ stories'[i].st = st
         /\ \A j \in DOMAIN stories \ {i} :
              stories'[j].st = IF j \in NextUp(i) THEN "in-progress" ELSE stories[j].st
<1> DEFINE f == [j \in DOMAIN stories |->
                   IF j = i THEN [stories[j] EXCEPT !.st = st]
                   ELSE IF j \in NextUp(i) THEN [stories[j] EXCEPT !.st = "in-progress"]
                   ELSE stories[j]]
<1>1. stories' = f
  BY DEF Finish
<1>2. \A j \in DOMAIN stories : stories[j] \in AnyStory
  OBVIOUS
<1>3. \A s \in AnyStory, v \in StoryMoves :
        /\ [s EXCEPT !.st = v] \in AnyStory /\ [s EXCEPT !.st = v].st = v
        /\ [s EXCEPT !.st = v].epic = s.epic /\ [s EXCEPT !.st = v].part = s.part
        /\ [s EXCEPT !.st = v].seq = s.seq
  BY DEF AnyStory
<1>4. "in-progress" \in StoryMoves
  BY DEF StoryMoves
<1>5. ASSUME NEW j \in DOMAIN stories
      PROVE  /\ f[j] \in AnyStory
             /\ f[j].epic = stories[j].epic /\ f[j].part = stories[j].part
             /\ f[j].seq = stories[j].seq
             /\ f[j].st = IF j = i THEN st ELSE IF j \in NextUp(i) THEN "in-progress"
                          ELSE stories[j].st
  <2>1. CASE j = i
    <3>1. f[j] = [stories[j] EXCEPT !.st = st]
      BY <2>1, Zenon
    <3> HIDE DEF f
    <3>2. /\ f[j] \in AnyStory /\ f[j].st = st
          /\ f[j].epic = stories[j].epic /\ f[j].part = stories[j].part
          /\ f[j].seq = stories[j].seq
      BY <1>2, <1>3, <3>1
    <3> QED
      BY <2>1, <3>2
  <2>2. CASE j # i /\ j \in NextUp(i)
    <3>1. f[j] = [stories[j] EXCEPT !.st = "in-progress"]
      BY <2>2, Zenon
    <3> HIDE DEF f
    <3>2. /\ f[j] \in AnyStory /\ f[j].st = "in-progress"
          /\ f[j].epic = stories[j].epic /\ f[j].part = stories[j].part
          /\ f[j].seq = stories[j].seq
      BY <1>2, <1>3, <1>4, <3>1
    <3> QED
      BY <2>2, <3>2
  <2>3. CASE j # i /\ j \notin NextUp(i)
    <3>1. f[j] = stories[j]
      BY <2>3, Zenon
    <3> HIDE DEF f
    <3> QED
      BY <1>2, <2>3, <3>1
  <2> QED
    BY <2>1, <2>2, <2>3
<1>6. f \in [DOMAIN stories -> AnyStory]
  BY <1>5
<1> HIDE DEF f
<1>7. Moved
  BY <1>1, <1>5, <1>6, FunctionMoves
<1> QED
  BY <1>1, <1>5, <1>7

LEMMA CancelMoves ==
  ASSUME stories \in Seq(AnyStory), CancelIdea
  PROVE  /\ Moved
         /\ \A i \in DOMAIN stories : stories'[i].st \in {"done", "abandoned"}
<1> DEFINE f == [i \in DOMAIN stories |-> Stopped(stories[i])]
<1>1. stories' = f
  BY DEF CancelIdea
<1>2. \A s \in AnyStory : /\ Stopped(s) \in AnyStory /\ Stopped(s).epic = s.epic
                         /\ Stopped(s).part = s.part /\ Stopped(s).seq = s.seq
                         /\ Stopped(s).st \in {"done", "abandoned"}
  BY DEF Stopped, AnyStory, StoryMoves
<1>3. \A i \in DOMAIN stories : stories[i] \in AnyStory /\ f[i] = Stopped(stories[i])
  OBVIOUS
<1>4. f \in [DOMAIN stories -> AnyStory]
  BY <1>2, <1>3
<1> HIDE DEF f
<1>5. Moved
  BY <1>1, <1>2, <1>3, <1>4, FunctionMoves
<1> QED
  BY <1>1, <1>2, <1>3, <1>5

LEMMA ApproveMoves ==
  ASSUME stories \in Seq(AnyStory), ApprovePlan
  PROVE  /\ Moved
         /\ \E i \in DOMAIN stories :
              /\ \A j \in DOMAIN stories : \/ stories[i].seq < stories[j].seq
                                           \/ (stories[i].seq = stories[j].seq /\ i <= j)
              /\ stories'[i].st = "in-progress"
              /\ \A j \in DOMAIN stories \ {i} : stories'[j].st = stories[j].st
<1>1. PICK i \in DOMAIN stories :
        /\ \A j \in DOMAIN stories : \/ stories[i].seq < stories[j].seq
                                     \/ (stories[i].seq = stories[j].seq /\ i <= j)
        /\ stories' = [stories EXCEPT ![i].st = "in-progress"]
  BY DEF ApprovePlan
<1>2. \A j \in DOMAIN stories : stories[j] \in AnyStory
  OBVIOUS
<1>3. /\ [stories[i] EXCEPT !.st = "in-progress"] \in AnyStory
      /\ [stories[i] EXCEPT !.st = "in-progress"].st = "in-progress"
      /\ [stories[i] EXCEPT !.st = "in-progress"].epic = stories[i].epic
      /\ [stories[i] EXCEPT !.st = "in-progress"].part = stories[i].part
      /\ [stories[i] EXCEPT !.st = "in-progress"].seq = stories[i].seq
  BY <1>2 DEF AnyStory, StoryMoves
<1>4. /\ DOMAIN stories' = DOMAIN stories
      /\ stories'[i] = [stories[i] EXCEPT !.st = "in-progress"]
      /\ \A j \in DOMAIN stories \ {i} : stories'[j] = stories[j]
  BY <1>1
<1>5. stories' \in [DOMAIN stories -> AnyStory]
  BY <1>1, <1>2, <1>3
<1>6. Moved
  BY <1>2, <1>3, <1>4, <1>5, FunctionMoves
<1> QED
  BY <1>1, <1>3, <1>4, <1>6

-----------------------------------------------------------------------------
(* The tasks.                                                               *)

TaskState == [kind : {"none", "plan", "import", "resume"},
              at : {"none", "start", "provision", "call"},
              skip : SUBSET AnyEpic, epics : SUBSET AnyEpic, offset : Nat]

\* Only the record of task t is another afterwards.
Becomes(t, r) ==
  /\ task' \in [Task -> TaskState] /\ task'[t] = r
  /\ \A u \in Task \ {t} : task'[u] = task[u]

LEMMA TaskBecomes ==
  ASSUME task \in [Task -> TaskState], NEW t \in Task, NEW r \in TaskState,
         task' = [task EXCEPT ![t] = r]
  PROVE  Becomes(t, r)
BY DEF Becomes

LEMMA LaunchStarts ==
  ASSUME task \in [Task -> TaskState], NEW kind \in {"plan", "import", "resume"}, Launch(kind)
  PROVE  \E t \in Task : task[t] = NoTask /\ Becomes(t, NewTask(kind))
<1>1. PICK t \in Task : /\ task[t] = NoTask
                       /\ task' = [task EXCEPT ![t] = NewTask(kind)]
  BY DEF Launch
<1>2. NewTask(kind) \in TaskState
  BY DEF NewTask, TaskState
<1> QED
  BY <1>1, <1>2, TaskBecomes

LEMMA TaskEnds ==
  ASSUME task \in [Task -> TaskState], NEW t \in Task, Ends(t)
  PROVE  Becomes(t, NoTask)
<1>1. NoTask \in TaskState
  BY DEF NoTask, TaskState
<1> QED
  BY <1>1, TaskBecomes DEF Ends

\* The highest number on the board, none without stories.
LEMMA OffsetIsHighest ==
  ASSUME stories \in Seq(AnyStory),
         NEW b \in Nat, \A i \in DOMAIN stories : stories[i].seq <= b
  PROVE  /\ Offset \in Nat /\ \A i \in DOMAIN stories : stories[i].seq <= Offset
         /\ Offset = 0 \/ \E i \in DOMAIN stories : stories[i].seq = Offset
<1> DEFINE N == {stories[i].seq : i \in DOMAIN stories}
<1>1. CASE stories = <<>>
  BY <1>1 DEF Offset
<1>2. CASE stories # <<>>
  <2>1. \A i \in DOMAIN stories : stories[i] \in AnyStory
    OBVIOUS
  <2>2. 1 \in DOMAIN stories
    BY <1>2
  <2>3. N \in SUBSET Nat /\ N # {}
    BY <2>1, <2>2 DEF AnyStory
  <2>4. \A n \in N : n <= b
    OBVIOUS
  <2>5. PICK m \in N : \A n \in N : n <= m
    <3> HIDE DEF N
    <3> DEFINE B == {b - n : n \in N}
    <3>2. B \in SUBSET Nat /\ B # {}
      <4>1. \A n \in N : b - n \in Nat
        BY <2>3, <2>4
      <4> QED
        BY <2>3, <4>1
    <3> HIDE DEF B
    <3>3. PICK d \in B : \A e \in B : ~(<<e, d>> \in OpToRel(<, Nat))
      BY <3>2, NatLessThanWellFounded, WFMin, Zenon
    <3>4. \A e \in B : ~(e < d)
      BY <3>2, <3>3 DEF OpToRel
    <3>5. PICK m \in N : d = b - m
      BY DEF B
    <3>6. \A n \in N : b - n \in B
      BY DEF B
    <3> QED
      BY <2>3, <3>4, <3>5, <3>6
  <2>6. Offset = CHOOSE n \in N : \A i \in DOMAIN stories : stories[i].seq <= n
    BY <1>2 DEF Offset
  <2>7. \E n \in N : \A i \in DOMAIN stories : stories[i].seq <= n
    BY <2>5
  <2>8. Offset \in N /\ \A i \in DOMAIN stories : stories[i].seq <= Offset
    <3> HIDE DEF N
    <3> QED
      BY <2>6, <2>7
  <2> QED
    BY <2>3, <2>8
<1> QED
  BY <1>1, <1>2

-----------------------------------------------------------------------------
(* Types.                                                                   *)

\* Numbers go on from the highest one noted; a deleted project's may have been
\* noted before its stories went.
Base == IF idea = "deleted" THEN MaxStories ELSE 0

Numbered ==
  /\ stories \in Seq(AnyStory) /\ Len(stories) <= MaxStories
  /\ \A i \in DOMAIN stories : stories[i].seq \in 1..(Base + Len(stories))
  /\ task \in [Task -> TaskState]
  /\ \A t \in Task : task[t].offset <= Base + Len(stories)

Shape ==
  /\ scenario \in Scenarios
  /\ idea \in {"none", "pending-approval", "approved", "rejected", "abandoned", "deleted"}
  /\ asked \in 0..2
  /\ known \in SUBSET AnyEpic
  /\ replay \in {"none", "good", "broken"}
  /\ repo \in [there : BOOLEAN, scaffold : BOOLEAN]
  /\ released \in BOOLEAN /\ filled \in BOOLEAN /\ blind \in BOOLEAN

Shaped == Shape /\ Numbered

LEMMA ShapedIsTyped ==
  ASSUME Shaped
  PROVE  TypeOK
<1>1. MaxStories \in Nat /\ Base \in 0..MaxStories /\ Len(stories) \in 0..MaxStories
  BY PlanningAssumption DEF PlanningAssumption, Base, Shaped, Numbered
<1>2. \A i \in DOMAIN stories : stories[i] \in Story
  <2> TAKE i \in DOMAIN stories
  <2>1. stories[i] \in AnyStory /\ stories[i].seq \in 1..(2 * MaxStories)
    BY <1>1 DEF Shaped, Numbered
  <2> QED
    BY <2>1 DEF AnyStory, Story, AnyEpic, StoryMoves
<1>3. \A t \in Task : task[t] \in TaskState /\ task[t].offset \in 0..(2 * MaxStories)
  <2> TAKE t \in Task
  <2>1. task[t] \in TaskState /\ task[t].offset <= Base + Len(stories)
    BY DEF Shaped, Numbered
  <2>2. task[t].offset \in Nat
    BY <2>1 DEF TaskState
  <2> QED
    BY <1>1, <2>1, <2>2
<1>4. task \in [Task -> [kind : {"none", "plan", "import", "resume"},
                        at : {"none", "start", "provision", "call"},
                        skip : SUBSET (Epic \cup {Whole}), epics : SUBSET (Epic \cup {Whole}),
                        offset : 0..(2 * MaxStories)]]
  BY <1>3 DEF Shaped, Numbered, TaskState, AnyEpic
<1> QED
  BY <1>2, <1>4 DEF Shaped, Shape, Numbered, TypeOK, AnyEpic

LEMMA ShapedAtFirst == Init => Shaped
<1> SUFFICES ASSUME Init PROVE Shaped
  OBVIOUS
<1>1. /\ stories = <<>> /\ task = [t \in Task |-> NoTask] /\ idea = "none"
  BY DEF Init
<1>2. stories \in Seq(AnyStory) /\ Len(stories) = 0 /\ DOMAIN stories = {}
  BY <1>1
<1>3. NoTask \in TaskState /\ NoTask.offset = 0
  BY DEF NoTask, TaskState
<1>4. Numbered
  BY <1>1, <1>2, <1>3, PlanningAssumption DEF PlanningAssumption, Numbered, Base
<1>5. Shape
  <2>1. known \in SUBSET AnyEpic /\ repo \in [there : BOOLEAN, scaffold : BOOLEAN]
    BY DEF Init
  <2>2. scenario \in Scenarios /\ asked \in 0..2
    BY DEF Init
  <2>4. released \in BOOLEAN /\ filled \in BOOLEAN /\ blind \in BOOLEAN
    BY Zenon DEF Init
  <2>3. /\ idea \in {"none", "pending-approval", "approved", "rejected", "abandoned", "deleted"}
        /\ replay \in {"none", "good", "broken"}
    BY DEF Init
  <2> QED
    BY <2>1, <2>2, <2>3, <2>4 DEF Shape
<1> QED
  BY <1>4, <1>5 DEF Shaped

\* A move on the board keeps the numbers.
LEMMA MovedNumbers ==
  ASSUME Numbered, Moved, UNCHANGED task, Base' = Base
  PROVE  Numbered'
<1>1. /\ \A i \in DOMAIN stories : stories[i].seq \in 1..(Base + Len(stories))
      /\ Len(stories') = Len(stories)
      /\ DOMAIN stories' = DOMAIN stories
      /\ \A i \in DOMAIN stories : stories'[i].seq = stories[i].seq
  BY DEF Numbered, Moved
<1> QED
  BY <1>1 DEF Numbered, Moved

\* So does a plan that is stored behind what its task has noted.
LEMMA AppendedNumbers ==
  ASSUME Numbered, NEW plan \in Seq(AnyPart), NEW offset \in Nat, NEW n \in Nat,
         offset <= Base + Len(stories), Appended(plan, offset, n),
         Len(stories') <= MaxStories, UNCHANGED idea,
         task' \in [Task -> TaskState],
         \A t \in Task : task'[t].offset <= Base + Len(stories)
  PROVE  Numbered'
<1>1. Base' = Base /\ Base \in Nat /\ Len(stories) \in Nat /\ Len(stories') = Len(stories) + n
  BY PlanningAssumption DEF PlanningAssumption, Base, Numbered, Appended
<1>2. ASSUME NEW i \in DOMAIN stories'
      PROVE  stories'[i].seq \in 1..(Base + Len(stories'))
  <2>1. CASE i \in DOMAIN stories
    <3>1. stories[i].seq \in 1..(Base + Len(stories)) /\ stories'[i] = stories[i]
      BY <2>1 DEF Numbered, Appended
    <3> QED
      BY <1>1, <3>1
  <2>2. CASE i \notin DOMAIN stories
    <3> DEFINE k == i - Len(stories)
    <3>1. k \in 1..n /\ i \in Int
      BY <1>2, <2>2 DEF Appended
    <3>2. stories'[Len(stories) + k] = NewStory(plan, offset, k) /\ Len(stories) + k = i
      BY <1>1, <3>1 DEF Appended
    <3>3. stories'[i].seq = offset + k
      BY <3>2 DEF NewStory
    <3> QED
      BY <1>1, <3>1, <3>3
  <2> QED
    BY <2>1, <2>2
<1>3. \A t \in Task : task'[t].offset <= Base + Len(stories')
  <2> TAKE t \in Task
  <2>1. task'[t].offset \in Nat /\ task'[t].offset <= Base + Len(stories)
    BY DEF TaskState
  <2> QED
    BY <1>1, <2>1
<1>4. \A i \in DOMAIN stories' : stories'[i].seq \in 1..(Base' + Len(stories'))
  BY <1>1, <1>2
<1>5. \A t \in Task : task'[t].offset <= Base' + Len(stories')
  BY <1>1, <1>3
<1> QED
  BY <1>4, <1>5 DEF Numbered, Appended

\* A task that starts, goes on or ends has noted nothing above the board's numbers.
LEMMA TaskNumbers ==
  ASSUME Numbered, UNCHANGED stories, Base' = Base,
         NEW t \in Task, NEW r, Becomes(t, r), r.offset <= Base + Len(stories)
  PROVE  Numbered'
<1>1. \A u \in Task : task'[u].offset <= Base + Len(stories)
  BY DEF Becomes, Numbered
<1> QED
  BY <1>1 DEF Becomes, Numbered

LEMMA NumbersFromZero ==
  ASSUME Numbered
  PROVE  /\ Base \in Nat /\ Len(stories) \in Nat /\ 0 <= Base + Len(stories)
         /\ NoTask.offset = 0 /\ \A kind : NewTask(kind).offset = 0
BY PlanningAssumption DEF PlanningAssumption, Base, Numbered, NoTask, NewTask

LEMMA PersistNumbers ==
  ASSUME Numbered, UNCHANGED idea, NEW t \in Task, Becomes(t, NoTask),
         NEW plan \in Seq(AnyPart), NEW offset \in Nat,
         offset <= Base + Len(stories), Persist(plan, offset)
  PROVE  Numbered'
<1>1. Appended(plan, offset, Len(plan)) /\ Len(stories') <= MaxStories /\ Len(plan) \in Nat
  BY PersistAppends DEF Numbered
<1>2. /\ task' \in [Task -> TaskState]
      /\ \A u \in Task : task'[u].offset <= Base + Len(stories)
  BY NumbersFromZero DEF Becomes, Numbered
<1> QED
  BY <1>1, <1>2, AppendedNumbers

LEMMA BeginNumbers ==
  ASSUME Shaped, NEW t \in Task, Begin(t)
  PROVE  Numbered'
<1>0. /\ Numbered /\ UNCHANGED <<stories, idea>> /\ Base' = Base
      /\ task \in [Task -> TaskState] /\ known \in SUBSET AnyEpic
  BY DEF Shaped, Shape, Numbered, Begin, Base
<1>1. CASE Ends(t)
  BY <1>0, <1>1, TaskEnds, TaskNumbers, NumbersFromZero
<1>2. CASE task' = [task EXCEPT ![t].at = "provision"]
  <2> DEFINE r == [task[t] EXCEPT !.at = "provision"]
  <2>1. task[t] \in TaskState /\ task[t].offset <= Base + Len(stories)
    BY <1>0 DEF Numbered
  <2>2. r \in TaskState /\ r.offset = task[t].offset
    BY <2>1 DEF TaskState
  <2>3. task' = [task EXCEPT ![t] = r]
    BY <1>2
  <2> HIDE DEF r
  <2> QED
    BY <1>0, <2>1, <2>2, <2>3, TaskBecomes, TaskNumbers
<1>3. ASSUME NEW E \in OrNothing(known, {}),
             task' = [task EXCEPT ![t] = [@ EXCEPT !.at = "call", !.skip = Covered,
                                                   !.offset = Offset, !.epics = E]]
      PROVE  Numbered'
  <2> DEFINE r == [task[t] EXCEPT !.at = "call", !.skip = Covered,
                                  !.offset = Offset, !.epics = E]
  <2>1. task[t] \in TaskState
    BY <1>0 DEF Numbered
  <2>2. \A i \in DOMAIN stories : stories[i] \in AnyStory /\ stories[i].seq \in 1..(Base + Len(stories))
    BY <1>0 DEF Numbered
  <2>3. Covered \in SUBSET AnyEpic
    BY <2>2 DEF Covered, AnyStory
  <2>4. Offset \in Nat /\ Offset <= Base + Len(stories)
    <3> DEFINE b == Base + Len(stories)
    <3>1. b \in Nat /\ (\A i \in DOMAIN stories : stories[i].seq \in 1..b)
          /\ stories \in Seq(AnyStory)
      BY <1>0, <2>2, NumbersFromZero DEF Numbered
    <3> HIDE DEF b
    <3>2. \A i \in DOMAIN stories : stories[i].seq <= b
      BY <3>1
    <3>3. Offset \in Nat /\ (Offset = 0 \/ \E i \in DOMAIN stories : stories[i].seq = Offset)
      BY <3>1, <3>2, OffsetIsHighest
    <3>4. Offset <= b
      BY <3>1, <3>2, <3>3
    <3> QED
      BY <3>3, <3>4 DEF b
  <2>5. r \in TaskState /\ r.offset = Offset
    BY <1>0, <2>1, <2>3, <2>4 DEF TaskState, OrNothing
  <2>6. task' = [task EXCEPT ![t] = r]
    BY <1>3
  <2> HIDE DEF r
  <2> QED
    BY <1>0, <2>4, <2>5, <2>6, TaskBecomes, TaskNumbers
<1> QED
  BY <1>1, <1>2, <1>3 DEF Begin

LEMMA ProvisionNumbers ==
  ASSUME Shaped, NEW t \in Task, Provision(t)
  PROVE  Numbered'
<1>0. /\ Numbered /\ UNCHANGED idea /\ Base' = Base /\ task \in [Task -> TaskState]
      /\ stories \in Seq(AnyStory)
  BY DEF Shaped, Numbered, Provision, Base
<1>1. CASE task' = [task EXCEPT ![t].at = "call"] /\ UNCHANGED stories
  <2> DEFINE r == [task[t] EXCEPT !.at = "call"]
  <2>1. task[t] \in TaskState /\ task[t].offset <= Base + Len(stories)
    BY <1>0 DEF Numbered
  <2>2. r \in TaskState /\ r.offset = task[t].offset
    BY <2>1 DEF TaskState
  <2>3. task' = [task EXCEPT ![t] = r]
    BY <1>1
  <2> HIDE DEF r
  <2> QED
    BY <1>0, <1>1, <2>1, <2>2, <2>3, TaskBecomes, TaskNumbers
<1>2. CASE Ends(t) /\ UNCHANGED stories
  BY <1>0, <1>2, TaskEnds, TaskNumbers, NumbersFromZero
<1>3. CASE Ends(t) /\ Persist(InOrder(Parts(Epic, "plan")), 0)
  <2>1. Becomes(t, NoTask) /\ 0 <= Base + Len(stories) /\ 0 \in Nat
    BY <1>0, <1>3, TaskEnds, NumbersFromZero
  <2> QED
    BY <1>0, <1>3, <2>1, PinnedPlan, PersistNumbers
<1> QED
  BY <1>1, <1>2, <1>3 DEF Provision

LEMMA ResumeNumbers ==
  ASSUME Shaped, NEW t \in Task, ResumeReturns(t)
  PROVE  Numbered'
<1>0. /\ Numbered /\ UNCHANGED idea /\ Base' = Base /\ task \in [Task -> TaskState]
      /\ Ends(t)
  BY DEF Shaped, Numbered, ResumeReturns, Base
<1>1. task[t] \in TaskState
  BY <1>0
<1>2. PICK n \in Normalized(task[t].epics, task[t].skip) :
        \/ UNCHANGED stories
        \/ Persist(n.stories, task[t].offset)
  BY DEF ResumeReturns
<1>3. n.stories \in Seq(AnyPart) /\ task[t].offset \in Nat
  BY <1>1, NormalizedPlans DEF TaskState
<1>4. CASE UNCHANGED stories
  BY <1>0, <1>4, TaskEnds, TaskNumbers, NumbersFromZero
<1>5. CASE Persist(n.stories, task[t].offset)
  <2>1. task[t].offset <= Base + Len(stories)
    BY <1>0 DEF Numbered
  <2> QED
    BY <1>0, <1>3, <1>5, <2>1, TaskEnds, PersistNumbers
<1> QED
  BY <1>2, <1>4, <1>5

\* An import that dies has stored the first stories of its plan.
PartlyStored(plan, k) ==
  /\ k <= Len(plan) /\ Len(stories') <= MaxStories
  /\ stories' \in Seq(AnyStory) /\ Len(stories') = Len(stories) + k
  /\ \A i \in DOMAIN stories : i \in DOMAIN stories' /\ stories'[i] = stories[i]
  /\ \A i \in DOMAIN stories' : i \notin DOMAIN stories =>
       /\ i - Len(stories) \in 1..k
       /\ stories'[i].epic = plan[i - Len(stories)].epic
       /\ stories'[i].part = plan[i - Len(stories)].part
       /\ stories'[i].seq = i - Len(stories)
       /\ stories'[i].st = "backlog" \/ (stories'[i].st = "ready" /\ ~Gated(0))

LEMMA CrashAppends ==
  ASSUME stories \in Seq(AnyStory), CrashInPersist
  PROVE  \E t \in Task, n \in Normalized({}, {}), k \in Nat :
           /\ task[t].at = "call" /\ task[t].kind = "import" /\ known' \in {n.epics, known}
           /\ PartlyStored(n.stories, k)
<1>1. PICK t \in Task, n \in Normalized({}, {}) :
        \E k \in 1..(Len(n.stories) - 1) :
         /\ task[t].at = "call" /\ task[t].kind = "import"
         /\ Len(stories) + k <= MaxStories
         /\ stories' = stories \o [i \in 1..k |-> [Stored(n.stories, 0)[i] EXCEPT !.st =
                                     IF @ = "in-progress" THEN "ready" ELSE @]]
         /\ known' \in OrNothing(n.epics, known)
  BY DEF CrashInPersist
<1>2. PICK k \in 1..(Len(n.stories) - 1) :
         /\ task[t].at = "call" /\ task[t].kind = "import"
         /\ Len(stories) + k <= MaxStories
         /\ stories' = stories \o [i \in 1..k |-> [Stored(n.stories, 0)[i] EXCEPT !.st =
                                     IF @ = "in-progress" THEN "ready" ELSE @]]
         /\ known' \in OrNothing(n.epics, known)
  BY <1>1
<1> DEFINE plan == n.stories
           st(i) == IF Stored(plan, 0)[i].st = "in-progress" THEN "ready" ELSE Stored(plan, 0)[i].st
           new == [i \in 1..k |-> [Stored(plan, 0)[i] EXCEPT !.st = st(i)]]
<1>3. plan \in Seq(AnyPart) /\ Len(plan) \in Nat
  <2>1. {} \in SUBSET AnyEpic
    OBVIOUS
  <2>2. plan \in Seq(AnyPart)
    BY <2>1, NormalizedPlans
  <2> QED
    BY <2>2
<1>4. k \in Nat /\ k <= Len(plan) /\ 1..k \subseteq DOMAIN plan
  BY <1>2, <1>3
<1>5. stories' = stories \o new
  BY <1>2
<1>6. ASSUME NEW i \in 1..k
      PROVE  /\ new[i] \in AnyStory /\ new[i].epic = plan[i].epic /\ new[i].part = plan[i].part
             /\ new[i].seq = i
             /\ new[i].st = "backlog" \/ (new[i].st = "ready" /\ ~Gated(0))
  <2>1. /\ Stored(plan, 0)[i] = NewStory(plan, 0, i) /\ i \in DOMAIN plan
        /\ Stored(plan, 0) \in Seq(AnyStory) /\ Len(Stored(plan, 0)) = Len(plan)
    BY <1>3, <1>4, StoredStories
  <2>2. Stored(plan, 0)[i] \in AnyStory
    BY <1>3, <2>1
  <2> DEFINE s == Stored(plan, 0)[i]
  <2>3. new[i] = [s EXCEPT !.st = st(i)]
    OBVIOUS
  <2>4. s.epic = plan[i].epic /\ s.part = plan[i].part /\ s.seq = i
        /\ (s.st = "backlog" \/ (s.st = "in-progress" /\ ~Gated(0)))
    BY <2>1 DEF NewStory
  <2>5. st(i) \in StoryMoves /\ (st(i) = "backlog" \/ (st(i) = "ready" /\ ~Gated(0)))
    BY <2>4 DEF StoryMoves
  <2> HIDE DEF s, st, new
  <2> QED
    BY <2>2, <2>3, <2>4, <2>5 DEF AnyStory, s
<1>7. new \in [1..k -> AnyStory]
  BY <1>6
<1> HIDE DEF new
<1>8. new \in Seq(AnyStory) /\ Len(new) = k /\ DOMAIN new = 1..k
  BY <1>4, <1>7
<1> DEFINE s == stories
<1>9. s \in Seq(AnyStory)
  OBVIOUS
<1> HIDE DEF s
<1>10. /\ s \o new \in Seq(AnyStory) /\ Len(s \o new) = Len(s) + Len(new)
       /\ \A i \in DOMAIN s : i \in DOMAIN (s \o new) /\ (s \o new)[i] = s[i]
       /\ \A i \in DOMAIN (s \o new) : i \notin DOMAIN s => /\ i - Len(s) \in DOMAIN new
                                                       /\ (s \o new)[i] = new[i - Len(s)]
  BY <1>8, <1>9, Joined
<1>11. /\ stories' \in Seq(AnyStory) /\ Len(stories') = Len(stories) + k
       /\ \A i \in DOMAIN stories : i \in DOMAIN stories' /\ stories'[i] = stories[i]
       /\ \A i \in DOMAIN stories' : i \notin DOMAIN stories =>
            i - Len(stories) \in 1..k /\ stories'[i] = new[i - Len(stories)]
  BY <1>5, <1>8, <1>10 DEF s
<1>12. Len(stories') <= MaxStories
  BY <1>2, <1>11
<1> HIDE DEF plan
<1>13. \A i \in DOMAIN stories' : i \notin DOMAIN stories =>
                /\ i - Len(stories) \in 1..k
                /\ stories'[i].epic = plan[i - Len(stories)].epic
                /\ stories'[i].part = plan[i - Len(stories)].part
                /\ stories'[i].seq = i - Len(stories)
                /\ stories'[i].st = "backlog" \/ (stories'[i].st = "ready" /\ ~Gated(0))
  BY <1>6, <1>11
<1>14. PartlyStored(plan, k)
  BY <1>4, <1>11, <1>12, <1>13 DEF PartlyStored
<1> QED
  BY <1>2, <1>4, <1>14 DEF plan, OrNothing

LEMMA CrashNumbers ==
  ASSUME Shaped, CrashInPersist
  PROVE  Numbered' /\ known' \in SUBSET AnyEpic
<1>0. /\ Numbered /\ UNCHANGED idea /\ Base' = Base /\ stories \in Seq(AnyStory)
      /\ task' = [t \in Task |-> NoTask]
  BY DEF Shaped, Numbered, CrashInPersist, Base
<1>1. PICK t \in Task, n \in Normalized({}, {}), k \in Nat :
           known' \in {n.epics, known} /\ PartlyStored(n.stories, k)
  BY <1>0, CrashAppends
<1>2. {} \in SUBSET AnyEpic /\ Epic \in SUBSET AnyEpic /\ {Whole} \in SUBSET AnyEpic
      /\ known \in SUBSET AnyEpic
  BY DEF AnyEpic, Shaped, Shape
<1>3. n.epics \in {Epic, {Whole}}
  BY <1>2, NormalizedPlans DEF Asked
<1>4. /\ task' \in [Task -> TaskState] /\ \A u \in Task : task'[u].offset = 0
  BY <1>0 DEF NoTask, TaskState
<1>5. /\ Base \in Nat /\ Len(stories) \in Nat /\ Len(stories') = Len(stories) + k
  BY <1>0, <1>1, NumbersFromZero DEF PartlyStored
<1>6. \A i \in DOMAIN stories' : stories'[i].seq \in 1..(Base + Len(stories'))
  <2> TAKE i \in DOMAIN stories'
  <2>1. CASE i \in DOMAIN stories
    <3>1. stories[i].seq \in 1..(Base + Len(stories)) /\ stories'[i] = stories[i]
      BY <1>0, <1>1, <2>1 DEF Numbered, PartlyStored
    <3> QED
      BY <1>5, <3>1
  <2>2. CASE i \notin DOMAIN stories
    <3>1. i - Len(stories) \in 1..k /\ stories'[i].seq = i - Len(stories)
      BY <1>1, <2>2 DEF PartlyStored
    <3> QED
      BY <1>5, <3>1
  <2> QED
    BY <2>1, <2>2
<1>7. Numbered'
  BY <1>0, <1>1, <1>4, <1>5, <1>6 DEF Numbered, PartlyStored
<1> QED
  BY <1>1, <1>2, <1>3, <1>7

LEMMA DeleteNumbers ==
  ASSUME Shaped, DeleteProject
  PROVE  Numbered'
<1>1. /\ Numbered /\ stories' = <<>> /\ idea' = "deleted" /\ idea # "deleted" /\ UNCHANGED task
  BY DEF Shaped, DeleteProject, Exists
<1>2. Base = 0 /\ Base' = MaxStories /\ MaxStories \in Nat
  BY <1>1, PlanningAssumption DEF PlanningAssumption, Base
<1>3. stories' \in Seq(AnyStory) /\ Len(stories') = 0 /\ DOMAIN stories' = {}
  BY <1>1
<1>4. Len(stories) \in Nat /\ Len(stories) <= MaxStories
  BY <1>1 DEF Numbered
<1>5. \A t \in Task : task'[t].offset <= Base' + Len(stories')
  <2> TAKE t \in Task
  <2>1. task[t].offset <= Len(stories) /\ task[t].offset \in Nat
    BY <1>1, <1>2, <1>4 DEF Numbered, TaskState
  <2> QED
    BY <1>1, <1>2, <1>3, <1>4, <2>1
<1> QED
  BY <1>1, <1>2, <1>3, <1>5 DEF Numbered

LEMMA TaskStepShaped ==
  ASSUME Shaped, NEW t \in Task, TaskStep(t)
  PROVE  Shaped'
<1>0. /\ Shape /\ Numbered /\ task \in [Task -> TaskState] /\ stories \in Seq(AnyStory)
      /\ {} \in SUBSET AnyEpic /\ Epic \in SUBSET AnyEpic /\ {Whole} \in SUBSET AnyEpic
  BY DEF Shaped, Numbered, AnyEpic
<1>a. \A plan, offset : Persist(plan, offset) => released' \in BOOLEAN
  BY <1>0 DEF Persist, Shape
<1>1. CASE Begin(t)
  <2>1. Shape'
    BY <1>0, <1>1 DEF Begin, Shape
  <2> QED
    BY <1>1, <2>1, BeginNumbers DEF Shaped
<1>2. CASE Provision(t)
  <2>1. repo' \in [there : BOOLEAN, scaffold : BOOLEAN]
    <3>1. repo.there \in BOOLEAN /\ repo.scaffold \in BOOLEAN
      BY <1>0 DEF Shape
    <3>2. Provisioned \in [there : BOOLEAN, scaffold : BOOLEAN]
      BY <3>1 DEF Provisioned
    <3>3. [repo EXCEPT !.there = TRUE] \in [there : BOOLEAN, scaffold : BOOLEAN]
      BY <1>0 DEF Shape
    <3> QED
      BY <1>0, <1>2, <3>2, <3>3 DEF Provision, Shape
  <2>2. released' \in BOOLEAN
    BY <1>0, <1>2, <1>a DEF Provision, Shape
  <2>3. Shape'
    BY <1>0, <1>2, <2>1, <2>2 DEF Provision, Shape
  <2> QED
    BY <1>2, <2>3, ProvisionNumbers DEF Shaped
<1>3. CASE PlannerReturns(t)
  <2>1. PICK plan \in Decomposed : Persist(plan, 0)
    BY <1>3 DEF PlannerReturns
  <2>2. /\ Becomes(t, NoTask) /\ 0 <= Base + Len(stories) /\ 0 \in Nat
        /\ plan \in Seq(AnyPart) /\ UNCHANGED idea
    BY <1>0, <1>3, TaskEnds, NumbersFromZero, DecomposedPlans DEF PlannerReturns
  <2>3. Numbered'
    BY <1>0, <2>1, <2>2, PersistNumbers
  <2>4. Shape'
    BY <1>0, <1>3, <1>a, <2>1 DEF PlannerReturns, Shape
  <2> QED
    BY <2>3, <2>4 DEF Shaped
<1>4. CASE ImportReturns(t)
  <2>1. PICK n \in Normalized({}, {}) : Persist(n.stories, 0) /\ known' \in {n.epics, known}
    BY <1>4 DEF ImportReturns, OrNothing
  <2>2. n.stories \in Seq(AnyPart) /\ n.epics \in {Epic, {Whole}}
    BY <1>0, NormalizedPlans DEF Asked
  <2>3. Becomes(t, NoTask) /\ 0 <= Base + Len(stories) /\ 0 \in Nat /\ UNCHANGED idea
    BY <1>0, <1>4, TaskEnds, NumbersFromZero DEF ImportReturns
  <2>4. Numbered'
    BY <1>0, <2>1, <2>2, <2>3, PersistNumbers
  <2>5. known' \in SUBSET AnyEpic
    BY <1>0, <2>1, <2>2 DEF Shape
  <2>6. Shape'
    BY <1>0, <1>4, <1>a, <2>1, <2>5 DEF ImportReturns, Shape
  <2> QED
    BY <2>4, <2>6 DEF Shaped
<1>5. CASE ResumeReturns(t)
  <2>1. PICK n \in Normalized(task[t].epics, task[t].skip) :
          /\ filled' = (filled \/ n.clean)
          /\ blind' = (blind \/ (task[t].epics = {} /\ task[t].skip # {}))
    BY <1>5 DEF ResumeReturns
  <2>2. n.clean \in BOOLEAN
    <3>1. task[t].epics \in SUBSET AnyEpic /\ task[t].skip \in SUBSET AnyEpic
      BY <1>0 DEF TaskState
    <3> QED
      BY <3>1, NormalizedPlans
  <2>3. filled' \in BOOLEAN /\ blind' \in BOOLEAN
    BY <2>1
  <2>4. released' \in BOOLEAN
    BY <1>0, <1>5, <1>a DEF ResumeReturns, Shape
  <2>5. Shape'
    BY <1>0, <1>5, <2>3, <2>4 DEF ResumeReturns, Shape
  <2> QED
    BY <1>5, <2>5, ResumeNumbers DEF Shaped
<1>6. CASE CallFails(t)
  <2>1. Ends(t) /\ UNCHANGED <<stories, idea>> /\ Base' = Base
    BY <1>6 DEF CallFails, Base
  <2>2. Numbered'
    BY <1>0, <2>1, TaskEnds, TaskNumbers, NumbersFromZero
  <2>3. Shape'
    BY <1>0, <1>6 DEF CallFails, Shape
  <2> QED
    BY <2>2, <2>3 DEF Shaped
<1> QED
  BY <1>1, <1>2, <1>3, <1>4, <1>5, <1>6 DEF TaskStep

\* A call that only starts a task changes no number.
LEMMA LaunchNumbers ==
  ASSUME Numbered, NEW kind \in {"plan", "import", "resume"}, Launch(kind),
         UNCHANGED stories, idea # "deleted", idea' # "deleted"
  PROVE  Numbered'
<1>1. PICK t \in Task : Becomes(t, NewTask(kind))
  BY LaunchStarts DEF Numbered
<1>2. Base' = Base /\ NewTask(kind).offset <= Base + Len(stories)
  BY NumbersFromZero DEF Base
<1> QED
  BY <1>1, <1>2, TaskNumbers

LEMMA ShapedStep ==
  ASSUME Shaped, [Next]_vars
  PROVE  Shaped'
<1>0. /\ Shape /\ Numbered /\ task \in [Task -> TaskState] /\ stories \in Seq(AnyStory)
  BY DEF Shaped, Numbered
<1>a. ASSUME UNCHANGED <<stories, task>>, (idea # "deleted" /\ idea' # "deleted") \/ UNCHANGED idea
      PROVE  Numbered'
  <2>1. Base' = Base
    BY <1>a DEF Base
  <2> QED
    BY <1>0, <1>a, <2>1 DEF Numbered
<1>1. CASE Submit
  BY <1>0, <1>1, <1>a DEF Submit, Shape, Shaped
<1>2. CASE Import
  BY <1>0, <1>2, LaunchNumbers DEF Import, Shape, Shaped
<1>3. CASE ApproveAsked
  <2>1. asked' \in 0..2
    BY <1>0, <1>3 DEF ApproveAsked, Shape
  <2> QED
    BY <1>0, <1>3, <1>a, <2>1 DEF ApproveAsked, Shape, Shaped
<1>4. CASE Approve
  <2>1. asked' \in 0..2
    BY <1>0, <1>4 DEF Approve, Shape
  <2>2. Base' = Base
    BY <1>4 DEF Approve, Exists, Base
  <2>3. PICK t \in Task : Becomes(t, NewTask("plan"))
    BY <1>0, <1>4, LaunchStarts DEF Approve
  <2>4. Numbered'
    BY <1>0, <1>4, <2>2, <2>3, TaskNumbers, NumbersFromZero DEF Approve
  <2>5. idea' \in {"none", "pending-approval", "approved", "rejected", "abandoned", "deleted"}
    BY <1>0, <1>4 DEF Approve, Shape
  <2> QED
    BY <1>0, <1>4, <2>1, <2>4, <2>5 DEF Approve, Shape, Shaped
<1>5. CASE Reject
  BY <1>0, <1>5, <1>a DEF Reject, Shape, Shaped
<1>6. CASE PlanItem
  BY <1>0, <1>6, LaunchNumbers DEF PlanItem, Exists, Shape, Shaped
<1>7. CASE ReplayItem
  BY <1>0, <1>7, LaunchNumbers DEF ReplayItem, Exists, Shape, Shaped
<1>8. CASE PinBreaks
  BY <1>0, <1>8, <1>a DEF PinBreaks, Shape, Shaped
<1>9. CASE ResumeItem
  BY <1>0, <1>9, LaunchNumbers DEF ResumeItem, Exists, Shape, Shaped
<1>10. CASE ApprovePlan
  <2>1. Numbered'
    BY <1>0, <1>10, ApproveMoves, MovedNumbers DEF ApprovePlan, Base
  <2> QED
    BY <1>0, <1>10, <2>1 DEF ApprovePlan, Shape, Shaped
<1>11. CASE CancelIdea
  <2>1. Numbered'
    BY <1>0, <1>11, CancelMoves, MovedNumbers DEF CancelIdea, Exists, Base
  <2> QED
    BY <1>0, <1>11, <2>1 DEF CancelIdea, Shape, Shaped
<1>12. CASE DeleteProject
  BY <1>0, <1>12, DeleteNumbers DEF DeleteProject, Shape, Shaped
<1>13. CASE Crash
  <2>1. UNCHANGED <<stories, idea>> /\ Base' = Base /\ task' = [t \in Task |-> NoTask]
    BY <1>13 DEF Crash, Base
  <2>2. task' \in [Task -> TaskState] /\ \A t \in Task : task'[t].offset = 0
    BY <2>1 DEF NoTask, TaskState
  <2>3. Numbered'
    BY <1>0, <2>1, <2>2, NumbersFromZero DEF Numbered
  <2>4. repo' \in [there : BOOLEAN, scaffold : BOOLEAN]
    <3>1. [repo EXCEPT !.there = TRUE] \in [there : BOOLEAN, scaffold : BOOLEAN]
      BY <1>0 DEF Shape
    <3> QED
      BY <1>0, <1>13, <3>1 DEF Crash, Shape
  <2> QED
    BY <1>0, <1>13, <2>3, <2>4 DEF Crash, Shape, Shaped
<1>14. CASE CrashInPersist
  <2>1. released' \in BOOLEAN
    BY <1>0, <1>14 DEF CrashInPersist, Shape
  <2>2. Numbered' /\ known' \in SUBSET AnyEpic
    BY <1>14, CrashNumbers
  <2>3. UNCHANGED <<scenario, idea, replay, repo, filled, blind>> /\ asked' = 0
    BY <1>14 DEF CrashInPersist
  <2>4. Shape'
    BY <1>0, <2>1, <2>2, <2>3 DEF Shape
  <2> QED
    BY <2>2, <2>4 DEF Shaped
<1>15. ASSUME NEW t \in Task, TaskStep(t)
       PROVE  Shaped'
  BY <1>15, TaskStepShaped
<1>16. ASSUME NEW i \in DOMAIN stories, StoryDone(i) \/ AbandonItem(i)
       PROVE  Shaped'
  <2>1. PICK st \in {"done", "abandoned"} : Finish(i, st)
    BY <1>16 DEF StoryDone, AbandonItem
  <2>2. Moved /\ UNCHANGED task /\ Base' = Base
    <3>1. st \in StoryMoves
      BY DEF StoryMoves
    <3> QED
      BY <1>0, <2>1, <3>1, FinishMoves DEF Finish, Base
  <2>3. Numbered'
    BY <1>0, <2>2, MovedNumbers
  <2> QED
    BY <1>0, <2>1, <2>3 DEF Finish, Shape, Shaped
<1>17. CASE UNCHANGED vars
  BY <1>0, <1>17, <1>a DEF vars, Shape, Shaped
<1> QED
  BY <1>1, <1>2, <1>3, <1>4, <1>5, <1>6, <1>7, <1>8, <1>9, <1>10, <1>11, <1>12, <1>13,
     <1>14, <1>15, <1>16, <1>17 DEF Next

THEOREM ShapedAlways == Spec => []Shaped
<1>1. Shaped /\ [Next]_vars => Shaped'
  BY ShapedStep
<1> QED
  BY <1>1, ShapedAtFirst, PTL DEF Spec

\* Whatever is pressed, lost or restarted, the board holds stories of this plan, and
\* no number passes the bound: a resume that outlives the deletion of its project
\* goes on from a number of before, and a deletion is final
\* (_persist_plan, _resume_import, delete_project).
THEOREM TypeCorrect == Spec => []TypeOK
<1>1. Shaped => TypeOK
  BY ShapedIsTyped
<1> QED
  BY <1>1, ShapedAlways, PTL

-----------------------------------------------------------------------------
(* The gate.                                                                *)

Untouched(i) == stories[i].st \in {"backlog", "abandoned"}

LEMMA UnapprovedStep ==
  ASSUME Shaped, NothingStartsUnapproved, [Next]_vars
  PROVE  NothingStartsUnapproved'
<1>0. /\ stories \in Seq(AnyStory) /\ task \in [Task -> TaskState] /\ released \in BOOLEAN
      /\ {} \in SUBSET AnyEpic
  BY DEF Shaped, Shape, Numbered
<1>a. SUFFICES ASSUME ~May("abandon")', ~released'
               PROVE  \A i \in DOMAIN stories' : Untouched(i)'
  BY DEF NothingStartsUnapproved, Untouched
<1>b. /\ UNCHANGED scenario /\ ~May("abandon")
  BY <1>a DEF May, Next, vars, Submit, Import, ApproveAsked, Approve, Reject, PlanItem,
     ReplayItem, PinBreaks, ResumeItem, ApprovePlan, CancelIdea, DeleteProject, Crash,
     CrashInPersist, TaskStep, Begin, Provision, PlannerReturns, ImportReturns, ResumeReturns,
     CallFails, StoryDone, AbandonItem, Finish
<1>c. ~released => \A i \in DOMAIN stories : Untouched(i)
  BY <1>b DEF NothingStartsUnapproved, Untouched
<1>d. ASSUME NEW plan \in Seq(AnyPart), NEW offset \in Nat, Persist(plan, offset)
      PROVE  \A i \in DOMAIN stories' : Untouched(i)'
  <2>1. ~released /\ Gated(offset)
    <3>1. ~released /\ (May("gate") \/ offset # 0)
      BY <1>a, <1>d, Zenon DEF Persist
    <3>2. offset # 0 => offset > 0
      OBVIOUS
    <3> QED
      BY <3>1, <3>2 DEF Gated
  <2>2. Appended(plan, offset, Len(plan))
    BY <1>0, <1>d, PersistAppends
  <2> TAKE i \in DOMAIN stories'
  <2>3. CASE i \in DOMAIN stories
    BY <1>c, <2>1, <2>2, <2>3 DEF Appended, Untouched
  <2>4. CASE i \notin DOMAIN stories
    <3> DEFINE k == i - Len(stories)
    <3>1. k \in 1..Len(plan) /\ i \in Int /\ Len(stories) \in Nat
      BY <1>0, <2>2, <2>4 DEF Appended
    <3>2. stories'[Len(stories) + k] = NewStory(plan, offset, k) /\ Len(stories) + k = i
      BY <2>2, <3>1 DEF Appended
    <3>3. stories'[i].st = "backlog"
      BY <2>1, <3>2 DEF NewStory
    <3> QED
      BY <3>3 DEF Untouched
  <2> QED
    BY <2>3, <2>4
<1>e. ASSUME UNCHANGED <<stories, released>>
      PROVE  \A i \in DOMAIN stories' : Untouched(i)'
  BY <1>a, <1>c, <1>e DEF Untouched
<1>1. ASSUME NEW t \in Task, TaskStep(t)
      PROVE  \A i \in DOMAIN stories' : Untouched(i)'
  <2>0. task[t].epics \in SUBSET AnyEpic /\ task[t].skip \in SUBSET AnyEpic /\ task[t].offset \in Nat
    BY <1>0 DEF TaskState
  <2>1. CASE Begin(t) \/ CallFails(t)
    BY <1>e, <2>1 DEF Begin, CallFails
  <2>2. CASE Provision(t)
    BY <1>d, <1>e, <2>2, PinnedPlan DEF Provision
  <2>3. CASE PlannerReturns(t)
    BY <1>d, <2>3, DecomposedPlans DEF PlannerReturns
  <2>4. CASE ImportReturns(t)
    BY <1>0, <1>d, <2>4, NormalizedPlans DEF ImportReturns
  <2>5. CASE ResumeReturns(t)
    <3>1. PICK n \in Normalized(task[t].epics, task[t].skip) :
            \/ UNCHANGED <<stories, released>>
            \/ Persist(n.stories, task[t].offset)
      BY <2>5 DEF ResumeReturns
    <3>2. n.stories \in Seq(AnyPart)
      BY <2>0, NormalizedPlans
    <3> QED
      BY <1>d, <1>e, <2>0, <3>1, <3>2
  <2> QED
    BY <1>1, <2>1, <2>2, <2>3, <2>4, <2>5 DEF TaskStep
<1>2. ASSUME NEW i \in DOMAIN stories, StoryDone(i) \/ AbandonItem(i)
      PROVE  FALSE
  BY <1>2, <1>a, <1>b, <1>c DEF StoryDone, AbandonItem, Finish, Untouched
<1>3. CASE CancelIdea
  <2>1. Moved /\ \A i \in DOMAIN stories : stories'[i].st \in {"done", "abandoned"}
    BY <1>0, <1>3, CancelMoves
  <2> QED
    BY <1>0, <2>1, <1>a, <1>c, <1>3 DEF CancelIdea, Untouched, Moved, Stopped
<1>4. CASE CrashInPersist
  <2>1. ~released /\ Gated(0)
    BY <1>0, <1>a, <1>4 DEF CrashInPersist
  <2>2. PICK t \in Task, n \in Normalized({}, {}), k \in Nat : PartlyStored(n.stories, k)
    BY <1>0, <1>4, CrashAppends
  <2>3. ASSUME NEW i \in DOMAIN stories'
        PROVE  Untouched(i)'
    <3>1. CASE i \in DOMAIN stories
      BY <1>c, <2>1, <2>2, <3>1 DEF PartlyStored, Untouched
    <3>2. CASE i \notin DOMAIN stories
      BY <2>1, <2>2, <3>2 DEF PartlyStored, Untouched
    <3> QED
      BY <3>1, <3>2
  <2> QED
    BY <2>3
<1>5. CASE ApprovePlan
  BY <1>5, <1>a DEF ApprovePlan
<1>6. CASE DeleteProject
  BY <1>6 DEF DeleteProject
<1>7. CASE Submit \/ Import \/ ApproveAsked \/ Approve \/ Reject \/ PlanItem \/ ReplayItem
           \/ PinBreaks \/ ResumeItem \/ Crash \/ UNCHANGED vars
  BY <1>7, <1>e DEF Submit, Import, ApproveAsked, Approve, Reject, PlanItem, ReplayItem,
     PinBreaks, ResumeItem, Crash, vars
<1> QED
  BY <1>1, <1>2, <1>3, <1>4, <1>5, <1>6, <1>7 DEF Next

\* With the gate on, no story of a plan is ready, coded or done before the operator
\* approved the plan: not by a torn import, a resume, a replay or a restart
\* (_persist_plan, approve_plan).
THEOREM GateHolds == Spec => []NothingStartsUnapproved
<1>1. Init => NothingStartsUnapproved
  <2> SUFFICES ASSUME Init PROVE NothingStartsUnapproved
    OBVIOUS
  <2>1. stories = <<>>
    BY DEF Init
  <2>2. DOMAIN stories = {}
    BY <2>1
  <2> QED
    BY <2>2 DEF NothingStartsUnapproved
<1>2. Shaped /\ NothingStartsUnapproved /\ [Next]_vars => NothingStartsUnapproved'
  BY UnapprovedStep
<1> QED
  BY <1>1, <1>2, ShapedAlways, PTL DEF Spec

-----------------------------------------------------------------------------
(* The scaffold.                                                            *)

\* Forgejo answers, the process lives, nobody presses twice, runs out of budget or
\* resumes what is not approved.
Steady == scenario \cap {"forge", "crash", "torn", "twice", "budget", "astray"} = {}

\* A repository is there only with its scaffold; whoever asks the model or resumes
\* has passed the provisioning, and an approved idea has a task that will.
Scaffolded ==
  Steady =>
    /\ repo.there => repo.scaffold
    /\ stories # <<>> => repo.scaffold
    /\ \A t \in Task : task[t].at = "call" \/ task[t].kind = "resume" => repo.scaffold
    /\ idea = "approved" =>
         \/ repo.scaffold
         \/ \E t \in Task : task[t].kind \in {"plan", "import"}

LEMMA ScaffoldedStep ==
  ASSUME Shaped, Scaffolded, [Next]_vars
  PROVE  Scaffolded'
<1>0. /\ stories \in Seq(AnyStory) /\ task \in [Task -> TaskState]
      /\ repo \in [there : BOOLEAN, scaffold : BOOLEAN]
  BY DEF Shaped, Shape, Numbered
<1>a. SUFFICES ASSUME Steady'
               PROVE  Scaffolded'
  BY DEF Scaffolded
<1>b. UNCHANGED scenario
  BY DEF Next, vars, Submit, Import, ApproveAsked, Approve, Reject, PlanItem,
     ReplayItem, PinBreaks, ResumeItem, ApprovePlan, CancelIdea, DeleteProject, Crash,
     CrashInPersist, TaskStep, Begin, Provision, PlannerReturns, ImportReturns, ResumeReturns,
     CallFails, StoryDone, AbandonItem, Finish
<1>c. /\ ~May("forge") /\ ~May("crash") /\ ~May("torn") /\ ~May("twice") /\ ~May("budget")
      /\ ~May("astray")
      /\ repo.there => repo.scaffold
      /\ stories # <<>> => repo.scaffold
      /\ \A t \in Task : task[t].at = "call" \/ task[t].kind = "resume" => repo.scaffold
      /\ idea = "approved" =>
           \/ repo.scaffold
           \/ \E t \in Task : task[t].kind \in {"plan", "import"}
  BY <1>a, <1>b DEF Scaffolded, Steady, May
<1>d. NoTask.kind = "none" /\ NoTask.at = "none"
      /\ \A kind : NewTask(kind).kind = kind /\ NewTask(kind).at = "start"
  BY DEF NoTask, NewTask
<1>e. ASSUME repo.scaffold, UNCHANGED repo
      PROVE  Scaffolded'
  BY <1>e DEF Scaffolded
<1>f. ASSUME NEW kind \in {"plan", "import"}, Launch(kind), UNCHANGED <<repo, stories>>
      PROVE  Scaffolded'
  <2>1. PICK t \in Task : Becomes(t, NewTask(kind))
    BY <1>0, <1>f, LaunchStarts
  <2>2. \A u \in Task : task'[u].at = "call" \/ task'[u].kind = "resume" => repo.scaffold
    BY <1>c, <1>d, <2>1 DEF Becomes
  <2>3. \E u \in Task : task'[u].kind \in {"plan", "import"}
    BY <1>d, <2>1 DEF Becomes
  <2> QED
    BY <1>c, <1>f, <2>2, <2>3 DEF Scaffolded
<1>g. ASSUME UNCHANGED <<repo, task>>, stories # <<>> \/ stories' = <<>>,
             idea' # "approved" \/ idea = "approved"
      PROVE  Scaffolded'
  BY <1>c, <1>g DEF Scaffolded
<1>1. ASSUME NEW t \in Task, TaskStep(t)
      PROVE  Scaffolded'
  <2>1. CASE Begin(t)
    <3>1. CASE task' = [task EXCEPT ![t].at = "provision"] /\ task[t].kind # "resume"
      <4>1. /\ \A u \in Task : task'[u].kind = task[u].kind
            /\ \A u \in Task : task'[u].at = "call" => task[u].at = "call"
        BY <1>0, <3>1 DEF TaskState
      <4> QED
        BY <1>c, <2>1, <4>1 DEF Begin, Scaffolded
    <3>2. CASE task[t].kind = "resume"
      BY <1>c, <1>e, <2>1, <3>2 DEF Begin
    <3> QED
      BY <1>c, <2>1, <3>1, <3>2 DEF Begin
  <2>2. CASE Provision(t)
    <3>1. repo' = Provisioned
      BY <1>c, <2>2 DEF Provision
    <3>2. repo'.scaffold
      BY <1>c, <3>1 DEF Provisioned
    <3> QED
      BY <3>2 DEF Scaffolded
  <2>3. CASE PlannerReturns(t) \/ ImportReturns(t) \/ ResumeReturns(t) \/ CallFails(t)
    BY <1>c, <1>e, <2>3 DEF PlannerReturns, ImportReturns, ResumeReturns, CallFails
  <2> QED
    BY <1>1, <2>1, <2>2, <2>3 DEF TaskStep
<1>2. ASSUME NEW i \in DOMAIN stories, StoryDone(i) \/ AbandonItem(i)
      PROVE  Scaffolded'
  <2>1. stories # <<>>
    BY <1>2
  <2> QED
    BY <1>2, <1>g, <2>1 DEF StoryDone, AbandonItem, Finish
<1>3. CASE CancelIdea
  <2>1. stories = <<>> => stories' = <<>>
    <3>1. Moved
      BY <1>0, <1>3, CancelMoves
    <3> QED
      BY <1>0, <3>1 DEF Moved
  <2> QED
    BY <1>3, <1>g, <2>1 DEF CancelIdea
<1>4. CASE Crash \/ CrashInPersist
  BY <1>4, <1>c DEF Crash, CrashInPersist
<1>5. CASE ApprovePlan
  BY <1>5, <1>c, <1>e DEF ApprovePlan
<1>6. CASE DeleteProject
  BY <1>6, <1>g DEF DeleteProject
<1>7. CASE Import \/ Approve \/ PlanItem \/ ReplayItem
  BY <1>7, <1>f DEF Import, Approve, PlanItem, ReplayItem
<1>8. CASE ResumeItem
  <2>1. idea = "approved" /\ (\A t \in Task : task[t] = NoTask) /\ UNCHANGED repo
    BY <1>8, <1>c DEF ResumeItem, Busy
  <2> QED
    BY <1>c, <1>d, <1>e, <2>1
<1>9. CASE Submit \/ ApproveAsked \/ Reject \/ PinBreaks \/ UNCHANGED vars
  BY <1>9, <1>g DEF Submit, ApproveAsked, Reject, PinBreaks, vars
<1> QED
  BY <1>1, <1>2, <1>3, <1>4, <1>5, <1>6, <1>7, <1>8, <1>9 DEF Next

\* A coder is never sent into a repository without its scaffold: the one that is there
\* was scaffolded by the task that created it, and a resume, which provisions nothing,
\* comes after such a task (_provision_project_repo, resume_import).
THEOREM CodersFindScaffold == Spec => []WorkHasScaffold
<1>1. Init => Scaffolded
  <2> SUFFICES ASSUME Init PROVE Scaffolded
    OBVIOUS
  <2>1. /\ repo = [there |-> FALSE, scaffold |-> FALSE] /\ stories = <<>> /\ idea = "none"
        /\ \A t \in Task : task[t] = NoTask
    BY DEF Init
  <2> QED
    BY <2>1 DEF Scaffolded, NoTask
<1>2. Shaped /\ Scaffolded /\ [Next]_vars => Scaffolded'
  BY ScaffoldedStep
<1>3. Scaffolded => WorkHasScaffold
  BY DEF Scaffolded, Steady, WorkHasScaffold
<1> QED
  BY <1>1, <1>2, <1>3, ShapedAlways, PTL DEF Spec

-----------------------------------------------------------------------------
(* One activity at a time.                                                  *)

Increasing == \A i, j \in DOMAIN stories : i < j => stories[i].seq < stories[j].seq

Free == \A t \in Task : task[t] = NoTask

\* An operator who waits has one approval or one task under way.  A plan is only
\* made for an empty board, and a resume that asks the model knows the stories.
OneActivity ==
  /\ asked \in {0, 1} /\ (asked = 1 => Free)
  /\ \A t, u \in Task : task[t] # NoTask /\ task[u] # NoTask => t = u

EmptyFirst ==
  /\ asked = 1 \/ idea \in {"none", "pending-approval"} => stories = <<>> /\ Free
  /\ idea = "none" => asked = 0
  /\ \A t \in Task : task[t].kind \in {"plan", "import"} => stories = <<>>

ResumeKnows ==
  \A t \in Task : task[t].kind = "resume" =>
    /\ task[t].at # "provision"
    /\ task[t].at = "call" =>
         \A i \in DOMAIN stories : /\ stories[i].seq <= task[t].offset
                                 /\ stories[i].epic \in task[t].skip

Waits == OneActivity /\ EmptyFirst /\ ResumeKnows /\ Increasing
Patient == ~May("twice") /\ ~May("astray") => Waits

LEMMA MovedIncreasing ==
  ASSUME Increasing, Moved, stories \in Seq(AnyStory)
  PROVE  Increasing'
<1>1. DOMAIN stories' = DOMAIN stories
  BY DEF Moved
<1> QED
  BY <1>1 DEF Moved, Increasing

LEMMA AppendedIncreasing ==
  ASSUME stories \in Seq(AnyStory), Increasing, NEW plan, NEW offset \in Nat, NEW n \in Nat,
         \A i \in DOMAIN stories : stories[i].seq <= offset, Appended(plan, offset, n)
  PROVE  Increasing'
<1>0. /\ Len(stories) \in Nat /\ DOMAIN stories = 1..Len(stories) /\ DOMAIN stories' \subseteq Nat
      /\ \A i \in DOMAIN stories : stories[i].seq \in Nat
  <2>1. \A i \in DOMAIN stories : stories[i] \in AnyStory
    OBVIOUS
  <2>2. DOMAIN stories' = 1..Len(stories') /\ Len(stories') \in Nat
    BY DEF Appended
  <2>3. Len(stories) \in Nat /\ DOMAIN stories = 1..Len(stories)
    OBVIOUS
  <2> QED
    BY <2>1, <2>2, <2>3 DEF AnyStory
<1>1. ASSUME NEW i \in DOMAIN stories', i \notin DOMAIN stories
      PROVE  stories'[i].seq = offset + (i - Len(stories)) /\ i - Len(stories) \in 1..n
  <2> DEFINE k == i - Len(stories)
  <2>1. k \in 1..n /\ i \in Int
    BY <1>0, <1>1 DEF Appended
  <2>2. stories'[Len(stories) + k] = NewStory(plan, offset, k) /\ Len(stories) + k = i
    BY <1>0, <2>1 DEF Appended
  <2> QED
    BY <2>1, <2>2 DEF NewStory
<1>2. SUFFICES ASSUME NEW i \in DOMAIN stories', NEW j \in DOMAIN stories', i < j
               PROVE  stories'[i].seq < stories'[j].seq
  BY DEF Increasing
<1>3. CASE j \in DOMAIN stories
  <2>1. i \in DOMAIN stories
    BY <1>0, <1>2, <1>3
  <2> QED
    BY <1>2, <1>3, <2>1 DEF Appended, Increasing
<1>4. CASE j \notin DOMAIN stories /\ i \in DOMAIN stories
  <2>1. stories'[i].seq <= offset /\ stories'[i].seq \in Nat
    BY <1>0, <1>4 DEF Appended
  <2>2. stories'[j].seq = offset + (j - Len(stories)) /\ j - Len(stories) \in 1..n
    BY <1>1, <1>4
  <2> QED
    BY <2>1, <2>2
<1>5. CASE j \notin DOMAIN stories /\ i \notin DOMAIN stories
  BY <1>0, <1>1, <1>2, <1>5
<1> QED
  BY <1>3, <1>4, <1>5

\* One task starts where none is under way.
LEMMA WaitsLaunch ==
  ASSUME task \in [Task -> TaskState], Free, asked' = 0, Increasing,
         NEW kind \in {"plan", "import", "resume"}, Launch(kind), UNCHANGED stories,
         kind = "resume" \/ stories = <<>>, idea' \notin {"none", "pending-approval"}
  PROVE  Waits'
<1>1. PICK t \in Task : Becomes(t, NewTask(kind))
  BY LaunchStarts
<1>2. /\ task'[t].kind = kind /\ task'[t].at = "start"
      /\ \A u \in Task \ {t} : task'[u] = NoTask /\ task'[u].kind = "none"
  BY <1>1 DEF Becomes, NewTask, Free, NoTask
<1>3. OneActivity'
  BY <1>2 DEF OneActivity
<1>4. EmptyFirst'
  BY <1>2 DEF EmptyFirst
<1>5. ResumeKnows'
  BY <1>2 DEF ResumeKnows
<1>6. Increasing'
  BY DEF Increasing
<1> QED
  BY <1>3, <1>4, <1>5, <1>6 DEF Waits

\* Whatever the board looks like afterwards, no task and no approval is left.
LEMMA WaitsFree ==
  ASSUME Free', asked' = 0, Increasing',
         idea' \in {"none", "pending-approval"} => stories' = <<>>
  PROVE  Waits'
<1>1. \A t \in Task : task'[t].kind = "none" /\ task'[t] = NoTask
  BY DEF Free, NoTask
<1> QED
  BY <1>1 DEF Waits, OneActivity, EmptyFirst, ResumeKnows, Free

\* The board moves beside a task, if one is there.
LEMMA WaitsMoved ==
  ASSUME Waits, stories \in Seq(AnyStory), Moved, UNCHANGED <<task, asked>>,
         idea' = idea \/ idea' \notin {"none", "pending-approval"}
  PROVE  Waits'
<1>1. stories = <<>> => stories' = <<>>
  BY DEF Moved
<1>2. Increasing'
  BY MovedIncreasing DEF Waits
<1>3. OneActivity'
  BY DEF Waits, OneActivity, Free
<1>4. EmptyFirst'
  BY <1>1 DEF Waits, EmptyFirst, Free
<1>5. ResumeKnows'
  <2>1. DOMAIN stories' = DOMAIN stories
    BY DEF Moved
  <2> QED
    BY <2>1 DEF Waits, ResumeKnows, Moved
<1> QED
  BY <1>2, <1>3, <1>4, <1>5 DEF Waits

LEMMA OnlyTask ==
  ASSUME Waits, task \in [Task -> TaskState], asked \in 0..2,
         NEW t \in Task, task[t].at # "none"
  PROVE  /\ asked = 0 /\ idea \notin {"none", "pending-approval"}
         /\ \A u \in Task \ {t} : task[u] = NoTask
         /\ Ends(t) => Free'
<1>1. task[t] # NoTask
  BY DEF NoTask
<1>2. ~Free
  BY <1>1 DEF Free
<1>3. \A u \in Task \ {t} : task[u] = NoTask
  BY <1>1 DEF Waits, OneActivity
<1>4. Ends(t) => Free'
  BY <1>3, TaskEnds DEF Becomes, Free
<1> QED
  BY <1>2, <1>3, <1>4 DEF Waits, OneActivity, EmptyFirst

\* A plan is stored behind what is there, when its task ends.
LEMMA PersistWaits ==
  ASSUME Waits, stories \in Seq(AnyStory), Free', asked' = 0,
         idea \notin {"none", "pending-approval"}, UNCHANGED idea,
         NEW plan \in Seq(AnyPart), NEW offset \in Nat, Persist(plan, offset),
         \A i \in DOMAIN stories : stories[i].seq <= offset
  PROVE  Waits'
<1>1. Appended(plan, offset, Len(plan)) /\ Len(plan) \in Nat
  BY PersistAppends
<1>2. Increasing'
  BY <1>1, AppendedIncreasing DEF Waits
<1> QED
  BY <1>2, WaitsFree

LEMMA TaskStepWaits ==
  ASSUME Shaped, Waits, NEW t \in Task, TaskStep(t)
  PROVE  Waits'
<1>0. /\ stories \in Seq(AnyStory) /\ task \in [Task -> TaskState] /\ asked \in 0..2
      /\ {} \in SUBSET AnyEpic /\ task[t] \in TaskState
  BY DEF Shaped, Shape, Numbered
<1>a. task[t].at # "none"
  BY DEF TaskStep, Begin, Provision, PlannerReturns, ImportReturns, ResumeReturns, CallFails
<1>b. /\ asked = 0 /\ idea \notin {"none", "pending-approval"}
      /\ \A u \in Task \ {t} : task[u] = NoTask
      /\ Ends(t) => Free'
  BY <1>0, <1>a, OnlyTask
<1>c. UNCHANGED <<asked, idea>>
  BY DEF TaskStep, Begin, Provision, PlannerReturns, ImportReturns, ResumeReturns, CallFails
<1>d. ASSUME Ends(t), UNCHANGED stories
      PROVE  Waits'
  BY <1>b, <1>c, <1>d, WaitsFree DEF Waits, Increasing
<1>e. ASSUME NEW r, Becomes(t, r), UNCHANGED stories, r.kind = task[t].kind,
             r.kind = "resume" => r.at # "provision",
             r.kind = "resume" /\ r.at = "call" =>
               \A i \in DOMAIN stories : stories[i].seq <= r.offset /\ stories[i].epic \in r.skip
      PROVE  Waits'
  <2>1. \A u \in Task \ {t} : task'[u] = NoTask /\ task'[u].kind = "none"
    BY <1>b, <1>e DEF Becomes, NoTask
  <2>2. OneActivity'
    BY <1>b, <1>c, <2>1 DEF OneActivity
  <2>3. EmptyFirst'
    BY <1>b, <1>c, <1>e, <2>1 DEF Waits, EmptyFirst, Becomes
  <2>4. ResumeKnows'
    BY <1>e, <2>1 DEF ResumeKnows, Becomes
  <2> QED
    BY <1>e, <2>2, <2>3, <2>4 DEF Waits, Increasing
<1>f. ASSUME task[t].kind \in {"plan", "import"}, Ends(t), NEW plan \in Seq(AnyPart), Persist(plan, 0)
      PROVE  Waits'
  <2>1. stories = <<>>
    BY <1>f DEF Waits, EmptyFirst
  <2>2. DOMAIN stories = {}
    BY <2>1
  <2> QED
    BY <1>0, <1>b, <1>c, <1>f, <2>2, PersistWaits
<1>1. CASE Begin(t)
  <2>1. CASE Ends(t)
    BY <1>1, <1>d, <2>1 DEF Begin
  <2>2. CASE task[t].kind # "resume" /\ task' = [task EXCEPT ![t].at = "provision"]
    <3> DEFINE r == [task[t] EXCEPT !.at = "provision"]
    <3>1. r \in TaskState /\ r.kind = task[t].kind /\ r.kind # "resume"
      BY <1>0, <2>2 DEF TaskState
    <3>2. task' = [task EXCEPT ![t] = r]
      BY <2>2
    <3> HIDE DEF r
    <3>3. Becomes(t, r)
      BY <1>0, <3>1, <3>2, TaskBecomes
    <3> QED
      BY <1>1, <1>e, <3>1, <3>3 DEF Begin
  <2>3. ASSUME NEW E \in OrNothing(known, {}),
               task' = [task EXCEPT ![t] = [@ EXCEPT !.at = "call", !.skip = Covered,
                                                     !.offset = Offset, !.epics = E]]
        PROVE  Waits'
    <3> DEFINE r == [task[t] EXCEPT !.at = "call", !.skip = Covered,
                                  !.offset = Offset, !.epics = E]
               b == Base + Len(stories)
    <3>1. b \in Nat /\ \A i \in DOMAIN stories : stories[i].seq <= b
      <4>1. Numbered
        BY DEF Shaped
      <4>2. b \in Nat
        BY <4>1, NumbersFromZero
      <4>3. \A i \in DOMAIN stories : stories[i].seq \in 1..b
        BY <4>1 DEF Numbered
      <4> HIDE DEF b
      <4> QED
        BY <4>2, <4>3
    <3>2. Offset \in Nat /\ \A i \in DOMAIN stories : stories[i].seq <= Offset
      <4> HIDE DEF b, r
      <4> QED
        BY <1>0, <3>1, OffsetIsHighest
    <3>3. Covered \in SUBSET AnyEpic /\ \A i \in DOMAIN stories : stories[i].epic \in Covered
      <4>1. \A i \in DOMAIN stories : stories[i] \in AnyStory
        BY <1>0
      <4> QED
        BY <4>1 DEF Covered, AnyStory
    <3>4. E \in SUBSET AnyEpic
      BY DEF Shaped, Shape, OrNothing
    <3>5. /\ r \in TaskState /\ r.kind = task[t].kind /\ r.offset = Offset /\ r.skip = Covered
          /\ r.at = "call"
      BY <1>0, <3>2, <3>3, <3>4 DEF TaskState
    <3>6. task' = [task EXCEPT ![t] = r]
      BY <2>3
    <3> HIDE DEF r
    <3>7. Becomes(t, r)
      BY <1>0, <3>5, <3>6, TaskBecomes
    <3> QED
      BY <1>1, <1>e, <3>2, <3>3, <3>5, <3>7 DEF Begin
  <2> QED
    BY <1>1, <2>1, <2>2, <2>3 DEF Begin
<1>2. CASE Provision(t)
  <2>1. CASE Ends(t) /\ UNCHANGED stories
    BY <1>d, <2>1
  <2>2. CASE task[t].kind = "plan" /\ Ends(t) /\ Persist(InOrder(Parts(Epic, "plan")), 0)
    BY <1>f, <2>2, PinnedPlan
  <2>3. CASE /\ task[t].kind = "import" \/ replay = "none"
             /\ task' = [task EXCEPT ![t].at = "call"] /\ UNCHANGED stories
    <3> DEFINE r == [task[t] EXCEPT !.at = "call"]
    <3>1. r \in TaskState /\ r.kind = task[t].kind
      BY <1>0 DEF TaskState
    <3>2. task' = [task EXCEPT ![t] = r]
      BY <2>3
    <3>3. task[t].kind # "resume"
      BY <1>2 DEF Provision, Waits, ResumeKnows
    <3> HIDE DEF r
    <3>4. Becomes(t, r)
      BY <1>0, <3>1, <3>2, TaskBecomes
    <3> QED
      BY <1>e, <2>3, <3>1, <3>3, <3>4
  <2> QED
    BY <1>2, <2>1, <2>2, <2>3 DEF Provision
<1>3. CASE PlannerReturns(t)
  BY <1>3, <1>f, DecomposedPlans DEF PlannerReturns
<1>4. CASE ImportReturns(t)
  BY <1>0, <1>4, <1>f, NormalizedPlans DEF ImportReturns
<1>5. CASE ResumeReturns(t)
  <2>1. PICK n \in Normalized(task[t].epics, task[t].skip) :
          UNCHANGED stories \/ Persist(n.stories, task[t].offset)
    BY <1>5 DEF ResumeReturns
  <2>2. n.stories \in Seq(AnyPart) /\ task[t].offset \in Nat
    BY <1>0, NormalizedPlans DEF TaskState
  <2>3. \A i \in DOMAIN stories : stories[i].seq <= task[t].offset
    BY <1>5 DEF ResumeReturns, Waits, ResumeKnows
  <2>4. Ends(t)
    BY <1>5 DEF ResumeReturns
  <2> QED
    BY <1>0, <1>b, <1>c, <1>d, <2>1, <2>2, <2>3, <2>4, PersistWaits
<1>6. CASE CallFails(t)
  BY <1>6, <1>d DEF CallFails
<1> QED
  BY <1>1, <1>2, <1>3, <1>4, <1>5, <1>6 DEF TaskStep

LEMMA ScenarioStays == [Next]_vars => UNCHANGED scenario
BY DEF Next, vars, Submit, Import, ApproveAsked, Approve, Reject, PlanItem,
   ReplayItem, PinBreaks, ResumeItem, ApprovePlan, CancelIdea, DeleteProject, Crash,
   CrashInPersist, TaskStep, Begin, Provision, PlannerReturns, ImportReturns, ResumeReturns,
   CallFails, StoryDone, AbandonItem, Finish

LEMMA PatientStep ==
  ASSUME Shaped, Patient, [Next]_vars
  PROVE  Patient'
<1>0. /\ stories \in Seq(AnyStory) /\ task \in [Task -> TaskState] /\ asked \in 0..2
      /\ idea \in {"none", "pending-approval", "approved", "rejected", "abandoned", "deleted"}
  BY DEF Shaped, Shape, Numbered
<1>a. SUFFICES ASSUME ~May("twice"), ~May("astray") PROVE Waits'
  BY ScenarioStays DEF Patient, May
<1>b. Waits /\ Increasing /\ OneActivity /\ EmptyFirst
  BY <1>a DEF Patient, Waits
<1>c. ~Busy => Free /\ asked = 0
  BY <1>0 DEF Busy, Free
<1>d. ASSUME UNCHANGED <<stories, task, asked>>,
             idea' = idea \/ idea' \notin {"none", "pending-approval"}
      PROVE  Waits'
  <2>1. Moved
    BY <1>0, <1>d DEF Moved
  <2> QED
    BY <1>0, <1>b, <1>d, <2>1, WaitsMoved
<1>1. CASE Submit
  <2>1. stories = <<>> /\ Free /\ asked = 0 /\ UNCHANGED <<stories, task, asked>>
    BY <1>1, <1>b DEF Submit, EmptyFirst
  <2>2. Free' /\ Increasing'
    BY <1>b, <2>1 DEF Free, Increasing
  <2> QED
    BY <2>1, <2>2, WaitsFree
<1>2. CASE Import
  <2>1. stories = <<>> /\ Free /\ asked' = 0
    BY <1>2, <1>b DEF Import, EmptyFirst
  <2> QED
    BY <1>0, <1>2, <1>b, <2>1, WaitsLaunch DEF Import
<1>3. CASE ApproveAsked
  <2>1. asked = 0 /\ asked' = 1 /\ stories = <<>> /\ Free /\ UNCHANGED <<stories, task, idea>>
    BY <1>3, <1>a, <1>0, <1>b DEF ApproveAsked, EmptyFirst
  <2>2. Free' /\ \A t \in Task : task'[t].kind = "none" /\ task'[t] = NoTask
    BY <2>1 DEF Free, NoTask
  <2>3. idea' = "pending-approval"
    BY <1>3 DEF ApproveAsked
  <2> QED
    BY <1>b, <2>1, <2>2, <2>3 DEF Waits, OneActivity, EmptyFirst, ResumeKnows, Increasing
<1>4. CASE Approve
  <2>1. asked = 1 /\ asked' = 0 /\ Free /\ stories = <<>> /\ UNCHANGED stories /\ Launch("plan")
    BY <1>4, <1>b, <1>0 DEF Approve, OneActivity, EmptyFirst
  <2>2. idea' \notin {"none", "pending-approval"}
    BY <1>4, <1>b, <2>1 DEF Approve, Exists, EmptyFirst
  <2> QED
    BY <1>0, <1>b, <2>1, <2>2, WaitsLaunch
<1>5. CASE Reject \/ PinBreaks \/ UNCHANGED vars
  BY <1>5, <1>d DEF Reject, PinBreaks, vars
<1>6. CASE PlanItem
  <2>1. Free /\ asked' = 0 /\ stories = <<>> /\ UNCHANGED stories /\ idea' = "approved"
        /\ Launch("plan")
    BY <1>6, <1>a, <1>c DEF PlanItem
  <2> QED
    BY <1>0, <1>b, <2>1, WaitsLaunch
<1>7. CASE ReplayItem
  <2>1. Free /\ asked' = 0 /\ stories = <<>> /\ UNCHANGED stories /\ idea' = "approved"
        /\ Launch("plan")
    BY <1>7, <1>a, <1>c DEF ReplayItem
  <2> QED
    BY <1>0, <1>b, <2>1, WaitsLaunch
<1>8. CASE ResumeItem
  <2>1. Free /\ asked' = 0 /\ UNCHANGED stories /\ idea' = "approved" /\ Launch("resume")
    BY <1>8, <1>a, <1>c DEF ResumeItem
  <2> QED
    BY <1>0, <1>b, <2>1, WaitsLaunch
<1>9. CASE ApprovePlan
  BY <1>0, <1>9, <1>b, ApproveMoves, WaitsMoved DEF ApprovePlan
<1>10. CASE CancelIdea
  BY <1>0, <1>10, <1>b, CancelMoves, WaitsMoved DEF CancelIdea
<1>11. CASE DeleteProject
  <2>1. stories' = <<>> /\ UNCHANGED <<task, asked>> /\ idea' = "deleted"
    BY <1>11 DEF DeleteProject
  <2>2. DOMAIN stories' = {}
    BY <2>1
  <2>3. OneActivity'
    BY <1>b, <2>1 DEF OneActivity, Free
  <2>4. EmptyFirst'
    BY <1>b, <2>1 DEF OneActivity, EmptyFirst, Free
  <2>5. ResumeKnows'
    BY <1>b, <2>1, <2>2 DEF Waits, ResumeKnows
  <2> QED
    BY <2>2, <2>3, <2>4, <2>5 DEF Waits, Increasing
<1>12. CASE Crash
  <2>1. Free' /\ asked' = 0 /\ UNCHANGED <<stories, idea>>
    BY <1>12 DEF Crash, Free
  <2> QED
    BY <1>b, <2>1, WaitsFree DEF Increasing, EmptyFirst
<1>13. CASE CrashInPersist
  <2>1. Free' /\ asked' = 0 /\ UNCHANGED idea
    BY <1>13 DEF CrashInPersist, Free
  <2>2. PICK t \in Task, n \in Normalized({}, {}), k \in Nat :
          task[t].at = "call" /\ task[t].kind = "import" /\ PartlyStored(n.stories, k)
    BY <1>0, <1>13, CrashAppends
  <2>3. stories = <<>> /\ idea \notin {"none", "pending-approval"}
    BY <1>0, <1>b, <2>2, OnlyTask DEF EmptyFirst
  <2>4. Len(stories) = 0 /\ DOMAIN stories = {}
    BY <2>3
  <2>5. \A i \in DOMAIN stories' : stories'[i].seq = i /\ i \in Int
    <3>1. DOMAIN stories' = 1..Len(stories') /\ Len(stories') \in Nat
      BY <2>2 DEF PartlyStored
    <3> QED
      BY <2>2, <2>4, <3>1 DEF PartlyStored
  <2>6. Increasing'
    BY <2>5 DEF Increasing
  <2> QED
    BY <2>1, <2>3, <2>6, WaitsFree
<1>14. ASSUME NEW t \in Task, TaskStep(t)
       PROVE  Waits'
  BY <1>14, <1>b, TaskStepWaits
<1>15. ASSUME NEW i \in DOMAIN stories, StoryDone(i) \/ AbandonItem(i)
       PROVE  Waits'
  <2>1. PICK st \in StoryMoves : Finish(i, st)
    BY <1>15 DEF StoryDone, AbandonItem, StoryMoves
  <2>2. Moved /\ UNCHANGED <<task, asked, idea>>
    BY <1>0, <2>1, FinishMoves DEF Finish
  <2> QED
    BY <1>0, <1>b, <2>2, WaitsMoved
<1> QED
  BY <1>1, <1>2, <1>3, <1>4, <1>5, <1>6, <1>7, <1>8, <1>9, <1>10, <1>11, <1>12, <1>13,
     <1>14, <1>15 DEF Next

THEOREM PatientAlways == Spec => []Patient
<1>1. Init => Patient
  <2> SUFFICES ASSUME Init PROVE Waits
    BY DEF Patient
  <2>1. /\ stories = <<>> /\ asked = 0 /\ idea = "none"
        /\ \A t \in Task : task[t] = NoTask /\ task[t].kind = "none"
    BY DEF Init, NoTask
  <2>2. DOMAIN stories = {}
    BY <2>1
  <2> QED
    BY <2>1, <2>2 DEF Waits, OneActivity, EmptyFirst, ResumeKnows, Increasing, Free
<1>2. Shaped /\ Patient /\ [Next]_vars => Patient'
  BY PatientStep
<1> QED
  BY <1>1, <1>2, ShapedAlways, PTL DEF Spec

-----------------------------------------------------------------------------
(* No story twice.                                                          *)

PartsDiffer ==
  \A i, j \in DOMAIN stories : i # j =>
    ~(stories[i].epic = stories[j].epic /\ stories[i].part = stories[j].part)

NoTwoAlike == ~May("twice") /\ ~May("astray") /\ ~May("outage") /\ ~blind => PartsDiffer

\* What once went by a list of its own stays so.
LEMMA BlindStays == [Next]_vars /\ blind => blind'
BY DEF Next, vars, Submit, Import, ApproveAsked, Approve, Reject, PlanItem,
   ReplayItem, PinBreaks, ResumeItem, ApprovePlan, CancelIdea, DeleteProject, Crash,
   CrashInPersist, TaskStep, Begin, Provision, PlannerReturns, ImportReturns, ResumeReturns,
   CallFails, StoryDone, AbandonItem, Finish

LEMMA MovedDiffer ==
  ASSUME PartsDiffer, Moved, stories \in Seq(AnyStory)
  PROVE  PartsDiffer'
<1>1. DOMAIN stories' = DOMAIN stories
  BY DEF Moved
<1> QED
  BY <1>1 DEF Moved, PartsDiffer

\* Parts of an epic that is not on the board are new there.
LEMMA NewPartsDiffer ==
  ASSUME stories \in Seq(AnyStory), stories' \in Seq(AnyStory), PartsDiffer,
         NEW plan \in Seq(AnyPart), Distinct(plan), NEW n \in Nat, n <= Len(plan),
         \A k \in DOMAIN plan, i \in DOMAIN stories : plan[k].epic # stories[i].epic,
         \A i \in DOMAIN stories : i \in DOMAIN stories' /\ stories'[i] = stories[i],
         \A i \in DOMAIN stories' : i \notin DOMAIN stories =>
           /\ i - Len(stories) \in 1..n
           /\ stories'[i].epic = plan[i - Len(stories)].epic
           /\ stories'[i].part = plan[i - Len(stories)].part
  PROVE  PartsDiffer'
<1>0. /\ Len(stories) \in Nat /\ 1..n \subseteq DOMAIN plan /\ DOMAIN stories' \subseteq Int
      /\ \A k, l \in DOMAIN plan : plan[k].epic = plan[l].epic /\ plan[k].part = plan[l].part => k = l
  <2>1. \A k \in DOMAIN plan : plan[k] \in AnyPart
    OBVIOUS
  <2>2. \A k, l \in DOMAIN plan : plan[k].epic = plan[l].epic /\ plan[k].part = plan[l].part
                                => plan[k] = plan[l]
    BY <2>1 DEF AnyPart
  <2> QED
    BY <2>2 DEF Distinct
<1>1. SUFFICES ASSUME NEW i \in DOMAIN stories', NEW j \in DOMAIN stories', i # j,
                      stories'[i].epic = stories'[j].epic, stories'[i].part = stories'[j].part
               PROVE  FALSE
  BY DEF PartsDiffer
<1>2. CASE i \in DOMAIN stories /\ j \in DOMAIN stories
  BY <1>1, <1>2 DEF PartsDiffer
<1>3. CASE i \notin DOMAIN stories /\ j \notin DOMAIN stories
  <2> DEFINE k == i - Len(stories)
             l == j - Len(stories)
  <2>1. k # l
    BY <1>0, <1>1
  <2>2. k \in DOMAIN plan /\ stories'[i].epic = plan[k].epic /\ stories'[i].part = plan[k].part
    BY <1>0, <1>3
  <2>3. l \in DOMAIN plan /\ stories'[j].epic = plan[l].epic /\ stories'[j].part = plan[l].part
    BY <1>0, <1>3
  <2> HIDE DEF k, l
  <2> QED
    BY <1>0, <1>1, <2>1, <2>2, <2>3
<1>4. CASE i \in DOMAIN stories /\ j \notin DOMAIN stories
  BY <1>0, <1>1, <1>4
<1>5. CASE i \notin DOMAIN stories /\ j \in DOMAIN stories
  BY <1>0, <1>1, <1>5
<1> QED
  BY <1>2, <1>3, <1>4, <1>5

LEMMA PersistDiffers ==
  ASSUME stories \in Seq(AnyStory), PartsDiffer, NEW plan \in Seq(AnyPart), Distinct(plan),
         NEW offset \in Nat, Persist(plan, offset),
         \A k \in DOMAIN plan, i \in DOMAIN stories : plan[k].epic # stories[i].epic
  PROVE  PartsDiffer'
<1>1. Appended(plan, offset, Len(plan)) /\ Len(plan) \in Nat
  BY PersistAppends
<1>2. Len(stories) \in Nat /\ DOMAIN stories' \subseteq Int
  <2>1. DOMAIN stories' = 1..Len(stories')
    BY <1>1 DEF Appended
  <2> QED
    BY <2>1
<1>3. \A i \in DOMAIN stories' : i \notin DOMAIN stories =>
           /\ i - Len(stories) \in 1..Len(plan)
           /\ stories'[i].epic = plan[i - Len(stories)].epic
           /\ stories'[i].part = plan[i - Len(stories)].part
  <2> TAKE i \in DOMAIN stories'
  <2> HAVE i \notin DOMAIN stories
  <2> DEFINE k == i - Len(stories)
  <2>1. k \in 1..Len(plan) /\ Len(stories) + k = i
    BY <1>1, <1>2 DEF Appended
  <2>2. stories'[Len(stories) + k] = NewStory(plan, offset, k)
    BY <1>1, <2>1 DEF Appended
  <2>3. stories'[i] = NewStory(plan, offset, k)
    BY <2>1, <2>2
  <2> HIDE DEF k
  <2>4. stories'[i].epic = plan[k].epic /\ stories'[i].part = plan[k].part
    BY <2>3 DEF NewStory
  <2> QED
    BY <2>1, <2>4 DEF k
<1>4. /\ stories' \in Seq(AnyStory) /\ Len(plan) <= Len(plan)
      /\ \A i \in DOMAIN stories : i \in DOMAIN stories' /\ stories'[i] = stories[i]
  BY <1>1 DEF Appended
<1> QED
  BY <1>1, <1>3, <1>4, NewPartsDiffer

LEMMA DifferStep ==
  ASSUME Shaped, Patient, NoTwoAlike, [Next]_vars
  PROVE  NoTwoAlike'
<1>0. /\ stories \in Seq(AnyStory) /\ task \in [Task -> TaskState] /\ {} \in SUBSET AnyEpic
      /\ asked \in 0..2
  BY DEF Shaped, Shape, Numbered
<1>a. SUFFICES ASSUME ~May("twice"), ~May("astray"), ~May("outage"), ~blind, ~blind'
               PROVE  PartsDiffer'
  BY ScenarioStays, BlindStays DEF NoTwoAlike, May
<1>b. Waits /\ PartsDiffer
  BY <1>a DEF Patient, NoTwoAlike
<1>c. ASSUME UNCHANGED stories PROVE PartsDiffer'
  BY <1>b, <1>c DEF PartsDiffer
<1>d. ASSUME stories = <<>>, NEW plan \in Seq(AnyPart), Distinct(plan), Persist(plan, 0)
      PROVE  PartsDiffer'
  <2>1. DOMAIN stories = {}
    BY <1>d
  <2> QED
    BY <1>0, <1>b, <1>d, <2>1, PersistDiffers
<1>1. ASSUME NEW t \in Task, TaskStep(t)
      PROVE  PartsDiffer'
  <2>0. /\ task[t].kind \in {"plan", "import"} => stories = <<>>
        /\ task[t].epics \in SUBSET AnyEpic /\ task[t].skip \in SUBSET AnyEpic
        /\ task[t].offset \in Nat
    BY <1>0, <1>b DEF Waits, EmptyFirst, TaskState
  <2>1. CASE Begin(t) \/ CallFails(t)
    BY <1>c, <2>1 DEF Begin, CallFails
  <2>2. CASE Provision(t)
    BY <1>c, <1>d, <2>0, <2>2, PinnedPlan DEF Provision
  <2>3. CASE PlannerReturns(t)
    BY <1>d, <2>0, <2>3, DecomposedPlans DEF PlannerReturns
  <2>4. CASE ImportReturns(t)
    BY <1>0, <1>d, <2>0, <2>4, NormalizedPlans DEF ImportReturns
  <2>5. CASE ResumeReturns(t)
    <3>1. PICK n \in Normalized(task[t].epics, task[t].skip) :
            \/ UNCHANGED stories
            \/ Persist(n.stories, task[t].offset)
      BY <2>5 DEF ResumeReturns
    <3>2. n.stories \in Seq(AnyPart) /\ Distinct(n.stories)
      BY <2>0, NormalizedPlans
    <3>a. task[t].skip # {} => task[t].epics # {}
      <4>1. blind' = (blind \/ (task[t].epics = {} /\ task[t].skip # {}))
        BY <2>5, Zenon DEF ResumeReturns
      <4> QED
        BY <1>a, <4>1, Zenon
    <3>3. task[t].skip # {} => \A k \in DOMAIN n.stories : n.stories[k].epic \notin task[t].skip
      <4> DEFINE E == task[t].epics
                 S == task[t].skip
      <4>1. E \in SUBSET AnyEpic /\ S \in SUBSET AnyEpic /\ n \in Normalized(E, S)
        BY <2>0
      <4>2. S # {} => E # {}
        BY <3>a
      <4> HIDE DEF E, S
      <4>3. S # {} => \A k \in DOMAIN n.stories : n.stories[k].epic \notin S
        BY <1>a, <4>1, <4>2, NormalizedPlans
      <4> QED
        BY <4>3 DEF S
    <3>4. \A i \in DOMAIN stories : stories[i].epic \in task[t].skip
      BY <1>b, <2>5 DEF ResumeReturns, Waits, ResumeKnows
    <3>5. \A k \in DOMAIN n.stories, i \in DOMAIN stories : n.stories[k].epic # stories[i].epic
      BY <3>3, <3>4
    <3> QED
      BY <1>0, <1>b, <1>c, <2>0, <3>1, <3>2, <3>5, PersistDiffers
  <2> QED
    BY <1>1, <2>1, <2>2, <2>3, <2>4, <2>5 DEF TaskStep
<1>2. ASSUME NEW i \in DOMAIN stories, StoryDone(i) \/ AbandonItem(i)
      PROVE  PartsDiffer'
  <2>1. PICK st \in StoryMoves : Finish(i, st)
    BY <1>2 DEF StoryDone, AbandonItem, StoryMoves
  <2> QED
    BY <1>0, <1>b, <2>1, FinishMoves, MovedDiffer
<1>3. CASE CancelIdea
  BY <1>0, <1>3, <1>b, CancelMoves, MovedDiffer
<1>4. CASE CrashInPersist
  <2>1. PICK t \in Task, n \in Normalized({}, {}), k \in Nat :
          task[t].at = "call" /\ task[t].kind = "import" /\ PartlyStored(n.stories, k)
    BY <1>0, <1>4, CrashAppends
  <2>2. stories = <<>>
    BY <1>b, <2>1 DEF Waits, EmptyFirst
  <2>3. DOMAIN stories = {}
    BY <2>2
  <2>4. n.stories \in Seq(AnyPart) /\ Distinct(n.stories)
    BY <1>0, NormalizedPlans
  <2> QED
    BY <1>0, <1>b, <2>1, <2>3, <2>4, NewPartsDiffer DEF PartlyStored
<1>5. CASE ApprovePlan
  BY <1>0, <1>5, <1>b, ApproveMoves, MovedDiffer
<1>6. CASE DeleteProject
  <2>1. stories' = <<>>
    BY <1>6 DEF DeleteProject
  <2>2. DOMAIN stories' = {}
    BY <2>1
  <2> QED
    BY <2>2 DEF PartsDiffer
<1>7. CASE Submit \/ Import \/ ApproveAsked \/ Approve \/ Reject \/ PlanItem \/ ReplayItem
           \/ PinBreaks \/ ResumeItem \/ Crash \/ UNCHANGED vars
  BY <1>7, <1>c DEF Submit, Import, ApproveAsked, Approve, Reject, PlanItem, ReplayItem,
     PinBreaks, ResumeItem, Crash, vars
<1> QED
  BY <1>1, <1>2, <1>3, <1>4, <1>5, <1>6, <1>7 DEF Next

\* However imports, resumes, failed epics, crashes and withdrawals follow each other, no
\* two stories have one number, and no part of the plan is on the board twice unless a
\* resume skipped by the names of a list it had not been given: a resume that is alone
\* knows every story, and adds behind them (_resume_import).
THEOREM NoStoryTwice == Spec => []PlanHasNoDuplicates
<1>1. Init => NoTwoAlike
  <2> SUFFICES ASSUME Init PROVE NoTwoAlike
    OBVIOUS
  <2>1. stories = <<>>
    BY DEF Init
  <2>2. DOMAIN stories = {}
    BY <2>1
  <2> QED
    BY <2>2 DEF NoTwoAlike, PartsDiffer
<1>2. Shaped /\ Patient /\ NoTwoAlike /\ [Next]_vars => NoTwoAlike'
  BY DifferStep
<1>3. Shaped /\ Patient /\ NoTwoAlike => PlanHasNoDuplicates
  <2> SUFFICES ASSUME Shaped, Patient, NoTwoAlike, ~May("twice"), ~May("astray"), ~May("outage"),
                      NEW i \in DOMAIN stories, NEW j \in DOMAIN stories, i # j
               PROVE  /\ stories[i].seq # stories[j].seq
                      /\ ~blind => Part(stories[i].epic, stories[i].part)
                                    # Part(stories[j].epic, stories[j].part)
    BY DEF PlanHasNoDuplicates, NothingWrittenTwice, May
  <2>1. Increasing /\ (~blind => PartsDiffer)
    BY DEF Patient, Waits, NoTwoAlike
  <2>2. i \in Int /\ j \in Int /\ stories[i].seq \in Nat /\ stories[j].seq \in Nat
    <3>1. stories \in Seq(AnyStory)
      BY DEF Shaped, Numbered
    <3>2. stories[i] \in AnyStory /\ stories[j] \in AnyStory /\ i \in Int /\ j \in Int
      BY <3>1
    <3> QED
      BY <3>2 DEF AnyStory
  <2>3. stories[i].seq # stories[j].seq
    BY <2>1, <2>2 DEF Increasing
  <2>4. ~blind => ~(stories[i].epic = stories[j].epic /\ stories[i].part = stories[j].part)
    BY <2>1 DEF PartsDiffer
  <2> QED
    BY <2>3, <2>4 DEF Part
<1> QED
  BY <1>1, <1>2, <1>3, ShapedAlways, PatientAlways, PTL DEF Spec

-----------------------------------------------------------------------------
(* The front of a started plan.                                             *)

Plain == scenario \cap {"early", "abandon", "torn", "twice", "astray"} = {}
Waiting(i) == stories[i].st = "backlog"

\* What has started lies in front of what waits, in the order of the plan; behind a
\* story that is done one is being coded, or none waits; and nothing is appended to
\* a plan that has started.
Front ==
  /\ \A i, j \in DOMAIN stories : i < j /\ ~Waiting(j) => stories[i].st = "done"
  /\ \A i \in DOMAIN stories : Waiting(i) \/ stories[i].st \in {"in-progress", "done"}
  /\ (\E i, j \in DOMAIN stories : stories[i].st = "done" /\ Waiting(j))
       => \E i \in DOMAIN stories : stories[i].st = "in-progress"

\* A resume under way finds that nothing has started.
ResumeWaits ==
  \A t \in Task : task[t].kind = "resume" => \A i \in DOMAIN stories : Waiting(i)

InFront ==
  Plain /\ idea # "abandoned" =>
    Front /\ ResumeWaits

\* The story behind the finished one is the next one up.
LEMMA NextIsBehind ==
  ASSUME stories \in Seq(AnyStory), Increasing, Front,
         NEW i \in DOMAIN stories, stories[i].st = "in-progress"
  PROVE  /\ \A j \in DOMAIN stories : j < i => stories[j].st = "done"
         /\ \A j \in DOMAIN stories : i < j => Waiting(j)
         /\ \A j \in DOMAIN stories : j \in NextUp(i) <=> j = i + 1
<1>0. /\ Len(stories) \in Nat /\ DOMAIN stories = 1..Len(stories)
      /\ \A j \in DOMAIN stories : stories[j].seq \in Nat
  <2>1. \A j \in DOMAIN stories : stories[j] \in AnyStory
    OBVIOUS
  <2>2. Len(stories) \in Nat /\ DOMAIN stories = 1..Len(stories)
    OBVIOUS
  <2> QED
    BY <2>1, <2>2 DEF AnyStory
<1>1. ~Waiting(i) /\ stories[i].st # "done"
  BY DEF Waiting
<1>2. \A j \in DOMAIN stories : j < i => stories[j].st = "done"
  BY <1>1 DEF Front
<1>3. \A j \in DOMAIN stories : i < j => Waiting(j)
  BY <1>1 DEF Front
<1> DEFINE later == {j \in DOMAIN stories : stories[j].st = "backlog"
                                            /\ stories[j].seq > stories[i].seq}
<1>4. \A j \in DOMAIN stories : j \in later <=> i < j
  <2> TAKE j \in DOMAIN stories
  <2>1. CASE i < j
    <3>1. stories[i].seq < stories[j].seq /\ stories[j].st = "backlog"
      BY <1>3, <2>1 DEF Increasing, Waiting
    <3> QED
      BY <1>0, <2>1, <3>1
  <2>2. CASE j < i
    <3>1. stories[j].st = "done"
      BY <1>2, <2>2
    <3> QED
      BY <1>0, <2>2, <3>1
  <2>3. CASE j = i
    BY <1>0, <2>3
  <2> QED
    BY <1>0, <2>1, <2>2, <2>3
<1>5. NextUp(i) = {j \in later : \A k \in later : \/ stories[j].seq < stories[k].seq
                                                \/ (stories[j].seq = stories[k].seq /\ j <= k)}
  BY DEF NextUp
<1>6. later \subseteq DOMAIN stories
  OBVIOUS
<1> HIDE DEF later
<1>7. ASSUME NEW j \in DOMAIN stories
      PROVE  j \in NextUp(i) <=> j = i + 1
  <2>1. CASE j = i + 1
    <3>1. j \in later
      BY <1>0, <1>4, <2>1
    <3>2. ASSUME NEW k \in later
          PROVE  stories[j].seq < stories[k].seq \/ (stories[j].seq = stories[k].seq /\ j <= k)
      <4>1. k \in DOMAIN stories /\ i < k
        BY <1>4, <1>6
      <4>2. j < k \/ j = k
        BY <1>0, <2>1, <4>1
      <4>3. j < k => stories[j].seq < stories[k].seq
        BY <4>1 DEF Increasing
      <4> QED
        BY <1>0, <4>1, <4>2, <4>3
    <3>3. j \in NextUp(i)
      <4>1. \A k \in later : \/ stories[j].seq < stories[k].seq
                             \/ (stories[j].seq = stories[k].seq /\ j <= k)
        BY <3>2
      <4> QED
        BY <1>5, <3>1, <4>1, Zenon
    <3> QED
      BY <2>1, <3>3
  <2>2. CASE j \in NextUp(i)
    <3>1. j \in later /\ i < j
      BY <1>4, <1>5, <2>2
    <3>2. i + 1 \in DOMAIN stories
      BY <1>0, <3>1
    <3>3. i + 1 \in later
      BY <1>0, <1>4, <3>2
    <3>4. stories[j].seq < stories[i + 1].seq \/ (stories[j].seq = stories[i + 1].seq /\ j <= i + 1)
      BY <1>5, <2>2, <3>3
    <3>5. i + 1 < j => stories[i + 1].seq < stories[j].seq
      BY <3>2 DEF Increasing
    <3>6. stories[i + 1].seq \in Nat /\ stories[j].seq \in Nat
      BY <1>0, <3>2
    <3>7. ~(i + 1 < j)
      BY <3>4, <3>5, <3>6, <1>0
    <3> QED
      BY <1>0, <2>2, <3>1, <3>7
  <2> QED
    BY <2>1, <2>2
<1> QED
  BY <1>2, <1>3, <1>7

LEMMA DoneKeepsFront ==
  ASSUME stories \in Seq(AnyStory), Increasing, Front,
         NEW i \in DOMAIN stories, StoryDone(i)
  PROVE  Front'
<1>0. /\ Len(stories) \in Nat /\ DOMAIN stories = 1..Len(stories)
      /\ stories[i].st = "in-progress" /\ Finish(i, "done") /\ "done" \in StoryMoves
  BY DEF StoryDone, StoryMoves
<1>1. /\ \A j \in DOMAIN stories : j < i => stories[j].st = "done"
      /\ \A j \in DOMAIN stories : i < j => stories[j].st = "backlog"
      /\ \A j \in DOMAIN stories : j \in NextUp(i) <=> j = i + 1
  BY <1>0, NextIsBehind DEF Waiting
<1>2. /\ Moved /\ stories'[i].st = "done"
      /\ \A j \in DOMAIN stories \ {i} :
           stories'[j].st = IF j \in NextUp(i) THEN "in-progress" ELSE stories[j].st
  BY <1>0, FinishMoves
<1>3. DOMAIN stories' = DOMAIN stories
  BY <1>2 DEF Moved
<1>4. /\ \A j \in DOMAIN stories : j <= i => stories'[j].st = "done"
      /\ \A j \in DOMAIN stories : j = i + 1 => stories'[j].st = "in-progress"
      /\ \A j \in DOMAIN stories : i + 1 < j => stories'[j].st = "backlog"
  <2>1. ASSUME NEW j \in DOMAIN stories, j <= i
        PROVE  stories'[j].st = "done"
    <3>1. j = i \/ (j < i /\ j \notin NextUp(i) /\ j \in DOMAIN stories \ {i})
      BY <1>0, <1>1, <2>1
    <3> QED
      BY <1>1, <1>2, <3>1
  <2>2. ASSUME NEW j \in DOMAIN stories, j = i + 1
        PROVE  stories'[j].st = "in-progress"
    <3>1. j \in NextUp(i) /\ j \in DOMAIN stories \ {i}
      BY <1>0, <1>1, <2>2
    <3> QED
      BY <1>2, <3>1
  <2>3. ASSUME NEW j \in DOMAIN stories, i + 1 < j
        PROVE  stories'[j].st = "backlog"
    <3>1. j \notin NextUp(i) /\ j \in DOMAIN stories \ {i} /\ i < j
      BY <1>0, <1>1, <2>3
    <3> QED
      BY <1>1, <1>2, <3>1
  <2> QED
    BY <2>1, <2>2, <2>3
<1>5. ASSUME NEW a \in DOMAIN stories, NEW b \in DOMAIN stories, a < b, stories'[b].st # "backlog"
      PROVE  stories'[a].st = "done"
  <2>1. ~(i + 1 < b)
    BY <1>4, <1>5
  <2>2. a <= i
    BY <1>0, <1>5, <2>1
  <2> QED
    BY <1>4, <2>2
<1>6. ASSUME NEW b \in DOMAIN stories
      PROVE  stories'[b].st \in {"backlog", "in-progress", "done"}
  <2>1. b <= i \/ b = i + 1 \/ i + 1 < b
    BY <1>0
  <2> QED
    BY <1>4, <2>1
<1>7. ASSUME NEW b \in DOMAIN stories, stories'[b].st = "backlog"
      PROVE  \E k \in DOMAIN stories : stories'[k].st = "in-progress"
  <2>1. ~(b <= i)
    BY <1>4, <1>7
  <2>2. i + 1 \in DOMAIN stories
    BY <1>0, <2>1
  <2> QED
    BY <1>4, <2>2
<1> QED
  BY <1>3, <1>5, <1>6, <1>7 DEF Front, Waiting

\* A board of which nothing has started, or only its first story.
LEMMA FrontAtStart ==
  ASSUME stories' \in Seq(AnyStory),
         \A i \in DOMAIN stories' : \/ stories'[i].st = "backlog"
                                  \/ (i = 1 /\ stories'[i].st = "in-progress")
  PROVE  Front'
<1>1. DOMAIN stories' \subseteq Nat /\ \A i \in DOMAIN stories' : ~(i < 1)
  OBVIOUS
<1>2. ASSUME NEW i \in DOMAIN stories', NEW j \in DOMAIN stories', i < j
      PROVE  stories'[j].st = "backlog"
  BY <1>1, <1>2
<1> QED
  BY <1>2 DEF Front, Waiting

LEMMA PersistFront ==
  ASSUME stories \in Seq(AnyStory), \A i \in DOMAIN stories : stories[i].seq >= 1 /\ Waiting(i),
         NEW plan \in Seq(AnyPart), NEW offset \in Nat, Persist(plan, offset),
         \A i \in DOMAIN stories : stories[i].seq <= offset
  PROVE  Front'
<1>1. Appended(plan, offset, Len(plan)) /\ Len(plan) \in Nat
  BY PersistAppends
<1>2. /\ Len(stories) \in Nat /\ stories' \in Seq(AnyStory)
      /\ DOMAIN stories = 1..Len(stories) /\ \A i \in DOMAIN stories : stories[i].seq \in Nat
  <2>1. \A i \in DOMAIN stories : stories[i] \in AnyStory
    OBVIOUS
  <2>2. Len(stories) \in Nat /\ DOMAIN stories = 1..Len(stories)
    OBVIOUS
  <2> QED
    BY <1>1, <2>1, <2>2 DEF Appended, AnyStory
<1>3. ASSUME ~Gated(offset)
      PROVE  Len(stories) = 0
  <2>1. offset = 0
    BY <1>3 DEF Gated
  <2>2. 1 \notin DOMAIN stories
    BY <1>2, <2>1
  <2> QED
    BY <1>2, <2>2
<1>4. ASSUME NEW i \in DOMAIN stories'
      PROVE  stories'[i].st = "backlog" \/ (i = 1 /\ stories'[i].st = "in-progress")
  <2>1. CASE i \in DOMAIN stories
    BY <1>1, <2>1 DEF Appended, Waiting
  <2>2. CASE i \notin DOMAIN stories
    <3> DEFINE k == i - Len(stories)
    <3>0. i \in Int
      BY <1>2
    <3>1. k \in 1..Len(plan)
      BY <1>1, <2>2 DEF Appended
    <3>2. stories'[Len(stories) + k] = NewStory(plan, offset, k) /\ Len(stories) + k = i
      BY <1>1, <1>2, <3>0, <3>1 DEF Appended
    <3>3. stories'[i].st = IF k = 1 /\ ~Gated(offset) THEN "in-progress" ELSE "backlog"
      BY <3>2 DEF NewStory
    <3>4. CASE k = 1 /\ ~Gated(offset)
      <4>1. i = 1
        BY <1>2, <1>3, <3>2, <3>4
      <4> QED
        BY <3>3, <3>4, <4>1
    <3>5. CASE ~(k = 1 /\ ~Gated(offset))
      BY <3>3, <3>5
    <3> QED
      BY <3>4, <3>5
  <2> QED
    BY <2>1, <2>2
<1> QED
  BY <1>2, <1>4, FrontAtStart

LEMMA TaskKeepsFront ==
  ASSUME Shaped, Waits, Front, ResumeWaits, NEW t \in Task, TaskStep(t)
  PROVE  Front' /\ ResumeWaits'
<1>0. /\ stories \in Seq(AnyStory) /\ task \in [Task -> TaskState] /\ asked \in 0..2
      /\ {} \in SUBSET AnyEpic /\ task[t] \in TaskState
      /\ \A i \in DOMAIN stories : stories[i].seq >= 1
  <2>1. Base \in Nat /\ Len(stories) \in Nat
    BY NumbersFromZero DEF Shaped
  <2>2. \A i \in DOMAIN stories : stories[i].seq >= 1
    BY <2>1 DEF Shaped, Numbered
  <2> QED
    BY <2>2 DEF Shaped, Shape, Numbered
<1>a. task[t].at # "none"
  BY DEF TaskStep, Begin, Provision, PlannerReturns, ImportReturns, ResumeReturns, CallFails
<1>b. /\ \A u \in Task \ {t} : task[u] = NoTask
      /\ Ends(t) => Free'
  BY <1>0, <1>a, OnlyTask
<1>c. Free' => ResumeWaits'
  BY DEF Free, ResumeWaits, NoTask
<1>d. /\ task[t].kind \in {"plan", "import"} => DOMAIN stories = {}
      /\ task[t].kind = "resume" => \A i \in DOMAIN stories : Waiting(i)
  <2>1. task[t].kind \in {"plan", "import"} => stories = <<>>
    BY DEF Waits, EmptyFirst
  <2> QED
    BY <2>1 DEF ResumeWaits
<1>e. ASSUME UNCHANGED stories
      PROVE  Front' /\ (Ends(t) => ResumeWaits')
  BY <1>b, <1>c, <1>e DEF Front, Waiting
<1>f. ASSUME Ends(t), NEW plan \in Seq(AnyPart), NEW offset \in Nat, Persist(plan, offset),
             \A i \in DOMAIN stories : Waiting(i) /\ stories[i].seq <= offset
      PROVE  Front' /\ ResumeWaits'
  <2>1. Front'
    BY <1>0, <1>f, PersistFront
  <2> QED
    BY <1>b, <1>c, <1>f, <2>1
<1>1. CASE Begin(t)
  <2>1. CASE Ends(t)
    BY <1>1, <1>e, <2>1 DEF Begin
  <2>2. CASE ~Ends(t)
    <3>1. UNCHANGED stories
      BY <1>1 DEF Begin
    <3>2. \A u \in Task : task'[u].kind = task[u].kind
      BY <1>0, <1>1, <2>2 DEF Begin, TaskState
    <3> QED
      BY <1>e, <3>1, <3>2 DEF ResumeWaits, Waiting
  <2> QED
    BY <2>1, <2>2
<1>2. CASE Provision(t)
  <2>1. CASE Ends(t) /\ UNCHANGED stories
    BY <1>e, <2>1
  <2>2. CASE task[t].kind = "plan" /\ Ends(t) /\ Persist(InOrder(Parts(Epic, "plan")), 0)
    BY <1>d, <1>f, <2>2, PinnedPlan
  <2>3. CASE task' = [task EXCEPT ![t].at = "call"] /\ UNCHANGED stories
    <3>1. \A u \in Task : task'[u].kind = task[u].kind
      BY <1>0, <2>3 DEF TaskState
    <3> QED
      BY <1>e, <2>3, <3>1 DEF ResumeWaits, Waiting
  <2> QED
    BY <1>2, <2>1, <2>2, <2>3 DEF Provision
<1>3. CASE PlannerReturns(t)
  BY <1>3, <1>d, <1>f, DecomposedPlans DEF PlannerReturns
<1>4. CASE ImportReturns(t)
  BY <1>0, <1>4, <1>d, <1>f, NormalizedPlans DEF ImportReturns
<1>5. CASE ResumeReturns(t)
  <2>1. PICK n \in Normalized(task[t].epics, task[t].skip) :
          UNCHANGED stories \/ Persist(n.stories, task[t].offset)
    BY <1>5 DEF ResumeReturns
  <2>2. n.stories \in Seq(AnyPart) /\ task[t].offset \in Nat
    BY <1>0, NormalizedPlans DEF TaskState
  <2>3. \A i \in DOMAIN stories : Waiting(i) /\ stories[i].seq <= task[t].offset
    BY <1>5, <1>d DEF ResumeReturns, Waits, ResumeKnows
  <2>4. Ends(t)
    BY <1>5 DEF ResumeReturns
  <2> QED
    BY <1>e, <1>f, <2>1, <2>2, <2>3, <2>4
<1>6. CASE CallFails(t)
  BY <1>6, <1>e DEF CallFails
<1> QED
  BY <1>1, <1>2, <1>3, <1>4, <1>5, <1>6 DEF TaskStep

LEMMA FrontStep ==
  ASSUME Shaped, Patient, InFront, [Next]_vars
  PROVE  InFront'
<1>0. /\ stories \in Seq(AnyStory) /\ task \in [Task -> TaskState] /\ asked \in 0..2
  BY DEF Shaped, Shape, Numbered
<1>a. SUFFICES ASSUME Plain, idea' # "abandoned" PROVE Front' /\ ResumeWaits'
  BY ScenarioStays DEF InFront, Plain
<1>b. /\ Waits /\ Increasing
      /\ ~May("early") /\ ~May("abandon") /\ ~May("torn") /\ ~May("twice")
      /\ idea # "abandoned" => Front /\ ResumeWaits
  BY <1>a DEF Patient, Waits, Plain, May, InFront
<1>c. ~Busy => Free /\ asked = 0
  BY <1>0 DEF Busy, Free
<1>d. ASSUME UNCHANGED stories, idea # "abandoned",
             \A t \in Task : task'[t].kind = "resume" => task[t].kind = "resume"
      PROVE  Front' /\ ResumeWaits'
  BY <1>b, <1>d DEF Front, ResumeWaits, Waiting
<1>e. ASSUME stories' = <<>>
      PROVE  Front' /\ ResumeWaits'
  <2>1. DOMAIN stories' = {}
    BY <1>e
  <2> QED
    BY <2>1 DEF Front, ResumeWaits
<1>f. ASSUME NEW kind \in {"plan", "import"}, Launch(kind)
      PROVE  \A t \in Task : task'[t].kind = "resume" => task[t].kind = "resume"
  BY <1>0, <1>f, LaunchStarts DEF Becomes, NewTask
<1>1. CASE Submit \/ ApproveAsked \/ Reject \/ PinBreaks \/ UNCHANGED vars
  BY <1>1, <1>a, <1>d DEF Submit, ApproveAsked, Reject, PinBreaks, vars
<1>2. CASE Import
  BY <1>2, <1>d, <1>f DEF Import
<1>3. CASE Approve
  <2>1. stories = <<>> /\ stories' = stories
    BY <1>0, <1>3, <1>b DEF Approve, Waits, OneActivity, EmptyFirst
  <2> QED
    BY <1>e, <2>1
<1>4. CASE PlanItem \/ ReplayItem
  <2>1. Launch("plan") /\ UNCHANGED stories /\ idea # "abandoned"
    BY <1>4, <1>a DEF PlanItem, ReplayItem
  <2> QED
    BY <1>d, <1>f, <2>1
<1>5. CASE ResumeItem
  <2>1. \A i \in DOMAIN stories : Waiting(i)
    BY <1>5 DEF ResumeItem, Started, Waiting
  <2>2. UNCHANGED stories /\ idea # "abandoned"
    BY <1>5, <1>a DEF ResumeItem
  <2> QED
    BY <1>b, <2>1, <2>2 DEF Front, ResumeWaits, Waiting
<1>6. CASE ApprovePlan
  <2>1. /\ Free /\ UNCHANGED task /\ \A i \in DOMAIN stories : stories[i].st = "backlog"
    BY <1>6, <1>b, <1>c DEF ApprovePlan, Started
  <2>2. PICK i \in DOMAIN stories :
          /\ \A j \in DOMAIN stories : \/ stories[i].seq < stories[j].seq
                                       \/ (stories[i].seq = stories[j].seq /\ i <= j)
          /\ stories'[i].st = "in-progress"
          /\ \A j \in DOMAIN stories \ {i} : stories'[j].st = stories[j].st
    BY <1>0, <1>6, ApproveMoves
  <2>3. Moved
    BY <1>0, <1>6, ApproveMoves
  <2>4. DOMAIN stories = 1..Len(stories) /\ Len(stories) \in Nat
    BY <1>0
  <2>5. i = 1
    <3>1. 1 \in DOMAIN stories /\ i \in Nat /\ i >= 1
      BY <2>2, <2>4
    <3>2. stories[i] \in AnyStory /\ stories[1] \in AnyStory
      BY <1>0, <3>1
    <3>3. stories[i].seq \in Nat /\ stories[1].seq \in Nat
      BY <3>2 DEF AnyStory
    <3>4. 1 < i => stories[1].seq < stories[i].seq
      BY <1>b, <3>1 DEF Increasing
    <3>5. stories[i].seq <= stories[1].seq
      BY <2>2, <3>1, <3>3
    <3> QED
      BY <3>1, <3>3, <3>4, <3>5
  <2>6. Front'
    <3>1. stories' \in Seq(AnyStory) /\ DOMAIN stories' = DOMAIN stories
      BY <2>3 DEF Moved
    <3>2. \A j \in DOMAIN stories' : \/ stories'[j].st = "backlog"
                                     \/ (j = 1 /\ stories'[j].st = "in-progress")
      BY <2>1, <2>2, <2>5, <3>1
    <3> QED
      BY <3>1, <3>2, FrontAtStart
  <2>7. ResumeWaits'
    BY <2>1 DEF ResumeWaits, Free, NoTask
  <2> QED
    BY <2>6, <2>7
<1>7. CASE CancelIdea
  BY <1>7, <1>a DEF CancelIdea
<1>8. CASE DeleteProject
  BY <1>8, <1>e DEF DeleteProject
<1>9. CASE Crash
  <2>1. \A t \in Task : task'[t].kind = "none"
    BY <1>9 DEF Crash, NoTask
  <2>2. UNCHANGED <<stories, idea>>
    BY <1>9 DEF Crash
  <2> QED
    BY <1>a, <1>d, <2>1, <2>2
<1>10. CASE CrashInPersist
  BY <1>10, <1>b DEF CrashInPersist
<1>11. ASSUME NEW t \in Task, TaskStep(t)
       PROVE  Front' /\ ResumeWaits'
  <2>1. UNCHANGED idea
    BY <1>11 DEF TaskStep, Begin, Provision, PlannerReturns, ImportReturns, ResumeReturns, CallFails
  <2> QED
    BY <1>11, <1>a, <1>b, <2>1, TaskKeepsFront
<1>12. ASSUME NEW i \in DOMAIN stories, StoryDone(i) \/ AbandonItem(i)
       PROVE  Front' /\ ResumeWaits'
  <2>1. StoryDone(i) /\ Front /\ ResumeWaits /\ UNCHANGED task
    BY <1>12, <1>a, <1>b DEF AbandonItem, StoryDone, Finish
  <2>2. Front'
    BY <1>0, <1>b, <2>1, DoneKeepsFront
  <2>3. \A t \in Task : task[t].kind # "resume"
    BY <2>1 DEF ResumeWaits, Waiting, StoryDone
  <2>4. ResumeWaits'
    BY <2>1, <2>3 DEF ResumeWaits
  <2> QED
    BY <2>2, <2>4
<1> QED
  BY <1>1, <1>2, <1>3, <1>4, <1>5, <1>6, <1>7, <1>8, <1>9, <1>10, <1>11, <1>12 DEF Next

\* A started plan goes on until none of its stories waits: behind a story that is
\* done the next one up is always the one that stands next, and a resume never adds
\* to a plan that has begun (unlock_next_story, resume_import).
THEOREM BacklogIsReached == Spec => []NoStrandedBacklog
<1>1. Init => InFront
  <2> SUFFICES ASSUME Init PROVE Front /\ ResumeWaits
    BY DEF InFront
  <2>1. stories = <<>>
    BY DEF Init
  <2>2. DOMAIN stories = {}
    BY <2>1
  <2> QED
    BY <2>2 DEF Front, ResumeWaits
<1>2. Shaped /\ Patient /\ InFront /\ [Next]_vars => InFront'
  BY FrontStep
<1>3. InFront => NoStrandedBacklog
  <2> SUFFICES ASSUME InFront, Plain, Started, idea # "abandoned",
                      \A i \in DOMAIN stories : stories[i].st # "in-progress",
                      NEW i \in DOMAIN stories
               PROVE  stories[i].st # "backlog"
    BY DEF NoStrandedBacklog, Plain
  <2>1. Front
    BY DEF InFront
  <2>2. PICK k \in DOMAIN stories : stories[k].st # "backlog"
    BY DEF Started
  <2>3. stories[k].st = "done"
    BY <2>1, <2>2 DEF Front, Waiting
  <2> QED
    BY <2>1, <2>3 DEF Front, Waiting
<1> QED
  BY <1>1, <1>2, <1>3, ShapedAlways, PatientAlways, PTL DEF Spec

-----------------------------------------------------------------------------
(* What a resume completes.                                                 *)

Undisturbed == scenario \cap {"outage", "critic", "torn"} = {}

Has(e) == \E i \in DOMAIN stories : stories[i].epic = e

\* The one import there is notes the epics of the plan, or the whole project.
OneImport ==
  /\ known \in {{}, Epic, {Whole}}
  /\ idea = "none" => known = {} /\ \A t \in Task : task[t].kind # "import"
  /\ \A t, u \in Task : task[t].kind = "import" =>
       known = {} /\ (task[u].kind = "import" => u = t)
  /\ \A t \in Task : task[t].epics \in {{}, known}

OwnParts == \A i \in DOMAIN stories : Own(stories[i])

\* What a resume leaves out is there ...
SkipsStand == idea # "deleted" => \A t \in Task : \A e \in task[t].skip \cap Epic : Has(e)

\* ... and after one that was answered in full, so is the rest.
Full == filled /\ idea # "deleted" /\ Whole \notin known => \A e \in Epic : Has(e)

Complete == Undisturbed => OneImport /\ OwnParts /\ SkipsStand /\ Full

\* No story goes and none changes its epic.
Kept == \A i \in DOMAIN stories : /\ i \in DOMAIN stories'
                                  /\ stories'[i].epic = stories[i].epic
                                  /\ stories'[i].part = stories[i].part

LEMMA KeptHas ==
  ASSUME Kept
  PROVE  \A e : Has(e) => Has(e)'
BY DEF Kept, Has

LEMMA KeptStands ==
  ASSUME SkipsStand, Full, Kept, UNCHANGED filled, idea = "deleted" => idea' = "deleted",
         Whole \in known => Whole \in known',
         \A t \in Task : task'[t].skip \in {{}, task[t].skip}
  PROVE  SkipsStand' /\ Full'
<1>1. \A e : Has(e) => Has(e)'
  BY KeptHas
<1>2. SkipsStand'
  BY <1>1 DEF SkipsStand
<1>3. Full'
  BY <1>1 DEF Full
<1> QED
  BY <1>2, <1>3

LEMMA MovedOwn ==
  ASSUME stories \in Seq(AnyStory), Moved, OwnParts
  PROVE  Kept /\ OwnParts'
<1>1. Kept /\ DOMAIN stories' = DOMAIN stories
  BY DEF Moved, Kept
<1> QED
  BY <1>1 DEF Kept, OwnParts, Own

LEMMA PersistOwn ==
  ASSUME stories \in Seq(AnyStory), OwnParts, NEW plan \in Seq(AnyPart), NEW offset \in Nat,
         Persist(plan, offset), \A k \in DOMAIN plan : Own(plan[k])
  PROVE  /\ Kept /\ OwnParts'
         /\ \A k \in DOMAIN plan : \E i \in DOMAIN stories' : stories'[i].epic = plan[k].epic
<1>1. Appended(plan, offset, Len(plan)) /\ DOMAIN plan = 1..Len(plan)
  BY PersistAppends
<1>2. Kept
  BY <1>1 DEF Appended, Kept
<1>3. ASSUME NEW k \in DOMAIN plan
      PROVE  /\ Len(stories) + k \in DOMAIN stories'
             /\ stories'[Len(stories) + k].epic = plan[k].epic
             /\ stories'[Len(stories) + k].part = plan[k].part
  <2>1. Len(stories) + k \in DOMAIN stories' /\ stories'[Len(stories) + k] = NewStory(plan, offset, k)
    BY <1>1, <1>3 DEF Appended
  <2> QED
    BY <2>1 DEF NewStory
<1>4. ASSUME NEW i \in DOMAIN stories'
      PROVE  Own(stories'[i])
  <2>1. CASE i \in DOMAIN stories
    BY <1>2, <2>1 DEF Kept, OwnParts, Own
  <2>2. CASE i \notin DOMAIN stories
    <3> DEFINE k == i - Len(stories)
    <3>0. i \in Int /\ Len(stories) \in Nat
      BY <1>1 DEF Appended
    <3>1. k \in DOMAIN plan /\ Len(stories) + k = i
      BY <1>1, <2>2, <3>0 DEF Appended
    <3> HIDE DEF k
    <3> QED
      BY <1>3, <3>1 DEF Own
  <2> QED
    BY <2>1, <2>2
<1> QED
  BY <1>2, <1>3, <1>4 DEF OwnParts

LEMMA SameImport ==
  ASSUME OneImport, UNCHANGED known, idea' = "none" => idea = "none",
         \A t \in Task : /\ task'[t].kind = "import" => task[t].kind = "import"
                         /\ task'[t].epics \in {{}, task[t].epics, known}
  PROVE  OneImport'
<1>1. known' \in {{}, Epic, {Whole}}
  BY DEF OneImport
<1>2. idea' = "none" => known' = {} /\ \A t \in Task : task'[t].kind # "import"
  BY DEF OneImport
<1>3. \A t, u \in Task : task'[t].kind = "import" =>
        known' = {} /\ (task'[u].kind = "import" => u = t)
  BY DEF OneImport
<1>4. \A t \in Task : task'[t].epics \in {{}, known'}
  BY DEF OneImport
<1> QED
  BY <1>1, <1>2, <1>3, <1>4 DEF OneImport

LEMMA ImportComplete ==
  ASSUME Shaped, OneImport, OwnParts, SkipsStand, Full, ~May("critic"),
         NEW t \in Task, ImportReturns(t)
  PROVE  OneImport' /\ OwnParts' /\ SkipsStand' /\ Full'
<1>0. /\ stories \in Seq(AnyStory) /\ task \in [Task -> TaskState] /\ {} \in SUBSET AnyEpic
      /\ task[t].kind = "import" /\ UNCHANGED <<idea, filled>>
  BY DEF Shaped, Shape, Numbered, ImportReturns
<1>1. PICK n \in Normalized({}, {}) : Persist(n.stories, 0) /\ known' \in {n.epics, known}
  BY DEF ImportReturns, OrNothing
<1>2. /\ n.stories \in Seq(AnyPart) /\ n.epics \in {Epic, {Whole}}
      /\ \A k \in DOMAIN n.stories : Own(n.stories[k])
  BY <1>0, NormalizedPlans DEF Asked
<1>3. Kept /\ OwnParts'
  BY <1>0, <1>1, <1>2, PersistOwn
<1>4. known = {} /\ idea # "none" /\ \A u \in Task : task[u].kind = "import" => u = t
  BY <1>0 DEF OneImport
<1>5. \A u \in Task : task'[u] = IF u = t THEN NoTask ELSE task[u]
  BY <1>0, TaskEnds DEF ImportReturns, Becomes
<1>6. \A u \in Task : task'[u].kind # "import" /\ task'[u].epics = {}
  <2> TAKE u \in Task
  <2>1. task[u].epics = {}
    BY <1>4 DEF OneImport
  <2>2. CASE u = t
    BY <1>5, <2>2 DEF NoTask
  <2>3. CASE u # t
    BY <1>4, <1>5, <2>1, <2>3
  <2> QED
    BY <2>2, <2>3
<1>7. OneImport'
  <2>1. known' \in {{}, Epic, {Whole}} /\ idea' # "none"
    BY <1>0, <1>1, <1>2, <1>4
  <2> QED
    BY <1>6, <2>1 DEF OneImport
<1>8. \A u \in Task : task'[u].skip \in {{}, task[u].skip}
  BY <1>5 DEF NoTask
<1> QED
  BY <1>0, <1>3, <1>4, <1>7, <1>8, KeptStands

LEMMA ResumeComplete ==
  ASSUME Shaped, OneImport, OwnParts, SkipsStand, Full, ~May("critic"),
         NEW t \in Task, ResumeReturns(t)
  PROVE  OwnParts' /\ SkipsStand' /\ Full'
<1>0. /\ stories \in Seq(AnyStory) /\ task \in [Task -> TaskState] /\ filled \in BOOLEAN
      /\ UNCHANGED <<idea, known>>
      /\ task[t].epics \in SUBSET AnyEpic /\ task[t].skip \in SUBSET AnyEpic
      /\ task[t].offset \in Nat
  BY DEF Shaped, Shape, Numbered, ResumeReturns, TaskState
<1>1. PICK n \in Normalized(task[t].epics, task[t].skip) :
        /\ filled' = (filled \/ n.clean)
        /\ IF n.stories = <<>> THEN UNCHANGED <<stories, released>>
           ELSE Persist(n.stories, task[t].offset)
  BY DEF ResumeReturns
<1>2. /\ n.stories \in Seq(AnyPart)
      /\ \A k \in DOMAIN n.stories : Own(n.stories[k])
  BY <1>0, NormalizedPlans
<1>a. ASSUME n.clean, NEW e \in Asked(task[t].epics) \ task[t].skip
      PROVE  \E k \in DOMAIN n.stories : n.stories[k] = Part(e, "plan")
  BY <1>0, <1>a, NormalizedPlans
<1>3. Whole \notin known => Asked(task[t].epics) = Epic
  BY DEF OneImport, Asked
<1>4. /\ Kept /\ OwnParts'
      /\ \A k \in DOMAIN n.stories : \E i \in DOMAIN stories' : stories'[i].epic = n.stories[k].epic
  <2>1. CASE n.stories = <<>>
    <3>1. UNCHANGED stories /\ DOMAIN n.stories = {}
      BY <1>1, <2>1
    <3> QED
      BY <3>1 DEF Kept, OwnParts
  <2>2. CASE n.stories # <<>>
    BY <1>0, <1>1, <1>2, <2>2, PersistOwn
  <2> QED
    BY <2>1, <2>2
<1>5. \A e : Has(e) => Has(e)'
  BY <1>4, KeptHas
<1>6. SkipsStand'
  <2>1. \A u \in Task : task'[u].skip \in {{}, task[u].skip}
    BY <1>0, TaskEnds DEF ResumeReturns, Becomes, NoTask
  <2> QED
    BY <1>0, <1>5, <2>1 DEF SkipsStand
<1>7. ASSUME filled', idea' # "deleted", Whole \notin known', NEW e \in Epic
      PROVE  Has(e)'
  <2>1. CASE filled
    BY <1>0, <1>5, <1>7, <2>1 DEF Full
  <2>2. CASE ~filled
    <3>1. n.clean
      BY <1>1, <1>7, <2>2
    <3>2. CASE e \in task[t].skip
      BY <1>0, <1>5, <1>7, <3>2 DEF SkipsStand
    <3>3. CASE e \notin task[t].skip
      <4>1. e \in Asked(task[t].epics) \ task[t].skip
        BY <1>0, <1>3, <1>7, <3>3
      <4>2. PICK k \in DOMAIN n.stories : n.stories[k] = Part(e, "plan")
        BY <1>a, <3>1, <4>1
      <4>3. n.stories[k].epic = e
        BY <4>2 DEF Part
      <4> QED
        BY <1>4, <4>3 DEF Has
    <3> QED
      BY <3>2, <3>3
  <2> QED
    BY <2>1, <2>2
<1>8. Full'
  BY <1>7 DEF Full
<1> QED
  BY <1>4, <1>6, <1>8

LEMMA TaskComplete ==
  ASSUME Shaped, OneImport, OwnParts, SkipsStand, Full, ~May("critic"),
         NEW t \in Task, TaskStep(t)
  PROVE  OneImport' /\ OwnParts' /\ SkipsStand' /\ Full'
<1>0. /\ stories \in Seq(AnyStory) /\ task \in [Task -> TaskState] /\ UNCHANGED idea
      /\ task[t] \in TaskState
  BY DEF Shaped, Shape, Numbered, TaskStep, Begin, Provision, PlannerReturns, ImportReturns,
     ResumeReturns, CallFails
<1>a. Ends(t) => \A u \in Task : /\ task'[u].kind = "import" => task[u].kind = "import"
                               /\ task'[u].skip \in {{}, task[u].skip}
                               /\ task'[u].epics \in {{}, task[u].epics, known}
  BY <1>0, TaskEnds DEF Becomes, NoTask
<1>b. ASSUME UNCHANGED <<known, filled>>, Kept, OwnParts',
             \A u \in Task : /\ task'[u].kind = "import" => task[u].kind = "import"
                             /\ task'[u].skip \in {{}, task[u].skip}
                             /\ task'[u].epics \in {{}, task[u].epics, known}
      PROVE  OneImport' /\ OwnParts' /\ SkipsStand' /\ Full'
  <2>1. OneImport'
    BY <1>0, <1>b, SameImport
  <2>2. SkipsStand' /\ Full'
    BY <1>0, <1>b, KeptStands
  <2> QED
    BY <1>b, <2>1, <2>2
<1>c. UNCHANGED stories => Kept /\ OwnParts'
  BY DEF Kept, OwnParts
<1>1. CASE Begin(t)
  <2>1. UNCHANGED <<known, filled, stories>>
    BY <1>1 DEF Begin
  <2>2. CASE Ends(t)
    BY <1>a, <1>b, <1>c, <2>1, <2>2
  <2>3. CASE task[t].kind # "resume" /\ task' = [task EXCEPT ![t].at = "provision"]
    <3>1. \A u \in Task : /\ task'[u].kind = task[u].kind /\ task'[u].skip = task[u].skip
                          /\ task'[u].epics = task[u].epics
      BY <1>0, <2>3 DEF TaskState
    <3> QED
      BY <1>b, <1>c, <2>1, <3>1
  <2>4. ASSUME NEW E \in OrNothing(known, {}),
               task' = [task EXCEPT ![t] = [@ EXCEPT !.at = "call", !.skip = Covered,
                                                     !.offset = Offset, !.epics = E]]
        PROVE  OneImport' /\ OwnParts' /\ SkipsStand' /\ Full'
    <3>1. \A u \in Task : /\ task'[u].kind = task[u].kind
                          /\ task'[u].skip = IF u = t THEN Covered ELSE task[u].skip
                          /\ task'[u].epics = IF u = t THEN E ELSE task[u].epics
      BY <1>0, <2>4 DEF TaskState
    <3>2. \A u \in Task : /\ task'[u].kind = "import" => task[u].kind = "import"
                          /\ task'[u].epics \in {{}, task[u].epics, known}
      BY <2>4, <3>1 DEF OrNothing
    <3>3. OneImport'
      BY <1>0, <2>1, <3>2, SameImport
    <3>4. \A e \in Covered : Has(e)
      BY DEF Covered, Has
    <3>5. \A e : Has(e) => Has(e)'
      BY <1>c, <2>1, KeptHas
    <3>6. SkipsStand'
      BY <1>0, <3>1, <3>4, <3>5 DEF SkipsStand
    <3>7. Full'
      BY <1>0, <2>1, <3>5 DEF Full
    <3> QED
      BY <1>c, <2>1, <3>3, <3>6, <3>7
  <2> QED
    BY <1>1, <2>2, <2>3, <2>4 DEF Begin
<1>2. CASE Provision(t)
  <2>0. UNCHANGED <<known, filled>>
    BY <1>2 DEF Provision
  <2>1. CASE Ends(t) /\ UNCHANGED stories
    BY <1>a, <1>b, <1>c, <2>0, <2>1
  <2>2. CASE Ends(t) /\ Persist(InOrder(Parts(Epic, "plan")), 0)
    <3>1. Kept /\ OwnParts'
      BY <1>0, <2>2, PinnedPlan, PersistOwn DEF Own
    <3> QED
      BY <1>a, <1>b, <2>0, <2>2, <3>1
  <2>3. CASE task' = [task EXCEPT ![t].at = "call"] /\ UNCHANGED stories
    <3>1. \A u \in Task : /\ task'[u].kind = task[u].kind /\ task'[u].skip = task[u].skip
                          /\ task'[u].epics = task[u].epics
      BY <1>0, <2>3 DEF TaskState
    <3> QED
      BY <1>b, <1>c, <2>0, <2>3, <3>1
  <2> QED
    BY <1>2, <2>1, <2>2, <2>3 DEF Provision
<1>3. CASE PlannerReturns(t)
  <2>1. PICK plan \in Decomposed : Persist(plan, 0)
    BY <1>3 DEF PlannerReturns
  <2>2. Kept /\ OwnParts'
    BY <1>0, <2>1, DecomposedPlans, PersistOwn
  <2> QED
    BY <1>3, <1>a, <1>b, <2>2 DEF PlannerReturns
<1>4. CASE ImportReturns(t)
  BY <1>4, ImportComplete
<1>5. CASE ResumeReturns(t)
  <2>1. OneImport'
    BY <1>5, <1>0, <1>a, SameImport DEF ResumeReturns
  <2> QED
    BY <1>5, <2>1, ResumeComplete
<1>6. CASE CallFails(t)
  BY <1>6, <1>a, <1>b, <1>c DEF CallFails
<1> QED
  BY <1>1, <1>2, <1>3, <1>4, <1>5, <1>6 DEF TaskStep

LEMMA DeletedStays == [Next]_vars => (idea = "deleted" => idea' = "deleted")
BY DEF Next, vars, Submit, Import, ApproveAsked, Approve, Reject, PlanItem, ReplayItem,
   PinBreaks, ResumeItem, ApprovePlan, CancelIdea, DeleteProject, Crash, CrashInPersist,
   TaskStep, Begin, Provision, PlannerReturns, ImportReturns, ResumeReturns, CallFails,
   StoryDone, AbandonItem, Finish, Exists

LEMMA CompleteStep ==
  ASSUME Shaped, Complete, [Next]_vars
  PROVE  Complete'
<1>0. /\ stories \in Seq(AnyStory) /\ task \in [Task -> TaskState]
  BY DEF Shaped, Shape, Numbered
<1>a. SUFFICES ASSUME Undisturbed PROVE OneImport' /\ OwnParts' /\ SkipsStand' /\ Full'
  BY ScenarioStays DEF Complete, Undisturbed
<1>b. OneImport /\ OwnParts /\ SkipsStand /\ Full /\ ~May("critic") /\ ~May("torn")
  BY <1>a DEF Complete, Undisturbed, May
<1>c. idea = "deleted" => idea' = "deleted"
  BY DeletedStays
<1>d. ASSUME UNCHANGED <<known, filled>>, Kept, OwnParts', idea' = "none" => idea = "none",
             \A u \in Task : task'[u].skip \in {{}, task[u].skip} /\ task'[u].epics \in {{}, task[u].epics},
             \A u \in Task : task'[u].kind = "import" => task[u].kind = "import"
      PROVE  OneImport' /\ OwnParts' /\ SkipsStand' /\ Full'
  <2>1. OneImport'
    BY <1>b, <1>d, SameImport
  <2>2. SkipsStand' /\ Full'
    BY <1>b, <1>c, <1>d, KeptStands
  <2> QED
    BY <1>d, <2>1, <2>2
<1>e. UNCHANGED stories => Kept /\ OwnParts'
  BY <1>b DEF Kept, OwnParts
<1>f. ASSUME NEW kind \in {"plan", "import", "resume"}, Launch(kind)
      PROVE  /\ \A u \in Task : task'[u].skip \in {{}, task[u].skip} /\ task'[u].epics \in {{}, task[u].epics}
             /\ \E t \in Task : /\ task'[t].kind = kind
                                /\ \A u \in Task \ {t} : task'[u].kind = task[u].kind
  BY <1>0, <1>f, LaunchStarts DEF Becomes, NewTask
<1>g. ASSUME NEW kind \in {"plan", "resume"}, Launch(kind), UNCHANGED <<stories, known, filled>>,
             idea' = "none" => idea = "none"
      PROVE  OneImport' /\ OwnParts' /\ SkipsStand' /\ Full'
  <2>1. \A u \in Task : task'[u].kind = "import" => task[u].kind = "import"
    BY <1>f, <1>g
  <2> QED
    BY <1>d, <1>e, <1>f, <1>g, <2>1
<1>1. CASE Submit \/ ApproveAsked \/ Reject \/ PinBreaks \/ UNCHANGED vars
  BY <1>1, <1>d, <1>e DEF Submit, ApproveAsked, Reject, PinBreaks, vars
<1>2. CASE Import
  <2>1. /\ known = {} /\ known' = {} /\ idea' = "approved" /\ Launch("import")
        /\ \A u \in Task : task[u].kind # "import"
    BY <1>2, <1>b DEF Import, OneImport
  <2>2. PICK t \in Task : \A u \in Task \ {t} : task'[u].kind # "import"
    BY <1>f, <2>1
  <2>3. \A u \in Task : task'[u].epics = {}
    BY <1>b, <1>f, <2>1 DEF OneImport
  <2>4. OneImport'
    BY <2>1, <2>2, <2>3 DEF OneImport
  <2>5. UNCHANGED <<stories, filled, known>>
    BY <1>2 DEF Import
  <2> QED
    BY <1>b, <1>c, <1>e, <1>f, <2>1, <2>4, <2>5, KeptStands
<1>3. CASE Approve \/ PlanItem \/ ReplayItem
  <2>1. /\ Launch("plan") /\ UNCHANGED <<stories, known, filled>>
        /\ idea' = "none" => idea = "none"
    BY <1>3 DEF Approve, PlanItem, ReplayItem
  <2> QED
    BY <1>g, <2>1
<1>4. CASE ResumeItem
  BY <1>4, <1>g DEF ResumeItem
<1>5. CASE ApprovePlan \/ CancelIdea
  <2>1. Kept /\ OwnParts'
    BY <1>0, <1>5, <1>b, ApproveMoves, CancelMoves, MovedOwn
  <2>2. UNCHANGED <<known, filled, task>> /\ (idea' = "none" => idea = "none")
    BY <1>5 DEF ApprovePlan, CancelIdea
  <2> QED
    BY <1>d, <2>1, <2>2
<1>6. CASE DeleteProject
  <2>1. /\ stories' = <<>> /\ idea' = "deleted" /\ UNCHANGED <<task, known, filled>>
    BY <1>6 DEF DeleteProject
  <2>2. DOMAIN stories' = {}
    BY <2>1
  <2>3. OneImport'
    BY <1>b, <2>1, SameImport
  <2> QED
    BY <2>1, <2>2, <2>3 DEF OwnParts, SkipsStand, Full
<1>7. CASE Crash
  <2>1. \A u \in Task : task'[u].kind = "none" /\ task'[u].skip = {} /\ task'[u].epics = {}
    BY <1>7 DEF Crash, NoTask
  <2>2. UNCHANGED <<stories, idea, known, filled>>
    BY <1>7 DEF Crash
  <2> QED
    BY <1>d, <1>e, <2>1, <2>2
<1>8. CASE CrashInPersist
  BY <1>8, <1>b DEF CrashInPersist
<1>9. ASSUME NEW t \in Task, TaskStep(t)
      PROVE  OneImport' /\ OwnParts' /\ SkipsStand' /\ Full'
  BY <1>9, <1>b, TaskComplete
<1>10. ASSUME NEW i \in DOMAIN stories, StoryDone(i) \/ AbandonItem(i)
       PROVE  OneImport' /\ OwnParts' /\ SkipsStand' /\ Full'
  <2>1. PICK st \in StoryMoves : Finish(i, st)
    BY <1>10 DEF StoryDone, AbandonItem, StoryMoves
  <2>2. Moved /\ UNCHANGED <<task, known, filled, idea>>
    BY <1>0, <2>1, FinishMoves DEF Finish
  <2> QED
    BY <1>0, <1>b, <1>d, <2>2, MovedOwn
<1> QED
  BY <1>1, <1>2, <1>3, <1>4, <1>5, <1>6, <1>7, <1>8, <1>9, <1>10 DEF Next

\* A resume that is answered in full completes the plan, however often the buttons
\* are pressed and the process dies: what it leaves out is on the board, and what it
\* asks for is the rest of the epics the import saw (resume_import).
THEOREM ResumeCompletes == Spec => []ResumeCompletesPlanElse
<1>1. Init => Complete
  <2> SUFFICES ASSUME Init PROVE OneImport /\ OwnParts /\ SkipsStand /\ Full
    BY DEF Complete
  <2>1. /\ stories = <<>> /\ known = {} /\ filled = FALSE
        /\ \A t \in Task : /\ task[t].kind = "none" /\ task[t].skip = {} /\ task[t].epics = {}
    BY DEF Init, NoTask
  <2>2. DOMAIN stories = {}
    BY <2>1
  <2> QED
    BY <2>1, <2>2 DEF OneImport, OwnParts, SkipsStand, Full
<1>2. Shaped /\ Complete /\ [Next]_vars => Complete'
  BY CompleteStep
<1>3. Complete => ResumeCompletesPlanElse
  <2> SUFFICES ASSUME Complete, Undisturbed, Whole \notin known, filled, idea # "deleted",
                      NEW e \in Epic
               PROVE  \E i \in DOMAIN stories :
                        Part(e, "plan") = Part(stories[i].epic, stories[i].part)
    BY DEF ResumeCompletesPlanElse, ResumeCompletesPlan, Undisturbed
  <2>1. PICK i \in DOMAIN stories : stories[i].epic = e
    BY DEF Complete, Full, Has
  <2>2. Own(stories[i]) /\ e # Whole
    BY DEF Complete, OwnParts, Epic, Whole
  <2> QED
    BY <2>1, <2>2 DEF Own, Part
<1> QED
  BY <1>1, <1>2, <1>3, ShapedAlways, PTL DEF Spec

=============================================================================
