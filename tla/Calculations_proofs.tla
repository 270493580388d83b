------------------------ MODULE Calculations_proofs ------------------------
(***************************************************************************)
(* What the program calculates, for any numbers.                           *)
(*                                                                         *)
(* The daily plan (StudyPlan): the back-casting keeps its deadline, as     *)
(* whoever follows the plan and is never given less than needed has begun  *)
(* every unit in time, and is never asked for more than the day before.    *)
(* The list can be shown while nothing learned left the range.  The        *)
(* diagnosis of the form is true of every form it can judge, and agrees    *)
(* with the plan of the first day.                                         *)
(*                                                                         *)
(* The problems (MathTrainer): Euclid's algorithm and the arithmetic of    *)
(* fractions; and of every linear equation, system of equations and clock  *)
(* problem that is generated, the stored answer is right and the choices   *)
(* beside it are wrong.                                                    *)
(***************************************************************************)
EXTENDS StudyPlan, MathTrainer, FiniteSetTheorems, TLAPS

-----------------------------------------------------------------------------
(* The daily plan *)

\* The days left for first learning, and the units the plan finds missing: negative
\* when more were learned, some of them out of the range.
DaysLeft == {e \in day .. FirstDeadline(material) : ~IsBufferDay(e)}
Missing  == TotalUnits(material) - Cardinality(DOMAIN progress)

\* Types, as far as the argument needs them: a unit with a row was learned.
Sane ==
    /\ day \in Nat
    /\ material \in PlanForm
    /\ IsFiniteSet(DOMAIN progress)
    /\ \A n \in DOMAIN progress : progress[n].repetition_count \in Nat \ {0}
    /\ newToday \in Nat
    /\ asked \in Nat \cup {NotAsked}
    /\ onTrack \in BOOLEAN

\* While a day is left, what is still missing and what was begun today is
\* within the share of a day times the days; the share was rounded up.
Track ==
    onTrack =>
        /\ DaysLeft = {} => Missing <= 0
        /\ asked # NotAsked /\ ~IsBufferDay(day) /\ DaysLeft # {} =>
              Missing + newToday <= asked * Cardinality(DaysLeft)

Inv == Sane /\ Track

-----------------------------------------------------------------------------
(* Least numbers, and the recursive functions of the form *)

Below == {p \in Nat \X Nat : p[1] < p[2]}

\* A set of numbers that is not empty has a least one.
LEMMA Least ==
    ASSUME NEW S \in SUBSET Nat, S # {}
    PROVE  \E m \in S : \A k \in S : m <= k
<1>1. IsWellFoundedOn(Below, Nat)
  BY NatLessThanWellFounded DEF OpToRel, Below
<1>2. PICK m \in S : \A k \in S : ~ (<<k, m>> \in Below)
  BY <1>1, WFMin
<1>3. ASSUME NEW k \in S PROVE m <= k
  <2>1. k \in Nat /\ m \in Nat /\ ~ (<<k, m>> \in Below)
    BY <1>2
  <2>2. ~ (k < m)
    BY <2>1 DEF Below
  <2> QED
    BY <2>1, <2>2
<1> QED
  BY <1>3

\* f counts from a up to N by the step F, which is told the index as well.
Counts(f, N, a, F) ==
    /\ f \in [0 .. N -> Nat]
    /\ f[0] = a
    /\ \A k \in 1 .. N : f[k] = F[f[k - 1], k]

\* There is such a function for every step.
LEMMA CountsExists ==
    ASSUME NEW N \in Nat, NEW a \in Nat, NEW F \in [Nat \X Nat -> Nat]
    PROVE  \E f : Counts(f, N, a, F)
<1> DEFINE T == {n \in Nat : ~ \E f : Counts(f, n, a, F)}
<1> SUFFICES ASSUME T # {} PROVE FALSE
  OBVIOUS
<1>0. T \in SUBSET Nat
  OBVIOUS
<1>1. PICK n \in T : \A k \in T : n <= k
  <2> HIDE DEF T
  <2> QED
    BY <1>0, Least
<1>2. n # 0
  <2> DEFINE z == [k \in 0 .. 0 |-> a]
  <2>1. z \in [0 .. 0 -> Nat] /\ z[0] = a /\ 1 .. 0 = {}
    OBVIOUS
  <2> HIDE DEF z
  <2>2. Counts(z, 0, a, F)
    BY <2>1 DEF Counts
  <2> QED
    BY <2>2
<1>3. n \in Nat \ {0} /\ n - 1 \in Nat /\ n - 1 \notin T
  BY <1>1, <1>2
<1>4. PICK f : Counts(f, n - 1, a, F)
  BY <1>3
<1> DEFINE g == [k \in 0 .. n |-> IF k = n THEN F[f[n - 1], n] ELSE f[k]]
<1>5. Counts(g, n, a, F)
  <2>1. /\ f \in [0 .. n - 1 -> Nat] /\ f[0] = a
        /\ \A k \in 1 .. n - 1 : f[k] = F[f[k - 1], k]
    BY <1>4 DEF Counts
  <2>2. \A k \in 0 .. n - 1 : g[k] = f[k]
    <3>1. \A k \in 0 .. n - 1 : k # n /\ k \in 0 .. n
      BY <1>3, SMT
    <3> QED
      BY <3>1, Zenon
  <2>3. g[n] = F[f[n - 1], n] /\ n - 1 \in 0 .. n - 1 /\ 0 \in 0 .. n - 1
    <3>1. n \in 0 .. n /\ n - 1 \in 0 .. n - 1 /\ 0 \in 0 .. n - 1
      BY <1>3, SMT
    <3> QED
      BY <3>1, Zenon
  <2>4. f[n - 1] \in Nat /\ F[f[n - 1], n] \in Nat
    BY <2>1, <2>3
  <2>5. g \in [0 .. n -> Nat]
    <3>1. \A k \in 0 .. n : k = n \/ k \in 0 .. n - 1
      BY <1>3
    <3> QED
      BY <2>1, <2>4, <3>1
  <2> HIDE DEF g
  <2>6. g[0] = a
    BY <2>1, <2>2, <2>3
  <2>7. ASSUME NEW k \in 1 .. n PROVE g[k] = F[g[k - 1], k]
    <3>1. CASE k = n
      BY <3>1, <2>2, <2>3
    <3>2. CASE k # n
      <4>1. k \in 1 .. n - 1 /\ k \in 0 .. n - 1 /\ k - 1 \in 0 .. n - 1
        BY <3>2, <1>3
      <4> QED
        BY <4>1, <2>1, <2>2
    <3> QED
      BY <3>1, <3>2
  <2> QED
    BY <2>5, <2>6, <2>7 DEF Counts
<1> QED
  BY <1>5

\* The days before the k-th review are a positive number of days.
GapStep == [p \in Nat \X Nat |->
               CASE p[2] = 1 -> 1
                 [] p[2] = 2 -> 6
                 [] OTHER -> Greater(1, Round(p[1] * 250))]

LEMMA RoundIsNat == ASSUME NEW x \in Nat PROVE Round(x) \in Nat
<1>1. x \div 100 \in Nat
  BY SMT
<1> QED
  BY <1>1, SMT DEF Round

LEMMA GapIsNat == \A k \in 1 .. MaxReviews : Gap[k] \in Nat
<1>1. MaxReviews \in Nat
  BY MaxReviewsAssumption
<1>2. GapStep \in [Nat \X Nat -> Nat]
  <2>1. ASSUME NEW p \in Nat \X Nat PROVE GapStep[p] \in Nat
    <3>1. p[1] * 250 \in Nat
      OBVIOUS
    <3>2. Round(p[1] * 250) \in Nat
      BY <3>1, RoundIsNat
    <3>3. Greater(1, Round(p[1] * 250)) \in Nat
      BY <3>2, SMT DEF Greater
    <3> QED
      BY <3>3 DEF GapStep
  <2>2. GapStep = [p \in Nat \X Nat |-> GapStep[p]]
    BY DEF GapStep
  <2> HIDE DEF GapStep
  <2> QED
    BY <2>1, <2>2
<1>3. PICK f : Counts(f, MaxReviews, 0, GapStep)
  <2>1. 0 \in Nat
    OBVIOUS
  <2> QED
    BY <1>1, <1>2, <2>1, CountsExists
<1> DEFINE Body(h, k) == CASE k = 1 -> 1
                           [] k = 2 -> 6
                           [] OTHER -> Greater(1, Round(h[k - 1] * 250))
           g == [k \in 1 .. MaxReviews |-> f[k]]
<1>4. \A k \in 1 .. MaxReviews : g[k] \in Nat /\ g[k] = Body(g, k)
  <2> SUFFICES ASSUME NEW k \in 1 .. MaxReviews PROVE g[k] \in Nat /\ g[k] = Body(g, k)
    OBVIOUS
  <2>1. f \in [0 .. MaxReviews -> Nat] /\ f[k] = GapStep[f[k - 1], k]
    BY <1>3 DEF Counts
  <2>2. k \in 0 .. MaxReviews /\ k - 1 \in 0 .. MaxReviews /\ k \in Nat
    BY <1>1
  <2>3. f[k] \in Nat /\ f[k - 1] \in Nat
    BY <2>1, <2>2
  <2>4. f[k] = CASE k = 1 -> 1 [] k = 2 -> 6 [] OTHER -> Greater(1, Round(f[k - 1] * 250))
    BY <2>1, <2>2, <2>3 DEF GapStep
  <2>5. k # 1 => g[k - 1] = f[k - 1]
    <3>1. k # 1 => k - 1 \in 1 .. MaxReviews
      BY <1>1
    <3> QED
      BY ONLY <3>1
  <2>6. g[k] = f[k]
    OBVIOUS
  <2> HIDE DEF g
  <2>7. k # 1 => Greater(1, Round(g[k - 1] * 250)) = Greater(1, Round(f[k - 1] * 250))
    BY ONLY <2>5
  <2>8. g[k] = Body(g, k)
    BY ONLY <2>4, <2>6, <2>7
  <2> QED
    BY ONLY <2>3, <2>6, <2>8
<1>5. g = [k \in 1 .. MaxReviews |-> Body(g, k)]
  <2>1. g = [k \in 1 .. MaxReviews |-> g[k]]
    OBVIOUS
  <2>2. \A k \in 1 .. MaxReviews : g[k] = Body(g, k)
    BY <1>4
  <2> HIDE DEF g, Body
  <2> QED
    BY ONLY <2>1, <2>2
<1>6. Gap = [k \in 1 .. MaxReviews |-> Body(Gap, k)]
  <2> DEFINE Fits(h) == h = [k \in 1 .. MaxReviews |-> Body(h, k)]
  <2>1. Gap = CHOOSE h : Fits(h)
    BY DEF Gap
  <2>2. Fits(g)
    BY <1>5
  <2>3. Fits(Gap)
    <3> HIDE DEF Fits, g
    <3> QED
      BY ONLY <2>1, <2>2
  <2> QED
    BY ONLY <2>3
<1>7. ASSUME NEW k \in 1 .. MaxReviews PROVE Gap[k] = g[k]
  <2> DEFINE T == {n \in Nat : n \in 1 .. MaxReviews /\ Gap[n] # g[n]}
  <2> SUFFICES ASSUME T # {} PROVE FALSE
    BY <1>1
  <2>0. T \in SUBSET Nat
    OBVIOUS
  <2>1. PICK n \in T : \A j \in T : n <= j
    <3> HIDE DEF T
    <3> QED
      BY <2>0, Least
  <2>2. n \in 1 .. MaxReviews /\ Gap[n] # g[n]
    OBVIOUS
  <2>3. Gap[n] = Body(Gap, n)
    <3> HIDE DEF Body, g
    <3> QED
      BY <1>6, <2>2
  <2>4. g[n] = Body(g, n)
    BY <1>4, <2>2
  <2>5. n # 1 => Gap[n - 1] = g[n - 1]
    BY <2>1, <2>2, <1>1
  <2> HIDE DEF g, T
  <2> QED
    BY <2>2, <2>3, <2>4, <2>5
<1> QED
  BY <1>4, <1>7

LeadStep == [p \in Nat \X Nat |-> p[1] + (IF p[2] \in 1 .. MaxReviews THEN Gap[p[2]] ELSE 0)]

\* The lead of the reviews is a number of days, and none without reviews.
LEMMA LeadIsNat ==
    ReviewLeadDays[0] = 0 /\ \A n \in 0 .. MaxReviews : ReviewLeadDays[n] \in Nat
<1>1. MaxReviews \in Nat
  BY MaxReviewsAssumption
<1>2. LeadStep \in [Nat \X Nat -> Nat]
  BY GapIsNat DEF LeadStep
<1>3. PICK f : Counts(f, MaxReviews, 0, LeadStep)
  <2>1. 0 \in Nat
    OBVIOUS
  <2> QED
    BY <1>1, <1>2, <2>1, CountsExists
<1> DEFINE Body(h, n) == IF n = 0 THEN 0 ELSE h[n - 1] + Gap[n]
<1>4. f = [n \in 0 .. MaxReviews |-> Body(f, n)]
  <2>1. f = [n \in 0 .. MaxReviews |-> f[n]] /\ f \in [0 .. MaxReviews -> Nat] /\ f[0] = 0
    BY <1>3 DEF Counts
  <2>2. ASSUME NEW n \in 1 .. MaxReviews PROVE f[n] = f[n - 1] + Gap[n]
    <3>1. f[n] = LeadStep[f[n - 1], n]
      BY <1>3 DEF Counts
    <3>2. n - 1 \in 0 .. MaxReviews /\ n \in Nat
      BY <1>1
    <3>3. f[n - 1] \in Nat
      BY <2>1, <3>2
    <3> QED
      BY <3>1, <3>2, <3>3 DEF LeadStep
  <2>3. \A n \in 0 .. MaxReviews : n = 0 \/ n \in 1 .. MaxReviews
    BY <1>1
  <2>4. \A n \in 0 .. MaxReviews : f[n] = Body(f, n)
    BY <2>1, <2>2, <2>3
  <2> QED
    BY <2>1, <2>4
<1>5. ReviewLeadDays = [n \in 0 .. MaxReviews |-> Body(ReviewLeadDays, n)]
  BY <1>4 DEF ReviewLeadDays
<1>6. 0 \in 0 .. MaxReviews /\ ReviewLeadDays[0] = 0
  BY <1>1, <1>5
<1>7. ASSUME NEW n \in 1 .. MaxReviews PROVE ReviewLeadDays[n] = ReviewLeadDays[n - 1] + Gap[n]
  <2>1. n \in 0 .. MaxReviews /\ n # 0
    BY <1>1
  <2> QED
    BY <2>1, <1>5
<1>8. ASSUME NEW n \in 0 .. MaxReviews PROVE ReviewLeadDays[n] \in Nat
  <2> DEFINE T == {k \in Nat : k \in 0 .. MaxReviews /\ ReviewLeadDays[k] \notin Nat}
  <2> SUFFICES ASSUME T # {} PROVE FALSE
    BY <1>1
  <2>0. T \in SUBSET Nat
    OBVIOUS
  <2>1. PICK k \in T : \A j \in T : k <= j
    <3> HIDE DEF T
    <3> QED
      BY <2>0, Least
  <2>2. k # 0 /\ k \in 1 .. MaxReviews
    BY <1>1, <1>6
  <2>3. ReviewLeadDays[k - 1] \in Nat
    BY <1>1, <2>1, <2>2
  <2> QED
    BY <1>7, <2>2, <2>3, GapIsNat
<1> QED
  BY <1>6, <1>8

-----------------------------------------------------------------------------
(* Rounding up *)

LEMMA CeilIsNat == ASSUME NEW a \in Nat, NEW b \in Nat \ {0} PROVE CeilDiv(a, b) \in Nat
<1>1. a + b - 1 \in Nat
  OBVIOUS
<1> HIDE DEF CeilDiv
<1>2. \A x \in Nat : x \div b \in Nat
  BY SMT
<1> QED
  BY <1>1, <1>2 DEF CeilDiv

\* A share rounded up covers the whole.
LEMMA CeilCovers ==
    ASSUME NEW a \in Nat, NEW b \in Nat \ {0}, NEW q \in Nat, CeilDiv(a, b) <= q
    PROVE  a <= q * b
<1> DEFINE c == (a + b - 1) \div b
<1>1. c \in Int /\ c <= q
  BY SMT DEF CeilDiv
<1>2. a + b - 1 < b * (c + 1)
  BY SMT
<1>3. b * (c + 1) <= b * (q + 1)
  BY <1>1, SMT
<1> QED
  BY <1>1, <1>2, <1>3, SMT

\* It is the least share that does.
LEMMA CeilLeast ==
    ASSUME NEW a \in Nat, NEW b \in Nat \ {0}, NEW q \in Nat, a <= q * b
    PROVE  CeilDiv(a, b) <= q
<1> DEFINE c == (a + b - 1) \div b
<1>1. c \in Int /\ b * c <= a + b - 1
  BY SMT
<1>2. b * c < b * (q + 1)
  BY <1>1, SMT
<1>3. c < q + 1
  BY <1>1, <1>2, SMT
<1> QED
  BY <1>1, <1>3, SMT DEF CeilDiv

-----------------------------------------------------------------------------
(* Days and units *)

LEMMA DeadlineIsDay ==
    ASSUME NEW m \in PlanForm PROVE FirstDeadline(m) \in Int /\ m.start_number \in Nat /\ m.end_number \in Nat
BY LeadIsNat DEF PlanForm, FirstDeadline

LEMMA DaysLeftFinite ==
    ASSUME Sane
    PROVE  /\ IsFiniteSet(DaysLeft)
           /\ Cardinality(DaysLeft) \in Nat
           /\ Cardinality(DaysLeft) = 0 <=> DaysLeft = {}
<1>1. IsFiniteSet(day .. FirstDeadline(material))
  BY DeadlineIsDay, FS_Interval DEF Sane
<1>2. DaysLeft \subseteq day .. FirstDeadline(material)
  BY DEF DaysLeft
<1> QED
  BY <1>1, <1>2, FS_Subset, FS_CardinalityType, FS_EmptySet

LEMMA UnitsFinite ==
    ASSUME Sane
    PROVE  /\ IsFiniteSet(Units) /\ Cardinality(Units) = TotalUnits(material)
           /\ Cardinality(DOMAIN progress) \in Nat /\ TotalUnits(material) \in Nat
           /\ Missing \in Int
<1> DEFINE a == material.start_number  b == material.end_number
<1>1. a \in Int /\ b \in Int
  BY DeadlineIsDay DEF Sane
<1>2. IsFiniteSet(a .. b) /\ Cardinality(a .. b) = IF a > b THEN 0 ELSE b - a + 1
  BY <1>1, FS_Interval
<1>3. TotalUnits(material) = IF a > b THEN 0 ELSE b - a + 1
  BY <1>1, SMT DEF TotalUnits, AtLeast0
<1>4. IsFiniteSet(Units) /\ Cardinality(Units) = TotalUnits(material)
  BY <1>2, <1>3 DEF Units
<1>5. Cardinality(DOMAIN progress) \in Nat /\ TotalUnits(material) \in Nat
  BY <1>4, FS_CardinalityType DEF Sane
<1> QED
  BY <1>4, <1>5 DEF Missing

\* The plan's remaining count is what is missing, if anything is.
LEMMA RemainingIsMissing == ASSUME Sane PROVE RemainingNewCount = AtLeast0(Missing)
<1>1. Learned = DOMAIN progress
  BY SMT DEF Learned, Sane
<1> QED
  BY <1>1 DEF RemainingNewCount, Missing

\* Of two finite sets, the larger lacks no more of the smaller than it has besides.
LEMMA LacksAndHas ==
    ASSUME NEW S, NEW D, IsFiniteSet(S), IsFiniteSet(D), Cardinality(S) <= Cardinality(D)
    PROVE  Cardinality(S \ D) <= Cardinality(D \ S)
<1>1. /\ Cardinality(S \ D) = Cardinality(S) - Cardinality(S \cap D)
      /\ Cardinality(D \ S) = Cardinality(D) - Cardinality(D \cap S)
  BY FS_Difference
<1>2. Cardinality(D \cap S) = Cardinality(S \cap D)
  <2>1. S \cap D = D \cap S
    OBVIOUS
  <2> QED
    BY ONLY <2>1
<1>3. IsFiniteSet(S \cap D)
  BY FS_Intersection
<1>4. Cardinality(S) \in Nat /\ Cardinality(D) \in Nat /\ Cardinality(S \cap D) \in Nat
  BY <1>3, FS_CardinalityType
<1> QED
  BY <1>1, <1>2, <1>4

\* A day further, the days left are those without today.
LEMMA DaysLeftTomorrow ==
    ASSUME Sane, NEW later, later = {e \in day + 1 .. FirstDeadline(material) : ~IsBufferDay(e)}
    PROVE  /\ IsFiniteSet(later)
           /\ IF day \in DaysLeft
              THEN /\ later = DaysLeft \ {day}
                   /\ Cardinality(later) = Cardinality(DaysLeft) - 1
              ELSE later = DaysLeft
<1>1. FirstDeadline(material) \in Int /\ day \in Int
  BY DeadlineIsDay DEF Sane
<1>2. later = DaysLeft \ {day}
  BY <1>1, SMT DEF DaysLeft
<1> QED
  BY <1>2, DaysLeftFinite, FS_RemoveElement, FS_Subset

-----------------------------------------------------------------------------
(* The invariant *)

LEMMA InitInv == Init => Inv
<1> SUFFICES ASSUME Init PROVE Inv
  OBVIOUS
<1>1. DOMAIN progress = {} /\ material \in PlanForm
  BY FormsAssumption DEF Init
<1>2. Sane
  BY <1>1, FS_EmptySet, SMT DEF Init, Sane, NotAsked, StartsOnTrack
<1>3. onTrack => DaysLeft # {}
  <2>1. DaysLeft = {d \in day .. FirstDeadline(material) : Weekday(d) \notin material.buffers}
    BY DEF DaysLeft, IsBufferDay
  <2>2. onTrack => Cardinality(DaysLeft) > 0
    BY <2>1 DEF Init, StartsOnTrack
  <2> QED
    BY <1>2, <2>2, DaysLeftFinite, SMT
<1> QED
  BY <1>1, <1>2, <1>3 DEF Inv, Track, Init

\* What the plan asks for, and what it needs to ask for, are numbers.
LEMMA CountsAreNat ==
    ASSUME Inv, NEW reviews \in DueReviewNumbers
    PROVE  NewCount(reviews) \in Nat /\ Needed(day) \in Nat
<1> DEFINE n == Cardinality(reviews)
           e == EffectiveLearningDays(day)
<1>1. n \in Nat
  <2>1. DueToday \subseteq DOMAIN progress /\ reviews \subseteq DueToday
    BY DEF DueToday, DueReviewNumbers
  <2> QED
    BY <2>1, FS_Subset, FS_CardinalityType DEF Inv, Sane
<1>2. RemainingNewCount \in Nat
  <2>1. Cardinality(Learned) \in Nat
    BY FS_Subset, FS_CardinalityType DEF Learned, Inv, Sane
  <2>2. TotalUnits(material) \in Nat
    BY UnitsFinite DEF Inv
  <2> QED
    BY <2>1, <2>2, SMT DEF RemainingNewCount, AtLeast0
<1>3. e \in Nat
  BY DaysLeftFinite DEF Inv, EffectiveLearningDays, DaysLeft
<1>4. Needed(day) \in Nat
  <2> HIDE DEF e
  <2>1. e > 0 => CeilDiv(RemainingNewCount, e) \in Nat
    BY <1>2, <1>3, SMT DEF CeilDiv
  <2> QED
    BY <1>2, <1>3, <2>1 DEF Needed, e
<1>5. NewCountByBackcasting \in Nat
  BY <1>2, <1>4, BoundAssumption, SMT DEF NewCountByBackcasting, Lesser
<1>6. material.minutes_per_unit \in Nat \ {0} /\ material.budget \in Nat
  BY DEF Inv, Sane, PlanForm
<1>7. AtLeast0(material.budget - n * material.minutes_per_unit) \in Nat
  BY <1>1, <1>6, SMT DEF AtLeast0
<1>8. AtLeast0(material.budget - n * material.minutes_per_unit)
         \div material.minutes_per_unit \in Nat
  BY <1>6, <1>7, SMT
<1> QED
  BY <1>4, <1>5, <1>8, BoundAssumption, SMT DEF NewCount, Lesser

\* Opening the list: a plan counts if it asks for the rounded-up share.
LEMMA OpenKeeps == Inv /\ OpenList => Inv'
<1> SUFFICES ASSUME Inv, OpenList PROVE Inv'
  OBVIOUS
<1>1. UNCHANGED <<day, material, progress, newToday, onTrack>>
  BY DEF OpenList
<1>2. PICK reviews \in DueReviewNumbers :
         UNCHANGED asked \/ NoteAsked(TodayPlan(reviews))
  BY DEF OpenList
<1> DEFINE p == TodayPlan(reviews)
<1>3. p.new_count \in Nat /\ Needed(day) \in Nat
  BY CountsAreNat DEF TodayPlan
<1>4. /\ DaysLeft' = DaysLeft /\ Missing' = Missing
      /\ \A d : IsBufferDay(d)' = IsBufferDay(d)
  BY <1>1 DEF DaysLeft, Missing, TotalUnits, FirstDeadline, IsBufferDay
<1>5. CASE UNCHANGED asked
  BY <1>1, <1>4, <1>5 DEF Inv, Sane, Track
<1>6. CASE newToday = 0 /\ p.new_count >= Needed(day) /\ asked' = p.new_count
  <2>1. Sane'
    BY <1>1, <1>3, <1>6 DEF Inv, Sane
  <2>2. ASSUME onTrack, ~IsBufferDay(day), DaysLeft # {}
        PROVE  Missing + newToday <= asked' * Cardinality(DaysLeft)
    <3>1. RemainingNewCount = AtLeast0(Missing) /\ Missing \in Int
      BY RemainingIsMissing, UnitsFinite DEF Inv
    <3>2. EffectiveLearningDays(day) = Cardinality(DaysLeft) /\ Cardinality(DaysLeft) \in Nat \ {0}
      BY <2>2, DaysLeftFinite, SMT DEF Inv, EffectiveLearningDays, DaysLeft
    <3>3. Needed(day) = CeilDiv(AtLeast0(Missing), Cardinality(DaysLeft))
      BY <2>2, <3>1, <3>2 DEF Needed
    <3>4. CeilDiv(AtLeast0(Missing), Cardinality(DaysLeft)) <= asked'
      BY <1>3, <1>6, <3>3, SMT
    <3>5. AtLeast0(Missing) \in Nat /\ Missing <= AtLeast0(Missing) /\ asked' \in Nat
      BY <1>3, <1>6, <3>1 DEF AtLeast0
    <3>6. AtLeast0(Missing) <= asked' * Cardinality(DaysLeft)
      BY <3>2, <3>4, <3>5, CeilCovers
    <3>7. asked' * Cardinality(DaysLeft) \in Nat
      BY <3>2, <3>5
    <3> QED
      BY ONLY <1>6, <3>1, <3>5, <3>6, <3>7
  <2> QED
    BY <1>1, <1>4, <2>1, <2>2 DEF Inv, Track
<1> QED
  BY <1>2, <1>5, <1>6 DEF NoteAsked

\* A log: a unit that is begun is no longer missing.
LEMMA PostKeeps == ASSUME Inv, NEW n, NEW q, Post(n, q) PROVE Inv'
<1>1. UNCHANGED <<day, material, asked, onTrack>> /\ n \in Units
  BY DEF Post, Accepted
<1>2. DOMAIN progress' = DOMAIN progress \cup {n}
  BY DEF Post
<1>3. /\ DaysLeft' = DaysLeft /\ TotalUnits(material)' = TotalUnits(material)
      /\ \A d : IsBufferDay(d)' = IsBufferDay(d)
  BY <1>1 DEF DaysLeft, TotalUnits, FirstDeadline, IsBufferDay
<1>4. newToday' = IF n \in DOMAIN progress THEN newToday ELSE newToday + 1
  BY DEF Post
<1>5. \A k \in DOMAIN progress' : progress'[k].repetition_count \in Nat \ {0}
  <2>1. \A p : p.repetition_count \in Nat => Studied(p, q, day).repetition_count \in Nat \ {0}
    BY SMT DEF Studied, Sm2Next
  <2>2. NewUnit.repetition_count \in Nat
    BY DEF NewUnit
  <2> QED
    BY <2>1, <2>2, SMT DEF Post, Inv, Sane
<1>6. Sane'
  BY <1>1, <1>2, <1>4, <1>5, FS_AddElement, SMT DEF Inv, Sane
<1>7. /\ Missing' + newToday' = Missing + newToday
      /\ Missing' <= Missing /\ Missing \in Int /\ Missing' \in Int
  <2>1. Cardinality(DOMAIN progress \cup {n}) = IF n \in DOMAIN progress THEN Cardinality(DOMAIN progress)
                                                                     ELSE Cardinality(DOMAIN progress) + 1
    BY FS_AddElement DEF Inv, Sane
  <2>2. Missing' = TotalUnits(material) - Cardinality(DOMAIN progress \cup {n})
    BY <1>2, <1>3 DEF Missing
  <2>3. newToday \in Nat /\ TotalUnits(material) \in Nat /\ Cardinality(DOMAIN progress) \in Nat
    BY UnitsFinite DEF Inv, Sane
  <2> QED
    BY ONLY <1>4, <2>1, <2>2, <2>3 DEF Missing
<1> QED
  BY <1>1, <1>3, <1>6, <1>7 DEF Inv, Track

\* An edit starts the judgement anew.
LEMMA EditKeeps == ASSUME Inv, NEW m \in Edited, EditMaterial(m) PROVE Inv'
<1>1. /\ UNCHANGED <<day, progress>> /\ material' = m /\ newToday' = 0 /\ asked' = NotAsked
      /\ onTrack' = StartsOnTrack(m)
  BY DEF EditMaterial
<1>2. Sane'
  BY <1>1, FormsAssumption DEF Inv, Sane, StartsOnTrack
<1>3. DaysLeft' = {d \in day .. FirstDeadline(m) : Weekday(d) \notin m.buffers}
  BY <1>1 DEF DaysLeft, IsBufferDay, FirstDeadline
<1>4. onTrack' => DaysLeft' # {}
  <2>1. onTrack' => Cardinality(DaysLeft') > 0
    BY <1>1, <1>3 DEF StartsOnTrack
  <2>2. Cardinality({}) = 0
    BY FS_EmptySet
  <2> QED
    BY <2>1, <2>2, SMT
<1> QED
  BY <1>1, <1>2, <1>4 DEF Inv, Track

\* Midnight: a day that was followed leaves the share of the days after it.
LEMMA NextDayKeeps == Inv /\ NextDay => Inv'
<1> SUFFICES ASSUME Inv, NextDay PROVE Inv'
  OBVIOUS
<1>1. /\ UNCHANGED <<material, progress>> /\ day' = day + 1
      /\ newToday' = 0 /\ asked' = NotAsked
      /\ onTrack' = (onTrack /\ asked # NotAsked /\ newToday >= asked)
  BY DEF NextDay
<1>2. Sane'
  BY <1>1 DEF Inv, Sane
<1>3. Missing' = Missing /\ Missing \in Int
  BY <1>1, UnitsFinite DEF Missing, TotalUnits, Inv
<1>4. DaysLeft' = {e \in day + 1 .. FirstDeadline(material) : ~IsBufferDay(e)}
  BY <1>1 DEF DaysLeft, IsBufferDay, FirstDeadline
<1>5. ASSUME onTrack', DaysLeft' = {} PROVE Missing <= 0
  <2>1. onTrack /\ asked \in Nat /\ newToday >= asked
    BY <1>1, <1>5 DEF Inv, Sane
  <2>2. CASE DaysLeft = {}
    BY <2>1, <2>2 DEF Inv, Track
  <2>3. CASE DaysLeft # {}
    <3>1. day \in DaysLeft /\ Cardinality(DaysLeft') = Cardinality(DaysLeft) - 1
      BY <1>4, <1>5, <2>3, DaysLeftTomorrow DEF Inv
    <3>2. Cardinality(DaysLeft) = 1
      BY <1>5, <3>1, FS_EmptySet, DaysLeftFinite, SMT DEF Inv
    <3>3. Missing + newToday <= asked * Cardinality(DaysLeft)
      BY <2>1, <2>3, <3>1, SMT DEF Inv, Track, DaysLeft, NotAsked
    <3>4. newToday \in Nat
      BY DEF Inv, Sane
    <3> QED
      BY ONLY <1>3, <2>1, <3>2, <3>3, <3>4
  <2> QED
    BY <2>2, <2>3
<1> QED
  BY <1>1, <1>2, <1>3, <1>5 DEF Inv, Track

LEMMA NextKeeps == Inv /\ [Next]_vars => Inv'
<1> SUFFICES ASSUME Inv, [Next]_vars PROVE Inv'
  OBVIOUS
<1>1. CASE OpenList
  BY <1>1, OpenKeeps
<1>2. ASSUME NEW n \in Numbers, NEW q \in Quality, Post(n, q) PROVE Inv'
  BY <1>2, PostKeeps
<1>3. ASSUME NEW m \in Edited, EditMaterial(m) PROVE Inv'
  BY <1>3, EditKeeps
<1>4. CASE NextDay
  BY <1>4, NextDayKeeps
<1>5. CASE UNCHANGED vars
  BY <1>5 DEF vars, tableVars, historyVars, Inv, Sane, Track, DaysLeft, Missing, TotalUnits,
              FirstDeadline, IsBufferDay
<1> QED
  BY <1>1, <1>2, <1>3, <1>4, <1>5 DEF Next

-----------------------------------------------------------------------------
(* Theorems *)

\* Whoever follows the plan, and is never given less than needed, has begun
\* every unit once no day is left before the deadline the plan counts from, but for
\* as many as were learned before an edit left them out of the range.
THEOREM FirstLearningInTimeAlways == Spec => []FirstLearningInTime
<1>1. Inv => FirstLearningInTime
  <2> SUFFICES ASSUME Inv, onTrack, \A d \in day .. FirstDeadline(material) : IsBufferDay(d)
               PROVE  Cardinality(Units \ DOMAIN progress) <= Cardinality(DOMAIN progress \ Units)
    BY DEF FirstLearningInTime
  <2>1. Missing <= 0
    BY DEF Inv, Track, DaysLeft
  <2>2. /\ IsFiniteSet(Units) /\ Cardinality(Units) = TotalUnits(material) /\ IsFiniteSet(DOMAIN progress)
        /\ Cardinality(DOMAIN progress) \in Nat /\ TotalUnits(material) \in Nat
    BY UnitsFinite DEF Inv, Sane
  <2>3. Cardinality(Units) <= Cardinality(DOMAIN progress)
    BY ONLY <2>1, <2>2 DEF Missing
  <2> QED
    BY ONLY <2>2, <2>3, LacksAndHas
<1> QED
  BY <1>1, InitInv, NextKeeps, PTL DEF Spec

\* What is needed on a day, for whoever is on track.
LEMMA NeededOfMissing ==
    Inv /\ onTrack =>
        Needed(day) = IF DaysLeft = {} \/ IsBufferDay(day) THEN 0
                      ELSE CeilDiv(AtLeast0(Missing), Cardinality(DaysLeft))
<1> SUFFICES ASSUME Inv, onTrack
             PROVE  Needed(day) = IF DaysLeft = {} \/ IsBufferDay(day) THEN 0
                                  ELSE CeilDiv(AtLeast0(Missing), Cardinality(DaysLeft))
  OBVIOUS
<1>1. RemainingNewCount = AtLeast0(Missing) /\ Missing \in Int
  BY RemainingIsMissing, UnitsFinite DEF Inv
<1>2. DaysLeft = {} => RemainingNewCount = 0
  BY <1>1 DEF Inv, Track, AtLeast0
<1>3. EffectiveLearningDays(day) = Cardinality(DaysLeft)
  BY DEF EffectiveLearningDays, DaysLeft
<1> QED
  BY <1>1, <1>2, <1>3, DaysLeftFinite DEF Inv, Needed

\* ... and is asked for no more on the next learning day than on this one.
THEOREM NeverPilesUpAlways == Spec => NeverPilesUp
<1>1. ASSUME Inv, Inv', NextDay, onTrack', ~IsBufferDay(day),
             Needed(day)' = IF DaysLeft' = {} \/ IsBufferDay(day)' THEN 0
                            ELSE CeilDiv(AtLeast0(Missing'), Cardinality(DaysLeft'))
      PROVE  Needed(day)' <= asked
  <2>1. onTrack /\ asked \in Nat /\ newToday \in Nat /\ newToday >= asked /\ asked # NotAsked
    BY <1>1 DEF NextDay, Inv, Sane
  <2>2. Missing' = Missing /\ Missing \in Int /\ AtLeast0(Missing) \in Nat
    BY <1>1, UnitsFinite DEF NextDay, Missing, TotalUnits, Inv, AtLeast0
  <2>3. DaysLeft' = {e \in day + 1 .. FirstDeadline(material) : ~IsBufferDay(e)}
    BY <1>1 DEF NextDay, DaysLeft, IsBufferDay, FirstDeadline
  <2>a. Sane
    BY <1>1 DEF Inv
  <2>b. /\ IsFiniteSet(DaysLeft')
        /\ day \in DaysLeft => Cardinality(DaysLeft') = Cardinality(DaysLeft) - 1
    BY ONLY <2>3, <2>a, DaysLeftTomorrow
  <2>4. CASE DaysLeft' = {} \/ IsBufferDay(day)'
    BY <1>1, <2>1, <2>4
  <2>5. CASE ~(DaysLeft' = {} \/ IsBufferDay(day)')
    <3> DEFINE c == Cardinality(DaysLeft)
    <3>1. day \in DaysLeft
      BY <1>1, <2>3, <2>5, DeadlineIsDay, SMT DEF DaysLeft, Inv, Sane
    <3>2. Cardinality(DaysLeft') = c - 1 /\ c \in Nat
      BY <2>a, <2>b, <3>1, DaysLeftFinite
    <3>3. c - 1 \in Nat \ {0}
      <4>1. IsFiniteSet(DaysLeft')
        BY <2>b
      <4>2. Cardinality(DaysLeft') # 0 /\ Cardinality(DaysLeft') \in Nat
        BY <2>5, <4>1, FS_EmptySet, FS_CardinalityType
      <4> QED
        BY <3>2, <4>2, SMT
    <3>4. Missing + newToday <= asked * c
      BY <1>1, <2>1, <3>1 DEF Inv, Track
    <3>5. AtLeast0(Missing) <= asked * (c - 1)
      <4>1. Missing <= asked * (c - 1)
        BY ONLY <2>1, <2>2, <3>2, <3>4, SMT
      <4>2. asked * (c - 1) \in Nat
        BY <2>1, <3>3
      <4> QED
        BY ONLY <2>2, <4>1, <4>2 DEF AtLeast0
    <3>6. CeilDiv(AtLeast0(Missing), c - 1) <= asked
      BY <2>1, <2>2, <3>3, <3>5, CeilLeast
    <3> QED
      BY <1>1, <2>2, <2>5, <3>2, <3>6
  <2> QED
    BY <2>4, <2>5
<1>2. (Inv /\ onTrack)' =>
         Needed(day)' = IF DaysLeft' = {} \/ IsBufferDay(day)' THEN 0
                        ELSE CeilDiv(AtLeast0(Missing'), Cardinality(DaysLeft'))
  <2>1. (Inv /\ onTrack)' =>
          (Needed(day) = IF DaysLeft = {} \/ IsBufferDay(day) THEN 0
                         ELSE CeilDiv(AtLeast0(Missing), Cardinality(DaysLeft)))'
    BY NeededOfMissing, PTL
  <2> QED
    BY <2>1
<1>3. Inv /\ Inv' /\ [Next]_vars =>
         [NextDay /\ onTrack' /\ ~IsBufferDay(day) => Needed(day)' <= asked]_vars
  BY <1>1, <1>2
<1> QED
  BY <1>3, InitInv, NextKeeps, PTL DEF Spec, NeverPilesUp

-----------------------------------------------------------------------------
(* The list of the progress *)

\* Of a material whose range no learned unit left, the list never failed.
RangeKept ==
    /\ moved \in BOOLEAN
    /\ ~moved => DOMAIN progress \subseteq Units /\ ~failed

LEMMA InitRangeKept == Init => RangeKept
BY DEF Init, RangeKept

LEMMA NextRangeKept == Inv /\ RangeKept /\ [Next]_vars => RangeKept'
<1> SUFFICES ASSUME Inv, RangeKept, [Next]_vars PROVE RangeKept'
  OBVIOUS
<1>1. CASE OpenList
  <2>1. UNCHANGED <<material, progress, moved>>
    BY <1>1 DEF OpenList
  <2>2. PICK reviews \in DueReviewNumbers :
           IF Clean(TodayPlan(reviews)) THEN failed' = FALSE ELSE failed' = TRUE
    BY <1>1 DEF OpenList
  <2>3. ~moved => Clean(TodayPlan(reviews))
    BY DEF RangeKept, Clean, TodayPlan, DueReviewNumbers, DueToday
  <2> QED
    BY <2>1, <2>2, <2>3 DEF RangeKept, Units
<1>2. ASSUME NEW n \in Numbers, NEW q \in Quality, Post(n, q) PROVE RangeKept'
  BY <1>2 DEF RangeKept, Post, Accepted, Units
<1>3. ASSUME NEW m \in Edited, EditMaterial(m) PROVE RangeKept'
  BY <1>3 DEF RangeKept, EditMaterial, Units
<1>4. CASE NextDay
  BY <1>4 DEF RangeKept, NextDay, Units
<1>5. CASE UNCHANGED vars
  BY <1>5 DEF RangeKept, vars, tableVars, historyVars, Units
<1> QED
  BY <1>1, <1>2, <1>3, <1>4, <1>5 DEF Next

\* The list can be shown, and its counts of completed and started units are in
\* order, as long as no unit that was learned has left the range: every log is
\* within the range it is posted under.
THEOREM ListHonestAlways == Spec => []ListHonest
<1>1. Inv /\ RangeKept => ListHonest
  <2> SUFFICES ASSUME Inv, RangeKept, ~moved PROVE ListHonest
    BY DEF ListHonest
  <2>1. Started = DOMAIN progress /\ Completed \subseteq DOMAIN progress
    <3>1. \A n \in DOMAIN progress : progress[n].repetition_count > 0
      BY SMT DEF Inv, Sane
    <3> QED
      BY ONLY <3>1 DEF Started, Completed
  <2>2. IsFiniteSet(Units) /\ Cardinality(Units) = TotalUnits(material)
    BY UnitsFinite DEF Inv
  <2>3. Cardinality(Started) <= Cardinality(Units)
    BY <2>1, <2>2, FS_Subset DEF RangeKept
  <2> QED
    BY <2>1, <2>2, <2>3 DEF ListHonest, RangeKept
<1> QED
  BY <1>1, InitInv, NextKeeps, InitRangeKept, NextRangeKept, PTL DEF Spec

-----------------------------------------------------------------------------
(* The diagnosis of the form *)

WorkDays(start, end, buffers) == {d \in start .. end : Weekday(d) \notin buffers}

\* _count_effective_days counts the working days, also without buffer days.
LEMMA EffIsCard ==
    ASSUME NEW start \in Int, NEW end \in Int, NEW buffers
    PROVE  /\ IsFiniteSet(WorkDays(start, end, buffers))
           /\ CountEffectiveDays(start, end, buffers) = Cardinality(WorkDays(start, end, buffers))
           /\ CountEffectiveDays(start, end, buffers) \in Nat
           /\ CountEffectiveDays(start, end, buffers) <= AtLeast0(end - start + 1)
<1> DEFINE All == start .. end
           W   == WorkDays(start, end, buffers)
<1>1. IsFiniteSet(All) /\ Cardinality(All) = IF start > end THEN 0 ELSE end - start + 1
  BY FS_Interval
<1>2. Cardinality(All) = AtLeast0(end - start + 1)
  BY <1>1, SMT DEF AtLeast0
<1>3. W \subseteq All /\ (buffers = {} => W = All)
  BY DEF WorkDays
<1>4. IsFiniteSet(W) /\ Cardinality(W) <= Cardinality(All) /\ Cardinality(W) \in Nat
  BY <1>1, <1>3, FS_Subset, FS_CardinalityType
<1> QED
  BY <1>2, <1>3, <1>4 DEF CountEffectiveDays, WorkDays

\* What the form asserted of the material that is stored.
Stored ==
    /\ material \in PlanForm
    /\ material.required_reviews > 0
    /\ material.start_date <= material.goal_date

LEMMA StoredAlways == Spec => []Stored
<1>1. Init => Stored
  BY FormsAssumption DEF Init, Stored, Storable
<1>2. Stored /\ [Next]_vars => Stored'
  <2> SUFFICES ASSUME Stored, [Next]_vars PROVE Stored'
    OBVIOUS
  <2>1. CASE UNCHANGED material
    BY <2>1 DEF Stored
  <2>2. ASSUME NEW m \in Edited, EditMaterial(m) PROVE Stored'
    BY <2>2, FormsAssumption DEF EditMaterial, Storable, Stored
  <2> QED
    BY <2>1, <2>2 DEF Next, OpenList, Post, NextDay, vars, tableVars
<1> QED
  BY <1>1, <1>2, PTL DEF Spec

\* What a material takes of a day, and what is needed of it, are numbers.
LEMMA FormNumbers ==
    ASSUME NEW m \in PlanForm
    PROVE  /\ m.start_date \in Int /\ m.goal_date \in Int
           /\ m.minutes_per_unit \in Nat \ {0} /\ m.budget \in Nat
           /\ FirstDeadline(m) \in Int /\ FirstDeadline(m) <= m.goal_date
           /\ m.required_reviews = 0 => FirstDeadline(m) = m.goal_date
           /\ TotalUnits(m) \in Nat
           /\ NewPerDayCap(m) \in Nat
           /\ NewPerDayCap(m) = m.budget \div m.minutes_per_unit
<1>1. m.minutes_per_unit \in Nat \ {0} /\ m.budget \in Nat
  BY DEF PlanForm
<1>2. /\ m.start_date \in Int /\ m.goal_date \in Int /\ m.start_number \in Nat /\ m.end_number \in Nat
      /\ m.required_reviews \in 0 .. MaxReviews
  BY DEF PlanForm
<1>3. TotalUnits(m) \in Nat
  BY <1>2, SMT DEF TotalUnits, AtLeast0
<1>4. NewPerDayCap(m) = m.budget \div m.minutes_per_unit
  BY <1>1, SMT DEF NewPerDayCap, Greater
<1>5. m.budget \div m.minutes_per_unit \in Nat
  BY <1>1, SMT
<1>6. ReviewLeadDays[m.required_reviews] \in Nat
  BY <1>2, LeadIsNat
<1>7. m.required_reviews = 0 => ReviewLeadDays[m.required_reviews] = 0
  BY LeadIsNat
<1> QED
  BY <1>1, <1>2, <1>3, <1>4, <1>5, <1>6, <1>7, SMT DEF FirstDeadline

\* The days the diagnosis counts up to the deadline.
LEMMA DeadlineDays ==
    ASSUME NEW m \in PlanForm
    PROVE  /\ EffectiveDaysToDeadline(m) \in Nat
           /\ EffectiveDaysToDeadline(m) <= AtLeast0(FirstDeadline(m) - m.start_date + 1)
           /\ m.required_reviews > 0 =>
                 EffectiveDaysToDeadline(m)
                    = Cardinality(WorkDays(m.start_date, FirstDeadline(m), m.buffers))
           /\ m.buffers = {} \/ m.required_reviews = 0 =>
                 EffectiveDaysToDeadline(m) = AtLeast0(FirstDeadline(m) - m.start_date + 1)
<1> DEFINE a == m.start_date
           b == FirstDeadline(m)
<1>1. a \in Int /\ b \in Int /\ m.goal_date \in Int /\ m.required_reviews \in Nat
  BY FormNumbers, MaxReviewsAssumption DEF PlanForm
<1>2. CASE m.required_reviews = 0
  <2>1. EffectiveDaysToDeadline(m) = AtLeast0(b - a + 1)
    BY <1>2, FormNumbers DEF EffectiveDaysToDeadline, TotalDays
  <2>2. AtLeast0(b - a + 1) \in Nat
    BY <1>1, SMT DEF AtLeast0
  <2> QED
    BY <1>2, <2>1, <2>2
<1>3. CASE m.required_reviews # 0
  <2>1. EffectiveDaysToDeadline(m) = CountEffectiveDays(a, b, m.buffers)
    BY <1>3 DEF EffectiveDaysToDeadline
  <2>2. /\ CountEffectiveDays(a, b, m.buffers) = Cardinality(WorkDays(a, b, m.buffers))
        /\ CountEffectiveDays(a, b, m.buffers) \in Nat
        /\ CountEffectiveDays(a, b, m.buffers) <= AtLeast0(b - a + 1)
    BY <1>1, EffIsCard
  <2>3. m.buffers = {} => CountEffectiveDays(a, b, m.buffers) = AtLeast0(b - a + 1)
    BY DEF CountEffectiveDays
  <2> QED
    BY <1>3, <2>1, <2>2, <2>3
<1> QED
  BY <1>2, <1>3

\* On the first day, with nothing learned, the plan asks for what the diagnosis
\* of the form said is needed a day, up to the caps: the two implementations of
\* the count of the days before the deadline agree.
THEOREM DiagnosisAgreesAlways == Spec => DiagnosisAgrees
<1>1. ASSUME Inv, Stored, OpenList, day = material.start_date,
             progress = [n \in {} |-> NewUnit]
      PROVE  plan'.new_count =
                IF IsBufferDay(day) /\ EffectiveDaysToDeadline(material) > 0 THEN 0
                ELSE Lesser(RequiredPerDay(material),
                            Lesser(NewPerDayCap(material), MAX_NEW_CAP_PER_DAY))
  <2> DEFINE total == TotalUnits(material)
             days  == EffectiveDaysToDeadline(material)
             cap   == NewPerDayCap(material)
  <2>1. DOMAIN progress = {}
    BY <1>1
  <2>2. PICK reviews \in DueReviewNumbers :
           IF Clean(TodayPlan(reviews)) THEN plan' = TodayPlan(reviews) ELSE UNCHANGED plan
    BY <1>1 DEF OpenList
  <2>3. reviews = {}
    BY <2>1 DEF DueReviewNumbers, DueToday
  <2>4. plan'.new_count = NewCount({})
    BY <2>2, <2>3 DEF Clean, TodayPlan
  <2>5. /\ total \in Nat /\ cap \in Nat /\ days \in Nat
        /\ material.minutes_per_unit \in Nat \ {0} /\ material.budget \in Nat
        /\ cap = material.budget \div material.minutes_per_unit
        /\ Cardinality({}) = 0
    BY <1>1, FormNumbers, DeadlineDays, FS_EmptySet DEF Stored
  <2>6. RemainingNewCount = total
    <3>1. Learned = {}
      BY <2>1 DEF Learned
    <3> QED
      BY <2>5, <3>1, SMT DEF RemainingNewCount, AtLeast0
  <2>7. EffectiveLearningDays(day) = days
    <3>1. days = Cardinality(WorkDays(material.start_date, FirstDeadline(material), material.buffers))
      BY <1>1, DeadlineDays DEF Stored
    <3> QED
      BY <1>1, <3>1 DEF EffectiveLearningDays, IsBufferDay, WorkDays
  <2>8. Needed(day) = IF IsBufferDay(day) /\ days > 0 THEN 0 ELSE RequiredPerDay(material)
    BY <2>5, <2>6, <2>7, SMT DEF Needed, RequiredPerDay
  <2>9. RequiredPerDay(material) \in Nat /\ RequiredPerDay(material) <= total
    <3>1. CASE days = 0
      BY <2>5, <3>1 DEF RequiredPerDay
    <3>2. CASE days # 0
      <4> HIDE DEF days, total
      <4>1. total <= total * days
        BY <2>5, <3>2, SMT
      <4>2. CeilDiv(total, days) <= total /\ CeilDiv(total, days) \in Nat
        BY <2>5, <3>2, <4>1, CeilLeast, CeilIsNat
      <4> QED
        BY <3>2, <4>2 DEF RequiredPerDay, days, total
    <3> QED
      BY <3>1, <3>2
  <2>10. NewCount({}) = Lesser(NewCountByBackcasting, cap)
    <3>1. Cardinality({}) * material.minutes_per_unit = 0
      BY <2>5, SMT
    <3>2. AtLeast0(material.budget - 0) = material.budget
      BY <2>5, SMT DEF AtLeast0
    <3>3. ~(0 > (material.budget * 12) \div 10)
      BY <2>5, SMT
    <3>4. ~(day > material.goal_date)
      BY <1>1, FormNumbers, SMT DEF Stored
    <3> QED
      BY <2>5, <3>1, <3>2, <3>3, <3>4 DEF NewCount
  <2>11. MAX_NEW_CAP_PER_DAY \in Nat
    BY BoundAssumption
  <2> HIDE DEF total, days, cap
  <2>12. NewCountByBackcasting = Lesser(Needed(day), Lesser(MAX_NEW_CAP_PER_DAY, total))
    BY <2>6 DEF NewCountByBackcasting
  <2>13. CASE IsBufferDay(day) /\ days > 0
    BY <2>4, <2>5, <2>8, <2>10, <2>11, <2>12, <2>13, SMT DEF Lesser, days
  <2>14. CASE ~(IsBufferDay(day) /\ days > 0)
    BY <2>4, <2>5, <2>8, <2>9, <2>10, <2>11, <2>12, <2>14, SMT DEF Lesser, days, cap
  <2> QED
    BY <2>13, <2>14
<1>2. Inv /\ Stored /\ [Next]_vars =>
         [OpenList /\ day = material.start_date /\ progress = [n \in {} |-> NewUnit]
          /\ ~DeadlinePast(material) =>
            plan'.new_count =
               IF IsBufferDay(day) /\ EffectiveDaysToDeadline(material) > 0 THEN 0
               ELSE Lesser(RequiredPerDay(material),
                           Lesser(NewPerDayCap(material), MAX_NEW_CAP_PER_DAY))]_vars
  BY <1>1
<1> QED
  BY <1>2, InitInv, NextKeeps, StoredAlways, PTL DEF Spec, DiagnosisAgrees

\* Within a week of any day there is one of every weekday.
LEMMA WeekdayComes ==
    ASSUME NEW d \in Int, NEW w \in 0 .. 6
    PROVE  \E e \in d + 1 .. d + 7 : Weekday(e) = w
<1> DEFINE r == (w - d - 1) % 7
           q == (w - d - 1) \div 7
<1>1. r \in 0 .. 6 /\ q \in Int /\ w - d - 1 = 7 * q + r
  BY SMT
<1> HIDE DEF r, q
<1>2. d + 1 + r = w - 7 * q
  BY <1>1
<1>3. (w - 7 * q) % 7 = w
  BY <1>1, SMT
<1>4. d + 1 + r \in d + 1 .. d + 7 /\ Weekday(d + 1 + r) = w
  BY <1>1, <1>2, <1>3 DEF Weekday
<1> QED
  BY <1>4

\* One day further there is one more working day, or none.
LEMMA OneDayMore ==
    ASSUME NEW start \in Int, NEW end \in Int, start <= end, NEW buffers
    PROVE  CountEffectiveDays(start, end, buffers)
             = CountEffectiveDays(start, end - 1, buffers)
               + (IF Weekday(end) \in buffers THEN 0 ELSE 1)
<1> DEFINE A == WorkDays(start, end - 1, buffers)
           B == WorkDays(start, end, buffers)
<1>1. /\ IsFiniteSet(A) /\ Cardinality(A) \in Nat
      /\ CountEffectiveDays(start, end - 1, buffers) = Cardinality(A)
      /\ CountEffectiveDays(start, end, buffers) = Cardinality(B)
  BY EffIsCard
<1>2. start .. end = (start .. end - 1) \cup {end} /\ end \notin start .. end - 1
  BY SMT
<1>3. B = IF Weekday(end) \in buffers THEN A ELSE A \cup {end}
  BY <1>2 DEF WorkDays
<1>4. end \notin A
  BY <1>2 DEF WorkDays
<1> HIDE DEF A, B
<1>5. Cardinality(A \cup {end}) = Cardinality(A) + 1
  BY <1>1, <1>4, FS_AddElement
<1> QED
  BY <1>1, <1>3, <1>5

\* The working days of two spans that follow each other add up.
LEMMA SpansAddUp ==
    ASSUME NEW a \in Int, NEW b \in Int, NEW c \in Int, a <= b + 1, b <= c, NEW buffers
    PROVE  CountEffectiveDays(a, c, buffers)
             = CountEffectiveDays(a, b, buffers) + CountEffectiveDays(b + 1, c, buffers)
<1> DEFINE S == WorkDays(a, b, buffers)
           T == WorkDays(b + 1, c, buffers)
           U == WorkDays(a, c, buffers)
<1>1. /\ IsFiniteSet(S) /\ CountEffectiveDays(a, b, buffers) = Cardinality(S)
      /\ IsFiniteSet(T) /\ CountEffectiveDays(b + 1, c, buffers) = Cardinality(T)
      /\ CountEffectiveDays(a, c, buffers) = Cardinality(U)
      /\ Cardinality(S) \in Nat /\ Cardinality(T) \in Nat
  <2>1. b + 1 \in Int
    OBVIOUS
  <2> QED
    BY <2>1, EffIsCard
<1>2. a .. c = (a .. b) \cup (b + 1 .. c) /\ (a .. b) \cap (b + 1 .. c) = {}
  BY SMT
<1>3. U = S \cup T /\ S \cap T = {}
  BY <1>2 DEF WorkDays
<1> HIDE DEF S, T, U
<1>4. Cardinality(S \cup T) = Cardinality(S) + Cardinality(T) - Cardinality(S \cap T)
  BY <1>1, FS_Union
<1> QED
  BY <1>1, <1>3, <1>4, FS_EmptySet

\* Later days have no fewer working days before them.
LEMMA DaysGrow ==
    ASSUME NEW a \in Int, NEW b \in Int, NEW c \in Int, a <= b + 1, b <= c, NEW buffers
    PROVE  CountEffectiveDays(a, b, buffers) <= CountEffectiveDays(a, c, buffers)
<1>1. /\ CountEffectiveDays(a, b, buffers) \in Nat
      /\ CountEffectiveDays(b + 1, c, buffers) \in Nat
  <2>1. b + 1 \in Int
    OBVIOUS
  <2> QED
    BY <2>1, EffIsCard
<1> QED
  BY <1>1, SpansAddUp

\* With a weekday to work on, n weeks have at least n working days.
LEMMA WeeksHaveDays ==
    ASSUME NEW g \in Int, NEW buffers, NEW w \in 0 .. 6, w \notin buffers, NEW n \in Nat
    PROVE  CountEffectiveDays(g + 1, g + 7 * n, buffers) >= n
<1> DEFINE Eff(x) == CountEffectiveDays(g + 1, g + x, buffers)
           T == {k \in Nat : ~(Eff(7 * k) >= k)}
<1>1. \A x \in Nat : Eff(x) \in Nat
  <2> SUFFICES ASSUME NEW x \in Nat PROVE Eff(x) \in Nat
    OBVIOUS
  <2>1. g + 1 \in Int /\ g + x \in Int
    OBVIOUS
  <2> QED
    BY <2>1, EffIsCard
<1> SUFFICES ASSUME T # {} PROVE FALSE
  OBVIOUS
<1>2. T \in SUBSET Nat
  OBVIOUS
<1>3. PICK k \in T : \A j \in T : k <= j
  <2> HIDE DEF T
  <2> QED
    BY <1>2, Least
<1>4. k \in Nat /\ ~(Eff(7 * k) >= k)
  OBVIOUS
<1>5. k # 0
  <2> HIDE DEF Eff
  <2> QED
    BY <1>1, <1>4
<1>6. k - 1 \in Nat /\ Eff(7 * (k - 1)) >= k - 1
  <2>1. k - 1 \in Nat /\ ~(k <= k - 1)
    BY <1>4, <1>5
  <2>2. k - 1 \notin T
    <3> HIDE DEF T
    <3> QED
      BY <2>1, <1>3
  <2> QED
    BY <2>1, <2>2
<1> DEFINE b == g + 7 * (k - 1)
<1>7. b \in Int /\ g + 7 * k = b + 7 /\ g + 1 <= b + 1
  BY <1>6
<1>8. PICK e \in b + 1 .. b + 7 : Weekday(e) = w
  BY <1>7, WeekdayComes
<1> HIDE DEF b
<1>9. CountEffectiveDays(g + 1, e, buffers) = CountEffectiveDays(g + 1, e - 1, buffers) + 1
  <2>1. g + 1 \in Int /\ e \in Int /\ g + 1 <= e
    BY <1>7, <1>8
  <2> QED
    BY <2>1, <1>8, OneDayMore
<1>10. CountEffectiveDays(g + 1, b, buffers) <= CountEffectiveDays(g + 1, e - 1, buffers)
  <2>1. g + 1 \in Int /\ e - 1 \in Int /\ b <= e - 1
    BY <1>7, <1>8
  <2> QED
    BY <2>1, <1>7, DaysGrow
<1>11. CountEffectiveDays(g + 1, e, buffers) <= CountEffectiveDays(g + 1, b + 7, buffers)
  <2>1. g + 1 \in Int /\ e \in Int /\ b + 7 \in Int /\ g + 1 <= e + 1 /\ e <= b + 7
    BY <1>7, <1>8
  <2> QED
    BY <2>1, DaysGrow
<1>12. CountEffectiveDays(g + 1, b, buffers) >= k - 1
  BY <1>6 DEF b
<1>13. CountEffectiveDays(g + 1, b + 7, buffers) = Eff(7 * k)
  BY <1>7
<1>14. /\ CountEffectiveDays(g + 1, e - 1, buffers) \in Nat
       /\ CountEffectiveDays(g + 1, b, buffers) \in Nat
       /\ Eff(7 * k) \in Nat
  <2>1. g + 1 \in Int /\ e - 1 \in Int /\ 7 * k \in Nat
    BY <1>4, <1>7, <1>8
  <2> HIDE DEF Eff
  <2> QED
    BY <2>1, <1>1, <1>7, EffIsCard
<1> HIDE DEF Eff, T
<1> QED
  BY <1>4, <1>6, <1>9, <1>10, <1>11, <1>12, <1>13, <1>14

\* Day d is the n-th working day after g.
EndsOn(g, buffers, n, d) ==
    /\ d \in g + 1 .. g + 7 * n
    /\ Weekday(d) \notin buffers
    /\ CountEffectiveDays(g + 1, d, buffers) = n

\* The extension ends: there is a working day on which n working days have
\* passed since the goal, no later than n weeks.
LEMMA ExtensionEnds ==
    ASSUME NEW g \in Int, NEW buffers, NEW w \in 0 .. 6, w \notin buffers, NEW n \in Nat \ {0}
    PROVE  \E d : EndsOn(g, buffers, n, d)
<1> DEFINE Eff(x) == CountEffectiveDays(g + 1, g + x, buffers)
           T == {x \in Nat : Eff(x) >= n}
<1>1. \A x \in Nat : Eff(x) \in Nat
  <2> SUFFICES ASSUME NEW x \in Nat PROVE Eff(x) \in Nat
    OBVIOUS
  <2>1. g + 1 \in Int /\ g + x \in Int
    OBVIOUS
  <2> QED
    BY <2>1, EffIsCard
<1>2. 7 * n \in T
  <2>1. n \in Nat /\ 7 * n \in Nat
    OBVIOUS
  <2> QED
    BY <2>1, WeeksHaveDays
<1>3. PICK x \in T : \A j \in T : x <= j
  <2>1. T \in SUBSET Nat
    OBVIOUS
  <2> HIDE DEF T
  <2> QED
    BY <1>2, <2>1, Least
<1>4. x \in Nat /\ Eff(x) >= n /\ x <= 7 * n
  <2>1. x \in Nat /\ Eff(x) >= n
    OBVIOUS
  <2>2. x <= 7 * n
    <3> HIDE DEF T
    <3> QED
      BY <1>2, <1>3
  <2> QED
    BY <2>1, <2>2
<1>5. Eff(0) = 0
  <2>1. g + 1 \in Int /\ g + 0 \in Int
    OBVIOUS
  <2>2. Eff(0) <= AtLeast0((g + 0) - (g + 1) + 1)
    BY <2>1, EffIsCard
  <2>3. AtLeast0((g + 0) - (g + 1) + 1) = 0
    BY SMT DEF AtLeast0
  <2>4. Eff(0) \in Nat
    BY <1>1
  <2> HIDE DEF Eff
  <2> QED
    BY <2>2, <2>3, <2>4
<1>6. x # 0
  <2> HIDE DEF Eff, T
  <2> QED
    BY <1>4, <1>5
<1>7. x - 1 \in Nat /\ Eff(x - 1) < n
  <2>1. x - 1 \in Nat /\ ~(x <= x - 1)
    BY <1>4, <1>6
  <2>2. x - 1 \notin T
    <3> HIDE DEF T
    <3> QED
      BY <2>1, <1>3
  <2>3. ~(Eff(x - 1) >= n)
    BY <2>1, <2>2
  <2>4. Eff(x - 1) \in Nat
    BY <1>1, <2>1
  <2> HIDE DEF Eff, T
  <2> QED
    BY <2>1, <2>3, <2>4
<1>8. Eff(x) = Eff(x - 1) + (IF Weekday(g + x) \in buffers THEN 0 ELSE 1)
  <2>1. g + 1 \in Int /\ g + x \in Int /\ g + 1 <= g + x /\ g + x - 1 = g + (x - 1)
    BY <1>4, <1>6
  <2> QED
    BY <2>1, OneDayMore
<1>9. Eff(x) = n /\ Weekday(g + x) \notin buffers
  <2>1. Eff(x) \in Nat /\ Eff(x - 1) \in Nat
    BY <1>1, <1>4, <1>7
  <2> HIDE DEF Eff, T
  <2> QED
    BY <1>4, <1>7, <1>8, <2>1
<1>10. g + x \in g + 1 .. g + 7 * n
  BY <1>4, <1>6
<1> QED
  BY <1>9, <1>10 DEF EndsOn

\* The form that can be judged: what Diagnosed asks.
Judged(m) ==
    /\ m \in PlanForm
    /\ ~ExtensionRaises(m)
    /\ Status(m) # "impossible"
    /\ Foreseen(m)

\* What a judged form calls ok fits, day by day, up to the deadline.
LEMMA OkFits ==
    ASSUME NEW m, Judged(m), FirstDeadline(m) >= m.start_date, Status(m) = "ok"
    PROVE  TotalUnits(m) <= NewPerDayCap(m) * (FirstDeadline(m) - m.start_date + 1)
<1> DEFINE total == TotalUnits(m)
           cap   == NewPerDayCap(m)
           days  == EffectiveDaysToDeadline(m)
           span  == FirstDeadline(m) - m.start_date + 1
<1>1. total \in Nat /\ cap \in Nat /\ m.start_date \in Int /\ FirstDeadline(m) \in Int
  BY FormNumbers DEF Judged
<1>2. span \in Nat \ {0}
  BY <1>1
<1>3. days \in Nat /\ days <= span
  <2>1. AtLeast0(span) = span
    BY <1>2, SMT DEF AtLeast0
  <2> QED
    BY <2>1, DeadlineDays DEF Judged
<1>4. RequiredPerDay(m) <= cap /\ cap # 0
  <2>1. RequiredPerDay(m) \in Nat
    <3>1. days # 0 => CeilDiv(total, days) \in Nat
      BY <1>1, <1>3, CeilIsNat
    <3> QED
      BY <1>1, <3>1 DEF RequiredPerDay
  <2>2. cap # 0 /\ ~(cap < RequiredPerDay(m))
    <3>1. Status(m) = "ok" /\ cap \in Nat
      BY <1>1
    <3> QED
      BY <2>1, <3>1 DEF Status
  <2> HIDE DEF cap
  <2> QED
    BY <1>1, <2>1, <2>2
<1>5. CASE days = 0
  <2>1. total <= cap
    BY <1>4, <1>5 DEF RequiredPerDay
  <2> HIDE DEF total, cap, span
  <2>2. cap <= cap * span
    BY <1>1, <1>2, SMT
  <2>3. cap * span \in Nat
    BY <1>1, <1>2, SMT
  <2>4. total <= cap * span
    BY <1>1, <2>1, <2>2, <2>3
  <2> QED
    BY <2>4 DEF total, cap, span
<1>6. CASE days # 0
  <2>1. CeilDiv(total, days) <= cap
    BY <1>4, <1>6 DEF RequiredPerDay
  <2> HIDE DEF total, cap, span, days
  <2>2. total <= cap * days
    BY <1>1, <1>3, <1>6, <2>1, CeilCovers
  <2>3. cap * days <= cap * span /\ cap * days \in Nat /\ cap * span \in Nat
    BY <1>1, <1>2, <1>3, SMT
  <2>4. total <= cap * span
    BY <1>1, <2>2, <2>3
  <2> QED
    BY <2>4 DEF total, cap, span
<1> QED
  BY <1>5, <1>6

\* A plan with its deadline to come: ok fits, and tight without buffers does not.
LEMMA StatusHonest ==
    ASSUME NEW m, Judged(m), FirstDeadline(m) >= m.start_date
    PROVE  /\ Status(m) = "ok" =>
                 /\ DelayDays(m) = 0
                 /\ m.required_reviews > 0 =>
                       \A d \in m.start_date .. TimelineEnd(m) : ~OverrunNew(m, d)
           /\ m.buffers = {} /\ Status(m) = "tight" => DelayDays(m) > 0
<1> DEFINE total == TotalUnits(m)
           cap   == NewPerDayCap(m)
           span  == FirstDeadline(m) - m.start_date + 1
<1>1. total \in Nat /\ cap \in Nat /\ m.start_date \in Int /\ FirstDeadline(m) \in Int
      /\ m.goal_date \in Int /\ FirstDeadline(m) <= m.goal_date
  BY FormNumbers DEF Judged
<1>2. span \in Nat \ {0}
  BY <1>1
<1>3. cap \in Nat \ {0}
  BY <1>1 DEF Status, Judged
<1>4. Unscheduled(m) = AtLeast0(total - cap * span)
  <2>1. Lesser(FirstDeadline(m), m.goal_date) = FirstDeadline(m)
    BY <1>1, SMT DEF Lesser
  <2>2. AtLeast0(span) = span
    BY <1>2, SMT DEF AtLeast0
  <2> QED
    BY <2>1, <2>2 DEF Unscheduled
<1>5. cap * span \in Nat
  <2> HIDE DEF cap, span
  <2> QED
    BY <1>1, <1>2, SMT
<1>6. ASSUME Status(m) = "ok" PROVE total <= cap * span
  BY <1>6, OkFits
<1>7. ASSUME Status(m) = "ok" PROVE DelayDays(m) = 0
  <2>1. Unscheduled(m) = 0
    <3> HIDE DEF total, cap, span
    <3> DEFINE p == cap * span
    <3>1. p \in Nat /\ total <= p
      BY <1>5, <1>6, <1>7
    <3> HIDE DEF p
    <3>2. AtLeast0(total - p) = 0
      BY <1>1, <3>1, SMT DEF AtLeast0
    <3> QED
      BY <1>4, <3>2 DEF p
  <2>2. CeilDiv(0, cap) = 0
    <3> HIDE DEF cap
    <3>1. \A b \in Nat \ {0} : (0 + b - 1) \div b = 0
      BY SMT
    <3> QED
      BY <1>3, <3>1 DEF CeilDiv
  <2> QED
    BY <2>1, <2>2 DEF DelayDays
<1>8. ASSUME Status(m) = "ok", NEW d \in Int, d > FirstDeadline(m) PROVE TimelineNew(m, d) = 0
  <2> DEFINE k == d - m.start_date
  <2>1. k \in Nat /\ span <= k /\ ~(d < m.start_date)
    BY <1>1, <1>2, <1>8
  <2>2. TimelineNew(m, d) = Lesser(cap, AtLeast0(total - cap * k))
    BY <1>3, <2>1 DEF TimelineNew
  <2> HIDE DEF total, cap, span, k
  <2>3. cap * span <= cap * k /\ cap * k \in Nat
    BY <1>2, <1>3, <2>1, SMT
  <2> DEFINE p == cap * k
  <2>4. p \in Nat /\ total <= p
    BY <1>1, <1>5, <1>6, <1>8, <2>3
  <2> HIDE DEF p
  <2>5. Lesser(cap, AtLeast0(total - p)) = 0
    BY <1>1, <1>3, <2>4, SMT DEF Lesser, AtLeast0
  <2> QED
    BY <2>2, <2>5 DEF p
<1>9. ASSUME Status(m) = "ok", NEW d \in m.start_date .. TimelineEnd(m) PROVE ~OverrunNew(m, d)
  <2>1. d \in Int
    OBVIOUS
  <2> QED
    BY <1>8, <1>9, <2>1 DEF OverrunNew
<1>10. ASSUME m.buffers = {}, Status(m) = "tight" PROVE DelayDays(m) > 0
  <2>1. EffectiveDaysToDeadline(m) = span
    <3>1. AtLeast0(span) = span
      BY <1>2, SMT DEF AtLeast0
    <3> QED
      BY <1>10, <3>1, DeadlineDays DEF Judged
  <2>2. RequiredPerDay(m) = CeilDiv(total, span)
    BY <1>2, <2>1 DEF RequiredPerDay
  <2>3. cap < CeilDiv(total, span)
    BY <1>10, <2>2 DEF Status
  <2> HIDE DEF total, cap, span
  <2>4. ~(total <= cap * span)
    <3>1. total <= cap * span => CeilDiv(total, span) <= cap
      BY <1>1, <1>2, CeilLeast
    <3>2. CeilDiv(total, span) \in Nat
      BY <1>1, <1>2, CeilIsNat
    <3> QED
      BY <1>1, <2>3, <3>1, <3>2
  <2> DEFINE p == cap * span
  <2>5. p \in Nat /\ ~(total <= p)
    BY <1>5, <2>4
  <2> HIDE DEF p
  <2>6. AtLeast0(total - p) \in Nat \ {0}
    BY <1>1, <2>5, SMT DEF AtLeast0
  <2>7. Unscheduled(m) \in Nat \ {0}
    BY <1>4, <2>6 DEF p
  <2>8. ASSUME ~(CeilDiv(Unscheduled(m), cap) > 0) PROVE FALSE
    <3>1. CeilDiv(Unscheduled(m), cap) <= 0
      BY <1>3, <2>7, <2>8, CeilIsNat
    <3>2. Unscheduled(m) <= 0 * cap
      <4>1. Unscheduled(m) \in Nat /\ 0 \in Nat
        BY <2>7
      <4> QED
        BY <1>3, <3>1, <4>1, CeilCovers
    <3> QED
      BY <1>3, <2>7, <3>2, SMT
  <2> QED
    BY <2>8 DEF DelayDays, cap
<1> QED
  BY <1>7, <1>9, <1>10

\* A plan whose deadline has passed: the extension's date has room for every
\* unit, and the day before has not.
LEMMA ExtensionHonest ==
    ASSUME NEW m, Judged(m), DeadlinePast(m)
    PROVE  LET cap == NewPerDayCap(m)
               room(d) == cap * CountEffectiveDays(m.start_date, d, m.buffers)
           IN  /\ TotalUnits(m) <= room(ProjectedFinish(m))
               /\ SlipDays(m) > 0 => room(ProjectedFinish(m) - 1) < TotalUnits(m)
<1> DEFINE total == TotalUnits(m)
           cap   == NewPerDayCap(m)
           g     == m.goal_date
           a     == m.start_date
           base  == CountEffectiveDays(a, g, m.buffers)
           slip  == SlipDays(m)
           f     == ProjectedFinish(m)
<1>1. total \in Nat /\ cap \in Nat \ {0} /\ a \in Int /\ g \in Int /\ a <= g + 1
  <2>1. total \in Nat /\ cap \in Nat /\ a \in Int /\ g \in Int
    BY FormNumbers DEF Judged
  <2>2. cap # 0
    BY DEF Judged, Status
  <2> QED
    BY <2>1, <2>2 DEF Judged, Foreseen
<1>2. base \in Nat
  BY <1>1, EffIsCard
<1>3. Greater(cap, 1) = cap
  <2> HIDE DEF cap
  <2> QED
    BY <1>1, SMT DEF Greater
<1>4. DaysShort(m) = IF base * cap >= total THEN 0 ELSE CeilDiv(total - base * cap, cap)
  BY <1>3 DEF DaysShort
<1>5. cap * base = base * cap /\ base * cap \in Nat
  <2> HIDE DEF cap, base
  <2> QED
    BY <1>1, <1>2, SMT
<1>6. CASE base * cap >= total
  <2>1. slip = 0
    BY <1>4, <1>6, SMT DEF SlipDays, Lesser, SafetyBreak
  <2>2. f = g
    BY <2>1 DEF ProjectedFinish
  <2>3. total <= cap * base
    <3> HIDE DEF cap, base, total
    <3> QED
      BY <1>1, <1>5, <1>6
  <2> QED
    BY <2>1, <2>2, <2>3
<1>7. CASE ~(base * cap >= total)
  <2> DEFINE p == base * cap
             rest == total - p
  <2>0. p \in Nat /\ rest \in Nat \ {0}
    <3> HIDE DEF cap, base, total
    <3> QED
      BY <1>1, <1>5, <1>7
  <2>1. slip = CeilDiv(rest, cap)
    <3>1. DaysShort(m) = CeilDiv(rest, cap) /\ CeilDiv(rest, cap) \in Nat
      BY <1>1, <1>4, <1>7, <2>0, CeilIsNat
    <3>2. DaysShort(m) <= SafetyBreak /\ DaysShort(m) \in Nat
      BY <3>1 DEF Judged, Foreseen
    <3>3. slip = DaysShort(m)
      BY <3>2, SMT DEF SlipDays, Lesser, SafetyBreak
    <3> QED
      BY <3>1, <3>3
  <2>2. slip \in Nat /\ rest <= slip * cap
    <3>1. CeilDiv(rest, cap) \in Nat
      BY <1>1, <2>0, CeilIsNat
    <3>2. slip \in Nat /\ CeilDiv(rest, cap) <= slip
      BY <2>1, <3>1
    <3> HIDE DEF rest, cap, slip
    <3> QED
      BY <1>1, <2>0, <3>2, CeilCovers
  <2>3. slip # 0 /\ ~(rest <= (slip - 1) * cap)
    <3> HIDE DEF rest, cap, slip
    <3>1. slip # 0
      BY <1>1, <2>0, <2>2, SMT
    <3>2. ASSUME rest <= (slip - 1) * cap PROVE FALSE
      <4>1. slip - 1 \in Nat
        BY <2>2, <3>1
      <4>2. CeilDiv(rest, cap) <= slip - 1
        BY <1>1, <2>0, <3>2, <4>1, CeilLeast
      <4> QED
        BY <2>1, <2>2, <4>2
    <3> QED
      BY <3>1, <3>2
  <2>4. PICK w \in 0 .. 6 : w \notin m.buffers
    <3>1. m.buffers # 0 .. 6
      <4>1. total > 0
        <5> HIDE DEF cap, base, total
        <5> QED
          BY <1>1, <1>5, <1>7
      <4> QED
        BY <4>1 DEF Judged, ExtensionRaises
    <3>2. m.buffers \subseteq 0 .. 6
      BY DEF Judged, PlanForm
    <3> QED
      BY <3>1, <3>2
  <2>5. /\ f \in g + 1 .. g + 7 * slip
        /\ Weekday(f) \notin m.buffers
        /\ CountEffectiveDays(g + 1, f, m.buffers) = slip
    <3> HIDE DEF slip
    <3>1. \E d \in g + 1 .. g + 7 * slip :
             Weekday(d) \notin m.buffers /\ CountEffectiveDays(g + 1, d, m.buffers) = slip
      <4>1. slip \in Nat \ {0} /\ g \in Int /\ w \in 0 .. 6 /\ w \notin m.buffers
        BY <1>1, <2>2, <2>3, <2>4
      <4>2. \E d : EndsOn(g, m.buffers, slip, d)
        <5> HIDE DEF g
        <5> QED
          BY <4>1, ExtensionEnds
      <4> QED
        BY <4>2 DEF EndsOn
    <3>2. f = CHOOSE d \in g + 1 .. g + 7 * slip :
                Weekday(d) \notin m.buffers /\ CountEffectiveDays(g + 1, d, m.buffers) = slip
      BY <2>3 DEF ProjectedFinish, slip
    <3> HIDE DEF f, g
    <3> QED
      BY <3>1, <3>2
  <2>6. f \in Int /\ g < f
    BY <1>1, <2>2, <2>5
  <2>7. CountEffectiveDays(a, f, m.buffers) = base + slip
    <3>1. CountEffectiveDays(a, f, m.buffers)
            = CountEffectiveDays(a, g, m.buffers) + CountEffectiveDays(g + 1, f, m.buffers)
      <4>1. g <= f
        BY <1>1, <2>6
      <4> HIDE DEF f, g, a
      <4> QED
        BY <1>1, <2>6, <4>1, SpansAddUp
    <3> QED
      BY <2>5, <3>1
  <2>8. CountEffectiveDays(a, f - 1, m.buffers) = base + slip - 1
    <3>1. a <= f /\ f - 1 \in Int
      BY <1>1, <2>6
    <3>2. CountEffectiveDays(a, f, m.buffers)
             = CountEffectiveDays(a, f - 1, m.buffers)
               + (IF Weekday(f) \in m.buffers THEN 0 ELSE 1)
      BY <1>1, <2>6, <3>1, OneDayMore
    <3>3. CountEffectiveDays(a, f - 1, m.buffers) \in Nat
      BY <1>1, <3>1, EffIsCard
    <3> HIDE DEF f, slip, base
    <3> QED
      BY <1>2, <2>2, <2>5, <2>7, <3>2, <3>3
  <2> HIDE DEF f, slip, base, cap, total, rest
  <2>9. cap * (base + slip) = p + slip * cap /\ slip * cap \in Nat
    <3> HIDE DEF p
    <3>1. p = base * cap
      BY DEF p
    <3> QED
      BY <1>1, <1>2, <2>2, <3>1, SMT
  <2>10. cap * (base + slip - 1) = p + (slip - 1) * cap /\ (slip - 1) * cap \in Nat
    <3>1. slip - 1 \in Nat
      BY <2>2, <2>3
    <3>2. \A x \in Nat, y \in Nat, z \in Nat : x * (y + z) = y * x + z * x /\ z * x \in Nat
      BY SMT
    <3>3. base + slip - 1 = base + (slip - 1)
      BY <1>2, <2>2
    <3> QED
      BY <1>1, <1>2, <3>1, <3>2, <3>3
  <2>11. total <= cap * (base + slip)
    <3> DEFINE s == slip * cap
    <3>1. rest <= s /\ s \in Nat /\ cap * (base + slip) = p + s
      BY <2>2, <2>9
    <3>2. total = p + rest
      BY <1>1, <2>0 DEF rest
    <3> HIDE DEF s, p
    <3> QED
      BY <2>0, <3>1, <3>2
  <2>12. cap * (base + slip - 1) < total
    <3> DEFINE s == (slip - 1) * cap
    <3>1. ~(rest <= s) /\ s \in Nat /\ cap * (base + slip - 1) = p + s
      BY <2>3, <2>10
    <3>2. total = p + rest
      BY <1>1, <2>0 DEF rest
    <3> HIDE DEF s, p
    <3> QED
      BY <2>0, <3>1, <3>2
  <2> QED
    BY <2>7, <2>8, <2>11, <2>12 DEF f, slip, base, cap, total
<1> QED
  BY <1>6, <1>7

\* What the form tells is true of every form it can judge: a plan called ok
\* fits its calendar and has no overrun, a tight one without buffer days does
\* not fit, and an extension is projected to the first day that has room.
THEOREM FormsHonest == \A m : Judged(m) => Honest(m)
<1> SUFFICES ASSUME NEW m, Judged(m) PROVE Honest(m)
  OBVIOUS
<1>1. DeadlinePast(m) =>
        LET cap == NewPerDayCap(m)
            room(d) == cap * CountEffectiveDays(m.start_date, d, m.buffers)
        IN  /\ TotalUnits(m) <= room(ProjectedFinish(m))
            /\ SlipDays(m) > 0 => room(ProjectedFinish(m) - 1) < TotalUnits(m)
  BY ExtensionHonest
<1>2. FirstDeadline(m) >= m.start_date =>
        /\ Status(m) = "ok" =>
              /\ DelayDays(m) = 0
              /\ m.required_reviews > 0 =>
                    \A d \in m.start_date .. TimelineEnd(m) : ~OverrunNew(m, d)
        /\ m.buffers = {} /\ Status(m) = "tight" => DelayDays(m) > 0
  BY StatusHonest
<1> QED
  BY <1>1, <1>2 DEF Honest

\* The saved material and every preview are judged so.
THEOREM DiagnosisHonestAlways == Spec => []DiagnosisHonest
<1>1. Misdiagnosed = {}
  BY FormsHonest, FormsAssumption DEF Misdiagnosed, Diagnosed, Judged
<1>2. DiagnosisHonest
  BY <1>1 DEF DiagnosisHonest
<1> QED
  BY <1>2, PTL

-----------------------------------------------------------------------------
(* Euclid's algorithm: Gcd divides both numbers, and is a sum of multiples  *)
(* of them, so that every common divisor divides it.                        *)

Goes(g, n) == \E k \in Int : n = g * k

Sums(g, a, b) == \E u, v \in Int : g = u * a + v * b

Gcds(p) == {g \in Nat : Goes(g, p[1]) /\ Goes(g, p[2]) /\ Sums(g, p[1], p[2])}

\* The greatest common divisor is that of the smaller number and the remainder.
LEMMA GcdsStep ==
    ASSUME NEW a \in Nat, NEW b \in Nat \ {0}
    PROVE  a % b \in 0 .. b - 1 /\ Gcds(<<a, b>>) = Gcds(<<b, a % b>>)
<1> DEFINE q == a \div b
           r == a % b
<1>1. q \in Int /\ r \in 0 .. b - 1 /\ a = b * q + r
  OBVIOUS
<1> HIDE DEF q, r
<1>2. ASSUME NEW g \in Nat, Goes(g, a), Goes(g, b) PROVE Goes(g, r)
  <2>1. PICK k \in Int : a = g * k
    BY <1>2 DEF Goes
  <2>2. PICK l \in Int : b = g * l
    BY <1>2 DEF Goes
  <2>3. r = g * (k - l * q)
    BY <1>1, <2>1, <2>2
  <2>4. k - l * q \in Int
    BY <1>1
  <2> QED
    BY <2>3, <2>4 DEF Goes
<1>3. ASSUME NEW g \in Nat, Goes(g, b), Goes(g, r) PROVE Goes(g, a)
  <2>1. PICK k \in Int : r = g * k
    BY <1>3 DEF Goes
  <2>2. PICK l \in Int : b = g * l
    BY <1>3 DEF Goes
  <2>3. a = g * (k + l * q)
    BY <1>1, <2>1, <2>2
  <2>4. k + l * q \in Int
    BY <1>1
  <2> QED
    BY <2>3, <2>4 DEF Goes
<1>4. ASSUME NEW g \in Nat, NEW u \in Int, NEW v \in Int, g = u * a + v * b
      PROVE  Sums(g, b, r)
  <2>1. g = (u * q + v) * b + u * r
    BY <1>1, <1>4
  <2>2. u * q + v \in Int
    BY <1>1
  <2> QED
    BY <2>1, <2>2 DEF Sums
<1>5. ASSUME NEW g \in Nat, NEW u \in Int, NEW v \in Int, g = u * b + v * r
      PROVE  Sums(g, a, b)
  <2>1. g = v * a + (u - v * q) * b
    <3>1. r = a - b * q
      BY <1>1
    <3>2. v * r = v * a - v * (b * q)
      BY <3>1, <1>1
    <3>3. (u - v * q) * b = u * b - v * (b * q)
      BY <1>1
    <3> QED
      BY <1>1, <1>5, <3>2, <3>3
  <2>2. v \in Int /\ u - v * q \in Int
    BY <1>1
  <2> QED
    BY <2>1, <2>2 DEF Sums
<1>6. Gcds(<<a, b>>) = Gcds(<<b, r>>)
  <2>1. ASSUME NEW g \in Nat, Goes(g, a), Goes(g, b), Sums(g, a, b)
        PROVE  Goes(g, r) /\ Sums(g, b, r)
    BY <1>2, <1>4, <2>1 DEF Sums
  <2>2. ASSUME NEW g \in Nat, Goes(g, b), Goes(g, r), Sums(g, b, r)
        PROVE  Goes(g, a) /\ Sums(g, a, b)
    BY <1>3, <1>5, <2>2 DEF Sums
  <2> QED
    BY ONLY <2>1, <2>2 DEF Gcds
<1>7. r \in 0 .. b - 1
  BY <1>1
<1> QED
  BY ONLY <1>6, <1>7 DEF r

LEMMA GcdsBase == ASSUME NEW a \in Nat PROVE Gcds(<<a, 0>>) = {a}
<1>1. a \in Gcds(<<a, 0>>)
  <2>1. a = a * 1 /\ 0 = a * 0 /\ a = 1 * a + 0 * 0 /\ 0 \in Int /\ 1 \in Int
    OBVIOUS
  <2> QED
    BY <2>1 DEF Gcds, Goes, Sums
<1>2. ASSUME NEW g \in Gcds(<<a, 0>>) PROVE g = a
  <2>1. PICK k \in Int : a = g * k
    BY DEF Gcds, Goes
  <2>2. PICK u \in Int, v \in Int : g = u * a + v * 0
    BY DEF Gcds, Sums
  <2>3. g \in Nat /\ g = u * a
    BY <2>2 DEF Gcds
  <2>4. CASE a = 0
    BY <2>3, <2>4
  <2>5. CASE a # 0
    <3>1. k > 0 /\ u > 0
      <4>1. ~(k <= 0)
        BY <2>1, <2>3, <2>5
      <4>2. ~(u <= 0)
        BY <2>1, <2>3, <2>5
      <4> QED
        BY <4>1, <4>2
    <3>2. a >= g /\ g >= a
      BY <2>1, <2>3, <3>1
    <3> QED
      BY <2>3, <3>2
  <2> QED
    BY <2>4, <2>5
<1> QED
  BY <1>1, <1>2

\* Gcd is what its recursive definition says.
LEMMA GcdUnfolds ==
    ASSUME NEW a \in Nat, NEW b \in Nat
    PROVE  Gcd[<<a, b>>] = IF b = 0 THEN a ELSE Gcd[<<b, a % b>>]
<1> DEFINE Pair == Nat \X Nat
           Body(f, p) == IF p[2] = 0 THEN p[1] ELSE f[<<p[2], p[1] % p[2]>>]
           Fits(f) == f = [p \in Pair |-> Body(f, p)]
           g == [p \in Pair |-> CHOOSE d : d \in Gcds(p)]
<1>1. \A p \in Pair : g[p] = Body(g, p)
  <2> SUFFICES ASSUME NEW p \in Pair PROVE g[p] = Body(g, p)
    OBVIOUS
  <2>1. PICK i \in Nat, j \in Nat : p = <<i, j>>
    OBVIOUS
  <2>2. g[p] = CHOOSE d : d \in Gcds(<<i, j>>)
    BY <2>1
  <2>3. CASE j = 0
    <3>1. g[p] = i
      BY <2>2, <2>3, GcdsBase
    <3> QED
      BY <2>1, <2>3, <3>1
  <2>4. CASE j # 0
    <3>1. i % j \in Nat /\ Gcds(<<i, j>>) = Gcds(<<j, i % j>>)
      BY <2>4, GcdsStep
    <3>2. g[<<j, i % j>>] = CHOOSE d : d \in Gcds(<<j, i % j>>)
      BY <3>1
    <3>3. Body(g, p) = g[<<j, i % j>>]
      <4> HIDE DEF g
      <4> QED
        BY <2>1, <2>4
    <3> HIDE DEF g, Body
    <3> QED
      BY <2>2, <3>1, <3>2, <3>3
  <2> QED
    BY <2>3, <2>4
<1>2. Fits(g)
  <2>1. g = [p \in Pair |-> g[p]]
    OBVIOUS
  <2> HIDE DEF g, Body, Pair
  <2> QED
    BY <1>1, <2>1
<1>3. Gcd = CHOOSE f : Fits(f)
  BY DEF Gcd
<1>4. Fits(Gcd)
  <2> HIDE DEF Fits, g
  <2> QED
    BY <1>2, <1>3
<1>5. Gcd[<<a, b>>] = Body(Gcd, <<a, b>>)
  <2>1. <<a, b>> \in Pair
    OBVIOUS
  <2> HIDE DEF Body, Pair
  <2> QED
    BY <1>4, <2>1
<1> QED
  BY <1>5

LEMMA GcdIsGcd ==
    ASSUME NEW a \in Nat, NEW b \in Nat
    PROVE  Gcd[<<a, b>>] \in Gcds(<<a, b>>)
<1> DEFINE Bad == {n \in Nat : \E i \in Nat : Gcd[<<i, n>>] \notin Gcds(<<i, n>>)}
<1> SUFFICES ASSUME Bad # {} PROVE FALSE
  OBVIOUS
<1>1. PICK n \in Bad : \A m \in Bad : n <= m
  <2>1. Bad \in SUBSET Nat
    OBVIOUS
  <2> HIDE DEF Bad
  <2> QED
    BY <2>1, Least
<1>2. PICK i \in Nat : Gcd[<<i, n>>] \notin Gcds(<<i, n>>)
  OBVIOUS
<1>3. n # 0
  BY <1>2, GcdsBase, GcdUnfolds
<1>4. i % n \in 0 .. n - 1 /\ Gcds(<<i, n>>) = Gcds(<<n, i % n>>)
  BY <1>3, GcdsStep
<1>5. Gcd[<<i, n>>] = Gcd[<<n, i % n>>]
  BY <1>3, GcdUnfolds
<1>6. i % n \in Bad
  <2>1. i % n \in Nat /\ n \in Nat
    BY <1>4
  <2>2. Gcd[<<n, i % n>>] \notin Gcds(<<n, i % n>>)
    BY <1>2, <1>4, <1>5
  <2> QED
    BY ONLY <2>1, <2>2
<1>7. i % n \in Nat /\ i % n < n
  BY <1>4
<1> QED
  BY <1>1, <1>6, <1>7

-----------------------------------------------------------------------------
(* Fractions: Same is an equivalence that the arithmetic respects, and      *)
(* Reduced gives of each of its classes one element.                        *)

LEMMA Cancel ==
    ASSUME NEW k \in Int, NEW a \in Int, NEW b \in Int, k # 0, k * a = k * b
    PROVE  a = b
<1>1. k * (a - b) = 0
  OBVIOUS
<1>2. ASSUME NEW m \in Int, m # 0 PROVE k * m # 0
  BY <1>2
<1> QED
  BY <1>1, <1>2

LEMMA Parts == ASSUME NEW x \in Fraction PROVE x[1] \in Int /\ x[2] \in Int /\ x[2] > 0 /\ x = <<x[1], x[2]>>
BY DEF Fraction

LEMMA IsFraction == ASSUME NEW n \in Int, NEW d \in Int, d > 0 PROVE <<n, d>> \in Fraction
BY DEF Fraction

LEMMA PositiveTimes == ASSUME NEW a \in Int, NEW b \in Int, a > 0, b > 0 PROVE a * b \in Int /\ a * b > 0
OBVIOUS

LEMMA WholeType == \A n \in Int : Whole(n) \in Fraction
BY IsFraction DEF Whole

LEMMA PlusType == ASSUME NEW x \in Fraction, NEW y \in Fraction PROVE Plus(x, y) \in Fraction
<1>1. x[2] * y[2] \in Int /\ x[2] * y[2] > 0
  BY Parts, PositiveTimes
<1>2. x[1] * y[2] + y[1] * x[2] \in Int
  BY Parts
<1> QED
  BY <1>1, <1>2, IsFraction DEF Plus

LEMMA NegType == ASSUME NEW x \in Fraction PROVE Neg(x) \in Fraction
BY Parts, IsFraction DEF Neg

LEMMA MinusType == ASSUME NEW x \in Fraction, NEW y \in Fraction PROVE Minus(x, y) \in Fraction
BY PlusType, NegType DEF Minus

LEMMA TimesType == ASSUME NEW x \in Fraction, NEW y \in Fraction PROVE Times(x, y) \in Fraction
<1>1. x[2] * y[2] \in Int /\ x[2] * y[2] > 0
  BY Parts, PositiveTimes
<1>2. x[1] * y[1] \in Int
  BY Parts
<1> QED
  BY <1>1, <1>2, IsFraction DEF Times

LEMMA RatioType == ASSUME NEW x \in Fraction, NEW y \in Fraction, ~IsZero(y) PROVE Ratio(x, y) \in Fraction
<1>1. /\ x[1] \in Int /\ x[2] \in Int /\ y[1] \in Int /\ y[2] \in Int
      /\ x[2] > 0 /\ y[2] > 0 /\ y[1] # 0
  BY Parts DEF IsZero
<1>2. CASE y[1] > 0
  <2>1. x[2] * y[1] \in Int /\ x[2] * y[1] > 0 /\ x[1] * y[2] \in Int
    BY <1>1, <1>2, PositiveTimes
  <2> QED
    BY <1>2, <2>1, IsFraction DEF Ratio
<1>3. CASE ~(y[1] > 0)
  <2>1. x[2] * (-y[1]) \in Int /\ x[2] * (-y[1]) > 0
    <3>1. -y[1] \in Int /\ -y[1] > 0
      BY <1>1, <1>3
    <3> QED
      BY <1>1, <3>1, PositiveTimes
  <2>2. -(x[2] * y[1]) = x[2] * (-y[1])
    BY <1>1
  <2>3. -(x[1] * y[2]) \in Int
    BY <1>1
  <2> QED
    BY <1>3, <2>1, <2>2, <2>3, IsFraction DEF Ratio
<1> QED
  BY <1>2, <1>3

LEMMA MagnitudeType == ASSUME NEW x \in Fraction PROVE Magnitude(x) \in Fraction
BY NegType DEF Magnitude

LEMMA SameSym == ASSUME NEW x, NEW y, Same(x, y) PROVE Same(y, x)
BY DEF Same

LEMMA SameTrans ==
    ASSUME NEW x \in Fraction, NEW y \in Fraction, NEW z \in Fraction, Same(x, y), Same(y, z)
    PROVE  Same(x, z)
<1>1. /\ x[1] \in Int /\ x[2] \in Int /\ y[1] \in Int /\ y[2] \in Int /\ y[2] # 0
      /\ z[1] \in Int /\ z[2] \in Int
  BY Parts
<1>2. x[1] * y[2] = y[1] * x[2] /\ y[1] * z[2] = z[1] * y[2]
  BY DEF Same
<1>3. (x[1] * y[2]) * z[2] = (y[1] * z[2]) * x[2]
  BY <1>1, <1>2
<1>4. y[2] * (x[1] * z[2]) = y[2] * (z[1] * x[2])
  BY <1>1, <1>2, <1>3
<1>5. x[1] * z[2] \in Int /\ z[1] * x[2] \in Int
  BY <1>1
<1> QED
  BY ONLY <1>1, <1>4, <1>5, Cancel DEF Same

LEMMA PlusSame ==
    ASSUME NEW x \in Fraction, NEW y \in Fraction, NEW v \in Fraction, NEW w \in Fraction,
           Same(x, v), Same(y, w)
    PROVE  Same(Plus(x, y), Plus(v, w))
<1>1. /\ x[1] \in Int /\ x[2] \in Int /\ y[1] \in Int /\ y[2] \in Int
      /\ v[1] \in Int /\ v[2] \in Int /\ w[1] \in Int /\ w[2] \in Int
  BY Parts
<1>2. x[1] * v[2] = v[1] * x[2] /\ y[1] * w[2] = w[1] * y[2]
  BY DEF Same
<1>3. /\ (x[1] * v[2]) * (y[2] * w[2]) = (v[1] * x[2]) * (y[2] * w[2])
      /\ (y[1] * w[2]) * (x[2] * v[2]) = (w[1] * y[2]) * (x[2] * v[2])
  BY <1>1, <1>2
<1>4. (x[1] * y[2] + y[1] * x[2]) * (v[2] * w[2])
        = (x[1] * v[2]) * (y[2] * w[2]) + (y[1] * w[2]) * (x[2] * v[2])
  BY ONLY <1>1
<1>5. (v[1] * w[2] + w[1] * v[2]) * (x[2] * y[2])
        = (v[1] * x[2]) * (y[2] * w[2]) + (w[1] * y[2]) * (x[2] * v[2])
  BY ONLY <1>1
<1>6. (x[1] * y[2] + y[1] * x[2]) * (v[2] * w[2]) = (v[1] * w[2] + w[1] * v[2]) * (x[2] * y[2])
  BY ONLY <1>3, <1>4, <1>5
<1> QED
  BY ONLY <1>6 DEF Same, Plus

LEMMA NegSame ==
    ASSUME NEW x \in Fraction, NEW v \in Fraction, Same(x, v)
    PROVE  Same(Neg(x), Neg(v))
<1>1. x[1] \in Int /\ x[2] \in Int /\ v[1] \in Int /\ v[2] \in Int /\ x[1] * v[2] = v[1] * x[2]
  BY Parts DEF Same
<1>2. (-x[1]) * v[2] = (-v[1]) * x[2]
  BY <1>1
<1> QED
  BY <1>2 DEF Same, Neg

LEMMA MinusSame ==
    ASSUME NEW x \in Fraction, NEW y \in Fraction, NEW v \in Fraction, NEW w \in Fraction,
           Same(x, v), Same(y, w)
    PROVE  Same(Minus(x, y), Minus(v, w))
BY PlusSame, NegSame, NegType DEF Minus

LEMMA TimesSame ==
    ASSUME NEW x \in Fraction, NEW y \in Fraction, NEW v \in Fraction, NEW w \in Fraction,
           Same(x, v), Same(y, w)
    PROVE  Same(Times(x, y), Times(v, w))
<1>1. /\ x[1] \in Int /\ x[2] \in Int /\ y[1] \in Int /\ y[2] \in Int
      /\ v[1] \in Int /\ v[2] \in Int /\ w[1] \in Int /\ w[2] \in Int
  BY Parts
<1>2. x[1] * v[2] = v[1] * x[2] /\ y[1] * w[2] = w[1] * y[2]
  BY DEF Same
<1>3. (x[1] * v[2]) * (y[1] * w[2]) = (v[1] * x[2]) * (w[1] * y[2])
  BY <1>2
<1>4. (x[1] * y[1]) * (v[2] * w[2]) = (x[1] * v[2]) * (y[1] * w[2])
  BY ONLY <1>1
<1>5. (v[1] * w[1]) * (x[2] * y[2]) = (v[1] * x[2]) * (w[1] * y[2])
  BY ONLY <1>1
<1> QED
  BY ONLY <1>3, <1>4, <1>5 DEF Same, Times

-----------------------------------------------------------------------------
(* Lowest terms *)

\* No number but 1 divides numerator and denominator.
Lowest(x) == Sums(1, x[1], x[2])

LEMMA Division ==
    ASSUME NEW n \in Int, NEW d \in Nat \ {0}
    PROVE  n \div d \in Int /\ n % d \in 0 .. d - 1 /\ n = d * (n \div d) + (n % d)
OBVIOUS

\* There is one way only to divide with a remainder.
LEMMA DivisionUnique ==
    ASSUME NEW d \in Nat \ {0}, NEW n \in Int, NEW q \in Int, NEW r \in 0 .. d - 1, n = d * q + r
    PROVE  n \div d = q /\ n % d = r
<1> DEFINE j == q - n \div d
<1>1. n \div d \in Int /\ n % d \in 0 .. d - 1 /\ n = d * (n \div d) + (n % d)
  BY Division
<1>2. j \in Int /\ d * j = (n % d) - r
  BY <1>1
<1>3. (n % d) - r < d /\ (n % d) - r > -d
  BY <1>1
<1> HIDE DEF j
<1>4. ~(j >= 1)
  <2> SUFFICES ASSUME j >= 1 PROVE FALSE
    OBVIOUS
  <2>1. d * j >= d
    BY <1>2
  <2> QED
    BY ONLY <1>2, <1>3, <2>1
<1>5. ~(j <= -1)
  <2> SUFFICES ASSUME j <= -1 PROVE FALSE
    OBVIOUS
  <2>1. d * j <= -d
    BY <1>2
  <2> QED
    BY <1>1, <1>2, <1>3, <2>1
<1>6. j = 0
  BY <1>2, <1>4, <1>5
<1> QED
  BY <1>1, <1>6 DEF j

LEMMA ExactDivision ==
    ASSUME NEW d \in Nat \ {0}, NEW i \in Int
    PROVE  (d * i) % d = 0 /\ (d * i) \div d = i
<1>1. d * i \in Int /\ d * i = d * i + 0 /\ 0 \in 0 .. d - 1
  OBVIOUS
<1> QED
  BY <1>1, DivisionUnique

LEMMA ReducedLowest ==
    ASSUME NEW x \in Fraction
    PROVE  Reduced(x) \in Fraction /\ Same(Reduced(x), x) /\ Lowest(Reduced(x))
<1> DEFINE m == Magnitude(x)[1]
           d == Gcd[<<m, x[2]>>]
<1>1. x[1] \in Int /\ x[2] \in Int /\ x[2] > 0 /\ x = <<x[1], x[2]>>
  BY Parts
<1>2. m \in Nat /\ (m = x[1] \/ m = -x[1])
  BY <1>1 DEF Magnitude, Neg
<1> HIDE DEF m
<1>3. d \in Gcds(<<m, x[2]>>)
  BY <1>1, <1>2, GcdIsGcd
<1> HIDE DEF d
<1>4. d \in Nat
  BY <1>3 DEF Gcds
<1>5. PICK k \in Int : x[1] = d * k
  <2>1. PICK k \in Int : m = d * k
    BY <1>3 DEF Gcds, Goes
  <2>2. m = x[1] \/ x[1] = d * (-k)
    BY <1>1, <1>2, <1>4, <2>1
  <2>3. -k \in Int
    OBVIOUS
  <2> QED
    BY <2>1, <2>2, <2>3
<1>6. PICK l \in Int : x[2] = d * l
  BY <1>3 DEF Gcds, Goes
<1>7. d > 0 /\ l > 0
  <2>1. d # 0
    BY <1>1, <1>6
  <2>2. ~(l <= 0)
    BY <1>1, <1>4, <1>6, <2>1
  <2> QED
    BY <1>4, <2>1, <2>2
<1>8. x[1] % d = 0 /\ x[1] \div d = k /\ x[2] % d = 0 /\ x[2] \div d = l
  <2>1. d \in Nat \ {0}
    BY <1>4, <1>7
  <2> QED
    BY <1>5, <1>6, <2>1, ExactDivision
<1>9. Reduced(x) = <<k, l>>
  <2>1. Divides(d, x)
    BY <1>4, <1>7, <1>8 DEF Divides
  <2> QED
    BY <1>8, <2>1 DEF Reduced, d, m
<1>10. Reduced(x) \in Fraction
  BY <1>7, <1>9, IsFraction
<1>11. Same(<<k, l>>, x)
  <2>1. k * x[2] = x[1] * l
    BY <1>4, <1>5, <1>6
  <2> QED
    BY <2>1 DEF Same
<1>12. Sums(1, k, l)
  <2>1. PICK u \in Int, v \in Int : d = u * m + v * x[2]
    BY <1>3 DEF Gcds, Sums
  <2>2. PICK w \in Int : u * m = w * x[1]
    <3>1. CASE m = x[1]
      BY <3>1
    <3>2. CASE m = -x[1]
      <4>1. u * m = (-u) * x[1] /\ -u \in Int
        BY <1>1, <3>2
      <4> QED
        BY <4>1
    <3> QED
      BY <1>2, <3>1, <3>2
  <2>3. d = w * (d * k) + v * (d * l)
    BY <2>1, <2>2, <1>5, <1>6
  <2>4. d * 1 = d * (w * k + v * l) /\ w * k + v * l \in Int
    BY <1>4, <2>3
  <2>5. 1 = w * k + v * l
    BY <1>4, <1>7, <2>4, Cancel
  <2> QED
    BY <2>5 DEF Sums
<1> QED
  BY <1>9, <1>10, <1>11, <1>12 DEF Lowest

\* Of two of the same value in lowest terms, the one's denominator divides the other's.
LEMMA LowestDivides ==
    ASSUME NEW x \in Fraction, NEW y \in Fraction, Same(x, y), Lowest(x)
    PROVE  Goes(x[2], y[2])
<1>1. /\ x[1] \in Int /\ x[2] \in Int /\ y[1] \in Int /\ y[2] \in Int
      /\ x[1] * y[2] = y[1] * x[2]
  BY Parts DEF Same
<1>2. PICK u \in Int, v \in Int : 1 = u * x[1] + v * x[2]
  BY DEF Lowest, Sums
<1>3. y[2] = u * (x[1] * y[2]) + v * x[2] * y[2]
  <2>1. y[2] * 1 = y[2] * (u * x[1] + v * x[2])
    BY <1>2
  <2> QED
    BY <1>1, <2>1
<1>4. y[2] = x[2] * (u * y[1] + v * y[2]) /\ u * y[1] + v * y[2] \in Int
  BY <1>1, <1>3
<1> QED
  BY <1>4 DEF Goes

LEMMA LowestUnique ==
    ASSUME NEW x \in Fraction, NEW y \in Fraction, Same(x, y), Lowest(x), Lowest(y)
    PROVE  x = y
<1>1. /\ x[1] \in Int /\ x[2] \in Int /\ y[1] \in Int /\ y[2] \in Int
      /\ x[2] > 0 /\ y[2] > 0 /\ x[1] * y[2] = y[1] * x[2]
      /\ x = <<x[1], x[2]>> /\ y = <<y[1], y[2]>>
  BY Parts DEF Same
<1>2. PICK k \in Int : y[2] = x[2] * k
  BY LowestDivides DEF Goes
<1>3. PICK l \in Int : x[2] = y[2] * l
  BY LowestDivides, SameSym DEF Goes
<1>4. k > 0 /\ l > 0
  <2>1. ~(k <= 0)
    BY <1>1, <1>2
  <2>2. ~(l <= 0)
    BY <1>1, <1>3
  <2> QED
    BY <2>1, <2>2
<1>5. y[2] >= x[2]
  BY <1>1, <1>2, <1>4
<1>6. x[2] >= y[2]
  BY <1>1, <1>3, <1>4
<1>7. x[2] = y[2]
  BY <1>1, <1>5, <1>6
<1>8. x[2] * x[1] = x[2] * y[1]
  BY <1>1, <1>7
<1>9. x[1] = y[1]
  BY <1>1, <1>8, Cancel
<1> QED
  BY <1>1, <1>7, <1>9

\* Reduced is a normal form: the same values, and only they, have the same one.
THEOREM ReducedCanonical ==
    ASSUME NEW x \in Fraction, NEW y \in Fraction
    PROVE  Same(x, y) <=> Reduced(x) = Reduced(y)
<1>1. ASSUME Same(x, y) PROVE Reduced(x) = Reduced(y)
  <2>1. Same(Reduced(x), Reduced(y))
    BY <1>1, ReducedLowest, SameSym, SameTrans
  <2> QED
    BY <2>1, ReducedLowest, LowestUnique
<1>2. ASSUME Reduced(x) = Reduced(y) PROVE Same(x, y)
  BY <1>2, ReducedLowest, SameSym, SameTrans
<1> QED
  BY <1>1, <1>2

LEMMA LowestReduced ==
    ASSUME NEW x \in Fraction, Lowest(x)
    PROVE  Reduced(x) = x
BY ReducedLowest, LowestUnique

-----------------------------------------------------------------------------
(* Sizes of sets *)

LEMMA ThreeElements ==
    ASSUME NEW a, NEW b, NEW c, a # b, a # c, b # c
    PROVE  IsFiniteSet({a, b, c}) /\ Cardinality({a, b, c}) = 3
<1>1. IsFiniteSet({a}) /\ Cardinality({a}) = 1
  BY FS_Singleton
<1>2. IsFiniteSet({a} \cup {b}) /\ Cardinality({a} \cup {b}) = 2
  <2>1. b \notin {a}
    OBVIOUS
  <2> QED
    BY ONLY <1>1, <2>1, FS_AddElement
<1>3. IsFiniteSet(({a} \cup {b}) \cup {c}) /\ Cardinality(({a} \cup {b}) \cup {c}) = 3
  <2>1. c \notin {a} \cup {b}
    OBVIOUS
  <2> QED
    BY ONLY <1>2, <2>1, FS_AddElement
<1>4. ({a} \cup {b}) \cup {c} = {a, b, c}
  OBVIOUS
<1> QED
  BY <1>3, <1>4

LEMMA ExactlyThree ==
    ASSUME NEW S, NEW a \in S, NEW b \in S, NEW c \in S, a # b, a # c, b # c,
           \A x \in S : x = a \/ x = b \/ x = c
    PROVE  IsFiniteSet(S) /\ Cardinality(S) = 3
<1>1. S = {a, b, c}
  OBVIOUS
<1>2. IsFiniteSet({a, b, c})
  BY ThreeElements, Zenon
<1>3. Cardinality({a, b, c}) = 3
  BY ThreeElements, Zenon
<1> QED
  BY ONLY <1>1, <1>2, <1>3

\* As many values as arguments, when no two arguments have the same value.
LEMMA ImageSize ==
    ASSUME NEW S, IsFiniteSet(S), NEW f, \A x, y \in S : f[x] = f[y] => x = y
    PROVE  IsFiniteSet({f[x] : x \in S}) /\ Cardinality({f[x] : x \in S}) = Cardinality(S)
<1> DEFINE T == {f[x] : x \in S}
           g == [x \in S |-> f[x]]
<1>1. g \in Bijection(S, T)
  BY DEF Bijection, Injection, Surjection, IsInjective
<1>2. ExistsBijection(S, T)
  BY <1>1 DEF ExistsBijection
<1> QED
  BY <1>2, FS_Bijection

LEMMA FiniteImage ==
    ASSUME NEW S, IsFiniteSet(S), NEW f
    PROVE  IsFiniteSet({f[x] : x \in S})
<1> DEFINE T == {f[x] : x \in S}
           g == [x \in S |-> f[x]]
<1>1. g \in Surjection(S, T)
  BY DEF Surjection
<1> QED
  BY <1>1, FS_Surjection

LEMMA FiniteEight ==
    ASSUME NEW a, NEW b, NEW c, NEW d, NEW e, NEW f, NEW g, NEW h
    PROVE  IsFiniteSet({a, b, c, d, e, f, g, h})
<1>1. IsFiniteSet({a, b, c, d})
  <2>1. IsFiniteSet({a} \cup {b}) /\ IsFiniteSet({c} \cup {d})
    BY FS_Singleton, FS_Union
  <2>2. IsFiniteSet(({a} \cup {b}) \cup ({c} \cup {d}))
    BY ONLY <2>1, FS_Union
  <2>3. ({a} \cup {b}) \cup ({c} \cup {d}) = {a, b, c, d}
    OBVIOUS
  <2> QED
    BY ONLY <2>2, <2>3
<1>2. IsFiniteSet({e, f, g, h})
  <2>1. IsFiniteSet({e} \cup {f}) /\ IsFiniteSet({g} \cup {h})
    BY FS_Singleton, FS_Union
  <2>2. IsFiniteSet(({e} \cup {f}) \cup ({g} \cup {h}))
    BY ONLY <2>1, FS_Union
  <2>3. ({e} \cup {f}) \cup ({g} \cup {h}) = {e, f, g, h}
    OBVIOUS
  <2> QED
    BY ONLY <2>2, <2>3
<1>3. IsFiniteSet({a, b, c, d} \cup {e, f, g, h})
  BY ONLY <1>1, <1>2, FS_Union
<1>4. {a, b, c, d} \cup {e, f, g, h} = {a, b, c, d, e, f, g, h}
  OBVIOUS
<1> QED
  BY ONLY <1>3, <1>4

\* A finite set with three different elements has at least three.
LEMMA AtLeastThree ==
    ASSUME NEW S, IsFiniteSet(S), NEW a \in S, NEW b \in S, NEW c \in S, a # b, a # c, b # c
    PROVE  Cardinality(S) >= 3
<1>1. {a, b, c} \in SUBSET S
  OBVIOUS
<1>2. Cardinality({a, b, c}) = 3
  BY ThreeElements
<1>3. Cardinality({a, b, c}) <= Cardinality(S) /\ Cardinality(S) \in Nat
  BY <1>1, FS_Subset, FS_CardinalityType
<1> QED
  BY ONLY <1>2, <1>3

-----------------------------------------------------------------------------
(* Clock problems *)

\* A printed time is read as the time it was.
LEMMA TextIsRead ==
    ASSUME NEW t \in Nat, t < 1440, NEW style \in Styles
    PROVE  Read(Text(t, style)) = t
<1> DEFINE h == t \div 60
           m == t % 60
<1>1. h \in Nat /\ h < 24 /\ m \in Nat /\ m < 60 /\ t = h * 60 + m
  OBVIOUS
<1> HIDE DEF h, m
<1>2. CASE style = "24h"
  <2>1. Text(t, style) = <<"", h, m>>
    BY <1>2 DEF Text, h, m
  <2>2. Read(<<"", h, m>>) = h * 60 + m
    BY DEF Read
  <2>3. h * 60 + m = t
    BY ONLY <1>1
  <2> QED
    BY ONLY <2>1, <2>2, <2>3, Zenon
<1>3. CASE style = "am_pm"
  <2> DEFINE half == IF h % 12 = 0 THEN 12 ELSE h % 12
  <2>1. Text(t, style) = <<IF h < 12 THEN "am" ELSE "pm", half, m>>
    BY <1>3 DEF Text, h, m
  <2>2. CASE h < 12
    <3>1. half \in Nat /\ half >= 1 /\ half <= 12 /\ h = IF half # 12 THEN half ELSE 0
      BY <1>1, <2>2
    <3> HIDE DEF half
    <3>2. Read(<<"am", half, m>>) = (IF half # 12 THEN half ELSE 0) * 60 + m
      BY DEF Read
    <3> QED
      BY <1>1, <2>1, <2>2, <3>1, <3>2
  <2>3. CASE ~(h < 12)
    <3>1. half \in Nat /\ half >= 1 /\ half <= 12 /\ h = IF half = 12 THEN 12 ELSE (half % 12) + 12
      BY <1>1, <2>3
    <3> HIDE DEF half
    <3>2. Read(<<"pm", half, m>>) = (IF half = 12 THEN 12 ELSE (half % 12) + 12) * 60 + m
      BY DEF Read
    <3> QED
      BY <1>1, <2>1, <2>3, <3>1, <3>2
  <2> QED
    BY <2>2, <2>3
<1> QED
  BY <1>2, <1>3 DEF Styles

LEMMA MovedType ==
    ASSUME NEW t \in Int, NEW m \in Int
    PROVE  Moved(t, m) \in Nat /\ Moved(t, m) < 1440
BY DEF Moved, Day

LEMMA MovedSame == ASSUME NEW t \in Nat, t < 1440 PROVE Moved(t, 0) = t
BY DEF Moved, Day

\* A move is undone by the same move back, and by no other that is less than a day
\* away from it.
LEMMA MovedBack ==
    ASSUME NEW t \in Nat, t < 1440, NEW m \in Int, NEW k \in Int, m + k < 1440, m + k > -1440
    PROVE  Moved(Moved(t, m), k) = t <=> m + k = 0
<1>1. Moved(Moved(t, m), k) = (((t + m) % 1440) + k) % 1440
  BY DEF Moved, Day
<1>2. (((t + m) % 1440) + k) % 1440 = (t + m + k) % 1440
  OBVIOUS
<1>3. (t + m + k) % 1440 = t <=> m + k = 0
  OBVIOUS
<1> QED
  BY <1>1, <1>2, <1>3

\* Two moves that end at one time are the same, or a day apart.
LEMMA MovedApart ==
    ASSUME NEW t \in Nat, t < 1440, NEW m \in Int, NEW n \in Int, m < n + 1440, n < m + 1440,
           Moved(t, m) = Moved(t, n)
    PROVE  m = n
<1>1. (t + m) % 1440 = (t + n) % 1440
  BY DEF Moved, Day
<1> QED
  BY <1>1

\* On a dial, two moves that differ by less than twelve hours differ.
LEMMA DialApart ==
    ASSUME NEW t \in Nat, t < 1440, NEW m \in Int, NEW n \in Int, m < n + 720, n < m + 720,
           Dial(Moved(t, m)) = Dial(Moved(t, n))
    PROVE  m = n
<1>1. ((t + m) % 1440) % 720 = ((t + n) % 1440) % 720
  BY DEF Moved, Day, Dial
<1>2. (t + m) % 720 = (t + n) % 720
  BY <1>1
<1> QED
  BY <1>2

\* Three times less than twelve hours from a time, and from each other, are three
\* choices and look different from it on a dial.
LEMMA ThreeMoved ==
    ASSUME NEW t \in Nat, t < 1440, NEW S \in SUBSET Int, IsFiniteSet(S), Cardinality(S) = 3,
           \A d \in S : d # 0 /\ -120 <= d /\ d <= 120
    PROVE  /\ Cardinality({Text(Moved(t, d), "24h") : d \in S}) = 3
           /\ \A d \in S : Dial(Read(Text(Moved(t, d), "24h"))) # Dial(t)
<1> DEFINE f == [d \in S |-> Text(Moved(t, d), "24h")]
<1>2. ASSUME NEW d \in S
      PROVE  Read(Text(Moved(t, d), "24h")) = Moved(t, d)
  <2>1. d \in Int /\ t \in Int
    OBVIOUS
  <2>2. Moved(t, d) \in Nat /\ Moved(t, d) < 1440
    BY <2>1 DEF Moved, Day
  <2> QED
    BY <2>2, TextIsRead DEF Styles
<1>4. ASSUME NEW d \in S, NEW e \in S, f[d] = f[e] PROVE d = e
  <2>1. Moved(t, d) = Moved(t, e)
    BY <1>2, <1>4
  <2>2. d \in Int /\ e \in Int /\ d < e + 1440 /\ e < d + 1440
    OBVIOUS
  <2> QED
    BY <2>1, <2>2, MovedApart
<1>5. {f[d] : d \in S} = {Text(Moved(t, d), "24h") : d \in S}
  OBVIOUS
<1>6. Cardinality({f[d] : d \in S}) = 3
  <2> HIDE DEF f
  <2>1. \A d, e \in S : f[d] = f[e] => d = e
    BY ONLY <1>4
  <2>2. Cardinality({f[d] : d \in S}) = Cardinality(S)
    BY ONLY <2>1, IsFiniteSet(S), ImageSize
  <2> QED
    BY ONLY <2>2, Cardinality(S) = 3
<1>7. ASSUME NEW d \in S PROVE Dial(Read(Text(Moved(t, d), "24h"))) # Dial(t)
  <2>1. d \in Int /\ d < 0 + 720 /\ 0 < d + 720 /\ d # 0
    OBVIOUS
  <2>2. Dial(Moved(t, d)) # Dial(Moved(t, 0))
    BY <2>1, DialApart
  <2> QED
    BY <1>2, <2>2, MovedSame
<1> QED
  BY ONLY <1>5, <1>6, <1>7

\* An offset that is added or subtracted.
LEMMA Offset ==
    ASSUME NEW s \in {-1, 1}, NEW o \in {5, 10, 15, 20, 25, 30, 60, 120}
    PROVE  /\ s * o \in Int /\ -120 <= s * o /\ s * o <= 120 /\ s * o # 0
           /\ s * o = o \/ s * o = -o
<1>1. CASE s = 1
  <2>1. s * o = o
    BY <1>1
  <2> QED
    BY <2>1
<1>2. CASE s = -1
  <2>1. s * o = -o
    BY <1>2
  <2> QED
    BY <2>1
<1> QED
  BY <1>1, <1>2

LEMMA ReadTimeRight == ReadTime => ClockRight'
<1> SUFFICES ASSUME ReadTime PROVE ClockRight'
  OBVIOUS
<1>1. PICK h \in Hours \cap 1 .. 12, m \in Minutes \ {0},
           o1 \in {5, 10, 15, 20, 25, 30}, o2 \in {5, 10, 15, 20, 25, 30}, o3 \in {60, 120},
           s1 \in {-1, 1}, s2 \in {-1, 1}, s3 \in {-1, 1} :
        /\ o1 # o2
        /\ LET t == h * 60 + m
           IN clock' = Asked("read_time", t, "24h", FALSE, "", "", 0, Text(t, "24h"),
                             {Text(Moved(t, d), "24h") : d \in {s1 * o1, s2 * o2, s3 * o3}})
  BY DEF ReadTime
<1> DEFINE t == h * 60 + m
           S == {s1 * o1, s2 * o2, s3 * o3}
           wrong == {Text(Moved(t, d), "24h") : d \in S}
<1>2. clock' = Asked("read_time", t, "24h", FALSE, "", "", 0, Text(t, "24h"), wrong)
  BY ONLY <1>1
<1>3. t \in Nat /\ t < 1440
  BY ClockAssumption
<1>4. /\ S \in SUBSET Int /\ IsFiniteSet(S) /\ Cardinality(S) = 3
      /\ \A d \in S : d # 0 /\ -120 <= d /\ d <= 120
  <2> DEFINE a == s1 * o1
             b == s2 * o2
             c == s3 * o3
  <2>1. /\ a \in Int /\ -120 <= a /\ a <= 120 /\ a # 0 /\ (a = o1 \/ a = -o1)
        /\ b \in Int /\ -120 <= b /\ b <= 120 /\ b # 0 /\ (b = o2 \/ b = -o2)
        /\ c \in Int /\ -120 <= c /\ c <= 120 /\ c # 0 /\ (c = o3 \/ c = -o3)
    BY Offset
  <2>2. S = {a, b, c}
    OBVIOUS
  <2>3. o1 # o2
    BY <1>1
  <2> HIDE DEF a, b, c, S
  <2>4. a # b /\ a # c /\ b # c
    BY <2>1, <2>3
  <2>5. \A x \in S : x = a \/ x = b \/ x = c
    BY ONLY <2>2
  <2>6. a \in S /\ b \in S /\ c \in S
    BY ONLY <2>2
  <2>7. IsFiniteSet(S) /\ Cardinality(S) = 3
    BY ONLY <2>4, <2>5, <2>6, ExactlyThree
  <2> QED
    BY ONLY <2>1, <2>5, <2>7
<1> HIDE DEF t, S
<1>5. Cardinality(wrong) = 3 /\ \A d \in S : Dial(Read(Text(Moved(t, d), "24h"))) # Dial(t)
  BY <1>3, <1>4, ThreeMoved
<1>6. \A w \in wrong : Dial(Read(w)) # Dial(t)
  BY ONLY <1>5
<1>7. Read(Text(t, "24h")) = t
  BY <1>3, TextIsRead DEF Styles
<1> HIDE DEF wrong
<1>8. /\ clock'.type = "read_time" /\ clock'.time = t /\ clock'.answer = Text(t, "24h")
      /\ clock'.wrong = wrong
  BY <1>2 DEF Asked
<1>9. ASSUME NEW text PROVE Answers(clock, text)' <=> Dial(Read(text)) = Dial(t)
  BY ONLY <1>8 DEF Answers, Dial, Read
<1> QED
  BY <1>5, <1>6, <1>7, <1>8, <1>9 DEF ClockRight

\* Minutes of less than a day, and of less than twelve hours.
InDay(t)  == t \in Nat /\ t < 1440
InHalf(t) == t \in Nat /\ t < 720

\* A move in a direction gives a time of day; moved back it is the time it was, and
\* by another one it is not; on a dial it is told from another one.
LEMMA SignedType ==
    ASSUME NEW t, InDay(t), NEW direction \in {"before", "after"},
           NEW m, InDay(m)
    PROVE  InDay(Moved(t, Signed(direction, m)))
BY DEF Moved, Day, Signed, InDay

LEMMA SignedBack ==
    ASSUME NEW t, InDay(t), NEW direction \in {"before", "after"},
           NEW m, InDay(m), NEW n, InDay(n)
    PROVE  Moved(Moved(t, Signed(direction, m)), -Signed(direction, n)) = t <=> m = n
<1>1. CASE direction = "before"
  <2>1. Moved(Moved(t, Signed(direction, m)), -Signed(direction, n)) = (((t - m) % 1440) + n) % 1440
    BY <1>1 DEF Moved, Day, Signed, InDay
  <2>2. (((t - m) % 1440) + n) % 1440 = (t - m + n) % 1440
    BY DEF InDay
  <2>3. (t - m + n) % 1440 = t <=> m = n
    BY DEF InDay
  <2> QED
    BY <2>1, <2>2, <2>3
<1>2. CASE direction = "after"
  <2>1. Moved(Moved(t, Signed(direction, m)), -Signed(direction, n)) = (((t + m) % 1440) - n) % 1440
    BY <1>2 DEF Moved, Day, Signed, InDay
  <2>2. (((t + m) % 1440) - n) % 1440 = (t + m - n) % 1440
    BY DEF InDay
  <2>3. (t + m - n) % 1440 = t <=> m = n
    BY DEF InDay
  <2> QED
    BY <2>1, <2>2, <2>3
<1> QED
  BY <1>1, <1>2

LEMMA SignedDial ==
    ASSUME NEW t, InDay(t), NEW direction \in {"before", "after"},
           NEW m, InHalf(m), NEW n, InHalf(n)
    PROVE  Dial(Moved(t, Signed(direction, m))) = Dial(Moved(t, Signed(direction, n))) <=> m = n
<1>1. CASE direction = "before"
  <2>1. /\ Dial(Moved(t, Signed(direction, m))) = ((t - m) % 1440) % 720
        /\ Dial(Moved(t, Signed(direction, n))) = ((t - n) % 1440) % 720
    BY <1>1 DEF Moved, Day, Signed, Dial, InDay, InHalf
  <2>2. ((t - m) % 1440) % 720 = (t - m) % 720 /\ ((t - n) % 1440) % 720 = (t - n) % 720
    BY DEF InDay, InHalf
  <2>3. (t - m) % 720 = (t - n) % 720 <=> m = n
    BY DEF InDay, InHalf
  <2> QED
    BY <2>1, <2>2, <2>3
<1>2. CASE direction = "after"
  <2>1. /\ Dial(Moved(t, Signed(direction, m))) = ((t + m) % 1440) % 720
        /\ Dial(Moved(t, Signed(direction, n))) = ((t + n) % 1440) % 720
    BY <1>2 DEF Moved, Day, Signed, Dial, InDay, InHalf
  <2>2. ((t + m) % 1440) % 720 = (t + m) % 720 /\ ((t + n) % 1440) % 720 = (t + n) % 720
    BY DEF InDay, InHalf
  <2>3. (t + m) % 720 = (t + n) % 720 <=> m = n
    BY DEF InDay, InHalf
  <2> QED
    BY <2>1, <2>2, <2>3
<1> QED
  BY <1>1, <1>2

\* A delta of a pool is a time of day's, and on two dials less than twelve hours.
LEMMA DeltaBounds ==
    ASSUME NEW t, InDay(t), NEW direction \in {"before", "after"}, NEW limit24 \in BOOLEAN,
           NEW width \in Widths, NEW m \in Ends(width, MaxMinutes(t, direction, limit24))
    PROVE  /\ InDay(m)
           /\ InHalf(t) /\ ~limit24 => InHalf(m)
<1> DEFINE max == MaxMinutes(t, direction, limit24)
<1>1. max \in Int /\ max < 1440 /\ (InHalf(t) /\ ~limit24 => max < 720)
  BY DEF MaxMinutes, InDay, InHalf
<1> HIDE DEF max
<1>2. m \in First(width) .. Last(width, max)
  BY DEF Ends, DeltaPool, max
<1>3. First(width) \in Nat
  BY DEF First
<1>4. Last(width, max) \in Int /\ Last(width, max) <= max
  BY <1>1 DEF Last
<1> QED
  BY <1>1, <1>2, <1>3, <1>4 DEF InDay, InHalf

\* The kinds of problem that are made of a time and a move.
DeltaKinds == {"without_am_pm", "two_clocks", "with_am_pm", "with_24_hours"}

\* The text of a choice.
Choice(type, t, style, direction, m) ==
    IF type = "two_clocks" THEN <<"", m \div 60, m % 60>>
    ELSE Text(Moved(t, Signed(direction, m)), style)

\* Two choices of the same text are the same move, and a choice answers the problem
\* if it is the move that was asked for.
LEMMA ChoiceRight ==
    ASSUME NEW type \in DeltaKinds, NEW t, InDay(t), NEW style \in Styles,
           NEW direction \in {"before", "after"}, NEW m, InDay(m), NEW n, InDay(n),
           type = "two_clocks" => InHalf(m) /\ InHalf(n),
           NEW p, p.type = type, p.time = t, p.direction = direction, p.delta = n
    PROVE  /\ Choice(type, t, style, direction, m) = Choice(type, t, style, direction, n) => m = n
           /\ Answers(p, Choice(type, t, style, direction, m)) <=> m = n
<1> DEFINE c(i) == Choice(type, t, style, direction, i)
<1>1. CASE type = "two_clocks"
  <2>1. c(m) = <<"", m \div 60, m % 60>> /\ c(n) = <<"", n \div 60, n % 60>>
    BY <1>1 DEF Choice
  <2>2. c(m)[2] = m \div 60 /\ c(m)[3] = m % 60 /\ c(n)[2] = n \div 60 /\ c(n)[3] = n % 60
    BY <1>1 DEF Choice
  <2>3. (m \div 60) * 60 + (m % 60) = m /\ (n \div 60) * 60 + (n % 60) = n
    BY DEF InDay
  <2> HIDE DEF c
  <2>4. c(m)[2] * 60 + c(m)[3] = m /\ c(n)[2] * 60 + c(n)[3] = n
    BY ONLY <2>2, <2>3
  <2>5. c(m) = c(n) => m = n
    BY ONLY <2>4
  <2>6. Answers(p, c(m)) <=> Dial(Moved(t, Signed(direction, c(m)[2] * 60 + c(m)[3])))
                               = Dial(Moved(t, Signed(direction, n)))
    BY <1>1 DEF Answers
  <2>7. Dial(Moved(t, Signed(direction, m))) = Dial(Moved(t, Signed(direction, n))) <=> m = n
    BY <1>1, SignedDial
  <2>8. Answers(p, c(m)) <=> m = n
    BY ONLY <2>4, <2>6, <2>7
  <2> QED
    BY ONLY <2>5, <2>8 DEF c
<1>2. CASE type # "two_clocks"
  <2> DEFINE at(i) == Moved(t, Signed(direction, i))
  <2>1. c(m) = Text(at(m), style) /\ c(n) = Text(at(n), style)
    BY <1>2 DEF Choice
  <2>2. InDay(at(m))
    BY SignedType, Zenon
  <2>3. InDay(at(n))
    BY SignedType, Zenon
  <2>4. Moved(at(m), -Signed(direction, n)) = t <=> m = n
    BY SignedBack
  <2>5. Moved(at(n), -Signed(direction, n)) = t
    BY SignedBack
  <2> HIDE DEF c, at
  <2>6. Read(c(m)) = at(m) /\ Read(c(n)) = at(n)
    BY <2>1, <2>2, <2>3, TextIsRead DEF InDay
  <2>7. Answers(p, c(m)) <=> Moved(Read(c(m)), -Signed(direction, n)) = t
    BY <1>2 DEF Answers, DeltaKinds
  <2>8. /\ c(m) = c(n) => m = n
        /\ Answers(p, c(m)) <=> m = n
    BY ONLY <2>4, <2>5, <2>6, <2>7
  <2> QED
    BY ONLY <2>8 DEF c
<1> QED
  BY <1>1, <1>2

LEMMA DeltaRight ==
    ASSUME NEW type \in DeltaKinds, NEW t, InDay(t), NEW style \in Styles, NEW limit24 \in BOOLEAN,
           NEW width \in Widths, type = "two_clocks" => InHalf(t) /\ ~limit24,
           Directions(t, width, limit24) # {}, Delta(type, t, style, limit24, width)
    PROVE  ClockRight'
<1>1. PICK direction \in Directions(t, width, limit24) :
        LET max == MaxMinutes(t, direction, limit24)
            shown(m) == IF type = "two_clocks" THEN <<"", m \div 60, m % 60>>
                        ELSE Text(Moved(t, Signed(direction, m)), style)
        IN \E delta \in Ends(width, max) : \E dummies \in Dummies(width, max, delta) :
             clock' = Asked(type, t, style, limit24, width, direction, delta, shown(delta),
                            {shown(m) : m \in dummies})
  BY DEF Delta
<1> DEFINE max == MaxMinutes(t, direction, limit24)
           c(m) == Choice(type, t, style, direction, m)
<1>0. PICK delta \in Ends(width, max) : \E dummies \in Dummies(width, max, delta) :
        clock' = Asked(type, t, style, limit24, width, direction, delta, c(delta),
                       {c(m) : m \in dummies})
  BY <1>1, Zenon DEF Choice
<1>2. PICK dummies \in Dummies(width, max, delta) :
        clock' = Asked(type, t, style, limit24, width, direction, delta, c(delta),
                       {c(m) : m \in dummies})
  BY <1>0
<1>3. direction \in {"before", "after"}
  BY DEF Directions
<1>4. /\ dummies \subseteq Ends(width, max) /\ delta \notin dummies /\ Cardinality(dummies) = 3
  BY DEF Dummies
<1>5. ASSUME NEW m \in Ends(width, max)
      PROVE  InDay(m) /\ (type = "two_clocks" => InHalf(m))
  BY <1>3, DeltaBounds
<1>6. InDay(delta) /\ (type = "two_clocks" => InHalf(delta))
  BY <1>5
<1>7. /\ clock'.type = type /\ clock'.time = t /\ clock'.direction = direction
      /\ clock'.delta = delta /\ clock'.answer = c(delta) /\ clock'.wrong = {c(m) : m \in dummies}
  BY <1>2 DEF Asked
<1>8. IsFiniteSet(dummies)
  <2>1. dummies \subseteq DeltaPool(width, max)
    BY <1>4 DEF Ends
  <2>2. First(width) \in Int /\ Last(width, max) \in Int
    BY DEF First, Last, MaxMinutes, InDay
  <2>3. IsFiniteSet(DeltaPool(width, max))
    BY <2>2, FS_Interval DEF DeltaPool
  <2> QED
    BY <2>1, <2>3, FS_Subset
<1> HIDE DEF max, c
<1>9. ASSUME NEW m \in dummies, NEW n \in dummies, c(m) = c(n) PROVE m = n
  <2>1. InDay(m) /\ InDay(n) /\ (type = "two_clocks" => InHalf(m) /\ InHalf(n))
    BY <1>4, <1>5
  <2> DEFINE p == [type |-> type, time |-> t, direction |-> direction, delta |-> n]
  <2>2. p.type = type /\ p.time = t /\ p.direction = direction /\ p.delta = n
    OBVIOUS
  <2> HIDE DEF p
  <2> QED
    BY <1>3, <1>9, <2>1, <2>2, ChoiceRight DEF c
<1>10. Cardinality({c(m) : m \in dummies}) = 3
  <2> DEFINE f == [m \in dummies |-> c(m)]
  <2>1. {f[m] : m \in dummies} = {c(m) : m \in dummies}
    OBVIOUS
  <2>2. \A m, n \in dummies : f[m] = f[n] => m = n
    BY <1>9
  <2> HIDE DEF f
  <2>3. Cardinality({f[m] : m \in dummies}) = Cardinality(dummies)
    BY ONLY <1>8, <2>2, ImageSize
  <2> QED
    BY ONLY <1>4, <2>1, <2>3
<1>11. ASSUME NEW m \in dummies \cup {delta}
       PROVE  Answers(clock, c(m))' <=> m = delta
  <2>1. InDay(m) /\ (type = "two_clocks" => InHalf(m))
    BY <1>4, <1>5, <1>6
  <2>2. Answers(clock', Choice(type, t, style, direction, m)) <=> m = delta
    BY <1>3, <1>6, <1>7, <2>1, ChoiceRight
  <2> QED
    BY ONLY <2>2 DEF c, Answers, Choice, Text, Read, Moved, Day, Signed, Dial
<1>12. clock'.type # "error"
  BY <1>7 DEF DeltaKinds
<1>13. Answers(clock, clock.answer)'
  BY <1>7, <1>11
<1>14. \A w \in clock'.wrong : ~Answers(clock, w)'
  BY <1>4, <1>7, <1>11
<1> QED
  BY <1>7, <1>10, <1>12, <1>13, <1>14 DEF ClockRight

\* In every time a kind of problem draws, some direction has room for four deltas.
LEMMA DirectionOpen ==
    ASSUME NEW t \in Nat, NEW limit24 \in BOOLEAN, NEW width \in Widths,
           IF limit24 THEN t < 1440 ELSE t >= 60 /\ t < 720
    PROVE  Directions(t, width, limit24) # {}
<1> DEFINE last(d) == Last(width, MaxMinutes(t, d, limit24))
           first == First(width)
<1>1. MaxMinutes(t, "before", limit24) = t - 1
  BY DEF MaxMinutes
<1>2. MaxMinutes(t, "after", limit24) = (IF limit24 THEN 1439 ELSE 719) - t
  BY DEF MaxMinutes
<1>3. CASE width = "less_than_one_hour"
  <2>1. first = 1 /\ \A max \in Int : Last(width, max) = IF max > 59 THEN 59 ELSE max
    BY <1>3 DEF First, Last
  <2>2. last("before") >= first + 3 \/ last("after") >= first + 3
    BY <1>1, <1>2, <2>1
  <2> QED
    BY <2>2 DEF Directions
<1>4. CASE width = "greater_than_or_equal_to_one_hour"
  <2>1. first = 60 /\ \A max \in Int : Last(width, max) = max
    BY <1>4 DEF First, Last
  <2>2. last("before") >= first + 3 \/ last("after") >= first + 3
    BY <1>1, <1>2, <2>1
  <2> QED
    BY <2>2 DEF Directions
<1> QED
  BY <1>3, <1>4 DEF Widths
\* An hour and a minute.
LEMMA HourMinute ==
    ASSUME NEW h \in Hours, NEW m \in Minutes
    PROVE  /\ h * 60 + m \in Nat /\ h * 60 + m < 1440
           /\ h \in 1 .. 11 => h * 60 + m >= 60 /\ h * 60 + m < 720
<1>1. h \in Int /\ 0 <= h /\ h <= 23 /\ m \in Int /\ 0 <= m /\ m <= 59
  BY ClockAssumption
<1>2. h \in 1 .. 11 => 1 <= h /\ h <= 11
  BY <1>1
<1> QED
  BY ONLY <1>1, <1>2

LEMMA DeltaHalf ==
    ASSUME NEW type \in {"without_am_pm", "two_clocks"}, NEW width \in Widths,
           NEW t \in Nat, t >= 60, t < 720, Delta(type, t, "24h", FALSE, width)
    PROVE  ClockRight'
<1>1. IF FALSE THEN t < 1440 ELSE t >= 60 /\ t < 720
  OBVIOUS
<1>2. Directions(t, width, FALSE) # {}
  <2>1. FALSE \in BOOLEAN
    OBVIOUS
  <2> QED
    BY ONLY <1>1, <2>1, t \in Nat, width \in Widths, DirectionOpen
<1>3. InDay(t) /\ InHalf(t)
  BY ONLY t \in Nat, t < 720 DEF InDay, InHalf
<1>4. type \in DeltaKinds /\ "24h" \in Styles /\ FALSE \in BOOLEAN
  BY ONLY type \in {"without_am_pm", "two_clocks"} DEF DeltaKinds, Styles
<1>5. type = "two_clocks" => InHalf(t) /\ ~FALSE
  BY ONLY <1>3
<1> QED
  BY ONLY <1>2, <1>3, <1>4, <1>5, width \in Widths, Delta(type, t, "24h", FALSE, width), DeltaRight

LEMMA DirectionDay ==
    ASSUME NEW t, InDay(t), NEW limit24, limit24 = TRUE, NEW width \in Widths
    PROVE  Directions(t, width, limit24) # {}
<1>1. t \in Nat /\ limit24 \in BOOLEAN /\ IF limit24 THEN t < 1440 ELSE t >= 60 /\ t < 720
  BY DEF InDay
<1> QED
  BY ONLY <1>1, width \in Widths, DirectionOpen

LEMMA DeltaDay ==
    ASSUME NEW type \in {"with_am_pm", "with_24_hours"}, NEW style \in Styles, NEW width \in Widths,
           NEW t, InDay(t), NEW limit24, limit24 = TRUE, Delta(type, t, style, limit24, width)
    PROVE  ClockRight'
<1>1. Directions(t, width, limit24) # {}
  BY ONLY InDay(t), limit24 = TRUE, width \in Widths, DirectionDay
<1>2. type \in DeltaKinds /\ type # "two_clocks" /\ limit24 \in BOOLEAN
  BY DEF DeltaKinds
<1>3. type = "two_clocks" => InHalf(t) /\ ~limit24
  BY ONLY <1>2
<1> QED
  BY ONLY <1>1, <1>2, <1>3, InDay(t), style \in Styles, width \in Widths,
          Delta(type, t, style, limit24, width), DeltaRight

\* However a problem of the clock is made, it is right.
THEOREM ClockStep == NextClock => ClockRight'
<1>1. ASSUME ReadTime PROVE ClockRight'
  BY <1>1, ReadTimeRight
<1>2. ASSUME NEW width \in Widths, WithoutAmPm(width) PROVE ClockRight'
  <2>1. PICK h \in Hours \cap 1 .. 11, m \in Minutes \ {0} :
          Delta("without_am_pm", h * 60 + m, "24h", FALSE, width)
    BY <1>2 DEF WithoutAmPm
  <2> DEFINE t == h * 60 + m
  <2>2. h \in Hours /\ h \in 1 .. 11 /\ m \in Minutes
    OBVIOUS
  <2>3. t \in Nat /\ t >= 60 /\ t < 720
    BY ONLY <2>2, HourMinute
  <2> HIDE DEF t
  <2>4. Delta("without_am_pm", t, "24h", FALSE, width)
    BY ONLY <2>1 DEF t
  <2>5. "without_am_pm" \in {"without_am_pm", "two_clocks"}
    OBVIOUS
  <2> QED
    BY ONLY <2>3, <2>4, <2>5, width \in Widths, DeltaHalf
<1>3. ASSUME NEW width \in Widths, TwoClocks(width) PROVE ClockRight'
  <2>1. PICK h \in Hours \cap 1 .. 11, m \in Minutes :
          Delta("two_clocks", h * 60 + m, "24h", FALSE, width)
    BY <1>3 DEF TwoClocks
  <2> DEFINE t == h * 60 + m
  <2>2. h \in Hours /\ h \in 1 .. 11 /\ m \in Minutes
    OBVIOUS
  <2>3. t \in Nat /\ t >= 60 /\ t < 720
    BY ONLY <2>2, HourMinute
  <2> HIDE DEF t
  <2>4. Delta("two_clocks", t, "24h", FALSE, width)
    BY ONLY <2>1 DEF t
  <2>5. "two_clocks" \in {"without_am_pm", "two_clocks"}
    OBVIOUS
  <2> QED
    BY ONLY <2>3, <2>4, <2>5, width \in Widths, DeltaHalf
<1>4. ASSUME NEW width \in Widths, WithAmPm(width) PROVE ClockRight'
  <2>1. PICK h \in Hours \cap 1 .. 11, m \in Minutes, half \in {"am", "pm"} :
          Delta("with_am_pm", Read(<<half, h, m>>), "am_pm", TRUE, width)
    BY <1>4 DEF WithAmPm
  <2> DEFINE t == Read(<<half, h, m>>)
  <2>2. h \in Int /\ 1 <= h /\ h <= 11 /\ m \in Int /\ 0 <= m /\ m <= 59
    BY ClockAssumption
  <2>3. t \in Nat /\ t < 1440
    <3>1. CASE half = "am"
      <4>1. t = h * 60 + m
        BY <2>2, <3>1 DEF Read
      <4> QED
        BY ONLY <2>2, <4>1
    <3>2. CASE half = "pm"
      <4>1. t = ((h % 12) + 12) * 60 + m
        BY <2>2, <3>2 DEF Read
      <4> QED
        BY ONLY <2>2, <4>1
    <3> QED
      BY <3>1, <3>2
  <2> HIDE DEF t
  <2>4. Delta("with_am_pm", t, "am_pm", TRUE, width)
    BY ONLY <2>1 DEF t
  <2>5. "with_am_pm" \in {"with_am_pm", "with_24_hours"} /\ "am_pm" \in Styles
    BY DEF Styles
  <2>6. InDay(t)
    BY ONLY <2>3 DEF InDay
  <2> QED
    BY ONLY <2>4, <2>5, <2>6, width \in Widths, DeltaDay, Zenon
<1>5. ASSUME NEW width \in Widths, With24Hours(width) PROVE ClockRight'
  <2>1. PICK h \in Hours, m \in Minutes : Delta("with_24_hours", h * 60 + m, "24h", TRUE, width)
    BY <1>5 DEF With24Hours
  <2> DEFINE t == h * 60 + m
  <2>2. t \in Nat /\ t < 1440
    BY HourMinute
  <2> HIDE DEF t
  <2>3. Delta("with_24_hours", t, "24h", TRUE, width)
    BY ONLY <2>1 DEF t
  <2>4. "with_24_hours" \in {"with_am_pm", "with_24_hours"} /\ "24h" \in Styles
    BY DEF Styles
  <2>5. InDay(t)
    BY ONLY <2>2 DEF InDay
  <2> QED
    BY ONLY <2>3, <2>4, <2>5, width \in Widths, DeltaDay, Zenon
<1> QED
  BY <1>1, <1>2, <1>3, <1>4, <1>5 DEF NextClock

-----------------------------------------------------------------------------
(* The arithmetic of fractions: what can be cancelled, and what is zero *)

LEMMA WholeLowest == ASSUME NEW n \in Int PROVE Lowest(Whole(n))
<1>1. 0 \in Int /\ 1 \in Int /\ n * 0 + 1 * 1 = 1
  OBVIOUS
<1> QED
  BY <1>1 DEF Lowest, Sums, Whole

LEMMA PlusSwap ==
    ASSUME NEW a \in Fraction, NEW b \in Fraction, NEW c \in Fraction, NEW d \in Fraction
    PROVE  Plus(Plus(a, b), Plus(c, d)) = Plus(Plus(a, c), Plus(b, d))
<1>1. /\ a[1] \in Int /\ a[2] \in Int /\ b[1] \in Int /\ b[2] \in Int
      /\ c[1] \in Int /\ c[2] \in Int /\ d[1] \in Int /\ d[2] \in Int
  BY Parts
<1>2. (a[2] * b[2]) * (c[2] * d[2]) = (a[2] * c[2]) * (b[2] * d[2])
  BY ONLY <1>1
<1>3. (a[1] * b[2] + b[1] * a[2]) * (c[2] * d[2]) + (c[1] * d[2] + d[1] * c[2]) * (a[2] * b[2])
      = (a[1] * c[2] + c[1] * a[2]) * (b[2] * d[2]) + (b[1] * d[2] + d[1] * b[2]) * (a[2] * c[2])
  BY ONLY <1>1
<1> QED
  BY <1>2, <1>3 DEF Plus

LEMMA Distribute ==
    ASSUME NEW a \in Fraction, NEW x \in Fraction, NEW y \in Fraction
    PROVE  Same(Times(a, Plus(x, y)), Plus(Times(a, x), Times(a, y)))
<1>1. /\ a[1] \in Int /\ a[2] \in Int /\ x[1] \in Int /\ x[2] \in Int
      /\ y[1] \in Int /\ y[2] \in Int
  BY Parts
<1>2. (a[1] * (x[1] * y[2] + y[1] * x[2])) * ((a[2] * x[2]) * (a[2] * y[2]))
      = ((a[1] * x[1]) * (a[2] * y[2]) + (a[1] * y[1]) * (a[2] * x[2])) * (a[2] * (x[2] * y[2]))
  BY ONLY <1>1
<1> QED
  BY <1>2 DEF Same, Times, Plus

LEMMA PlusNothing ==
    ASSUME NEW x \in Fraction, NEW y \in Fraction
    PROVE  Same(Plus(x, y), x) <=> IsZero(y)
<1>1. /\ x[1] \in Int /\ x[2] \in Int /\ x[2] # 0 /\ y[1] \in Int /\ y[2] \in Int
  BY Parts
<1>2. (x[1] * y[2] + y[1] * x[2]) * x[2] = x[1] * (x[2] * y[2]) + (x[2] * x[2]) * y[1]
  BY ONLY <1>1
<1>3. (x[2] * x[2]) * y[1] = 0 <=> y[1] = 0
  <2>1. x[2] * x[2] # 0
    BY ONLY <1>1
  <2>2. y[1] # 0 => (x[2] * x[2]) * y[1] # 0
    BY ONLY <1>1, <2>1
  <2> QED
    BY ONLY <1>1, <2>2
<1>4. Same(Plus(x, y), x) <=> (x[1] * y[2] + y[1] * x[2]) * x[2] = x[1] * (x[2] * y[2])
  BY DEF Same, Plus
<1>5. (x[1] * y[2] + y[1] * x[2]) * x[2] = x[1] * (x[2] * y[2]) <=> (x[2] * x[2]) * y[1] = 0
  <2> DEFINE u == (x[1] * y[2] + y[1] * x[2]) * x[2]
             v == x[1] * (x[2] * y[2])
             w == (x[2] * x[2]) * y[1]
  <2>1. u \in Int /\ v \in Int /\ w \in Int
    BY ONLY <1>1
  <2>2. u = v + w
    BY <1>2
  <2> HIDE DEF u, v, w
  <2>3. u = v <=> w = 0
    BY ONLY <2>1, <2>2
  <2> QED
    BY ONLY <2>3 DEF u, v, w
<1> QED
  BY ONLY <1>3, <1>4, <1>5 DEF IsZero

LEMMA SameZero ==
    ASSUME NEW x \in Fraction, NEW y \in Fraction, Same(x, y)
    PROVE  IsZero(x) <=> IsZero(y)
<1>1. /\ x[1] \in Int /\ x[2] \in Int /\ x[2] # 0 /\ y[1] \in Int /\ y[2] \in Int /\ y[2] # 0
      /\ x[1] * y[2] = y[1] * x[2]
  BY Parts DEF Same
<1>2. x[1] = 0 => y[1] = 0
  BY ONLY <1>1
<1>3. y[1] = 0 => x[1] = 0
  BY ONLY <1>1
<1> QED
  BY ONLY <1>2, <1>3 DEF IsZero

LEMMA MinusZero ==
    ASSUME NEW x \in Fraction, NEW y \in Fraction
    PROVE  IsZero(Minus(x, y)) <=> Same(x, y)
<1>1. /\ x[1] \in Int /\ x[2] \in Int /\ y[1] \in Int /\ y[2] \in Int
  BY Parts
<1> DEFINE u == x[1] * y[2]
           v == y[1] * x[2]
<1>2. u \in Int /\ v \in Int /\ (-y[1]) * x[2] = -v
  BY ONLY <1>1
<1> HIDE DEF u, v
<1>3. u + -v = 0 <=> u = v
  BY ONLY <1>2
<1>4. u + (-y[1]) * x[2] = 0 <=> u = v
  BY ONLY <1>2, <1>3
<1> QED
  BY <1>4 DEF IsZero, Minus, Plus, Neg, Same, u, v

LEMMA TimesZero ==
    ASSUME NEW x \in Fraction, NEW y \in Fraction
    PROVE  IsZero(Times(x, y)) <=> IsZero(x) \/ IsZero(y)
<1>1. x[1] \in Int /\ y[1] \in Int
  BY Parts
<1>2. x[1] * y[1] = 0 <=> x[1] = 0 \/ y[1] = 0
  BY ONLY <1>1
<1> QED
  BY <1>2 DEF IsZero, Times

\* A number that is not zero can be divided by.
LEMMA TimesCancel ==
    ASSUME NEW a \in Fraction, NEW x \in Fraction, NEW y \in Fraction, ~IsZero(a),
           Same(Times(a, x), Times(a, y))
    PROVE  Same(x, y)
<1>1. /\ a[1] \in Int /\ a[2] \in Int /\ x[1] \in Int /\ x[2] \in Int
      /\ y[1] \in Int /\ y[2] \in Int /\ a[1] # 0 /\ a[2] # 0
      /\ (a[1] * x[1]) * (a[2] * y[2]) = (a[1] * y[1]) * (a[2] * x[2])
  BY Parts DEF Same, Times, IsZero
<1>2. (a[1] * a[2]) * (x[1] * y[2]) = (a[1] * a[2]) * (y[1] * x[2])
  BY ONLY <1>1
<1>3. a[1] * a[2] \in Int /\ a[1] * a[2] # 0 /\ x[1] * y[2] \in Int /\ y[1] * x[2] \in Int
  <2> DEFINE p == a[1]
             q == a[2]
  <2>1. p \in Int /\ q \in Int /\ p # 0 /\ q # 0
    BY ONLY <1>1
  <2> HIDE DEF p, q
  <2>2. p * q \in Int /\ p * q # 0
    BY ONLY <2>1
  <2>3. x[1] * y[2] \in Int /\ y[1] * x[2] \in Int
    BY ONLY <1>1
  <2> QED
    BY ONLY <2>2, <2>3 DEF p, q
<1>4. x[1] * y[2] = y[1] * x[2]
  BY ONLY <1>2, <1>3, Cancel
<1> QED
  BY <1>4 DEF Same

-----------------------------------------------------------------------------
(* Simultaneous equations *)

\* A number that is drawn is in lowest terms.
LEMMA DrawnLowest ==
    ASSUME NEW type \in NumberTypes, NEW n \in Nat, NEW a \in Drawn(type, n)
    PROVE  a \in Fraction /\ Lowest(a)
<1>1. CASE type = "integer"
  <2>1. PICK i \in Int : a = Whole(i)
    BY <1>1 DEF Drawn
  <2> QED
    BY <2>1, WholeType, WholeLowest
<1>2. CASE type = "frac"
  <2>1. PICK p \in Int, q \in Int : q > 0 /\ a = Reduced(<<p, q>>)
    BY <1>2 DEF Drawn
  <2>2. <<p, q>> \in Fraction
    BY <2>1, IsFraction
  <2> QED
    BY <2>1, <2>2, ReducedLowest
<1>3. CASE type = "decimal"
  <2> DEFINE S == {k \in -2 * n .. (IF n >= 5 THEN 15 ELSE 2 * n) : k % 10 # 0}
  <2>0. S \subseteq Int
    OBVIOUS
  <2>3. a \in {Reduced(<<i, 10>>) : i \in S}
    BY <1>3 DEF Drawn
  <2> HIDE DEF S
  <2>1. PICK i \in Int : a = Reduced(<<i, 10>>)
    BY <2>0, <2>3
  <2>2. <<i, 10>> \in Fraction
    BY IsFraction
  <2> QED
    BY <2>1, <2>2, ReducedLowest
<1> QED
  BY <1>1, <1>2, <1>3 DEF NumberTypes

LEMMA CoefLowest ==
    ASSUME NEW used \in SUBSET NumberTypes, NEW n \in Nat, NEW a \in Coef(used, n)
    PROVE  a \in Fraction /\ Lowest(a)
<1>1. PICK type \in used : a \in Drawn(type, n)
  BY DEF Coef
<1> QED
  BY <1>1, DrawnLowest

LEMMA UnknownType ==
    ASSUME NEW used \in SUBSET NumberTypes, NEW kinds, NEW x \in Unknown(used, kinds)
    PROVE  x \in Fraction
<1>1. x \in Drawn("integer", 6) \/ x \in Drawn("frac", 6) \/ x \in Drawn("decimal", 6)
  BY DEF Unknown
<1> QED
  BY <1>1, DrawnLowest DEF NumberTypes

LEMMA TermParts ==
    ASSUME NEW s, NEW x
    PROVE  [sign |-> s, num |-> x].sign = s /\ [sign |-> s, num |-> x].num = x
OBVIOUS

LEMMA ShownParts == ASSUME NEW x PROVE Shown(x).sign = "" /\ Shown(x).num = x
BY TermParts, Zenon DEF Shown

LEMMA ShownReads == ASSUME NEW x PROVE Reads(Shown(x)) = x /\ (x[1] <= 0 => Apart(Shown(x)))
<1>1. "" # "-"
  OBVIOUS
<1> QED
  BY <1>1, ShownParts, Zenon DEF Reads, Apart

\* A coefficient reads as the number it was printed for.
LEMMA LeadReads ==
    ASSUME NEW a \in Fraction, Lowest(a)
    PROVE  Reads(Lead(a)) = a
<1>1. CASE Same(a, Whole(-1))
  <2>1. -1 \in Int
    OBVIOUS
  <2>2. a = Whole(-1)
    BY <1>1, <2>1, WholeType, WholeLowest, LowestUnique
  <2>3. Neg(One) = Whole(-1)
    BY DEF Neg, One, Whole
  <2> QED
    BY <1>1, <2>2, <2>3 DEF Lead, Reads
<1>2. CASE ~Same(a, Whole(-1))
  BY <1>2, ShownReads DEF Lead
<1> QED
  BY <1>1, <1>2

LEMMA OneLowest == One \in Fraction /\ Lowest(One)
BY WholeType, WholeLowest DEF One

LEMMA FollowReads ==
    ASSUME NEW b \in Fraction, Lowest(b)
    PROVE  Reads(Follow(b)) = b /\ Apart(Follow(b))
<1>1. CASE Same(b, One)
  <2>1. b = One
    BY <1>1, OneLowest, LowestUnique
  <2>0. ~Same(b, Whole(-1))
    BY <2>1 DEF Same, One, Whole
  <2>2. Follow(b) = [sign |-> "+", num |-> One]
    BY <1>1, <2>0 DEF Follow
  <2>3. Follow(b).sign = "+" /\ Follow(b).num = One
    BY ONLY <2>2
  <2> QED
    BY ONLY <2>1, <2>3 DEF Reads, Apart
<1>2. CASE ~Same(b, One) /\ Same(b, Whole(-1))
  <2>1. -1 \in Int
    OBVIOUS
  <2>2. b = Whole(-1)
    BY <1>2, <2>1, WholeType, WholeLowest, LowestUnique
  <2>3. Neg(One) = Whole(-1)
    BY DEF Neg, One, Whole
  <2>4. ~(b[1] > 0)
    BY <2>2 DEF Whole
  <2>5. Follow(b) = [sign |-> "-", num |-> One]
    BY <1>2, <2>4 DEF Follow
  <2>6. Follow(b).sign = "-" /\ Follow(b).num = One
    BY ONLY <2>5
  <2> QED
    BY ONLY <2>2, <2>3, <2>6 DEF Reads, Apart
<1>3. CASE ~Same(b, One) /\ ~Same(b, Whole(-1)) /\ b[1] > 0
  <2>1. Follow(b) = [sign |-> "+", num |-> b]
    BY <1>3 DEF Follow
  <2>2. Follow(b).sign = "+" /\ Follow(b).num = b
    BY ONLY <2>1
  <2> QED
    BY ONLY <2>2 DEF Reads, Apart
<1>4. CASE ~Same(b, One) /\ ~Same(b, Whole(-1)) /\ ~(b[1] > 0)
  <2>1. Follow(b) = Shown(b)
    BY <1>4 DEF Follow
  <2>2. b[1] <= 0
    BY <1>4, Parts
  <2> QED
    BY <2>1, <2>2, ShownReads
<1> QED
  BY <1>1, <1>2, <1>3, <1>4

LEMMA BlankReads == Reads(Blank) = Whole(0) /\ Apart(Blank)
BY DEF Reads, Apart, Blank, Whole

\* Nothing on the right side, and one time a number.
LEMMA MinusNothing ==
    ASSUME NEW a \in Fraction
    PROVE  Minus(a, Times(Whole(0), Whole(0))) = a
<1> DEFINE z == Times(Whole(0), Whole(0))
<1>1. a[1] \in Int /\ a[2] \in Int /\ a = <<a[1], a[2]>>
  BY Parts
<1>2. z[1] = 0 /\ z[2] = 1
  BY DEF Times, Whole
<1> HIDE DEF z
<1>3. PICK y \in Int : y + z[1] = 0 /\ y = -z[1]
  BY <1>2
<1>4. Minus(a, z) = <<a[1] * z[2] + y * a[2], a[2] * z[2]>>
  BY <1>3 DEF Minus, Plus, Neg
<1>5. y = 0
  <2>1. y \in Int /\ y + z[1] = 0
    BY <1>3
  <2>2. z[1] = 0
    BY <1>2
  <2> QED
    BY ONLY <2>1, <2>2
<1>6. a[1] * z[2] + y * a[2] = a[1] /\ a[2] * z[2] = a[2]
  BY <1>1, <1>2, <1>5
<1> QED
  BY ONLY <1>1, <1>4, <1>6 DEF z

LEMMA OneTimes ==
    ASSUME NEW d \in Fraction
    PROVE  Times(One, d) = d
<1>1. d[1] \in Int /\ d[2] \in Int /\ d = <<d[1], d[2]>>
  BY Parts
<1>2. 1 * d[1] = d[1] /\ 1 * d[2] = d[2]
  BY ONLY <1>1
<1> QED
  BY <1>1, <1>2 DEF Times, One, Whole

LEMMA AtType ==
    ASSUME NEW a \in Fraction, NEW b \in Fraction, NEW x \in Fraction, NEW y \in Fraction
    PROVE  /\ Plus(Times(a, x), Times(b, y)) \in Fraction
           /\ At(a, b, x, y) \in Fraction
           /\ Same(At(a, b, x, y), Plus(Times(a, x), Times(b, y)))
<1>1. Times(a, x) \in Fraction /\ Times(b, y) \in Fraction
  BY TimesType
<1>2. Plus(Times(a, x), Times(b, y)) \in Fraction
  BY <1>1, PlusType
<1> QED
  BY <1>2, ReducedLowest DEF At

\* The value of the left side is the same for the same coefficients and unknowns.
LEMMA AtSame ==
    ASSUME NEW a \in Fraction, NEW b \in Fraction, NEW x \in Fraction, NEW y \in Fraction,
           NEW c \in Fraction, NEW d \in Fraction, NEW v \in Fraction, NEW w \in Fraction,
           Same(a, c), Same(b, d), Same(x, v), Same(y, w)
    PROVE  Same(At(a, b, x, y), At(c, d, v, w))
<1>1. /\ Times(a, x) \in Fraction /\ Times(b, y) \in Fraction
      /\ Times(c, v) \in Fraction /\ Times(d, w) \in Fraction
  BY TimesType
<1>2. Same(Times(a, x), Times(c, v)) /\ Same(Times(b, y), Times(d, w))
  BY TimesSame
<1>3. Same(Plus(Times(a, x), Times(b, y)), Plus(Times(c, v), Times(d, w)))
  BY <1>1, <1>2, PlusSame
<1> DEFINE p == Plus(Times(a, x), Times(b, y))
           q == Plus(Times(c, v), Times(d, w))
<1>4. /\ p \in Fraction /\ At(a, b, x, y) \in Fraction /\ Same(At(a, b, x, y), p)
      /\ q \in Fraction /\ At(c, d, v, w) \in Fraction /\ Same(At(c, d, v, w), q)
  BY AtType
<1> HIDE DEF p, q
<1>5. Same(p, q)
  BY <1>3 DEF p, q
<1>6. Same(At(a, b, x, y), q)
  BY ONLY <1>4, <1>5, SameTrans
<1>7. Same(q, At(c, d, v, w))
  BY ONLY <1>4, SameSym
<1> QED
  BY ONLY <1>4, <1>6, <1>7, SameTrans

\* The equation that is compared, and what it is for its answer.
IsLine(eq, x, y) ==
    /\ eq.A \in Fraction /\ eq.B \in Fraction /\ eq.C \in Fraction
    /\ OnLine(eq, x, y)

LEMMA EqLine ==
    ASSUME NEW a \in Fraction, NEW b \in Fraction, NEW x \in Fraction, NEW y \in Fraction,
           NEW eq, eq.A = Reduced(a), eq.B = Reduced(b), eq.C = At(a, b, x, y)
    PROVE  IsLine(eq, x, y)
<1>1. /\ Reduced(a) \in Fraction /\ Reduced(b) \in Fraction
      /\ Same(Reduced(a), a) /\ Same(Reduced(b), b)
  BY ReducedLowest
<1>2. Same(x, x) /\ Same(y, y)
  BY DEF Same
<1>3. Same(At(Reduced(a), Reduced(b), x, y), At(a, b, x, y))
  BY <1>1, <1>2, AtSame
<1> QED
  BY <1>1, <1>3, AtType DEF IsLine, OnLine

\* An equation and its parts as they are printed.
Readable(eq, x, y) ==
    /\ IsLine(Line(eq), x, y)
    /\ Line(eq) = Printed(eq)
    /\ Apart(eq.y1) /\ Apart(eq.y2)
    /\ ~IsZero(eq.C) => Apart(eq.x2) \/ Apart(eq.k)

LEMMA SimpleReadable ==
    ASSUME NEW used \in SUBSET NumberTypes, NEW x \in Fraction, NEW y \in Fraction,
           NEW eq \in Simple(used, x, y)
    PROVE  Readable(eq, x, y)
<1>1. PICK a \in Coef(used, 6), b \in Coef(used, 6) :
        eq = EqParts(a, b, At(a, b, x, y), Lead(a), Follow(b), Blank, Blank, Blank)
  BY DEF Simple
<1>2. a \in Fraction /\ Lowest(a) /\ b \in Fraction /\ Lowest(b)
  BY CoefLowest
<1>3. /\ eq.A = Reduced(a) /\ eq.B = Reduced(b) /\ eq.C = At(a, b, x, y)
      /\ eq.x1 = Lead(a) /\ eq.y1 = Follow(b) /\ eq.k = Blank /\ eq.x2 = Blank /\ eq.y2 = Blank
  BY <1>1 DEF EqParts
<1>4. Line(eq) = [A |-> Reduced(a), B |-> Reduced(b), C |-> At(a, b, x, y)]
  BY ONLY <1>3 DEF Line
<1>5. /\ Reads(eq.x1) = a /\ Reads(eq.y1) = b /\ Reads(eq.k) = Whole(0)
      /\ Reads(eq.x2) = Whole(0) /\ Reads(eq.y2) = Whole(0)
      /\ Apart(eq.y1) /\ Apart(eq.y2) /\ Apart(eq.k)
  BY <1>2, <1>3, LeadReads, FollowReads, BlankReads
<1>6. /\ Minus(Reads(eq.x1), Times(Reads(eq.k), Reads(eq.x2))) = a
      /\ Minus(Reads(eq.y1), Times(Reads(eq.k), Reads(eq.y2))) = b
  BY <1>2, <1>5, MinusNothing
<1>7. Printed(eq) = Line(eq)
  BY ONLY <1>3, <1>4, <1>6 DEF Printed
<1>8. IsLine(Line(eq), x, y)
  <2>1. Line(eq).A = Reduced(a) /\ Line(eq).B = Reduced(b) /\ Line(eq).C = At(a, b, x, y)
    BY ONLY <1>4
  <2> QED
    BY <1>2, <2>1, EqLine
<1> QED
  BY ONLY <1>5, <1>7, <1>8 DEF Readable

LEMMA TwoSidedReadable ==
    ASSUME NEW used \in SUBSET NumberTypes, NEW x \in Fraction, NEW y \in Fraction,
           NEW eq \in TwoSided(used, x, y)
    PROVE  Readable(eq, x, y)
<1>1. PICK a \in Coef(used, 4), b \in Coef(used, 4), d \in Coef(used, 3), e \in Coef(used, 3) :
        LET c == At(Minus(a, d), Minus(b, e), x, y)
        IN eq = EqParts(Minus(a, d), Minus(b, e), c, Lead(a), Follow(b), Shown(One),
                        IF IsZero(c) /\ Same(d, One) THEN Shown(One) ELSE Follow(d), Follow(e))
  BY DEF TwoSided
<1>2. /\ a \in Fraction /\ Lowest(a) /\ b \in Fraction /\ Lowest(b)
      /\ d \in Fraction /\ Lowest(d) /\ e \in Fraction /\ Lowest(e)
  BY CoefLowest
<1> DEFINE p == Minus(a, d)
           q == Minus(b, e)
           c == At(p, q, x, y)
<1>3. /\ eq.A = Reduced(p) /\ eq.B = Reduced(q) /\ eq.C = c
      /\ eq.x1 = Lead(a) /\ eq.y1 = Follow(b) /\ eq.k = Shown(One)
      /\ eq.x2 = (IF IsZero(c) /\ Same(d, One) THEN Shown(One) ELSE Follow(d))
      /\ eq.y2 = Follow(e)
  BY <1>1 DEF EqParts
<1>4. p \in Fraction /\ q \in Fraction
  BY <1>2, MinusType
<1>5. /\ Reads(eq.x1) = a /\ Reads(eq.y1) = b /\ Reads(eq.k) = One
      /\ Reads(eq.y2) = e /\ Apart(eq.y1) /\ Apart(eq.y2)
  BY <1>2, <1>3, LeadReads, FollowReads, ShownReads
<1>6. Reads(eq.x2) = d /\ (~IsZero(c) => Apart(eq.x2))
  <2>1. CASE IsZero(c) /\ Same(d, One)
    <3>1. d = One
      BY <1>2, <2>1, OneLowest, LowestUnique
    <3> QED
      BY <1>3, <2>1, <3>1, ShownReads
  <2>2. CASE ~(IsZero(c) /\ Same(d, One))
    BY <1>2, <1>3, <2>2, FollowReads
  <2> QED
    BY <2>1, <2>2
<1>7. /\ Minus(Reads(eq.x1), Times(Reads(eq.k), Reads(eq.x2))) = p
      /\ Minus(Reads(eq.y1), Times(Reads(eq.k), Reads(eq.y2))) = q
  BY <1>2, <1>5, <1>6, OneTimes
<1> HIDE DEF p, q, c
<1>8. Line(eq) = [A |-> Reduced(p), B |-> Reduced(q), C |-> c]
  BY ONLY <1>3 DEF Line
<1>9. Printed(eq) = Line(eq)
  BY ONLY <1>3, <1>7, <1>8 DEF Printed
<1>10. IsLine(Line(eq), x, y)
  <2>1. Line(eq).A = Reduced(p) /\ Line(eq).B = Reduced(q) /\ Line(eq).C = At(p, q, x, y)
    BY ONLY <1>8 DEF c
  <2> QED
    BY <1>4, <2>1, EqLine
<1> QED
  BY ONLY <1>3, <1>5, <1>6, <1>9, <1>10 DEF Readable

LEMMA BracketedReadable ==
    ASSUME NEW used \in SUBSET NumberTypes, NEW x \in Fraction, NEW y \in Fraction,
           NEW eq \in Bracketed(used, x, y)
    PROVE  Readable(eq, x, y)
<1>1. PICK a \in Coef(used, 4), b \in Coef(used, 4),
           d \in Coef(used, 2), e \in Coef(used, 2), f \in Coef(used, 2) :
        LET p == Minus(a, Times(d, e))
            q == Minus(b, Times(d, f))
        IN eq = EqParts(p, q, At(p, q, x, y), Lead(a), Follow(b), Follow(d), Lead(e), Follow(f))
  BY DEF Bracketed
<1>2. /\ a \in Fraction /\ Lowest(a) /\ b \in Fraction /\ Lowest(b)
      /\ d \in Fraction /\ Lowest(d) /\ e \in Fraction /\ Lowest(e)
      /\ f \in Fraction /\ Lowest(f)
  BY CoefLowest
<1> DEFINE p == Minus(a, Times(d, e))
           q == Minus(b, Times(d, f))
           c == At(p, q, x, y)
<1>3. /\ eq.A = Reduced(p) /\ eq.B = Reduced(q) /\ eq.C = c
      /\ eq.x1 = Lead(a) /\ eq.y1 = Follow(b) /\ eq.k = Follow(d)
      /\ eq.x2 = Lead(e) /\ eq.y2 = Follow(f)
  BY <1>1 DEF EqParts
<1>4. p \in Fraction /\ q \in Fraction
  <2>1. Times(d, e) \in Fraction /\ Times(d, f) \in Fraction
    BY <1>2, TimesType
  <2> QED
    BY <1>2, <2>1, MinusType
<1>5. /\ Reads(eq.x1) = a /\ Reads(eq.y1) = b /\ Reads(eq.k) = d
      /\ Reads(eq.x2) = e /\ Reads(eq.y2) = f
      /\ Apart(eq.y1) /\ Apart(eq.y2) /\ Apart(eq.k)
  BY <1>2, <1>3, LeadReads, FollowReads
<1>7. /\ Minus(Reads(eq.x1), Times(Reads(eq.k), Reads(eq.x2))) = p
      /\ Minus(Reads(eq.y1), Times(Reads(eq.k), Reads(eq.y2))) = q
  BY ONLY <1>5
<1> HIDE DEF p, q, c
<1>8. Line(eq) = [A |-> Reduced(p), B |-> Reduced(q), C |-> c]
  BY ONLY <1>3 DEF Line
<1>9. Printed(eq) = Line(eq)
  BY ONLY <1>3, <1>7, <1>8 DEF Printed
<1>10. IsLine(Line(eq), x, y)
  <2>1. Line(eq).A = Reduced(p) /\ Line(eq).B = Reduced(q) /\ Line(eq).C = At(p, q, x, y)
    BY ONLY <1>8 DEF c
  <2> QED
    BY <1>4, <2>1, EqLine
<1> QED
  BY ONLY <1>5, <1>9, <1>10 DEF Readable

LEMMA BuiltReadable ==
    ASSUME NEW used \in SUBSET NumberTypes, NEW x \in Fraction, NEW y \in Fraction
    PROVE  \A eq \in Built(used, x, y) : Readable(eq, x, y)
BY SimpleReadable, TwoSidedReadable, BracketedReadable DEF Built

LEMMA LinesAre ==
    ASSUME NEW used \in SUBSET NumberTypes, NEW x \in Fraction, NEW y \in Fraction,
           NEW eq \in Lines(used, x, y)
    PROVE  IsLine(eq, x, y)
BY BuiltReadable DEF Lines, Readable

\* A step from a point of a line stays on it if the left side does not change by it.
Level(eq, p, q) == IsZero(Plus(Times(eq.A, p), Times(eq.B, q)))

LEMMA ShiftedLine ==
    ASSUME NEW eq, NEW x \in Fraction, NEW y \in Fraction, IsLine(eq, x, y),
           NEW p \in Fraction, NEW q \in Fraction
    PROVE  OnLine(eq, Plus(x, p), Plus(y, q)) <=> Level(eq, p, q)
<1> DEFINE a == eq.A
           b == eq.B
           ax == Times(a, x)
           by == Times(b, y)
           ap == Times(a, p)
           bq == Times(b, q)
           here == Plus(ax, by)
           step == Plus(ap, bq)
           there == Plus(Times(a, Plus(x, p)), Times(b, Plus(y, q)))
<1>1. a \in Fraction /\ b \in Fraction /\ eq.C \in Fraction /\ Same(At(a, b, x, y), eq.C)
  BY DEF IsLine, OnLine
<1>2. Plus(x, p) \in Fraction /\ Plus(y, q) \in Fraction
  BY PlusType
<1>3. /\ ax \in Fraction /\ by \in Fraction /\ ap \in Fraction /\ bq \in Fraction
      /\ Times(a, Plus(x, p)) \in Fraction /\ Times(b, Plus(y, q)) \in Fraction
  BY <1>1, <1>2, TimesType
<1>4. /\ Same(Times(a, Plus(x, p)), Plus(ax, ap))
      /\ Same(Times(b, Plus(y, q)), Plus(by, bq))
  BY <1>1, Distribute
<1>5. At(a, b, x, y) \in Fraction /\ Same(At(a, b, x, y), here)
  BY <1>1, AtType
<1>6. /\ At(a, b, Plus(x, p), Plus(y, q)) \in Fraction /\ there \in Fraction
      /\ Same(At(a, b, Plus(x, p), Plus(y, q)), there)
  BY <1>1, <1>2, AtType
<1> DEFINE at == At(a, b, Plus(x, p), Plus(y, q))
           was == At(a, b, x, y)
           aa == Times(a, Plus(x, p))
           bb == Times(b, Plus(y, q))
<1> HIDE DEF ax, by, ap, bq
<1>7. Plus(ax, ap) \in Fraction /\ Plus(by, bq) \in Fraction /\ here \in Fraction /\ step \in Fraction
  BY ONLY <1>3, PlusType
<1>8. Same(there, Plus(Plus(ax, ap), Plus(by, bq)))
  <2> HIDE DEF aa, bb, a, b
  <2>1. Same(Plus(aa, bb), Plus(Plus(ax, ap), Plus(by, bq)))
    <3>1. aa \in Fraction /\ bb \in Fraction /\ Same(aa, Plus(ax, ap)) /\ Same(bb, Plus(by, bq))
      BY ONLY <1>3, <1>4 DEF aa, bb
    <3> QED
      BY ONLY <3>1, <1>7, PlusSame
  <2> QED
    BY ONLY <2>1 DEF aa, bb
<1>9. Plus(Plus(ax, ap), Plus(by, bq)) = Plus(here, step)
  BY ONLY <1>3, PlusSwap
<1>10. Plus(here, step) \in Fraction
  BY ONLY <1>7, PlusType
<1>11. at \in Fraction /\ there \in Fraction /\ Same(at, there) /\ Same(there, Plus(here, step))
  BY <1>6, <1>8, <1>9
<1>12. was \in Fraction /\ Same(was, here) /\ Same(was, eq.C) /\ eq.C \in Fraction
  BY <1>1, <1>5
<1>13. OnLine(eq, Plus(x, p), Plus(y, q)) <=> Same(at, eq.C)
  BY DEF OnLine
<1>14. Level(eq, p, q) <=> IsZero(step)
  BY DEF Level, ap, bq
<1> HIDE DEF at, was, here, step, there
<1>15. Same(at, Plus(here, step))
  BY ONLY <1>10, <1>11, SameTrans
<1>16. Same(here, eq.C)
  BY ONLY <1>7, <1>12, SameSym, SameTrans
<1>17. Same(at, eq.C) <=> Same(Plus(here, step), here)
  <2>1. ASSUME Same(at, eq.C) PROVE Same(Plus(here, step), here)
    <3>1. Same(eq.C, here) /\ Same(Plus(here, step), at)
      BY ONLY <1>15, <1>16, SameSym
    <3>2. Same(Plus(here, step), eq.C)
      BY ONLY <1>10, <1>11, <1>12, <2>1, <3>1, SameTrans
    <3> QED
      BY ONLY <1>7, <1>10, <1>12, <3>1, <3>2, SameTrans
  <2>2. ASSUME Same(Plus(here, step), here) PROVE Same(at, eq.C)
    <3>1. Same(at, here)
      BY ONLY <1>7, <1>10, <1>11, <1>15, <2>2, SameTrans
    <3> QED
      BY ONLY <1>7, <1>11, <1>12, <1>16, <3>1, SameTrans
  <2> QED
    BY ONLY <2>1, <2>2
<1>18. Same(Plus(here, step), here) <=> IsZero(step)
  BY ONLY <1>7, PlusNothing
<1> QED
  BY ONLY <1>13, <1>14, <1>17, <1>18

\* Along a line, and along one that is parallel to it.
LEMMA AlongLevel ==
    ASSUME NEW e, NEW f, e.A \in Fraction, e.B \in Fraction, f.A \in Fraction, f.B \in Fraction,
           Same(Times(e.A, f.B), Times(f.A, e.B))
    PROVE  Level(e, f.B, Neg(f.A)) /\ Level(f, e.B, Neg(e.A))
<1> DEFINE a == e.A
           b == e.B
           c == f.A
           d == f.B
<1>1. /\ a[1] \in Int /\ a[2] \in Int /\ b[1] \in Int /\ b[2] \in Int
      /\ c[1] \in Int /\ c[2] \in Int /\ d[1] \in Int /\ d[2] \in Int
  BY Parts
<1>2. (a[1] * d[1]) * (c[2] * b[2]) = (c[1] * b[1]) * (a[2] * d[2])
  BY DEF Same, Times
<1> HIDE DEF a, b, c, d
<1>3. (a[1] * d[1]) * (b[2] * c[2]) + (b[1] * (-c[1])) * (a[2] * d[2]) = 0
  <2>1. (b[1] * (-c[1])) * (a[2] * d[2]) = -((c[1] * b[1]) * (a[2] * d[2]))
    BY ONLY <1>1
  <2>2. (a[1] * d[1]) * (b[2] * c[2]) = (a[1] * d[1]) * (c[2] * b[2])
    BY ONLY <1>1
  <2>3. (c[1] * b[1]) * (a[2] * d[2]) \in Int
    BY ONLY <1>1
  <2> QED
    BY ONLY <1>2, <2>1, <2>2, <2>3
<1>4. (c[1] * b[1]) * (d[2] * a[2]) + (d[1] * (-a[1])) * (c[2] * b[2]) = 0
  <2>1. (d[1] * (-a[1])) * (c[2] * b[2]) = -((a[1] * d[1]) * (c[2] * b[2]))
    BY ONLY <1>1
  <2>2. (c[1] * b[1]) * (d[2] * a[2]) = (c[1] * b[1]) * (a[2] * d[2])
    BY ONLY <1>1
  <2>3. (a[1] * d[1]) * (c[2] * b[2]) \in Int
    BY ONLY <1>1
  <2> QED
    BY ONLY <1>2, <2>1, <2>2, <2>3
<1>5. /\ Plus(Times(a, d), Times(b, Neg(c)))[1]
           = (a[1] * d[1]) * (b[2] * c[2]) + (b[1] * (-c[1])) * (a[2] * d[2])
      /\ Plus(Times(c, b), Times(d, Neg(a)))[1]
           = (c[1] * b[1]) * (d[2] * a[2]) + (d[1] * (-a[1])) * (c[2] * b[2])
  BY DEF Plus, Times, Neg
<1> QED
  BY <1>3, <1>4, <1>5 DEF Level, IsZero, a, b, c, d

\* A line on which a step along a diagonal stays is a diagonal itself.
LEMMA LevelSlope ==
    ASSUME NEW e, e.A \in Fraction, e.B \in Fraction, NEW u \in Int, NEW v \in Int, u # 0,
           Level(e, Whole(u), Whole(v))
    PROVE  /\ u = v  => e.A[1] * e.B[2] = -(e.B[1] * e.A[2])
           /\ v = -u => e.A[1] * e.B[2] = e.B[1] * e.A[2]
<1> DEFINE a == e.A
           b == e.B
           m == a[1] * b[2]
           n == b[1] * a[2]
<1>1. a[1] \in Int /\ a[2] \in Int /\ b[1] \in Int /\ b[2] \in Int
  BY Parts
<1>2. (a[1] * u) * (b[2] * 1) + (b[1] * v) * (a[2] * 1) = 0
  BY DEF Level, IsZero, Plus, Times, Whole
<1> HIDE DEF a, b
<1>3. m \in Int /\ n \in Int
  BY ONLY <1>1
<1>4. m * u + n * v = 0
  <2>1. (a[1] * u) * (b[2] * 1) = (a[1] * b[2]) * u
    BY <1>1
  <2>2. (b[1] * v) * (a[2] * 1) = (b[1] * a[2]) * v
    BY <1>1
  <2> QED
    BY ONLY <1>2, <2>1, <2>2
<1> HIDE DEF m, n
<1>5. CASE u = v
  <2>1. (m + n) * u = 0
    BY <1>3, <1>4, <1>5
  <2>2. m + n = 0
    BY <1>3, <2>1
  <2>3. m = -n
    BY ONLY <1>3, <2>2
  <2>4. ~(v = -u)
    BY <1>5
  <2> QED
    BY <2>3, <2>4 DEF m, n, a, b
<1>6. CASE v = -u
  <2>1. n * v = -(n * u)
    BY <1>3, <1>6
  <2>2. (m - n) * u = 0
    BY <1>3, <1>4, <2>1
  <2>3. m - n = 0
    BY <1>3, <2>2
  <2>4. m = n
    BY ONLY <1>3, <2>3
  <2>5. ~(u = v)
    BY <1>6
  <2> QED
    BY <2>4, <2>5 DEF m, n, a, b
<1> QED
  BY <1>5, <1>6

LEMMA DiagonalsParallel ==
    ASSUME NEW e, NEW f, e.A \in Fraction, e.B \in Fraction, f.A \in Fraction, f.B \in Fraction,
           NEW s \in {-1, 1}, NEW t \in {-1, 1}, NEW d \in Int, d > 0,
           Level(e, Whole(s * d), Whole(t * d)), Level(f, Whole(s * d), Whole(t * d))
    PROVE  Singular(e, f)
<1> DEFINE u == s * d
           v == t * d
           m == e.A[1] * e.B[2]
           n == e.B[1] * e.A[2]
           k == f.A[1] * f.B[2]
           l == f.B[1] * f.A[2]
<1>1. u \in Int /\ v \in Int /\ u # 0 /\ (u = v \/ v = -u)
  <2>1. (s = 1 => u = d) /\ (s = -1 => u = -d)
    OBVIOUS
  <2>2. (t = 1 => v = d) /\ (t = -1 => v = -d)
    OBVIOUS
  <2> HIDE DEF u, v
  <2> QED
    BY <2>1, <2>2
<1>2. /\ Level(e, Whole(u), Whole(v)) /\ Level(f, Whole(u), Whole(v))
  OBVIOUS
<1> HIDE DEF u, v
<1>3. (m = -n /\ k = -l) \/ (m = n /\ k = l)
  BY <1>1, <1>2, LevelSlope
<1>4. /\ e.A[1] \in Int /\ e.A[2] \in Int /\ e.B[1] \in Int /\ e.B[2] \in Int
      /\ f.A[1] \in Int /\ f.A[2] \in Int /\ f.B[1] \in Int /\ f.B[2] \in Int
  BY Parts
<1>5. m \in Int /\ n \in Int /\ k \in Int /\ l \in Int
  BY ONLY <1>4
<1>6. /\ (e.A[1] * f.B[1]) * (f.A[2] * e.B[2]) = m * l
      /\ (f.A[1] * e.B[1]) * (e.A[2] * f.B[2]) = n * k
  BY ONLY <1>4
<1> HIDE DEF m, n, k, l
<1>7. m * l = n * k
  <2>1. CASE m = -n /\ k = -l
    BY ONLY <1>5, <2>1
  <2>2. CASE m = n /\ k = l
    BY ONLY <1>5, <2>2
  <2> QED
    BY <1>3, <2>1, <2>2
<1> QED
  BY ONLY <1>6, <1>7 DEF Singular, Same, Times

\* Two wrong choices are different, and no one solves a system of two lines that
\* are not the same or parallel.
LEMMA WholeApart ==
    ASSUME NEW x \in Fraction, NEW i \in Int, NEW j \in Int,
           Reduced(Plus(x, Whole(i))) = Reduced(Plus(x, Whole(j)))
    PROVE  i = j
<1>1. Plus(x, Whole(i)) \in Fraction /\ Plus(x, Whole(j)) \in Fraction
  BY WholeType, PlusType
<1>2. Same(Plus(x, Whole(i)), Plus(x, Whole(j)))
  BY <1>1, ReducedCanonical
<1>3. x[1] \in Int /\ x[2] \in Int /\ x[2] # 0
  BY Parts
<1>4. (x[1] * 1 + i * x[2]) * (x[2] * 1) = (x[1] * 1 + j * x[2]) * (x[2] * 1)
  BY <1>2 DEF Same, Plus, Whole
<1> DEFINE p == x[1]
           q == x[2]
<1>5. p \in Int /\ q \in Int /\ q # 0 /\ (p * 1 + i * q) * (q * 1) = (p * 1 + j * q) * (q * 1)
  BY <1>3, <1>4
<1> HIDE DEF p, q
<1>6. q * (p + i * q) = q * (p + j * q)
  BY <1>5
<1>7. p + i * q \in Int /\ p + j * q \in Int
  BY <1>5
<1>8. p + i * q = p + j * q
  BY <1>5, <1>6, <1>7, Cancel
<1>9. q * i = q * j
  BY <1>5, <1>8
<1> QED
  BY <1>5, <1>9, Cancel

LEMMA DiagonalSteps ==
    ASSUME NEW s \in {-1, 1}, NEW d \in 1 .. 4, NEW t \in {-1, 1}, NEW c \in 1 .. 4
    PROVE  s * d \in Int /\ (s * d = t * c => s = t /\ d = c)
OBVIOUS

LEMMA NumbersUpTo ==
    ASSUME NEW n \in Nat
    PROVE  IsFiniteSet(1 .. n) /\ Cardinality(1 .. n) = n
<1>1. IsFiniteSet(1 .. n) /\ Cardinality(1 .. n) = IF 1 > n THEN 0 ELSE n - 1 + 1
  BY FS_Interval
<1> QED
  BY <1>1

LEMMA FourNumbers == IsFiniteSet(1 .. 4) /\ Cardinality(1 .. 4) = 4
<1>1. 4 \in Nat
  OBVIOUS
<1> QED
  BY ONLY <1>1, NumbersUpTo, Zenon

LEMMA SixteenWrong ==
    ASSUME NEW x \in Fraction, NEW y \in Fraction
    PROVE  Cardinality(Wrong(x, y)) = 16
<1> DEFINE S == {-1, 1} \X ({-1, 1} \X (1 .. 4))
           f == [k \in S |-> <<Reduced(Plus(x, Whole(k[1] * k[2][2]))),
                               Reduced(Plus(y, Whole(k[2][1] * k[2][2])))>>]
<1>1. IsFiniteSet({-1, 1}) /\ Cardinality({-1, 1}) = 2
  <2>1. IsFiniteSet({-1}) /\ Cardinality({-1}) = 1 /\ 1 \notin {-1}
    BY FS_Singleton
  <2>2. IsFiniteSet({-1} \cup {1}) /\ Cardinality({-1} \cup {1}) = 1 + 1
    BY ONLY <2>1, FS_AddElement
  <2>3. {-1} \cup {1} = {-1, 1}
    OBVIOUS
  <2> QED
    BY ONLY <2>2, <2>3
<1>2. IsFiniteSet(1 .. 4) /\ Cardinality(1 .. 4) = 4
  BY FourNumbers
<1>3. IsFiniteSet({-1, 1} \X (1 .. 4)) /\ Cardinality({-1, 1} \X (1 .. 4)) = 2 * 4
  BY ONLY <1>1, <1>2, FS_Product
<1>4. IsFiniteSet(S) /\ Cardinality(S) = 2 * (2 * 4)
  BY ONLY <1>1, <1>3, FS_Product
<1>5. ASSUME NEW j \in S, NEW k \in S, f[j] = f[k] PROVE j = k
  <2>1. /\ j[1] \in {-1, 1} /\ j[2][1] \in {-1, 1} /\ j[2][2] \in 1 .. 4
        /\ k[1] \in {-1, 1} /\ k[2][1] \in {-1, 1} /\ k[2][2] \in 1 .. 4
        /\ j = <<j[1], <<j[2][1], j[2][2]>>>> /\ k = <<k[1], <<k[2][1], k[2][2]>>>>
    OBVIOUS
  <2>2. /\ Reduced(Plus(x, Whole(j[1] * j[2][2]))) = Reduced(Plus(x, Whole(k[1] * k[2][2])))
        /\ Reduced(Plus(y, Whole(j[2][1] * j[2][2]))) = Reduced(Plus(y, Whole(k[2][1] * k[2][2])))
    BY <1>5
  <2> DEFINE a == j[1] * j[2][2]
             b == k[1] * k[2][2]
             c == j[2][1] * j[2][2]
             d == k[2][1] * k[2][2]
  <2>3. a \in Int /\ b \in Int /\ c \in Int /\ d \in Int
    BY ONLY <2>1, DiagonalSteps
  <2>4. Reduced(Plus(x, Whole(a))) = Reduced(Plus(x, Whole(b)))
    BY ONLY <2>2
  <2>5. Reduced(Plus(y, Whole(c))) = Reduced(Plus(y, Whole(d)))
    BY ONLY <2>2
  <2>6. a = b
    <3> HIDE DEF a, b, c, d
    <3> QED
      BY <2>3, <2>4, WholeApart
  <2>7. c = d
    <3> HIDE DEF a, b, c, d
    <3> QED
      BY <2>3, <2>5, WholeApart
  <2>8. j[1] = k[1] /\ j[2][2] = k[2][2] /\ j[2][1] = k[2][1]
    BY ONLY <2>1, <2>6, <2>7, DiagonalSteps
  <2> QED
    BY ONLY <2>1, <2>8
<1>6. Wrong(x, y) = {f[k] : k \in S}
  <2>1. ASSUME NEW w \in Wrong(x, y) PROVE w \in {f[k] : k \in S}
    <3>1. PICK s \in {-1, 1}, t \in {-1, 1}, d \in 1 .. 4 :
            w = <<Reduced(Plus(x, Whole(s * d))), Reduced(Plus(y, Whole(t * d)))>>
      BY DEF Wrong
    <3> DEFINE k == <<s, <<t, d>>>>
    <3>2. k \in S /\ k[1] = s /\ k[2][1] = t /\ k[2][2] = d
      OBVIOUS
    <3> HIDE DEF k
    <3>3. f[k] = w
      BY <3>1, <3>2
    <3> HIDE DEF f
    <3> QED
      BY <3>2, <3>3
  <2>2. ASSUME NEW k \in S PROVE f[k] \in Wrong(x, y)
    <3>1. k[1] \in {-1, 1} /\ k[2][1] \in {-1, 1} /\ k[2][2] \in 1 .. 4
      OBVIOUS
    <3>2. f[k] = <<Reduced(Plus(x, Whole(k[1] * k[2][2]))), Reduced(Plus(y, Whole(k[2][1] * k[2][2])))>>
      OBVIOUS
    <3> HIDE DEF f
    <3> QED
      BY <3>1, <3>2 DEF Wrong
  <2> HIDE DEF f, S
  <2> QED
    BY <2>1, <2>2
<1> HIDE DEF f, S
<1>7. Cardinality({f[k] : k \in S}) = Cardinality(S)
  BY ONLY <1>4, <1>5, ImageSize
<1> QED
  BY ONLY <1>4, <1>6, <1>7

LEMMA OnLineSame ==
    ASSUME NEW eq, eq.A \in Fraction, eq.B \in Fraction, eq.C \in Fraction,
           NEW x \in Fraction, NEW y \in Fraction, NEW v \in Fraction, NEW w \in Fraction,
           Same(x, v), Same(y, w), OnLine(eq, x, y)
    PROVE  OnLine(eq, v, w)
<1> DEFINE p == At(eq.A, eq.B, x, y)
           q == At(eq.A, eq.B, v, w)
<1>1. Same(eq.A, eq.A) /\ Same(eq.B, eq.B)
  BY DEF Same
<1>2. p \in Fraction /\ q \in Fraction
  BY AtType
<1>3. Same(p, q) /\ Same(p, eq.C)
  BY <1>1, AtSame DEF OnLine
<1> HIDE DEF p, q
<1>4. Same(q, eq.C)
  BY <1>2, <1>3, SameSym, SameTrans
<1> QED
  BY ONLY <1>4 DEF OnLine, q

LEMMA WrongIsOff ==
    ASSUME NEW e, NEW f, NEW x \in Fraction, NEW y \in Fraction,
           IsLine(e, x, y), IsLine(f, x, y), ~Singular(e, f), NEW w \in Wrong(x, y)
    PROVE  ~(OnLine(e, w[1], w[2]) /\ OnLine(f, w[1], w[2]))
<1> SUFFICES ASSUME OnLine(e, w[1], w[2]), OnLine(f, w[1], w[2]) PROVE FALSE
  OBVIOUS
<1>1. PICK s \in {-1, 1}, t \in {-1, 1}, d \in 1 .. 4 :
        w = <<Reduced(Plus(x, Whole(s * d))), Reduced(Plus(y, Whole(t * d)))>>
  BY DEF Wrong
<1>2. d \in Int /\ d > 0
  OBVIOUS
<1>3. s * d \in Int /\ t * d \in Int
  BY DiagonalSteps
<1> DEFINE p == Whole(s * d)
           q == Whole(t * d)
           v == Plus(x, p)
           u == Plus(y, q)
<1>4. p \in Fraction /\ q \in Fraction
  BY <1>3, WholeType
<1>5. v \in Fraction /\ u \in Fraction
  BY <1>4, PlusType
<1>6. /\ w[1] \in Fraction /\ w[2] \in Fraction /\ Same(w[1], v) /\ Same(w[2], u)
  BY <1>1, <1>5, ReducedLowest
<1>7. /\ e.A \in Fraction /\ e.B \in Fraction /\ e.C \in Fraction
      /\ f.A \in Fraction /\ f.B \in Fraction /\ f.C \in Fraction
  BY DEF IsLine
<1> HIDE DEF p, q, v, u
<1>8. OnLine(e, v, u) /\ OnLine(f, v, u)
  BY <1>5, <1>6, <1>7, OnLineSame
<1>9. Level(e, p, q) /\ Level(f, p, q)
  BY <1>4, <1>8, ShiftedLine DEF v, u
<1> QED
  BY <1>2, <1>7, <1>9, DiagonalsParallel DEF p, q

\* Two lines that are the same or parallel and have a point in common have another one.
LEMMA AnotherPoint ==
    ASSUME NEW e, NEW f, NEW x \in Fraction, NEW y \in Fraction,
           IsLine(e, x, y), IsLine(f, x, y), Singular(e, f)
    PROVE  \E s \in {Along(e), Along(f), <<One, One>>} :
             /\ ~(IsZero(s[1]) /\ IsZero(s[2]))
             /\ OnLine(e, Plus(x, s[1]), Plus(y, s[2])) /\ OnLine(f, Plus(x, s[1]), Plus(y, s[2]))
<1>1. /\ e.A \in Fraction /\ e.B \in Fraction /\ f.A \in Fraction /\ f.B \in Fraction
  BY DEF IsLine
<1>2. ASSUME NEW a, a.A \in Fraction, a.B \in Fraction
      PROVE  /\ Along(a)[1] = a.B /\ Along(a)[2] = Neg(a.A)
             /\ Neg(a.A) \in Fraction /\ (IsZero(Neg(a.A)) <=> IsZero(a.A))
  <2>1. Along(a)[1] = a.B /\ Along(a)[2] = Neg(a.A)
    BY DEF Along
  <2>2. a.A[1] \in Int
    BY <1>2, Parts
  <2>3. -a.A[1] = 0 <=> a.A[1] = 0
    BY ONLY <2>2
  <2> QED
    BY <1>2, <2>1, <2>3, NegType DEF IsZero, Neg
<1>3. Same(Times(e.A, f.B), Times(f.A, e.B))
  BY DEF Singular
<1>4. /\ Level(e, f.B, Neg(f.A)) /\ Level(f, e.B, Neg(e.A))
  BY <1>1, <1>3, AlongLevel
<1>5. ASSUME NEW a, a.A \in Fraction, a.B \in Fraction PROVE Level(a, a.B, Neg(a.A))
  <2>1. Same(Times(a.A, a.B), Times(a.A, a.B))
    BY DEF Same
  <2> QED
    BY <1>5, <2>1, AlongLevel
<1>6. CASE ~(IsZero(e.A) /\ IsZero(e.B))
  <2>1. /\ Level(e, Along(e)[1], Along(e)[2]) /\ Level(f, Along(e)[1], Along(e)[2])
        /\ Along(e)[1] \in Fraction /\ Along(e)[2] \in Fraction
        /\ ~(IsZero(Along(e)[1]) /\ IsZero(Along(e)[2]))
    BY <1>1, <1>2, <1>4, <1>5, <1>6
  <2>2. OnLine(e, Plus(x, Along(e)[1]), Plus(y, Along(e)[2]))
    BY <2>1, ShiftedLine
  <2>3. OnLine(f, Plus(x, Along(e)[1]), Plus(y, Along(e)[2]))
    BY <2>1, ShiftedLine
  <2> QED
    BY ONLY <2>1, <2>2, <2>3
<1>7. CASE ~(IsZero(f.A) /\ IsZero(f.B))
  <2>1. /\ Level(e, Along(f)[1], Along(f)[2]) /\ Level(f, Along(f)[1], Along(f)[2])
        /\ Along(f)[1] \in Fraction /\ Along(f)[2] \in Fraction
        /\ ~(IsZero(Along(f)[1]) /\ IsZero(Along(f)[2]))
    BY <1>1, <1>2, <1>4, <1>5, <1>7
  <2>2. OnLine(e, Plus(x, Along(f)[1]), Plus(y, Along(f)[2]))
    BY <2>1, ShiftedLine
  <2>3. OnLine(f, Plus(x, Along(f)[1]), Plus(y, Along(f)[2]))
    BY <2>1, ShiftedLine
  <2> QED
    BY ONLY <2>1, <2>2, <2>3
<1>8. CASE IsZero(e.A) /\ IsZero(e.B) /\ IsZero(f.A) /\ IsZero(f.B)
  <2> DEFINE s == <<One, One>>
  <2>1. s[1] = One /\ s[2] = One /\ One \in Fraction /\ ~IsZero(One)
    BY OneLowest DEF IsZero, One, Whole
  <2>2. ASSUME NEW a, a.A \in Fraction, a.B \in Fraction, IsZero(a.A), IsZero(a.B)
        PROVE  Level(a, One, One)
    <3>1. a.A[1] = 0 /\ a.B[1] = 0 /\ a.A[2] \in Int /\ a.B[2] \in Int
      BY <2>2, Parts DEF IsZero
    <3>2. Plus(Times(a.A, One), Times(a.B, One))[1]
            = (a.A[1] * 1) * (a.B[2] * 1) + (a.B[1] * 1) * (a.A[2] * 1)
      BY DEF Plus, Times, One, Whole
    <3> QED
      BY <3>1, <3>2 DEF Level, IsZero
  <2>3. Level(e, s[1], s[2]) /\ Level(f, s[1], s[2])
    BY <1>1, <1>8, <2>1, <2>2
  <2>4. OnLine(e, Plus(x, s[1]), Plus(y, s[2]))
    BY <2>1, <2>3, ShiftedLine
  <2>5. OnLine(f, Plus(x, s[1]), Plus(y, s[2]))
    BY <2>1, <2>3, ShiftedLine
  <2> QED
    BY ONLY <2>1, <2>4, <2>5
<1> QED
  BY <1>6, <1>7, <1>8

\* A problem as far as it is built: every equation of it is a line through the answer.
SystemShape ==
    /\ system.used \in SUBSET NumberTypes /\ system.x \in Fraction /\ system.y \in Fraction
    /\ system.stage \in {"second", "done"} => IsLine(system.first, system.x, system.y)
    /\ system.stage = "done" =>
        /\ IsLine(system.second, system.x, system.y)
        /\ system.unique <=> ~Singular(system.first, system.second)

SystemFields == {"stage", "used", "x", "y", "tries", "first", "second", "unique"}

SystemInv ==
    \/ system = NoSystem
    \/ /\ system = [f \in SystemFields |-> system[f]]
       /\ SystemShape

LEMMA ChooseAnswerInv == ASSUME ChooseAnswer PROVE SystemInv'
<1>1. PICK used \in Uses \ {{}},
          kinds \in SUBSET {"only_integer", "including_fraction_and_decimal"} \ {{}} :
       \E x, y \in Unknown(used, kinds) :
            system' = [stage |-> "first", used |-> used, x |-> x, y |-> y, tries |-> 0,
                       first |-> NoSystem, second |-> NoSystem, unique |-> FALSE]
  BY DEF ChooseAnswer
<1>2. PICK x \in Unknown(used, kinds), y \in Unknown(used, kinds) :
            system' = [stage |-> "first", used |-> used, x |-> x, y |-> y, tries |-> 0,
                       first |-> NoSystem, second |-> NoSystem, unique |-> FALSE]
  BY <1>1
<1>3. used \in SUBSET NumberTypes
  BY SystemAssumption
<1>4. x \in Fraction /\ y \in Fraction
  BY <1>3, UnknownType
<1>5. system' = [f \in SystemFields |-> system'[f]]
  BY <1>2 DEF SystemFields
<1>6. system'.stage = "first" /\ system'.used = used /\ system'.x = x /\ system'.y = y
  BY <1>2
<1> QED
  BY <1>3, <1>4, <1>5, <1>6 DEF SystemInv, SystemShape

LEMMA BuildFirstInv == ASSUME SystemInv, BuildFirst PROVE SystemInv'
<1>1. /\ system = [f \in SystemFields |-> system[f]] /\ SystemShape
      /\ system.stage = "first"
  BY DEF SystemInv, BuildFirst, NoSystem
<1>2. PICK eq \in Lines(system.used, system.x, system.y) :
        system' = [system EXCEPT !.stage = "second", !.first = eq]
  BY DEF BuildFirst
<1>3. IsLine(eq, system.x, system.y)
  BY <1>1, LinesAre DEF SystemShape
<1>4. /\ system' = [f \in SystemFields |-> system'[f]]
      /\ system'.stage = "second" /\ system'.first = eq
      /\ system'.used = system.used /\ system'.x = system.x /\ system'.y = system.y
  BY <1>1, <1>2 DEF SystemFields
<1> QED
  BY <1>1, <1>3, <1>4 DEF SystemInv, SystemShape

LEMMA BuildSecondInv == ASSUME SystemInv, BuildSecond PROVE SystemInv'
<1>1. /\ system = [f \in SystemFields |-> system[f]] /\ SystemShape
      /\ system.stage = "second"
  BY DEF SystemInv, BuildSecond, NoSystem
<1>2. PICK eq \in Lines(system.used, system.x, system.y) :
        LET again == Singular(system.first, eq) /\ system.tries + 1 < MaxRetry
        IN system' = [system EXCEPT !.stage = IF again THEN "first" ELSE "done",
                                    !.first = IF again THEN NoSystem ELSE @,
                                    !.second = IF again THEN NoSystem ELSE eq,
                                    !.unique = ~Singular(system.first, eq),
                                    !.used = IF again THEN @ ELSE {},
                                    !.tries = IF again THEN @ + 1 ELSE 0]
  BY DEF BuildSecond
<1>3. IsLine(eq, system.x, system.y) /\ IsLine(system.first, system.x, system.y)
  BY <1>1, LinesAre DEF SystemShape
<1>4. system' = [f \in SystemFields |-> system'[f]]
  BY <1>1, <1>2 DEF SystemFields
<1>5. CASE Singular(system.first, eq) /\ system.tries + 1 < MaxRetry
  <2>1. /\ system'.stage = "first" /\ system'.used = system.used
        /\ system'.x = system.x /\ system'.y = system.y
    BY <1>1, <1>2, <1>5 DEF SystemFields
  <2> QED
    BY <1>1, <1>4, <2>1 DEF SystemInv, SystemShape
<1>6. CASE ~(Singular(system.first, eq) /\ system.tries + 1 < MaxRetry)
  <2>1. /\ system'.stage = "done" /\ system'.used = {}
        /\ system'.x = system.x /\ system'.y = system.y
        /\ system'.first = system.first /\ system'.second = eq
        /\ system'.unique = ~Singular(system.first, eq)
    BY <1>1, <1>2, <1>6 DEF SystemFields
  <2> QED
    BY <1>1, <1>3, <1>4, <2>1 DEF SystemInv, SystemShape
<1> QED
  BY <1>5, <1>6

\* Every equation reads as it was built; the answer is announced as the only one, or as
\* one of many, rightly; and where it is the only one no choice beside it is a solution.
THEOREM SystemIsRight == SystemInv => SystemRight
<1> SUFFICES ASSUME SystemInv PROVE SystemRight
  OBVIOUS
<1>1. CASE system = NoSystem
  BY <1>1 DEF NoSystem, SystemRight
<1>2. CASE SystemShape
  <2>1. system.used \in SUBSET NumberTypes /\ system.x \in Fraction /\ system.y \in Fraction
    BY <1>2 DEF SystemShape
  <2>2. ASSUME NEW eq \in Built(system.used, system.x, system.y)
        PROVE  /\ OnLine(Printed(eq), system.x, system.y)
               /\ Line(eq) = Printed(eq)
               /\ Apart(eq.y1) /\ Apart(eq.y2)
               /\ ~IsZero(eq.C) => Apart(eq.x2) \/ Apart(eq.k)
    <3>1. Readable(eq, system.x, system.y)
      BY <2>1, BuiltReadable
    <3> QED
      BY ONLY <3>1 DEF Readable, IsLine
  <2>3. ASSUME system.stage = "done", system.unique
        PROVE  /\ Cardinality(Wrong(system.x, system.y)) = 16
               /\ \A w \in Wrong(system.x, system.y) :
                    ~(OnLine(system.first, w[1], w[2]) /\ OnLine(system.second, w[1], w[2]))
    <3>1. /\ IsLine(system.first, system.x, system.y) /\ IsLine(system.second, system.x, system.y)
          /\ ~Singular(system.first, system.second)
      BY <1>2, <2>3 DEF SystemShape
    <3>2. \A w \in Wrong(system.x, system.y) :
            ~(OnLine(system.first, w[1], w[2]) /\ OnLine(system.second, w[1], w[2]))
      BY <2>1, <3>1, WrongIsOff
    <3> QED
      BY <2>1, <3>2, SixteenWrong
  <2>4. ASSUME system.stage = "done", ~system.unique
        PROVE  \E s \in {Along(system.first), Along(system.second), <<One, One>>} :
                 /\ ~(IsZero(s[1]) /\ IsZero(s[2]))
                 /\ OnLine(system.first, Plus(system.x, s[1]), Plus(system.y, s[2]))
                 /\ OnLine(system.second, Plus(system.x, s[1]), Plus(system.y, s[2]))
    <3>1. /\ IsLine(system.first, system.x, system.y) /\ IsLine(system.second, system.x, system.y)
          /\ Singular(system.first, system.second)
      BY <1>2, <2>4 DEF SystemShape
    <3> QED
      BY <2>1, <3>1, AnotherPoint
  <2> QED
    BY <2>2, <2>3, <2>4, Zenon DEF SystemRight
<1> QED
  BY <1>1, <1>2 DEF SystemInv

LEMMA SystemStep == SystemInv /\ NextSystem => SystemInv'
BY ChooseAnswerInv, BuildFirstInv, BuildSecondInv DEF NextSystem

-----------------------------------------------------------------------------
(* Linear equations: tenths, and the pools of wrong choices *)

LEMMA PlusCancel ==
    ASSUME NEW x \in Fraction, NEW y \in Fraction, NEW z \in Fraction,
           Same(Plus(x, y), Plus(x, z))
    PROVE  Same(y, z)
<1> DEFINE p == x[1]
           q == x[2]
           b == y[1]
           e == y[2]
           c == z[1]
           f == z[2]
<1>1. /\ p \in Int /\ q \in Int /\ q # 0 /\ b \in Int /\ e \in Int /\ c \in Int /\ f \in Int
      /\ (p * e + b * q) * (q * f) = (p * f + c * q) * (q * e)
  BY Parts DEF Same, Plus
<1> HIDE DEF p, q, b, e, c, f
<1>2. q * (q * (b * f)) = q * (q * (c * e))
  BY <1>1
<1>3. b * f \in Int /\ c * e \in Int /\ q * (b * f) \in Int /\ q * (c * e) \in Int
  BY <1>1
<1>4. b * f = c * e
  BY ONLY <1>1, <1>2, <1>3, Cancel
<1> QED
  BY <1>4 DEF Same, b, e, c, f

LEMMA TenthType == \A n \in Int : <<n, 10>> \in Fraction
BY IsFraction

\* The nearest tenth of what is a number of tenths.
LEMMA TenthIs ==
    ASSUME NEW x \in Fraction, NEW n \in Int, Same(x, <<n, 10>>)
    PROVE  ToTenth(x) = Reduced(<<n, 10>>)
<1> DEFINE p == x[1]
           q == x[2]
<1>1. p \in Int /\ q \in Int /\ q > 0 /\ p * 10 = n * q
  BY Parts DEF Same
<1> HIDE DEF p, q
<1>2. 20 * p = 2 * (p * 10)
  BY <1>1
<1>3. 2 * (n * q) = (2 * q) * n
  BY <1>1
<1>4. 20 * p + q = (2 * q) * n + q
  BY <1>1, <1>2, <1>3
<1>5. 2 * q \in Nat \ {0} /\ 20 * p + q \in Int /\ q \in 0 .. (2 * q) - 1
  BY <1>1
<1>6. (20 * p + q) \div (2 * q) = n
  BY <1>4, <1>5, DivisionUnique
<1> QED
  BY <1>6 DEF ToTenth, p, q

LEMMA TenthApart ==
    ASSUME NEW i \in Int, NEW j \in Int, Reduced(<<i, 10>>) = Reduced(<<j, 10>>)
    PROVE  i = j
<1>1. Same(<<i, 10>>, <<j, 10>>)
  BY TenthType, ReducedCanonical
<1> QED
  BY <1>1 DEF Same

LEMMA ToTenthType ==
    ASSUME NEW x \in Fraction
    PROVE  \E n \in Int : ToTenth(x) = Reduced(<<n, 10>>)
<1> DEFINE n == (20 * x[1] + x[2]) \div (2 * x[2])
<1>1. x[1] \in Int /\ x[2] \in Int /\ x[2] > 0
  BY Parts
<1>2. 20 * x[1] + x[2] \in Int /\ 2 * x[2] \in Nat \ {0}
  BY <1>1
<1>3. n \in Int
  BY <1>2, Division
<1> QED
  BY <1>3 DEF ToTenth

\* What is rounded already is not rounded again.
LEMMA TenthTwice ==
    ASSUME NEW x \in Fraction
    PROVE  ToTenth(x) \in Fraction /\ Lowest(ToTenth(x)) /\ ToTenth(ToTenth(x)) = ToTenth(x)
<1>1. PICK n \in Int : ToTenth(x) = Reduced(<<n, 10>>)
  BY ToTenthType
<1>2. /\ ToTenth(x) \in Fraction /\ Lowest(ToTenth(x)) /\ Same(ToTenth(x), <<n, 10>>)
  BY <1>1, TenthType, ReducedLowest
<1> QED
  BY <1>1, <1>2, TenthIs

LEMMA WholeTenth ==
    ASSUME NEW n \in Int
    PROVE  ToTenth(Whole(n)) = Whole(n)
<1>1. Whole(n) \in Fraction /\ Lowest(Whole(n))
  BY WholeType, WholeLowest
<1>2. 10 * n \in Int /\ Same(Whole(n), <<10 * n, 10>>)
  BY DEF Same, Whole
<1>3. ToTenth(Whole(n)) = Reduced(<<10 * n, 10>>)
  BY <1>1, <1>2, TenthIs
<1>4. Reduced(Whole(n)) = Reduced(<<10 * n, 10>>)
  BY <1>1, <1>2, TenthType, ReducedCanonical
<1> QED
  BY <1>1, <1>3, <1>4, LowestReduced

LEMMA FloorType ==
    ASSUME NEW x \in Fraction
    PROVE  FloorTenth(x) \in Fraction /\ CeilTenth(x) \in Fraction
<1>1. ASSUME NEW v \in Fraction PROVE FloorTenth(v) \in Fraction
  <2>1. v[1] \in Int /\ v[2] \in Nat \ {0}
    BY Parts
  <2>2. 10 * v[1] \in Int
    BY <2>1
  <2>3. (10 * v[1]) \div v[2] \in Int
    BY <2>1, <2>2, Division
  <2> QED
    BY <2>3, TenthType, ReducedLowest DEF FloorTenth
<1> QED
  BY <1>1, NegType DEF CeilTenth

LEMMA Interval == ASSUME NEW a \in Int, NEW b \in Int PROVE IsFiniteSet(a .. b)
BY FS_Interval

\* A pool that three choices can be drawn from, none of them the answer.
Good(pool, x) ==
    /\ pool \subseteq Fraction /\ IsFiniteSet(pool) /\ Cardinality(pool) >= 3
    /\ \A w \in pool : ~Same(w, x)

\* No choice looks like the answer, when they are printed as decimals.
NoTwin(pool, x) == Reduced(x) \notin {ToTenth(w) : w \in pool}

LEMMA OtherType ==
    ASSUME NEW x \in Fraction, NEW pool \in SUBSET Fraction, IsFiniteSet(pool)
    PROVE  /\ Other(pool, x) \subseteq Fraction /\ IsFiniteSet(Other(pool, x))
           /\ \A w \in Other(pool, x) : ~Same(w, x)
<1> DEFINE kept == {v \in pool : ~Same(v, x)}
           f == [w \in kept |-> Reduced(w)]
<1>1. IsFiniteSet(kept)
  BY FS_Subset
<1>2. Other(pool, x) = {f[w] : w \in kept}
  BY DEF Other
<1>3. IsFiniteSet(Other(pool, x))
  <2> HIDE DEF f, kept
  <2> QED
    BY <1>1, <1>2, FiniteImage
<1>4. ASSUME NEW w \in Other(pool, x) PROVE w \in Fraction /\ ~Same(w, x)
  <2>1. PICK v \in kept : w = Reduced(v)
    BY DEF Other
  <2>2. v \in Fraction /\ ~Same(v, x)
    BY <2>1
  <2>3. w \in Fraction /\ Same(w, v)
    BY <2>1, <2>2, ReducedLowest
  <2>4. Same(v, w)
    BY <2>3, SameSym
  <2> QED
    BY <2>2, <2>3, <2>4, SameTrans
<1> QED
  BY <1>3, <1>4

LEMMA OtherGood ==
    ASSUME NEW x \in Fraction, NEW pool \in SUBSET Fraction, IsFiniteSet(pool),
           NEW a \in pool, NEW b \in pool, NEW c \in pool,
           ~Same(a, b), ~Same(a, c), ~Same(b, c), ~Same(a, x), ~Same(b, x), ~Same(c, x)
    PROVE  Good(Other(pool, x), x)
<1>1. a \in Fraction /\ b \in Fraction /\ c \in Fraction
  OBVIOUS
<1>2. Reduced(a) # Reduced(b) /\ Reduced(a) # Reduced(c) /\ Reduced(b) # Reduced(c)
  BY <1>1, ReducedCanonical
<1>3. Reduced(a) \in Other(pool, x) /\ Reduced(b) \in Other(pool, x) /\ Reduced(c) \in Other(pool, x)
  BY DEF Other
<1>4. IsFiniteSet(Other(pool, x))
  BY OtherType
<1>5. Cardinality(Other(pool, x)) >= 3
  BY <1>2, <1>3, <1>4, AtLeastThree
<1> QED
  BY <1>5, OtherType DEF Good

LEMMA WholeSteps ==
    ASSUME NEW x \in Fraction, NEW i \in Int, NEW j \in Int, i # j
    PROVE  /\ Plus(x, Whole(i)) \in Fraction
           /\ ~Same(Plus(x, Whole(i)), Plus(x, Whole(j)))
           /\ i # 0 => ~Same(Plus(x, Whole(i)), x)
<1>1. /\ Whole(i) \in Fraction /\ Whole(j) \in Fraction
      /\ Plus(x, Whole(i)) \in Fraction /\ Plus(x, Whole(j)) \in Fraction
  BY WholeType, PlusType
<1>2. ~Same(Plus(x, Whole(i)), Plus(x, Whole(j)))
  BY <1>1, ReducedCanonical, WholeApart
<1>3. i # 0 => ~IsZero(Whole(i))
  BY DEF IsZero, Whole
<1> QED
  BY <1>1, <1>2, <1>3, PlusNothing

LEMMA WholeNearType ==
    ASSUME NEW x \in Fraction, NEW k \in Nat
    PROVE  WholeNear(x, k) \in SUBSET Fraction /\ IsFiniteSet(WholeNear(x, k))
<1> DEFINE S == (-k .. k) \ {0}
           f == [d \in S |-> Plus(x, Whole(d))]
<1>1. -k \in Int /\ k \in Int
  OBVIOUS
<1>2. IsFiniteSet(-k .. k)
  BY <1>1, Interval
<1>3. IsFiniteSet(S)
  <2>1. S \in SUBSET (-k .. k)
    OBVIOUS
  <2> QED
    BY ONLY <1>2, <2>1, FS_Subset
<1>4. WholeNear(x, k) = {f[d] : d \in S}
  BY DEF WholeNear
<1>5. ASSUME NEW d \in S PROVE Plus(x, Whole(d)) \in Fraction
  BY WholeType, PlusType
<1>6. WholeNear(x, k) \in SUBSET Fraction
  BY <1>5 DEF WholeNear
<1> HIDE DEF f, S
<1> QED
  BY <1>3, <1>4, <1>6, FiniteImage

LEMMA ThreeNear ==
    ASSUME NEW x \in Fraction, NEW k \in Nat, k >= 3
    PROVE  \A d \in {1, 2, 3} : Plus(x, Whole(d)) \in WholeNear(x, k)
<1>1. \A d \in {1, 2, 3} : d \in (-k .. k) \ {0}
  OBVIOUS
<1> QED
  BY <1>1 DEF WholeNear

LEMMA NearGood ==
    ASSUME NEW x \in Fraction, NEW pool \in SUBSET Fraction, IsFiniteSet(pool),
           NEW k \in Nat, k >= 3
    PROVE  Good(Other(pool \cup WholeNear(x, k), x), x)
<1> DEFINE all == pool \cup WholeNear(x, k)
<1>1. all \in SUBSET Fraction /\ IsFiniteSet(all)
  BY WholeNearType, FS_Union
<1>2. Plus(x, Whole(1)) \in all /\ Plus(x, Whole(2)) \in all /\ Plus(x, Whole(3)) \in all
  BY ThreeNear
<1>3. /\ ~Same(Plus(x, Whole(1)), Plus(x, Whole(2))) /\ ~Same(Plus(x, Whole(1)), Plus(x, Whole(3)))
      /\ ~Same(Plus(x, Whole(2)), Plus(x, Whole(3)))
      /\ ~Same(Plus(x, Whole(1)), x) /\ ~Same(Plus(x, Whole(2)), x) /\ ~Same(Plus(x, Whole(3)), x)
  BY WholeSteps
<1> HIDE DEF all
<1>4. Good(Other(all, x), x)
  BY <1>1, <1>2, <1>3, OtherGood
<1> QED
  BY <1>4 DEF all

\* A number without a part after the point.
LEMMA IsWholeSame ==
    ASSUME NEW w \in Fraction, IsWhole(w)
    PROVE  \E n \in Int : Reduced(w) = Whole(n)
<1> DEFINE n == w[1] \div w[2]
<1>1. w[1] \in Int /\ w[2] \in Nat \ {0} /\ w[1] % w[2] = 0
  BY Parts DEF IsWhole
<1>2. n \in Int /\ w[1] = w[2] * n + 0
  BY <1>1, Division
<1>3. w[2] * n = n * w[2]
  BY ONLY <1>1, <1>2
<1>4. w[1] * 1 = n * w[2]
  BY ONLY <1>1, <1>2, <1>3
<1>5. Same(w, Whole(n))
  BY <1>4 DEF Same, Whole
<1>6. Whole(n) \in Fraction /\ Lowest(Whole(n))
  BY <1>2, WholeType, WholeLowest
<1> HIDE DEF n
<1> QED
  BY <1>2, <1>5, <1>6, ReducedCanonical, LowestReduced

LEMMA NearWholes ==
    ASSUME NEW m \in Int, NEW k \in Nat, NEW w \in WholeNear(Whole(m), k)
    PROVE  w \in Fraction /\ IsWhole(w)
<1>1. PICK d \in -k .. k : w = Plus(Whole(m), Whole(d))
  BY DEF WholeNear
<1>2. w = <<m * 1 + d * 1, 1 * 1>>
  BY <1>1 DEF Plus, Whole
<1>3. m * 1 + d * 1 \in Int /\ 1 * 1 = 1 /\ (m * 1 + d * 1) % 1 = 0
  BY <1>1
<1> QED
  BY <1>2, <1>3, IsFraction DEF IsWhole

LEMMA WholesTwin ==
    ASSUME NEW m \in Int, NEW pool \in SUBSET Fraction, \A w \in pool : IsWhole(w)
    PROVE  NoTwin(Other(pool, Whole(m)), Whole(m))
<1> DEFINE x == Whole(m)
<1>1. x \in Fraction /\ Lowest(x) /\ Reduced(x) = x
  BY WholeType, WholeLowest, LowestReduced
<1>2. ASSUME NEW w \in Other(pool, x) PROVE ToTenth(w) # x
  <2>1. PICK v \in pool : ~Same(v, x) /\ w = Reduced(v)
    BY DEF Other
  <2>2. PICK n \in Int : Reduced(v) = Whole(n)
    BY <2>1, IsWholeSame
  <2>3. ToTenth(w) = w
    BY <2>1, <2>2, WholeTenth
  <2>4. w # Reduced(x)
    BY <1>1, <2>1, ReducedCanonical
  <2> QED
    BY <1>1, <2>3, <2>4
<1> QED
  BY <1>1, <1>2 DEF NoTwin

LEMMA WholePoolRight ==
    ASSUME NEW m \in Int, NEW mistakes \in SUBSET Fraction, IsFiniteSet(mistakes)
    PROVE  /\ Good(WholePool(mistakes, Whole(m)), Whole(m))
           /\ NoTwin(WholePool(mistakes, Whole(m)), Whole(m))
<1> DEFINE x == Whole(m)
           kept == {w \in mistakes : IsWhole(w)}
           all == kept \cup WholeNear(x, 5)
<1>1. x \in Fraction /\ 5 \in Nat /\ 5 >= 3
  BY WholeType
<1>2. kept \in SUBSET Fraction /\ IsFiniteSet(kept)
  BY FS_Subset
<1>3. WholePool(mistakes, x) = Other(all, x)
  BY DEF WholePool
<1>4. Good(Other(all, x), x)
  BY ONLY <1>1, <1>2, NearGood
<1>5. all \in SUBSET Fraction /\ \A w \in all : IsWhole(w)
  BY <1>1, <1>2, NearWholes
<1>6. NoTwin(Other(all, x), x)
  BY ONLY <1>5, WholesTwin, m \in Int
<1> QED
  BY <1>3, <1>4, <1>6

LEMMA CappedPoolRight ==
    ASSUME NEW m \in Int, NEW mistakes \in SUBSET Fraction, IsFiniteSet(mistakes)
    PROVE  /\ Good(CappedPool(mistakes, Whole(m)), Whole(m))
           /\ NoTwin(CappedPool(mistakes, Whole(m)), Whole(m))
<1> DEFINE x == Whole(m)
           small == {w \in mistakes : IsWhole(w) /\ Magnitude(w)[1] <= 100 * w[2]}
           upto(k) == Other(small \cup WholeNear(x, k), x)
           enough == {k \in 1 .. 5 : k = 5 \/ Cardinality(upto(k)) >= 8}
           k0 == CHOOSE k \in enough : \A j \in enough : k <= j
<1>1. x \in Fraction
  BY WholeType
<1>2. small \in SUBSET Fraction /\ IsFiniteSet(small)
  BY FS_Subset
<1>3. enough \in SUBSET Nat /\ enough # {}
  OBVIOUS
<1>4. CappedPool(mistakes, x) = upto(k0)
  BY DEF CappedPool
<1>5. k0 \in enough
  <2> HIDE DEF enough
  <2>1. \E k \in enough : \A j \in enough : k <= j
    BY <1>3, Least
  <2> QED
    BY <2>1
<1> HIDE DEF k0
<1>6. k0 \in Nat /\ (k0 = 5 \/ Cardinality(upto(k0)) >= 8)
  <2> HIDE DEF upto
  <2> QED
    BY <1>5
<1>7. small \cup WholeNear(x, k0) \in SUBSET Fraction /\ IsFiniteSet(small \cup WholeNear(x, k0))
  BY <1>1, <1>2, <1>6, WholeNearType, FS_Union
<1>8. \A w \in small \cup WholeNear(x, k0) : IsWhole(w)
  BY <1>6, NearWholes
<1>9. NoTwin(upto(k0), x)
  BY <1>7, <1>8, WholesTwin
<1>10. Good(upto(k0), x)
  <2>1. CASE k0 = 5
    <3> HIDE DEF small, x
    <3> QED
      BY <1>1, <1>2, <2>1, NearGood
  <2>2. CASE Cardinality(upto(k0)) >= 8
    <3> HIDE DEF small, x
    <3>1. IsFiniteSet(upto(k0)) /\ upto(k0) \subseteq Fraction /\ \A w \in upto(k0) : ~Same(w, x)
      BY <1>1, <1>7, OtherType
    <3>2. Cardinality(upto(k0)) >= 3
      BY <2>2, <3>1, FS_CardinalityType
    <3> QED
      BY <3>1, <3>2 DEF Good
  <2> QED
    BY <1>6, <2>1, <2>2
<1> QED
  BY <1>4, <1>9, <1>10

LEMMA IfDefinedType ==
    ASSUME NEW x \in Fraction, NEW y \in Fraction
    PROVE  IfDefined(x, y) \in SUBSET Fraction /\ IsFiniteSet(IfDefined(x, y))
<1>1. CASE IsZero(y)
  BY <1>1, FS_EmptySet DEF IfDefined
<1>2. CASE ~IsZero(y)
  BY <1>2, RatioType, FS_Singleton DEF IfDefined
<1> QED
  BY <1>1, <1>2

LEMMA TenthSteps ==
    ASSUME NEW x \in Fraction, NEW n \in Int, Same(x, <<n, 10>>), NEW d \in Int
    PROVE  /\ Plus(x, <<d, 10>>) \in Fraction
           /\ ToTenth(Plus(x, <<d, 10>>)) = Reduced(<<n + d, 10>>)
<1>1. <<d, 10>> \in Fraction /\ <<n, 10>> \in Fraction /\ n + d \in Int /\ <<n + d, 10>> \in Fraction
  BY TenthType
<1>2. Plus(x, <<d, 10>>) \in Fraction /\ Plus(<<n, 10>>, <<d, 10>>) \in Fraction
  BY <1>1, PlusType
<1>3. Same(Plus(x, <<d, 10>>), Plus(<<n, 10>>, <<d, 10>>))
  BY <1>1, PlusSame DEF Same
<1>4. Same(Plus(<<n, 10>>, <<d, 10>>), <<n + d, 10>>)
  BY DEF Same, Plus
<1>5. Same(Plus(x, <<d, 10>>), <<n + d, 10>>)
  BY ONLY <1>1, <1>2, <1>3, <1>4, SameTrans
<1> QED
  BY <1>1, <1>2, <1>5, TenthIs

\* What TenthPool takes besides the mistakes.
TenthNear(x) ==
    {Plus(x, <<d, 10>>) : d \in (-3..3) \ {0}}
    \cup {FloorTenth(x), CeilTenth(x), ToTenth(Times(x, Whole(10))), ToTenth(Times(x, <<1, 10>>))}

LEMMA TenthNearType ==
    ASSUME NEW x \in Fraction
    PROVE  TenthNear(x) \in SUBSET Fraction /\ IsFiniteSet(TenthNear(x))
<1> DEFINE S == (-3..3) \ {0}
           f == [d \in S |-> Plus(x, <<d, 10>>)]
           p == FloorTenth(x)
           q == CeilTenth(x)
           r == ToTenth(Times(x, Whole(10)))
           s == ToTenth(Times(x, <<1, 10>>))
<1>1. IsFiniteSet(S)
  <2>1. -3 \in Int /\ 3 \in Int
    OBVIOUS
  <2>2. IsFiniteSet(-3..3)
    BY ONLY <2>1, Interval
  <2>3. S \in SUBSET (-3..3)
    OBVIOUS
  <2> QED
    BY ONLY <2>2, <2>3, FS_Subset
<1>2. {Plus(x, <<d, 10>>) : d \in S} = {f[d] : d \in S}
  OBVIOUS
<1>3. \A d \in S : Plus(x, <<d, 10>>) \in Fraction
  <2>1. ASSUME NEW d \in Int PROVE Plus(x, <<d, 10>>) \in Fraction
    BY TenthType, PlusType
  <2>2. S \in SUBSET Int
    OBVIOUS
  <2> QED
    BY ONLY <2>1, <2>2
<1>4. p \in Fraction /\ q \in Fraction
  BY FloorType
<1>5. r \in Fraction /\ s \in Fraction
  <2>1. Whole(10) \in Fraction /\ <<1, 10>> \in Fraction
    BY WholeType, TenthType
  <2> QED
    BY <2>1, TimesType, TenthTwice
<1>6. IsFiniteSet({f[d] : d \in S})
  <2> HIDE DEF f, S
  <2> QED
    BY <1>1, FiniteImage
<1>7. IsFiniteSet({p, q, r, s})
  <2> HIDE DEF p, q, r, s
  <2>1. {p, q, r, s} = {p, q, r, s, s, s, s, s}
    OBVIOUS
  <2> QED
    BY <2>1, FiniteEight
<1>8. TenthNear(x) = {f[d] : d \in S} \cup {p, q, r, s}
  BY <1>2 DEF TenthNear
<1>9. TenthNear(x) \in SUBSET Fraction
  BY <1>3, <1>4, <1>5 DEF TenthNear
<1>10. IsFiniteSet({f[d] : d \in S} \cup {p, q, r, s})
  <2> HIDE DEF f, S
  <2> QED
    BY ONLY <1>6, <1>7, FS_Union
<1> HIDE DEF f, S, p, q, r, s
<1> QED
  BY ONLY <1>8, <1>9, <1>10

LEMMA TenthPoolIs ==
    ASSUME NEW x, NEW mistakes
    PROVE  TenthPool(mistakes, x) = {t \in {ToTenth(w) : w \in mistakes \cup TenthNear(x)} : t # ToTenth(x)}
BY DEF TenthPool, TenthNear

LEMMA TenthPoolRight ==
    ASSUME NEW x \in Fraction, Lowest(x), NEW n \in Int, Same(x, <<n, 10>>),
           NEW mistakes \in SUBSET Fraction, IsFiniteSet(mistakes)
    PROVE  Good(TenthPool(mistakes, x), x) /\ NoTwin(TenthPool(mistakes, x), x)
<1> DEFINE all == mistakes \cup TenthNear(x)
           f == [w \in all |-> ToTenth(w)]
           P == TenthPool(mistakes, x)
<1>1. all \in SUBSET Fraction /\ IsFiniteSet(all)
  BY TenthNearType, FS_Union
<1>2. <<n, 10>> \in Fraction
  BY TenthType
<1>3. ToTenth(x) = x /\ Reduced(x) = x /\ x = Reduced(<<n, 10>>)
  <2>1. Reduced(x) = x /\ Reduced(x) = Reduced(<<n, 10>>)
    BY <1>2, LowestReduced, ReducedCanonical
  <2> QED
    BY <2>1, TenthIs
<1>4. P = {t \in {ToTenth(w) : w \in all} : t # x}
  BY <1>3, TenthPoolIs
<1>5. IsFiniteSet(P)
  <2>1. {ToTenth(w) : w \in all} = {f[w] : w \in all}
    OBVIOUS
  <2> HIDE DEF f, all
  <2>2. IsFiniteSet({f[w] : w \in all})
    BY <1>1, FiniteImage
  <2>3. P \in SUBSET {f[w] : w \in all}
    BY <1>4, <2>1
  <2> HIDE DEF P
  <2> QED
    BY <2>2, <2>3, FS_Subset
<1>6. ASSUME NEW w \in P PROVE w \in Fraction /\ ~Same(w, x) /\ ToTenth(w) # x
  <2>1. PICK v \in all : w = ToTenth(v) /\ w # x
    BY <1>4
  <2>2. w \in Fraction /\ Lowest(w) /\ ToTenth(w) = w
    BY <1>1, <2>1, TenthTwice
  <2>3. ~Same(w, x)
    BY <2>1, <2>2, LowestUnique
  <2> QED
    BY <2>1, <2>2, <2>3
<1>7. ASSUME NEW d \in {1, 2, 3} PROVE Reduced(<<n + d, 10>>) \in P
  <2>1. Plus(x, <<d, 10>>) \in TenthNear(x)
    BY DEF TenthNear
  <2>0. d \in Int /\ n + d \in Int /\ n + d # n
    OBVIOUS
  <2>2. ToTenth(Plus(x, <<d, 10>>)) = Reduced(<<n + d, 10>>)
    BY <2>0, TenthSteps
  <2>3. Reduced(<<n + d, 10>>) # x
    BY <1>3, <2>0, TenthApart
  <2> QED
    BY <1>4, <2>1, <2>2, <2>3
<1>8. /\ Reduced(<<n + 1, 10>>) # Reduced(<<n + 2, 10>>)
      /\ Reduced(<<n + 1, 10>>) # Reduced(<<n + 3, 10>>)
      /\ Reduced(<<n + 2, 10>>) # Reduced(<<n + 3, 10>>)
  BY TenthApart
<1> HIDE DEF P, all, f
<1>9. Cardinality(P) >= 3
  BY <1>5, <1>7, <1>8, AtLeastThree
<1>10. Good(P, x) /\ NoTwin(P, x)
  BY <1>3, <1>5, <1>6, <1>9 DEF Good, NoTwin
<1> QED
  BY <1>10 DEF P

\* What FractionPool takes besides the mistakes.
FractionNear(x) ==
    {Plus(x, <<s, d>>) : s \in {-1, 1}, d \in 2..6}
    \cup {<<x[1] - 1, x[2]>>, <<x[1] + 1, x[2]>>, <<x[1], x[2] + 1>>}
    \cup (IF x[2] > 1 THEN {<<x[1], x[2] - 1>>} ELSE {})
    \cup {Ratio(One, x)}

LEMMA FractionNearType ==
    ASSUME NEW x \in Fraction, ~IsZero(x)
    PROVE  FractionNear(x) \in SUBSET Fraction /\ IsFiniteSet(FractionNear(x))
<1> DEFINE S == {-1, 1} \X (2..6)
           f == [k \in S |-> Plus(x, <<k[1], k[2]>>)]
           A == {Plus(x, <<s, d>>) : s \in {-1, 1}, d \in 2..6}
           B == {<<x[1] - 1, x[2]>>, <<x[1] + 1, x[2]>>, <<x[1], x[2] + 1>>}
           C == IF x[2] > 1 THEN {<<x[1], x[2] - 1>>} ELSE {}
           D == {Ratio(One, x)}
<1>1. x[1] \in Int /\ x[2] \in Int /\ x[2] > 0
  BY Parts
<1>2. IsFiniteSet(S)
  <2>1. IsFiniteSet({-1, 1})
    <3>1. {-1, 1} = {-1, 1, 1, 1, 1, 1, 1, 1}
      OBVIOUS
    <3> QED
      BY <3>1, FiniteEight
  <2>2. IsFiniteSet(2..6)
    <3>1. 2 \in Int /\ 6 \in Int
      OBVIOUS
    <3> QED
      BY ONLY <3>1, Interval
  <2> QED
    BY ONLY <2>1, <2>2, FS_Product
<1>3. \A s \in {-1, 1}, d \in 2..6 : Plus(x, <<s, d>>) \in Fraction
  <2>1. ASSUME NEW s \in Int, NEW d \in Int, d > 0 PROVE Plus(x, <<s, d>>) \in Fraction
    <3>1. <<s, d>> \in Fraction
      BY <2>1, IsFraction
    <3> QED
      BY ONLY <3>1, x \in Fraction, PlusType
  <2>2. \A s \in {-1, 1} : s \in Int
    OBVIOUS
  <2>3. \A d \in 2..6 : d \in Int /\ d > 0
    OBVIOUS
  <2> QED
    BY ONLY <2>1, <2>2, <2>3
<1>4. A = {f[k] : k \in S}
  <2>1. ASSUME NEW w \in A PROVE w \in {f[k] : k \in S}
    <3>1. PICK s \in {-1, 1}, d \in 2..6 : w = Plus(x, <<s, d>>)
      OBVIOUS
    <3> DEFINE k == <<s, d>>
    <3>2. k \in S /\ k[1] = s /\ k[2] = d
      OBVIOUS
    <3> HIDE DEF k
    <3>3. f[k] = w
      BY <3>1, <3>2
    <3> HIDE DEF f
    <3> QED
      BY <3>2, <3>3
  <2>2. ASSUME NEW k \in S PROVE f[k] \in A
    <3>1. k[1] \in {-1, 1} /\ k[2] \in 2..6 /\ f[k] = Plus(x, <<k[1], k[2]>>)
      OBVIOUS
    <3> HIDE DEF f
    <3> QED
      BY <3>1
  <2> HIDE DEF f, S, A
  <2> QED
    BY <2>1, <2>2
<1>5. A \in SUBSET Fraction /\ IsFiniteSet(A)
  <2>1. A \in SUBSET Fraction
    BY <1>3
  <2> HIDE DEF f, S, A
  <2> QED
    BY <1>2, <1>4, <2>1, FiniteImage
<1>6. B \in SUBSET Fraction /\ IsFiniteSet(B)
  <2>1. B \in SUBSET Fraction
    BY <1>1, IsFraction
  <2> DEFINE p == <<x[1] - 1, x[2]>>
             q == <<x[1] + 1, x[2]>>
             r == <<x[1], x[2] + 1>>
  <2>2. B = {p, q, r, r, r, r, r, r}
    OBVIOUS
  <2> HIDE DEF p, q, r, B
  <2> QED
    BY <2>1, <2>2, FiniteEight
<1>7. C \in SUBSET Fraction /\ IsFiniteSet(C)
  <2>1. x[2] > 1 => <<x[1], x[2] - 1>> \in Fraction
    BY ONLY <1>1, IsFraction
  <2> DEFINE v == <<x[1], x[2] - 1>>
  <2> HIDE DEF v
  <2>2. IsFiniteSet({v}) /\ IsFiniteSet({})
    BY ONLY FS_EmptySet, FS_Singleton
  <2> QED
    BY <2>1, <2>2 DEF v
<1>8. D \in SUBSET Fraction /\ IsFiniteSet(D)
  <2>1. Ratio(One, x) \in Fraction
    BY ONLY x \in Fraction, ~IsZero(x), OneLowest, RatioType
  <2> DEFINE v == Ratio(One, x)
  <2> HIDE DEF v
  <2>2. IsFiniteSet({v})
    BY ONLY FS_Singleton
  <2> QED
    BY <2>1, <2>2 DEF v
<1>9. FractionNear(x) = A \cup B \cup C \cup D
  BY DEF FractionNear
<1> HIDE DEF A, B, C, D
<1> QED
  BY <1>5, <1>6, <1>7, <1>8, <1>9, FS_Union

LEMMA FractionPoolIs ==
    ASSUME NEW x, NEW mistakes
    PROVE  FractionPool(mistakes, x) = Other(mistakes \cup FractionNear(x), x)
BY DEF FractionPool, FractionNear

LEMMA PartsApart ==
    ASSUME NEW x \in Fraction, NEW i \in 2..6, NEW j \in 2..6, i # j
    PROVE  /\ Plus(x, <<1, i>>) \in Fraction
           /\ ~Same(Plus(x, <<1, i>>), Plus(x, <<1, j>>))
           /\ ~Same(Plus(x, <<1, i>>), x)
<1> DEFINE y == <<1, i>>
           z == <<1, j>>
<1>1. y \in Fraction /\ z \in Fraction /\ ~IsZero(y) /\ ~Same(y, z)
  BY IsFraction DEF IsZero, Same
<1> HIDE DEF y, z
<1>2. Plus(x, y) \in Fraction /\ Plus(x, z) \in Fraction /\ ~Same(Plus(x, y), x)
  BY <1>1, PlusType, PlusNothing
<1>3. ~Same(Plus(x, y), Plus(x, z))
  BY <1>1, PlusCancel
<1> QED
  BY <1>2, <1>3 DEF y, z

LEMMA FractionPoolRight ==
    ASSUME NEW x \in Fraction, ~IsZero(x), NEW mistakes \in SUBSET Fraction, IsFiniteSet(mistakes)
    PROVE  Good(FractionPool(mistakes, x), x)
<1> DEFINE all == mistakes \cup FractionNear(x)
           a == Plus(x, <<1, 2>>)
           b == Plus(x, <<1, 3>>)
           c == Plus(x, <<1, 4>>)
<1>1. all \in SUBSET Fraction /\ IsFiniteSet(all)
  BY FractionNearType, FS_Union
<1>2. a \in all /\ b \in all /\ c \in all
  <2>1. ASSUME NEW d \in 2..6 PROVE Plus(x, <<1, d>>) \in FractionNear(x)
    BY DEF FractionNear
  <2> QED
    BY <2>1
<1>3. ~Same(a, b) /\ ~Same(a, c) /\ ~Same(b, c) /\ ~Same(a, x) /\ ~Same(b, x) /\ ~Same(c, x)
  BY PartsApart
<1> HIDE DEF all, a, b, c
<1>4. Good(Other(all, x), x)
  BY <1>1, <1>2, <1>3, OtherGood
<1> QED
  BY <1>4, FractionPoolIs DEF all

-----------------------------------------------------------------------------
(* Linear equations: what is drawn, printed and solved *)

\* A number that is drawn is in lowest terms and not zero.
LEMMA RandomWhole ==
    ASSUME NEW a \in RandomNumber("integer")
    PROVE  a \in Fraction /\ Lowest(a) /\ ~IsZero(a) /\ \E n \in Int : a = Whole(n)
<1>1. PICK n \in (-5..5) \ {0} : a = Whole(n)
  BY DEF RandomNumber
<1>2. n \in Int /\ n # 0
  BY <1>1
<1> QED
  BY ONLY <1>1, <1>2, WholeType, WholeLowest DEF IsZero, Whole

LEMMA RandomTenth ==
    ASSUME NEW a \in RandomNumber("decimal")
    PROVE  a \in Fraction /\ Lowest(a) /\ ~IsZero(a) /\ \E n \in Int : Same(a, <<n, 10>>)
<1>1. PICK n \in Int : n % 10 # 0 /\ a = Reduced(<<n, 10>>)
  <2>1. RandomNumber("decimal") = LinearTried \cap {Reduced(<<n, 10>>) : n \in {i \in -59..59 : i % 10 # 0}}
    BY DEF RandomNumber
  <2>2. PICK n \in {i \in -59..59 : i % 10 # 0} : a = Reduced(<<n, 10>>)
    BY <2>1
  <2> QED
    BY <2>2
<1>2. <<n, 10>> \in Fraction /\ n # 0
  BY <1>1, TenthType
<1>3. a \in Fraction /\ Lowest(a) /\ Same(a, <<n, 10>>)
  BY <1>1, <1>2, ReducedLowest
<1>4. ~IsZero(<<n, 10>>)
  BY <1>2 DEF IsZero
<1> QED
  BY <1>2, <1>3, <1>4, SameZero

LEMMA RandomPart ==
    ASSUME NEW a \in RandomNumber("frac")
    PROVE  a \in Fraction /\ Lowest(a) /\ ~IsZero(a)
<1>1. PICK p \in (-5..-2) \cup (2..5), q \in 2..5 : a = Reduced(<<p, q>>)
  BY DEF RandomNumber
<1>2. p \in Int /\ q \in Int /\ q > 0 /\ p # 0
  BY <1>1
<1>3. <<p, q>> \in Fraction
  BY ONLY <1>2, IsFraction
<1>4. a \in Fraction /\ Lowest(a) /\ Same(a, <<p, q>>)
  BY ONLY <1>1, <1>3, ReducedLowest
<1>5. ~IsZero(<<p, q>>)
  BY <1>2 DEF IsZero
<1> QED
  BY ONLY <1>3, <1>4, <1>5, SameZero

LEMMA CoefficientLowest ==
    ASSUME NEW use \in SUBSET NumberTypes, NEW a \in Coefficient(use)
    PROVE  a \in Fraction /\ Lowest(a) /\ ~IsZero(a)
<1>1. PICK type \in use : a \in RandomNumber(type)
  BY DEF Coefficient
<1>2. type = "integer" \/ type = "frac" \/ type = "decimal"
  BY DEF NumberTypes
<1> QED
  BY <1>1, <1>2, RandomWhole, RandomTenth, RandomPart

LEMMA AnswerLowest ==
    ASSUME NEW use, NEW over, NEW x \in Answer(use, over)
    PROVE  /\ x \in Fraction /\ Lowest(x) /\ ~IsZero(x)
           /\ over = "only_integer" => \E n \in Int : x = Whole(n)
           /\ over # "only_integer" /\ use = {"decimal"} => \E n \in Int : Same(x, <<n, 10>>)
<1>1. CASE over = "only_integer"
  BY <1>1, RandomWhole DEF Answer
<1>2. CASE over # "only_integer" /\ use = {"decimal"}
  BY <1>2, RandomTenth DEF Answer
<1>3. CASE over # "only_integer" /\ use # {"decimal"}
  <2>1. x \in RandomNumber("frac") \/ x \in RandomNumber("integer")
    BY <1>3 DEF Answer
  <2> QED
    BY <1>3, <2>1, RandomWhole, RandomPart
<1> QED
  BY <1>1, <1>2, <1>3

\* The choices beside an answer, whatever its kind.
PoolRight(use, pool, x) == Good(pool, x) /\ (use = {"decimal"} => NoTwin(pool, x))

LEMMA WholeChoices ==
    ASSUME NEW use, NEW x \in Answer(use, "only_integer"),
           NEW mistakes \in SUBSET Fraction, IsFiniteSet(mistakes)
    PROVE  PoolRight(use, WholePool(mistakes, x), x) /\ PoolRight(use, CappedPool(mistakes, x), x)
<1>1. PICK n \in Int : x = Whole(n)
  BY AnswerLowest
<1> QED
  BY <1>1, WholePoolRight, CappedPoolRight DEF PoolRight

LEMMA AnyChoices ==
    ASSUME NEW use, NEW over, over # "only_integer", NEW x \in Answer(use, over),
           NEW mistakes \in SUBSET Fraction, IsFiniteSet(mistakes)
    PROVE  PoolRight(use, AnyPool(use, mistakes, x), x)
<1>1. CASE use = {"decimal"}
  <2>1. PICK n \in Int : Same(x, <<n, 10>>)
    BY <1>1, AnswerLowest
  <2>2. x \in Fraction /\ Lowest(x)
    BY AnswerLowest
  <2>3. Good(TenthPool(mistakes, x), x) /\ NoTwin(TenthPool(mistakes, x), x)
    BY <2>1, <2>2, TenthPoolRight
  <2> QED
    BY ONLY <1>1, <2>3 DEF AnyPool, PoolRight
<1>2. CASE use # {"decimal"}
  BY <1>2, AnswerLowest, FractionPoolRight DEF AnyPool, PoolRight
<1> QED
  BY <1>1, <1>2

\* A constant reads as the number it was printed for.
LEMMA ZerosSame ==
    ASSUME NEW x \in Fraction, NEW y \in Fraction, IsZero(x), IsZero(y)
    PROVE  Same(x, y)
<1>1. x[2] \in Int /\ y[2] \in Int /\ x[1] = 0 /\ y[1] = 0
  BY Parts DEF IsZero
<1> QED
  BY ONLY <1>1 DEF Same

LEMMA ConstantReads ==
    ASSUME NEW b \in Fraction
    PROVE  Reads(Constant(b)) \in Fraction /\ Same(Reads(Constant(b)), b) /\ Apart(Constant(b))
<1>1. CASE IsZero(b)
  <2>1. Constant(b) = Blank
    BY <1>1 DEF Constant
  <2>2. Whole(0) \in Fraction /\ Same(Whole(0), b)
    <3>1. Whole(0) \in Fraction /\ IsZero(Whole(0))
      BY WholeType DEF IsZero, Whole
    <3> QED
      BY ONLY <1>1, <3>1, b \in Fraction, ZerosSame
  <2> QED
    BY <2>1, <2>2, BlankReads
<1>2. CASE ~IsZero(b) /\ b[1] > 0
  <2>1. Constant(b) = [sign |-> "+", num |-> b]
    BY <1>2 DEF Constant
  <2>2. Constant(b).sign = "+" /\ Constant(b).num = b
    <3>1. [sign |-> "+", num |-> b].sign = "+" /\ [sign |-> "+", num |-> b].num = b
      BY ONLY TermParts, Zenon
    <3> QED
      BY ONLY <2>1, <3>1, Zenon
  <2>3. "+" # "-" /\ "+" # ""
    OBVIOUS
  <2>4. Reads(Constant(b)) = b /\ Apart(Constant(b))
    BY <2>2, <2>3, Zenon DEF Reads, Apart
  <2> QED
    BY <2>4 DEF Same
<1>3. CASE ~IsZero(b) /\ ~(b[1] > 0)
  <2>1. Constant(b) = Shown(b)
    BY <1>3 DEF Constant
  <2>2. b[1] <= 0
    BY <1>3, Parts
  <2>3. Reads(Constant(b)) = b /\ Apart(Constant(b))
    BY <2>1, <2>2, ShownReads
  <2> QED
    BY <2>3 DEF Same
<1> QED
  BY <1>1, <1>2, <1>3

\* The two sides as they are read.
LeftSide(eq)  == Minus(Reads(eq.x1), Reads(eq.x2))
RightSide(eq) == Minus(Reads(eq.n2), Reads(eq.n1))

Sides(eq) ==
    /\ Reads(eq.x1) \in Fraction /\ Reads(eq.x2) \in Fraction
    /\ Reads(eq.n1) \in Fraction /\ Reads(eq.n2) \in Fraction

LEMMA SolvesIs ==
    ASSUME NEW eq, Sides(eq), NEW v \in Fraction
    PROVE  Solves(v, eq) <=> Same(Times(LeftSide(eq), v), RightSide(eq))
<1> DEFINE l == LeftSide(eq)
           r == RightSide(eq)
           L == Reduced(l)
           R == Reduced(r)
<1>1. l \in Fraction /\ r \in Fraction
  BY MinusType DEF Sides, LeftSide, RightSide
<1>2. Solves(v, eq) <=> Same(Times(L, v), R)
  BY DEF Solves, LeftSide, RightSide
<1> HIDE DEF l, r
<1>3. L \in Fraction /\ R \in Fraction /\ Same(L, l) /\ Same(R, r) /\ Same(l, L) /\ Same(r, R) /\ Same(v, v)
  BY <1>1, ReducedLowest, SameSym DEF Same
<1> HIDE DEF L, R
<1>4. Same(Times(L, v), Times(l, v)) /\ Same(Times(l, v), Times(L, v))
  BY <1>1, <1>3, TimesSame
<1>5. Times(L, v) \in Fraction /\ Times(l, v) \in Fraction
  BY <1>1, <1>3, TimesType
<1>6. ASSUME Same(Times(L, v), R) PROVE Same(Times(l, v), r)
  <2>1. Same(Times(l, v), R)
    BY ONLY <1>3, <1>4, <1>5, <1>6, SameTrans
  <2> QED
    BY ONLY <1>1, <1>3, <1>5, <2>1, SameTrans
<1>7. ASSUME Same(Times(l, v), r) PROVE Same(Times(L, v), R)
  <2>1. Same(Times(L, v), r)
    BY ONLY <1>1, <1>4, <1>5, <1>7, SameTrans
  <2> QED
    BY ONLY <1>1, <1>3, <1>5, <2>1, SameTrans
<1>8. Solves(v, eq) <=> Same(Times(l, v), r)
  BY ONLY <1>2, <1>6, <1>7
<1> QED
  BY ONLY <1>8 DEF l, r

\* Another number than a solution is none.
LEMMA OnlyOne ==
    ASSUME NEW eq, Sides(eq), ~IsZero(LeftSide(eq)), NEW x \in Fraction, Solves(x, eq),
           NEW w \in Fraction, ~Same(w, x)
    PROVE  ~Solves(w, eq)
<1> SUFFICES ASSUME Solves(w, eq) PROVE FALSE
  OBVIOUS
<1>1. LeftSide(eq) \in Fraction /\ RightSide(eq) \in Fraction
  BY MinusType DEF Sides, LeftSide, RightSide
<1>2. Same(Times(LeftSide(eq), w), RightSide(eq)) /\ Same(Times(LeftSide(eq), x), RightSide(eq))
  BY SolvesIs
<1>3. Same(RightSide(eq), Times(LeftSide(eq), x))
  BY ONLY <1>2, SameSym
<1>4. Times(LeftSide(eq), w) \in Fraction /\ Times(LeftSide(eq), x) \in Fraction
  BY <1>1, TimesType
<1>5. Same(Times(LeftSide(eq), w), Times(LeftSide(eq), x))
  BY ONLY <1>1, <1>2, <1>3, <1>4, SameTrans
<1> QED
  BY <1>1, <1>5, TimesCancel

LEMMA ProblemParts ==
    ASSUME NEW shape, NEW use, NEW x, NEW x1, NEW n1, NEW x2, NEW n2, NEW pool, NEW p,
           p = Problem(shape, use, x, x1, n1, x2, n2, pool)
    PROVE  /\ p.tenths = (use = {"decimal"}) /\ p.answer = x /\ p.wrong = pool
           /\ p.eq.x1 = x1 /\ p.eq.n1 = n1 /\ p.eq.x2 = x2 /\ p.eq.n2 = n2
BY DEF Problem

\* What makes a problem right.
LEMMA ProblemRight ==
    ASSUME NEW shape, NEW use, NEW x \in Fraction, NEW x1, NEW n1, NEW x2, NEW n2, NEW pool,
           linear' = Problem(shape, use, x, x1, n1, x2, n2, pool),
           Reads(x1) \in Fraction, Reads(x2) \in Fraction,
           Reads(n1) \in Fraction, Reads(n2) \in Fraction,
           ~IsZero(Minus(Reads(x1), Reads(x2))),
           Same(Times(Minus(Reads(x1), Reads(x2)), x), Minus(Reads(n2), Reads(n1))),
           Apart(n1), x2 = Blank \/ Apart(n2), PoolRight(use, pool, x)
    PROVE  LinearRight'
<1> DEFINE p == Problem(shape, use, x, x1, n1, x2, n2, pool)
           eq == p.eq
<1>1. /\ p.tenths = (use = {"decimal"}) /\ p.answer = x /\ p.wrong = pool
      /\ eq.x1 = x1 /\ eq.n1 = n1 /\ eq.x2 = x2 /\ eq.n2 = n2
  BY ProblemParts
<1>2. linear' = p
  OBVIOUS
<1> HIDE DEF p
<1>3. Sides(eq) /\ LeftSide(eq) = Minus(Reads(x1), Reads(x2)) /\ RightSide(eq) = Minus(Reads(n2), Reads(n1))
  BY <1>1 DEF Sides, LeftSide, RightSide
<1>4. Solves(x, eq)
  BY <1>3, SolvesIs
<1>5. /\ pool \subseteq Fraction /\ Cardinality(pool) >= 3
      /\ \A w \in pool : ~Same(w, x)
      /\ use = {"decimal"} => Reduced(x) \notin {ToTenth(w) : w \in pool}
  BY DEF PoolRight, Good, NoTwin
<1>6. \A w \in pool : ~Solves(w, eq)
  BY <1>3, <1>4, <1>5, OnlyOne
<1>7. /\ Solves(p.answer, p.eq)
      /\ Apart(p.eq.n1)
      /\ p.eq.x2 # Blank => Apart(p.eq.n2)
      /\ Cardinality(p.wrong) >= 3
      /\ \A w \in p.wrong : ~Solves(w, p.eq)
      /\ p.tenths => Reduced(p.answer) \notin {ToTenth(w) : w \in p.wrong}
  BY ONLY <1>1, <1>4, <1>5, <1>6, x2 = Blank \/ Apart(n2), Apart(n1)
<1> QED
  BY ONLY <1>2, <1>7 DEF LinearRight

\* What is taken away and given back.
LEMMA TakeTwice ==
    ASSUME NEW c \in Fraction, NEW p \in Fraction
    PROVE  Same(Minus(c, Minus(c, p)), p)
<1>1. Minus(c, p) \in Fraction
  BY MinusType
<1> DEFINE a == c[1]
           b == c[2]
           d == p[1]
           e == p[2]
<1>2. a \in Int /\ b \in Int /\ d \in Int /\ e \in Int
  BY Parts
<1>3. /\ Minus(c, Minus(c, p))[1] = a * (b * e) + (-(a * e + (-d) * b)) * b
      /\ Minus(c, Minus(c, p))[2] = b * (b * e)
  BY DEF Minus, Plus, Neg
<1> HIDE DEF a, b, d, e
<1>4. (a * (b * e) + (-(a * e + (-d) * b)) * b) * e = d * (b * (b * e))
  BY ONLY <1>2
<1> QED
  BY <1>3, <1>4 DEF Same, d, e

LEMMA GiveTake ==
    ASSUME NEW b \in Fraction, NEW g \in Fraction
    PROVE  Same(Minus(Plus(b, g), b), g)
<1> DEFINE p == b[1]
           q == b[2]
           d == g[1]
           e == g[2]
<1>2. p \in Int /\ q \in Int /\ d \in Int /\ e \in Int
  BY Parts
<1>3. /\ Minus(Plus(b, g), b)[1] = (p * e + d * q) * q + (-p) * (q * e)
      /\ Minus(Plus(b, g), b)[2] = (q * e) * q
  BY DEF Minus, Plus, Neg
<1> HIDE DEF p, q, d, e
<1>4. ((p * e + d * q) * q + (-p) * (q * e)) * e = d * ((q * e) * q)
  BY ONLY <1>2
<1> QED
  BY <1>3, <1>4 DEF Same, d, e

\* Nothing taken away.
LEMMA MinusBlank ==
    ASSUME NEW a \in Fraction
    PROVE  Minus(a, Reads(Blank)) = a
<1>1. Reads(Blank) = Whole(0)
  BY BlankReads
<1>2. Times(Whole(0), Whole(0)) = Whole(0)
  BY DEF Times, Whole
<1> QED
  BY <1>1, <1>2, MinusNothing

LEMMA NegZero ==
    ASSUME NEW x \in Fraction
    PROVE  IsZero(Neg(x)) => IsZero(x)
<1>1. x[1] \in Int /\ Neg(x)[1] = -x[1]
  BY Parts DEF Neg
<1>2. ASSUME NEW i \in Int, -i = 0 PROVE i = 0
  BY <1>2
<1> QED
  BY <1>1, <1>2 DEF IsZero

LEMMA MagnitudeZero ==
    ASSUME NEW x \in Fraction, ~IsZero(x)
    PROVE  ~IsZero(Magnitude(x))
BY NegZero DEF Magnitude

LEMMA AxEqualBRight ==
    ASSUME NEW use \in SUBSET NumberTypes, NEW over, AxEqualB(use, over)
    PROVE  LinearRight'
<1>1. PICK x \in Answer(use, over), a \in Coefficient(use) :
        LET b == Reduced(Times(a, x))
            mistakes == IfDefined(a, b) \cup {Minus(b, a), Times(a, b), b, Neg(Ratio(b, a))}
        IN linear' = Problem("ax=b", use, x, Lead(a), Blank, Blank, Shown(b),
                             IF over = "only_integer" THEN WholePool(mistakes, x)
                             ELSE AnyPool(use, mistakes, x))
  BY DEF AxEqualB
<1> DEFINE b == Reduced(Times(a, x))
           one == IfDefined(a, b)
           four == {Minus(b, a), Times(a, b), b, Neg(Ratio(b, a))}
           mistakes == one \cup four
           pool == IF over = "only_integer" THEN WholePool(mistakes, x)
                   ELSE AnyPool(use, mistakes, x)
<1>2. a \in Fraction /\ Lowest(a) /\ ~IsZero(a) /\ x \in Fraction
  BY CoefficientLowest, AnswerLowest
<1>3. Times(a, x) \in Fraction
  BY ONLY <1>2, TimesType
<1>4. b \in Fraction /\ Same(b, Times(a, x)) /\ Same(Times(a, x), b)
  BY ONLY <1>3, ReducedLowest, SameSym
<1>5. linear' = Problem("ax=b", use, x, Lead(a), Blank, Blank, Shown(b), pool)
  BY <1>1
<1>6. mistakes \in SUBSET Fraction /\ IsFiniteSet(mistakes)
  <2> HIDE DEF b
  <2>1. one \in SUBSET Fraction /\ IsFiniteSet(one)
    BY ONLY <1>2, <1>4, IfDefinedType
  <2>2. Minus(b, a) \in Fraction /\ Times(a, b) \in Fraction
    BY ONLY <1>2, <1>4, MinusType, TimesType
  <2>3. Neg(Ratio(b, a)) \in Fraction
    BY ONLY <1>2, <1>4, RatioType, NegType
  <2>4. four \in SUBSET Fraction
    BY ONLY <1>4, <2>2, <2>3
  <2>5. IsFiniteSet(four)
    <3> DEFINE p == Minus(b, a)
               q == Times(a, b)
               r == Neg(Ratio(b, a))
    <3>1. four = {p, q, b, r, r, r, r, r}
      OBVIOUS
    <3> HIDE DEF p, q, r
    <3> QED
      BY <3>1, FiniteEight
  <2> HIDE DEF one, four
  <2> QED
    BY <2>1, <2>4, <2>5, FS_Union
<1>7. PoolRight(use, pool, x)
  <2> HIDE DEF mistakes
  <2>1. CASE over = "only_integer"
    BY <1>6, <2>1, WholeChoices
  <2>2. CASE over # "only_integer"
    BY <1>6, <2>2, AnyChoices
  <2> QED
    BY <2>1, <2>2
<1> HIDE DEF pool, mistakes, one, four, b
<1>8. Reads(Lead(a)) = a /\ Reads(Blank) \in Fraction /\ Reads(Shown(b)) = b /\ Apart(Blank)
  BY <1>2, <1>4, LeadReads, BlankReads, ShownReads, WholeType
<1>9. Minus(a, Reads(Blank)) = a /\ Minus(b, Reads(Blank)) = b
  BY <1>2, <1>4, MinusBlank
<1>10. /\ Reads(Lead(a)) \in Fraction /\ Reads(Shown(b)) \in Fraction
       /\ ~IsZero(Minus(Reads(Lead(a)), Reads(Blank)))
       /\ Same(Times(Minus(Reads(Lead(a)), Reads(Blank)), x), Minus(Reads(Shown(b)), Reads(Blank)))
  BY ONLY <1>2, <1>4, <1>8, <1>9
<1> QED
  BY ONLY <1>2, <1>5, <1>7, <1>8, <1>10, ProblemRight

LEMMA AxPlusBEqualCRight ==
    ASSUME NEW use \in SUBSET NumberTypes, NEW over, AxPlusBEqualC(use, over)
    PROVE  LinearRight'
<1>1. PICK x \in Answer(use, over), a \in Coefficient(use), c \in Coefficient(use) :
        LET b == Reduced(Minus(c, Times(a, x)))
            cb == Reduced(Minus(c, b))
            mistakes == {Ratio(Plus(c, b), a), Neg(Ratio(cb, a)), Ratio(Magnitude(cb), a),
                         Plus(Ratio(cb, a), a), Minus(Ratio(cb, a), a),
                         cb, Minus(cb, a), Times(a, cb)}
                        \cup IfDefined(c, Plus(a, b))
        IN linear' = Problem("ax+b=c", use, x, Lead(a), Constant(b), Blank, Shown(c),
                             IF over = "only_integer" THEN WholePool(mistakes, x)
                             ELSE AnyPool(use, mistakes, x))
  BY DEF AxPlusBEqualC
<1> DEFINE b == Reduced(Minus(c, Times(a, x)))
           cb == Reduced(Minus(c, b))
           one == IfDefined(c, Plus(a, b))
           eight == {Ratio(Plus(c, b), a), Neg(Ratio(cb, a)), Ratio(Magnitude(cb), a),
                     Plus(Ratio(cb, a), a), Minus(Ratio(cb, a), a),
                     cb, Minus(cb, a), Times(a, cb)}
           mistakes == eight \cup one
           pool == IF over = "only_integer" THEN WholePool(mistakes, x)
                   ELSE AnyPool(use, mistakes, x)
<1>2. /\ a \in Fraction /\ Lowest(a) /\ ~IsZero(a) /\ c \in Fraction
      /\ x \in Fraction
  BY CoefficientLowest, AnswerLowest
<1>3. Times(a, x) \in Fraction /\ Minus(c, Times(a, x)) \in Fraction
  BY ONLY <1>2, TimesType, MinusType
<1>4. b \in Fraction /\ Same(b, Minus(c, Times(a, x)))
  BY ONLY <1>3, ReducedLowest
<1>5. linear' = Problem("ax+b=c", use, x, Lead(a), Constant(b), Blank, Shown(c), pool)
  BY <1>1
<1>6. mistakes \in SUBSET Fraction /\ IsFiniteSet(mistakes)
  <2> HIDE DEF b
  <2>1. cb \in Fraction
    BY ONLY <1>2, <1>4, MinusType, ReducedLowest
  <2> HIDE DEF cb
  <2>2. one \in SUBSET Fraction /\ IsFiniteSet(one)
    BY ONLY <1>2, <1>4, PlusType, IfDefinedType
  <2>3. Ratio(Plus(c, b), a) \in Fraction /\ Neg(Ratio(cb, a)) \in Fraction
    BY ONLY <1>2, <1>4, <2>1, PlusType, RatioType, NegType
  <2>4. Ratio(Magnitude(cb), a) \in Fraction /\ Ratio(cb, a) \in Fraction
    BY ONLY <1>2, <2>1, MagnitudeType, RatioType
  <2>5. Plus(Ratio(cb, a), a) \in Fraction /\ Minus(Ratio(cb, a), a) \in Fraction
    BY ONLY <1>2, <2>4, PlusType, MinusType
  <2>6. Minus(cb, a) \in Fraction /\ Times(a, cb) \in Fraction
    BY ONLY <1>2, <2>1, MinusType, TimesType
  <2>7. eight \in SUBSET Fraction
    BY ONLY <2>1, <2>3, <2>4, <2>5, <2>6
  <2>8. IsFiniteSet(eight)
    BY ONLY FiniteEight
  <2> HIDE DEF one, eight
  <2> QED
    BY ONLY <2>2, <2>7, <2>8, FS_Union
<1>7. PoolRight(use, pool, x)
  <2> HIDE DEF mistakes
  <2>1. CASE over = "only_integer"
    BY <1>6, <2>1, WholeChoices
  <2>2. CASE over # "only_integer"
    BY <1>6, <2>2, AnyChoices
  <2> QED
    BY <2>1, <2>2
<1> HIDE DEF pool, mistakes, one, eight, cb, b
<1>8. /\ Reads(Lead(a)) = a /\ Reads(Blank) \in Fraction /\ Reads(Shown(c)) = c
      /\ Reads(Constant(b)) \in Fraction /\ Same(Reads(Constant(b)), b) /\ Apart(Constant(b))
  BY <1>2, <1>4, LeadReads, BlankReads, ShownReads, ConstantReads, WholeType
<1>9. Minus(a, Reads(Blank)) = a
  BY <1>2, MinusBlank
<1> DEFINE r == Reads(Constant(b))
           t == Times(a, x)
<1>10. Same(t, Minus(c, r))
  <2>1. r \in Fraction /\ t \in Fraction /\ Minus(c, t) \in Fraction /\ Same(r, b)
    BY ONLY <1>3, <1>8
  <2> HIDE DEF r, t
  <2>2. Same(b, Minus(c, t))
    BY <1>4 DEF t
  <2>3. Same(r, Minus(c, t)) /\ Same(c, c)
    BY ONLY <1>4, <2>1, <2>2, SameTrans DEF Same
  <2>4. Same(Minus(c, r), Minus(c, Minus(c, t)))
    BY ONLY <1>2, <2>1, <2>3, MinusSame
  <2>5. Same(Minus(c, Minus(c, t)), t)
    BY ONLY <1>2, <2>1, TakeTwice
  <2>6. Minus(c, r) \in Fraction /\ Minus(c, Minus(c, t)) \in Fraction
    BY ONLY <1>2, <2>1, MinusType
  <2> QED
    BY ONLY <2>1, <2>4, <2>5, <2>6, SameTrans, SameSym
<1>11. /\ Reads(Lead(a)) \in Fraction /\ Reads(Shown(c)) \in Fraction
       /\ ~IsZero(Minus(Reads(Lead(a)), Reads(Blank)))
       /\ Same(Times(Minus(Reads(Lead(a)), Reads(Blank)), x),
               Minus(Reads(Shown(c)), Reads(Constant(b))))
  BY ONLY <1>2, <1>8, <1>9, <1>10
<1> QED
  BY ONLY <1>2, <1>5, <1>7, <1>8, <1>11, ProblemRight

\* The constants are what the answer makes of them.
LEMMA ConstantsGap ==
    ASSUME NEW use \in SUBSET NumberTypes, NEW x \in Fraction,
           NEW a \in Fraction, NEW c \in Fraction, NEW bd \in Constants(use, x, a, c)
    PROVE  /\ bd[1] \in Fraction /\ bd[2] \in Fraction
           /\ Same(Times(Minus(a, c), x), Minus(bd[2], bd[1]))
<1> DEFINE t == Times(Minus(a, c), x)
           g == Reduced(t)
<1>1. t \in Fraction
  BY MinusType, TimesType
<1>2. g \in Fraction /\ Same(g, t) /\ Same(t, g)
  BY ONLY <1>1, ReducedLowest, SameSym
<1>3. \/ \E b \in Coefficient(use) : bd = <<b, Reduced(Plus(b, g))>>
      \/ \E d \in Coefficient(use) : bd = <<Reduced(Minus(d, g)), d>>
  BY DEF Constants
<1> HIDE DEF g, t
<1>4. CASE \E b \in Coefficient(use) : bd = <<b, Reduced(Plus(b, g))>>
  <2>1. PICK b \in Coefficient(use) : bd = <<b, Reduced(Plus(b, g))>>
    BY <1>4
  <2> DEFINE d == Reduced(Plus(b, g))
  <2>2. b \in Fraction
    BY CoefficientLowest
  <2>3. Plus(b, g) \in Fraction /\ d \in Fraction /\ Same(d, Plus(b, g)) /\ Same(b, b)
    BY ONLY <1>2, <2>2, PlusType, ReducedLowest DEF Same
  <2>4. bd[1] = b /\ bd[2] = d
    BY <2>1
  <2> HIDE DEF d
  <2>5. Minus(d, b) \in Fraction /\ Minus(Plus(b, g), b) \in Fraction
    BY ONLY <2>2, <2>3, MinusType
  <2>6. Same(Minus(d, b), Minus(Plus(b, g), b)) /\ Same(Minus(Plus(b, g), b), g)
    BY ONLY <1>2, <2>2, <2>3, MinusSame, GiveTake
  <2>7. Same(Minus(d, b), g)
    BY ONLY <1>2, <2>5, <2>6, SameTrans
  <2>8. Same(t, Minus(d, b))
    BY ONLY <1>1, <1>2, <2>5, <2>7, SameSym, SameTrans
  <2> QED
    BY <2>2, <2>3, <2>4, <2>8 DEF t
<1>5. CASE \E d \in Coefficient(use) : bd = <<Reduced(Minus(d, g)), d>>
  <2>1. PICK d \in Coefficient(use) : bd = <<Reduced(Minus(d, g)), d>>
    BY <1>5
  <2> DEFINE b == Reduced(Minus(d, g))
  <2>2. d \in Fraction
    BY CoefficientLowest
  <2>3. Minus(d, g) \in Fraction /\ b \in Fraction /\ Same(b, Minus(d, g)) /\ Same(d, d)
    BY ONLY <1>2, <2>2, MinusType, ReducedLowest DEF Same
  <2>4. bd[1] = b /\ bd[2] = d
    BY <2>1
  <2> HIDE DEF b
  <2>5. Minus(d, b) \in Fraction /\ Minus(d, Minus(d, g)) \in Fraction
    BY ONLY <2>2, <2>3, MinusType
  <2>6. Same(Minus(d, b), Minus(d, Minus(d, g))) /\ Same(Minus(d, Minus(d, g)), g)
    BY ONLY <1>2, <2>2, <2>3, MinusSame, TakeTwice
  <2>7. Same(Minus(d, b), g)
    BY ONLY <1>2, <2>5, <2>6, SameTrans
  <2>8. Same(t, Minus(d, b))
    BY ONLY <1>1, <1>2, <2>5, <2>7, SameSym, SameTrans
  <2> QED
    BY <2>2, <2>3, <2>4, <2>8 DEF t
<1> QED
  BY <1>3, <1>4, <1>5

LEMMA AxPlusBEqualCxPlusDRight ==
    ASSUME NEW use \in SUBSET NumberTypes, NEW over, AxPlusBEqualCxPlusD(use, over)
    PROVE  LinearRight'
<1>1. PICK x \in Answer(use, over), a \in Coefficient(use), c \in Coefficient(use) :
        /\ a # c
        /\ \E bd \in Constants(use, x, a, c) :
            LET b == bd[1]
                d == bd[2]
                gap == Reduced(Minus(d, b))
                sum == Plus(d, b)
                left == Minus(a, c)
                signs == {Ratio(sum, left), gap}
                         \cup IfDefined(gap, Plus(a, c)) \cup IfDefined(sum, Plus(a, c))
                         \cup IfDefined(left, gap)
                wholes == signs \cup {Ratio(gap, a), Ratio(gap, c), Neg(Ratio(gap, left)),
                                     Ratio(Magnitude(gap), left), Ratio(gap, Magnitude(left))}
                any == signs \cup {Minus(Plus(c, gap), a), Ratio(Plus(c, gap), a),
                                   Times(gap, Minus(c, a))}
                             \cup IfDefined(Plus(c, d), Plus(a, b))
            IN linear' = Problem("ax+b=cx+d", use, x, Lead(a), Constant(b), Lead(c), Constant(d),
                                 IF over = "only_integer" THEN CappedPool(wholes, x)
                                 ELSE AnyPool(use, any, x))
  BY DEF AxPlusBEqualCxPlusD
<1>2. PICK bd \in Constants(use, x, a, c) :
            LET b == bd[1]
                d == bd[2]
                gap == Reduced(Minus(d, b))
                sum == Plus(d, b)
                left == Minus(a, c)
                signs == {Ratio(sum, left), gap}
                         \cup IfDefined(gap, Plus(a, c)) \cup IfDefined(sum, Plus(a, c))
                         \cup IfDefined(left, gap)
                wholes == signs \cup {Ratio(gap, a), Ratio(gap, c), Neg(Ratio(gap, left)),
                                     Ratio(Magnitude(gap), left), Ratio(gap, Magnitude(left))}
                any == signs \cup {Minus(Plus(c, gap), a), Ratio(Plus(c, gap), a),
                                   Times(gap, Minus(c, a))}
                             \cup IfDefined(Plus(c, d), Plus(a, b))
            IN linear' = Problem("ax+b=cx+d", use, x, Lead(a), Constant(b), Lead(c), Constant(d),
                                 IF over = "only_integer" THEN CappedPool(wholes, x)
                                 ELSE AnyPool(use, any, x))
  BY <1>1
<1> DEFINE b == bd[1]
           d == bd[2]
           gap == Reduced(Minus(d, b))
           sum == Plus(d, b)
           left == Minus(a, c)
           near == {Ratio(sum, left), gap}
           p == IfDefined(gap, Plus(a, c))
           q == IfDefined(sum, Plus(a, c))
           r == IfDefined(left, gap)
           signs == near \cup p \cup q \cup r
           five == {Ratio(gap, a), Ratio(gap, c), Neg(Ratio(gap, left)),
                    Ratio(Magnitude(gap), left), Ratio(gap, Magnitude(left))}
           wholes == signs \cup five
           three == {Minus(Plus(c, gap), a), Ratio(Plus(c, gap), a), Times(gap, Minus(c, a))}
           s == IfDefined(Plus(c, d), Plus(a, b))
           any == signs \cup three \cup s
           pool == IF over = "only_integer" THEN CappedPool(wholes, x)
                   ELSE AnyPool(use, any, x)
<1>3. /\ a \in Fraction /\ Lowest(a) /\ ~IsZero(a)
      /\ c \in Fraction /\ Lowest(c) /\ ~IsZero(c)
      /\ x \in Fraction
  BY CoefficientLowest, AnswerLowest
<1>4. b \in Fraction /\ d \in Fraction /\ Same(Times(left, x), Minus(d, b))
  BY <1>3, ConstantsGap
<1>5. left \in Fraction /\ ~IsZero(left)
  <2>1. ~Same(a, c)
    BY ONLY <1>1, <1>3, LowestUnique
  <2> QED
    BY ONLY <1>3, <2>1, MinusType, MinusZero
<1>6. linear' = Problem("ax+b=cx+d", use, x, Lead(a), Constant(b), Lead(c), Constant(d), pool)
  BY <1>2
<1> HIDE DEF b, d
<1>7. gap \in Fraction /\ sum \in Fraction /\ Plus(a, c) \in Fraction /\ Plus(a, b) \in Fraction
      /\ Plus(c, d) \in Fraction
  BY ONLY <1>3, <1>4, MinusType, ReducedLowest, PlusType
<1>8. signs \in SUBSET Fraction /\ IsFiniteSet(signs)
  <2> HIDE DEF gap, sum, left
  <2>1. /\ p \in SUBSET Fraction /\ IsFiniteSet(p)
        /\ q \in SUBSET Fraction /\ IsFiniteSet(q)
        /\ r \in SUBSET Fraction /\ IsFiniteSet(r)
    BY ONLY <1>5, <1>7, IfDefinedType
  <2>2. Ratio(sum, left) \in Fraction
    BY ONLY <1>5, <1>7, RatioType
  <2> DEFINE u == Ratio(sum, left)
  <2>3. near = {u, gap, gap, gap, gap, gap, gap, gap}
    OBVIOUS
  <2>4. near \in SUBSET Fraction
    BY ONLY <1>7, <2>2
  <2> HIDE DEF u
  <2>5. IsFiniteSet(near)
    BY ONLY <2>3, FiniteEight
  <2> HIDE DEF near, p, q, r
  <2>6. near \cup p \in SUBSET Fraction /\ IsFiniteSet(near \cup p)
    BY ONLY <2>1, <2>4, <2>5, FS_Union
  <2>7. q \cup r \in SUBSET Fraction /\ IsFiniteSet(q \cup r)
    BY ONLY <2>1, FS_Union
  <2>8. signs = (near \cup p) \cup (q \cup r)
    OBVIOUS
  <2> QED
    BY ONLY <2>6, <2>7, <2>8, FS_Union
<1>9. wholes \in SUBSET Fraction /\ IsFiniteSet(wholes)
  <2> HIDE DEF gap, sum, left, signs
  <2> DEFINE u == Ratio(gap, a)
             v == Ratio(gap, c)
             w == Neg(Ratio(gap, left))
             y == Ratio(Magnitude(gap), left)
             z == Ratio(gap, Magnitude(left))
  <2>1. u \in Fraction /\ v \in Fraction /\ w \in Fraction
    BY ONLY <1>3, <1>5, <1>7, RatioType, NegType
  <2>2. y \in Fraction
    BY ONLY <1>5, <1>7, MagnitudeType, RatioType
  <2>3. z \in Fraction
    <3>1. Magnitude(left) \in Fraction /\ ~IsZero(Magnitude(left))
      BY ONLY <1>5, MagnitudeType, MagnitudeZero
    <3> QED
      BY ONLY <1>7, <3>1, RatioType
  <2>4. five = {u, v, w, y, z, z, z, z}
    OBVIOUS
  <2> HIDE DEF u, v, w, y, z
  <2>5. five \in SUBSET Fraction /\ IsFiniteSet(five)
    BY ONLY <2>1, <2>2, <2>3, <2>4, FiniteEight
  <2> HIDE DEF five
  <2> QED
    BY ONLY <1>8, <2>5, FS_Union
<1>10. any \in SUBSET Fraction /\ IsFiniteSet(any)
  <2> HIDE DEF gap, sum, left, signs
  <2> DEFINE u == Minus(Plus(c, gap), a)
             v == Ratio(Plus(c, gap), a)
             w == Times(gap, Minus(c, a))
  <2>1. u \in Fraction /\ v \in Fraction /\ w \in Fraction
    <3>1. Plus(c, gap) \in Fraction /\ Minus(c, a) \in Fraction
      BY ONLY <1>3, <1>7, PlusType, MinusType
    <3> QED
      BY ONLY <1>3, <1>7, <3>1, MinusType, RatioType, TimesType
  <2>2. s \in SUBSET Fraction /\ IsFiniteSet(s)
    BY ONLY <1>7, IfDefinedType
  <2>3. three = {u, v, w, w, w, w, w, w}
    OBVIOUS
  <2> HIDE DEF u, v, w
  <2>4. three \in SUBSET Fraction /\ IsFiniteSet(three)
    BY ONLY <2>1, <2>3, FiniteEight
  <2> HIDE DEF three, s
  <2>5. signs \cup three \in SUBSET Fraction /\ IsFiniteSet(signs \cup three)
    BY ONLY <1>8, <2>4, FS_Union
  <2> QED
    BY ONLY <2>2, <2>5, FS_Union
<1>11. PoolRight(use, pool, x)
  <2> HIDE DEF wholes, any
  <2>1. CASE over = "only_integer"
    BY <1>9, <2>1, WholeChoices
  <2>2. CASE over # "only_integer"
    BY <1>10, <2>2, AnyChoices
  <2> QED
    BY <2>1, <2>2
<1> HIDE DEF pool, wholes, any, signs, near, p, q, r, five, three, s, gap, sum
<1> DEFINE m == Reads(Constant(b))
           n == Reads(Constant(d))
<1>12. /\ m \in Fraction /\ Same(m, b) /\ Apart(Constant(b))
       /\ n \in Fraction /\ Same(n, d) /\ Apart(Constant(d))
  BY ONLY <1>4, ConstantReads
<1>13. Reads(Lead(a)) = a /\ Reads(Lead(c)) = c
  BY ONLY <1>3, LeadReads
<1>14. Same(Times(left, x), Minus(n, m))
  <2> HIDE DEF m, n, left
  <2>1. Same(b, m) /\ Same(d, n)
    BY ONLY <1>12, SameSym
  <2>2. Same(Minus(d, b), Minus(n, m))
    BY ONLY <1>4, <1>12, <2>1, MinusSame
  <2>3. Times(left, x) \in Fraction /\ Minus(d, b) \in Fraction /\ Minus(n, m) \in Fraction
    BY ONLY <1>3, <1>4, <1>5, <1>12, TimesType, MinusType
  <2> QED
    BY ONLY <1>4, <2>2, <2>3, SameTrans
<1>15. /\ Reads(Lead(a)) \in Fraction /\ Reads(Lead(c)) \in Fraction
       /\ ~IsZero(Minus(Reads(Lead(a)), Reads(Lead(c))))
       /\ Same(Times(Minus(Reads(Lead(a)), Reads(Lead(c))), x),
               Minus(Reads(Constant(d)), Reads(Constant(b))))
  BY ONLY <1>3, <1>5, <1>13, <1>14
<1> QED
  BY ONLY <1>3, <1>6, <1>11, <1>12, <1>15, ProblemRight

\* Whatever the shape, the options and the numbers, the linear equation is right.
THEOREM LinearStep == NextLinear => LinearRight'
<1> SUFFICES ASSUME NextLinear PROVE LinearRight'
  OBVIOUS
<1>1. PICK use \in SUBSET NumberTypes \ {{}}, over \in {"only_integer", "all_number"} :
        AxEqualB(use, over) \/ AxPlusBEqualC(use, over) \/ AxPlusBEqualCxPlusD(use, over)
  BY DEF NextLinear
<1> QED
  BY <1>1, AxEqualBRight, AxPlusBEqualCRight, AxPlusBEqualCxPlusDRight

-----------------------------------------------------------------------------
(* The three generators *)

\* A system is built step by step, and the two others at once.
MathInv == LinearRight /\ SystemInv /\ ClockRight

LEMMA InitMathInv == InitMath => MathInv
BY DEF InitMath, InitLinear, InitSystem, InitClock, MathInv, LinearRight, SystemInv, ClockRight

LEMMA NextMathInv == MathInv /\ [NextMath]_mathVars => MathInv'
<1> SUFFICES ASSUME MathInv, [NextMath]_mathVars PROVE MathInv'
  OBVIOUS
<1>1. UNCHANGED linear => LinearRight'
  BY DEF MathInv, LinearRight
<1>2. UNCHANGED system => SystemInv'
  BY DEF MathInv, SystemInv, SystemShape
<1>3. UNCHANGED clock => ClockRight'
  <2> SUFFICES ASSUME clock' = clock PROVE ClockRight'
    OBVIOUS
  <2>1. ClockRight
    BY DEF MathInv
  <2> QED
    BY ONLY <2>1, clock' = clock DEF ClockRight, Answers
<1>4. CASE part = "sessions" /\ NextSessions /\ UNCHANGED <<linear, system, clock>>
  BY <1>1, <1>2, <1>3, <1>4 DEF MathInv
<1>5. CASE part = "linear" /\ NextLinear /\ UNCHANGED <<sessionVars, system, clock>>
  BY <1>2, <1>3, <1>5, LinearStep DEF MathInv
<1>6. CASE part = "system" /\ NextSystem /\ UNCHANGED <<sessionVars, linear, clock>>
  BY <1>1, <1>3, <1>6, SystemStep DEF MathInv
<1>7. CASE part = "clock" /\ NextClock /\ UNCHANGED <<sessionVars, linear, system>>
  BY <1>1, <1>2, <1>7, ClockStep DEF MathInv
<1>8. CASE UNCHANGED mathVars
  BY <1>1, <1>2, <1>3, <1>8 DEF MathInv, mathVars
<1> QED
  BY <1>4, <1>5, <1>6, <1>7, <1>8 DEF NextMath

\* Of every linear equation, system of equations and clock problem that is generated,
\* of whatever numbers and options, the stored answer is right and the choices beside
\* it are wrong.
THEOREM OneRightChoiceAlways == SpecMath => []OneRightChoice
<1>1. MathInv => OneRightChoice
  BY SystemIsRight DEF MathInv, OneRightChoice
<1> QED
  BY <1>1, InitMathInv, NextMathInv, PTL DEF SpecMath
=============================================================================
