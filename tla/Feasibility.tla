---------------------------- MODULE Feasibility ----------------------------
(***************************************************************************)
(* What the form of a learning material tells about a plan before it is    *)
(* saved (text_scheduler/services/feasibility.py): how many new units a    *)
(* day are needed and possible, and whether the last review falls within   *)
(* the goal.  Days are numbered, day 0 is a Monday.                        *)
(***************************************************************************)
EXTENDS Sm2, FiniteSets

CONSTANT MaxReviews   \* the validator of required_reviews: 25 in the code

ASSUME MaxReviewsAssumption == MaxReviews \in Nat

SafetyBreak == 3651   \* working days after which the estimate gives up
Weekday(d) == d % 7

AtLeast0(x) == IF x > 0 THEN x ELSE 0
Lesser(x, y) == IF x < y THEN x ELSE y
Greater(x, y) == IF x > y THEN x ELSE y
CeilDiv(a, b) == (a + b - 1) \div b

\* What the form is filled with.  No required reviews is SQL NULL: the
\* preview may leave them out, the form may not.
PlanForm == [ start_number : Nat, end_number : Nat, required_reviews : 0 .. MaxReviews,
              minutes_per_unit : 1 .. 240, budget : 5 .. 600,
              start_date : Int, goal_date : Int, buffers : SUBSET (0 .. 6) ]

\* Days between a review and the one before: 1, 6, then 2.5 times as many.
Gap[k \in 1 .. MaxReviews] ==
    CASE k = 1 -> 1
      [] k = 2 -> 6
      [] OTHER -> Greater(1, Round(Gap[k - 1] * 250))

\* estimate_review_lead_days: from the first learning to the last review.
ReviewLeadDays[n \in 0 .. MaxReviews] ==
    IF n = 0 THEN 0 ELSE ReviewLeadDays[n - 1] + Gap[n]

FirstDeadline(m) == m.goal_date - ReviewLeadDays[m.required_reviews]

\* mutant (DiagnosisAgrees): the last day is left out.
CountUpTo(start, end, buffers) ==
    Cardinality({d \in start .. end - 1 : Weekday(d) \notin buffers})

\* _count_effective_days
CountEffectiveDays(start, end, buffers) ==
    IF buffers = {} THEN AtLeast0(end - start + 1)
    ELSE Cardinality({d \in start .. end : Weekday(d) \notin buffers})

TotalUnits(m) == AtLeast0(m.end_number - m.start_number + 1)
TotalDays(m)  == AtLeast0(m.goal_date - m.start_date + 1)
NewPerDayCap(m) == m.budget \div Greater(1, m.minutes_per_unit)

EffectiveDaysToDeadline(m) ==
    IF m.required_reviews = 0 THEN TotalDays(m)
    ELSE CountEffectiveDays(m.start_date, FirstDeadline(m), m.buffers)

RequiredPerDay(m) ==
    IF EffectiveDaysToDeadline(m) = 0 THEN TotalUnits(m)
    ELSE CeilDiv(TotalUnits(m), EffectiveDaysToDeadline(m))

\* mutant (DiagnosisHonest): one unit a day is rounded away.
StatusRoundedDown(m) ==
    CASE NewPerDayCap(m) = 0 -> "impossible"
      [] 0 < NewPerDayCap(m) /\ NewPerDayCap(m) + 1 < RequiredPerDay(m) -> "tight"
      [] OTHER -> "ok"

Status(m) ==
    CASE NewPerDayCap(m) = 0 -> "impossible"
      [] 0 < NewPerDayCap(m) /\ NewPerDayCap(m) < RequiredPerDay(m) -> "tight"
      [] OTHER -> "ok"

DeadlinePast(m) == m.required_reviews > 0 /\ FirstDeadline(m) < m.start_date

\* The calendar of the form gives every day up to the deadline as many units
\* as it can take, buffer days too; what remains is the expected delay.
Unscheduled(m) ==
    LET days == AtLeast0(Lesser(FirstDeadline(m), m.goal_date) - m.start_date + 1)
    IN  AtLeast0(TotalUnits(m) - NewPerDayCap(m) * days)

DelayDays(m) == CeilDiv(Unscheduled(m), NewPerDayCap(m))

\* The working days after the goal that the units need.
DaysShort(m) ==
    LET cap == Greater(NewPerDayCap(m), 1)
        covered == CountEffectiveDays(m.start_date, m.goal_date, m.buffers) * cap
    IN  IF covered >= TotalUnits(m) THEN 0 ELSE CeilDiv(TotalUnits(m) - covered, cap)

\* _extend_until_capacity counts them, and gives up after ten years.
SlipDays(m) == Lesser(DaysShort(m), SafetyBreak)

\* mutant (DiagnosisHonest): the goal counts as a day of the extension.
ProjectedFinishEarly(m) == m.goal_date + AtLeast0(SlipDays(m) - 1)

ProjectedFinish(m) ==
    IF SlipDays(m) = 0 THEN m.goal_date
    ELSE CHOOSE d \in m.goal_date + 1 .. m.goal_date + 7 * SlipDays(m) :
            /\ Weekday(d) \notin m.buffers
            /\ CountEffectiveDays(m.goal_date + 1, d, m.buffers) = SlipDays(m)

\* With every weekday a buffer day the extension never covers a unit: its
\* loop runs to the last date there is and raises.
ExtensionRaises(m) ==
    /\ DeadlinePast(m)
    /\ m.buffers = 0 .. 6
    /\ TotalUnits(m) > 0

-----------------------------------------------------------------------------
(* The detailed timeline of the preview *)

\* Units are laid out from the first day on, past the deadline if need be.
TimelineNew(m, d) ==
    IF d < m.start_date \/ NewPerDayCap(m) = 0 THEN 0
    ELSE Lesser(NewPerDayCap(m),
                AtLeast0(TotalUnits(m) - NewPerDayCap(m) * (d - m.start_date)))

\* The k-th review of a day's units is put Gap[k] days after that day.
TimelineReviews(m, k, d) == TimelineNew(m, d - Gap[k])

OverrunNew(m, d) == d > FirstDeadline(m) /\ TimelineNew(m, d) > 0

OverrunReview(m, d) ==
    d > m.goal_date /\ \E k \in 1 .. m.required_reviews : TimelineReviews(m, k, d) > 0

\* The last row that is shown.
TimelineEnd(m) ==
    LET spill == IF NewPerDayCap(m) = 0 \/ Unscheduled(m) = 0 THEN FirstDeadline(m)
                 ELSE m.start_date + CeilDiv(TotalUnits(m), NewPerDayCap(m)) - 1
    IN  Greater(m.goal_date, spill + Gap[m.required_reviews])

=============================================================================
