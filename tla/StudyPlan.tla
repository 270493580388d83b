----------------------------- MODULE StudyPlan -----------------------------
(***************************************************************************)
(* The daily plan of one material (text_scheduler/services/daily_plan.py), *)
(* the list that shows it (views/materials.py), the material's form and    *)
(* the student who studies, or does not, day after day.                    *)
(*                                                                         *)
(* A request is one step here: the plan's row is locked while it is        *)
(* computed, and overlapping posts are the subject of StudyLogs.           *)
(***************************************************************************)
EXTENDS Feasibility

CONSTANTS
    Forms,    \* bound: what the form is filled with for a preview
    Created,  \* bound: what it is filled with when a material is created
    Edited,   \* bound: and when it is edited
    Quality,  \* bound: the ratings given
    Horizon,  \* bound: the last day of the run
    MaxWork,  \* bound: so many logs are posted and edits made
    MAX_NEW_CAP_PER_DAY, MAX_DUE_REVIEWS_PER_DAY, OVERTIME_NEW_CAP  \* 20, 200, 1 in the code

ASSUME FormsAssumption == Forms \cup Created \cup Edited \subseteq PlanForm
ASSUME BoundAssumption ==
    /\ Quality \subseteq 0 .. 5
    /\ Horizon \in Nat /\ MaxWork \in Nat
    /\ {MAX_NEW_CAP_PER_DAY, MAX_DUE_REVIEWS_PER_DAY, OVERTIME_NEW_CAP} \subseteq Nat

VARIABLES
    day,       \* timezone.localdate()
    material,  \* the LearningMaterial row
    progress,  \* StudentUnitProgress: a function on the numbers that have a row
    plan,      \* today's DailyPlan row, or NoPlan
    failed,    \* the last request of the list raised
    \* history: the units first learned today, and since the plan was asked for;
    \* what the first plan of the day asked for; whether a plan was always
    \* followed and never cut; whether a unit with a row left the range; work done
    newToday, asked, onTrack, moved, spent

tableVars   == <<material, progress, plan>>
historyVars == <<newToday, asked, onTrack, moved, spent>>
vars        == <<day, tableVars, failed, historyVars>>

Units == material.start_number .. material.end_number

NewUnit == [ ease_factor |-> 250, interval_days |-> 0, repetition_count |-> 0,
             total_reviews |-> 0, due |-> 0 ]

NoPlan == [new_count |-> 0, review_numbers |-> {}, minutes |-> 0]
NotAsked == -1

\* apply_study_log on day today.
Studied(p, q, today) ==
    LET next == Sm2Next(p, q) IN
    [ ease_factor      |-> next.ef,
      interval_days    |-> next.interval,
      repetition_count |-> next.repetition,
      total_reviews    |-> p.total_reviews + 1,
      due              |-> today + next.interval ]

-----------------------------------------------------------------------------
(* generate_or_get_today_plan *)

IsBufferDay(d) == Weekday(d) \in material.buffers

Learned == {n \in DOMAIN progress : progress[n].repetition_count > 0}

RemainingNewCount == AtLeast0(TotalUnits(material) - Cardinality(Learned))

DueToday == {n \in DOMAIN progress : progress[n].due <= day}

\* The sets of numbers the query may return: the oldest ones, up to the limit.
\* Within a day the order is that of the posts, which is not modelled.
DueReviewNumbers ==
    {S \in SUBSET DueToday :
        /\ Cardinality(S) = Lesser(Cardinality(DueToday), MAX_DUE_REVIEWS_PER_DAY)
        /\ \A n \in S, o \in DueToday \ S : progress[n].due <= progress[o].due}

\* mutant (FirstLearningInTime): the day after the deadline counts as well.
EffectiveDaysPast(d) ==
    Cardinality({e \in d .. FirstDeadline(material) + 1 : ~IsBufferDay(e)})

EffectiveLearningDays(d) ==
    Cardinality({e \in d .. FirstDeadline(material) : ~IsBufferDay(e)})

\* mutant (NeverPilesUp): the share of a day is rounded down.
NeededRoundedDown(d) ==
    IF EffectiveLearningDays(d) = 0 THEN RemainingNewCount
    ELSE IF IsBufferDay(d) THEN 0 ELSE RemainingNewCount \div EffectiveLearningDays(d)

\* The units to learn on day d for the rest to fit before the deadline.
Needed(d) ==
    IF EffectiveLearningDays(d) = 0 THEN RemainingNewCount
    ELSE IF IsBufferDay(d) THEN 0
    ELSE CeilDiv(RemainingNewCount, EffectiveLearningDays(d))

NewCountByBackcasting == Lesser(Needed(day), Lesser(MAX_NEW_CAP_PER_DAY, RemainingNewCount))

\* New units fit in what the reviews leave of the budget; none when reviews
\* take more than 1.2 budgets, and few when the goal has passed.
NewCount(reviews) ==
    LET review_minutes == Cardinality(reviews) * material.minutes_per_unit
        by_time == AtLeast0(material.budget - review_minutes) \div material.minutes_per_unit
        new == Lesser(NewCountByBackcasting, by_time)
    IN  IF review_minutes > (material.budget * 12) \div 10 THEN 0
        ELSE IF day > material.goal_date THEN Lesser(new, OVERTIME_NEW_CAP)
        ELSE new

TodayPlan(reviews) ==
    [ new_count      |-> NewCount(reviews),
      review_numbers |-> reviews,
      minutes |-> (NewCount(reviews) + Cardinality(reviews)) * material.minutes_per_unit ]

\* DailyPlan.clean: the numbers are within the range of the material.
Clean(p) == p.review_numbers \subseteq Units

-----------------------------------------------------------------------------
(* What the list shows of the progress *)

Completed == {n \in DOMAIN progress : progress[n].total_reviews >= material.required_reviews}

Started == {n \in DOMAIN progress : progress[n].repetition_count > 0}

-----------------------------------------------------------------------------
(* Requests *)

\* The form is valid and its diagnosis neither raises nor is impossible.
Storable(m) ==
    /\ m.required_reviews > 0
    /\ m.start_number <= m.end_number
    /\ m.start_date <= m.goal_date
    /\ day <= m.start_date
    /\ ~ExtensionRaises(m)
    /\ Status(m) # "impossible"

\* A day is left for the first learning, so a plan can be on its track.
StartsOnTrack(m) ==
    Cardinality({d \in day .. FirstDeadline(m) : Weekday(d) \notin m.buffers}) > 0

\* LearningMaterialCreateView on day 0; the list is opened afterwards.
Init ==
    /\ day = 0
    /\ material \in {m \in Created : Storable(m)}
    /\ progress = [n \in {} |-> NewUnit]
    /\ plan = NoPlan
    /\ failed = FALSE
    /\ newToday = 0 /\ asked = NotAsked
    /\ onTrack = StartsOnTrack(material)
    /\ moved = FALSE /\ spent = 0

\* The history the first plan of a day, or since an edit, leaves: it counts
\* when nothing was learned before it, and is cut if it asks less than needed.
NoteAsked(p) ==
    IF asked = NotAsked /\ newToday = 0 /\ p.new_count >= Needed(day)
    THEN asked' = p.new_count ELSE UNCHANGED asked

\* LearningMaterialListView: the plan is computed anew each time.  A number out
\* of range makes full_clean raise, and the page with it.
OpenList ==
    /\ \E reviews \in DueReviewNumbers :
          LET p == TodayPlan(reviews) IN
          IF Clean(p)
          THEN plan' = p /\ failed' = FALSE /\ NoteAsked(p)
          ELSE failed' = TRUE /\ UNCHANGED <<plan, asked>>
    /\ UNCHANGED <<day, material, progress, newToday, onTrack, moved, spent>>

\* mutant (ListHonest): the number of a log is not checked.
AcceptedAny(n) == n \in 1 .. 3

\* StudyLogForm: the number is within the range.
Accepted(n) == n \in Units

\* A log of unit n, rated q.
Post(n, q) ==
    /\ spent < MaxWork
    /\ Accepted(n)
    /\ LET old == IF n \in DOMAIN progress THEN progress[n] ELSE NewUnit IN
       progress' = [k \in DOMAIN progress \cup {n} |->
                      IF k = n THEN Studied(old, q, day) ELSE progress[k]]
    /\ newToday' = IF n \in DOMAIN progress THEN newToday ELSE newToday + 1
    /\ spent' = spent + 1
    /\ UNCHANGED <<day, material, plan, failed, asked, onTrack, moved>>

\* LearningMaterialUpdateView: the rows of the units stay as they are, and the
\* plan is judged anew from here.
EditMaterial(m) ==
    /\ spent < MaxWork
    /\ Storable(m)
    /\ material' = m
    /\ moved' = (moved \/ ~(DOMAIN progress \subseteq m.start_number .. m.end_number))
    /\ onTrack' = StartsOnTrack(m)
    /\ newToday' = 0 /\ asked' = NotAsked
    /\ spent' = spent + 1
    /\ UNCHANGED <<day, progress, plan, failed>>

\* Midnight.  There is no row for the new day yet.
NextDay ==
    /\ day < Horizon
    /\ day' = day + 1
    /\ plan' = NoPlan
    /\ onTrack' = (onTrack /\ asked # NotAsked /\ newToday >= asked)
    /\ newToday' = 0 /\ asked' = NotAsked
    /\ UNCHANGED <<material, progress, failed, moved, spent>>

Numbers == UNION {m.start_number .. m.end_number : m \in Created \cup Edited}

Next ==
    \/ OpenList
    \/ \E n \in Numbers, q \in Quality : Post(n, q)
    \/ \E m \in Edited : EditMaterial(m)
    \/ NextDay

Spec == Init /\ [][Next]_vars

-----------------------------------------------------------------------------
(* Properties *)

UnitProgress == [ ease_factor : {ef \in Nat : ef >= MIN_EF}, interval_days : Nat \ {0},
                  repetition_count : Nat \ {0}, total_reviews : Nat \ {0}, due : Int ]

\* The types of the variables.
TypeOK ==
    /\ day \in 0 .. Horizon
    /\ material \in Created \cup Edited
    /\ progress \in [DOMAIN progress -> UnitProgress] /\ DOMAIN progress \subseteq Numbers
    /\ plan \in [new_count : Nat, review_numbers : SUBSET Numbers, minutes : Nat]
    /\ {failed, onTrack, moved} \subseteq BOOLEAN
    /\ newToday \in Nat /\ asked \in Nat \cup {NotAsked}
    /\ spent \in 0 .. MaxWork

\* Whoever opened the list every day before studying, learned as many new units
\* as it asked for, and was never given fewer than needed for lack of time, has
\* begun every unit once no day is left for first learning, but for as many as were
\* learned before an edit left them out of the range: those the plan counts
\* instead.  The back-casting of _compute_new_count_by_backcasting keeps the
\* deadline it counts from.
FirstLearningInTime ==
    onTrack /\ (\A d \in day .. FirstDeadline(material) : IsBufferDay(d))
        => Cardinality(Units \ DOMAIN progress) <= Cardinality(DOMAIN progress \ Units)

\* For them the share of a day never grows: what the next learning day asks is
\* at most what this one asked, since the shares are rounded up.
NeverPilesUp ==
    [][NextDay /\ onTrack' /\ ~IsBufferDay(day) => Needed(day)' <= asked]_vars

\* The list can be shown, and counts no more units as completed than as started
\* and no more as started than there are, unless a unit that was learned is out
\* of the range: generate_or_get_today_plan raises for a number out of range.
ListHonest ==
    ~moved => /\ ~failed
              /\ Completed \subseteq Started
              /\ Cardinality(Started) <= TotalUnits(material)

\* The form and the daily plan count alike: on the first day, with nothing
\* learned, the plan asks for what the diagnosis said is needed, up to the caps.
DiagnosisAgrees ==
    [][ OpenList /\ day = material.start_date /\ progress = [n \in {} |-> NewUnit]
        /\ ~DeadlinePast(material) =>
          plan'.new_count =
             IF IsBufferDay(day) /\ EffectiveDaysToDeadline(material) > 0 THEN 0
             ELSE Lesser(RequiredPerDay(material),
                         Lesser(NewPerDayCap(material), MAX_NEW_CAP_PER_DAY))]_vars

Honest(m) ==
    LET cap == NewPerDayCap(m)
        room(d) == cap * CountEffectiveDays(m.start_date, d, m.buffers)
    IN  /\ DeadlinePast(m) =>
              /\ TotalUnits(m) <= room(ProjectedFinish(m))
              /\ SlipDays(m) > 0 => room(ProjectedFinish(m) - 1) < TotalUnits(m)
        /\ FirstDeadline(m) >= m.start_date =>
              /\ Status(m) = "ok" =>
                    /\ DelayDays(m) = 0
                    /\ m.required_reviews > 0 =>
                          \A d \in m.start_date .. TimelineEnd(m) : ~OverrunNew(m, d)
              /\ m.buffers = {} /\ Status(m) = "tight" => DelayDays(m) > 0

\* The extension counts from the goal: its date is that of a plan whose goal is
\* not before its start (of a preview the code does not ask it) and that needs
\* less than the ten years after which the estimate gives up.
Foreseen(m) == m.start_date <= m.goal_date + 1 /\ DaysShort(m) <= SafetyBreak

Diagnosed ==
    {m \in Forms \cup Created \cup Edited :
        ~ExtensionRaises(m) /\ Status(m) # "impossible" /\ Foreseen(m)}
Misdiagnosed == {m \in Diagnosed : ~Honest(m)}

\* A plan that is called ok and whose deadline is to come fits the calendar of
\* the form and, in the timeline, has no overrun of new units; without buffer
\* days a plan that is called tight does not.  The date an extension is
\* projected to finish on has room for every unit, and the day before has not.
\* It holds of every foreseen form, previewed or saved.
DiagnosisHonest == \A m \in Misdiagnosed : m # material /\ m \notin Forms

-----------------------------------------------------------------------------
(* What the documentation says *)

\* "suggested_review_numbers" holds no number out of the range of the material:
\* what DailyPlan.clean asserts of the numbers _due_review_numbers returns.
DueInRange == \A n \in DueToday : n \in Units

\* "goal_date" is the day by which the last review is completed: a plan that is
\* called ok has its deadline still to come.
OkMeansInTime == Status(material) = "ok" => ~DeadlinePast(material)

\* The timeline stacks the intervals: the k-th review comes Gap[k] after the
\* one before, so that the last one of a unit is ReviewLeadDays after its day.
TimelineStacks ==
    \A d \in material.start_date .. FirstDeadline(material) :
        TimelineNew(material, d) > 0 =>
            TimelineReviews(material, material.required_reviews,
                            d + ReviewLeadDays[material.required_reviews]) > 0

=============================================================================
