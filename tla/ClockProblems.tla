---------------------------- MODULE ClockProblems ----------------------------
(***************************************************************************)
(* The clock problems of the second year of elementary school              *)
(* (math_process/elementary2/clock_generator.py): the time so many minutes *)
(* before or after another one, on a dial, with the halves of the day, or  *)
(* of 24 hours, and three wrong times or spans to choose from.             *)
(***************************************************************************)
EXTENDS Integers, FiniteSets

CONSTANTS
    Hours,      \* bound: the hours tried, of 0..23
    Minutes,    \* bound: the minutes tried, of 0..59
    Edge        \* bound: minutes are drawn from this many at either end of a pool

VARIABLE clock      \* the problem generated, NoClock before

ASSUME ClockAssumption ==
    Hours \subseteq 0..23 /\ Minutes \subseteq 0..59 /\ Edge \in Nat /\ Edge >= 2

NoClock == [type |-> "none"]
InitClock == clock = NoClock

Day == 24 * 60

\* A time is the minutes since midnight, and the way it is written.
Styles == {"24h", "am_pm"}

\* TimeInformation.__str__, with the hour and the minute it prints.
Text(t, style) ==
    LET h == t \div 60
        half == IF h % 12 = 0 THEN 12 ELSE h % 12
    IN IF style = "24h" THEN <<"", h, t % 60>>
       ELSE <<IF h < 12 THEN "am" ELSE "pm", half, t % 60>>

\* TimeInformation.to_datetime of a printed time.
Read(text) ==
    LET h == CASE text[1] = ""   -> text[2]
               [] text[1] = "am" -> IF text[2] # 12 THEN text[2] ELSE 0
               [] text[1] = "pm" -> IF text[2] = 12 THEN 12 ELSE (text[2] % 12) + 12
    IN h * 60 + text[3]

\* add_or_subtract_minutes: the date that changes at midnight is not kept.
Moved(t, minutes) == (t + minutes) % Day

-----------------------------------------------------------------------------
\* calculate_bounds: not before 0:01, not after 23:59 or 11:59.
MaxMinutes(t, direction, limit24) ==
    IF direction = "before" THEN t - 1
    ELSE (IF limit24 THEN 23 * 60 + 59 ELSE 11 * 60 + 59) - t

\* _build_delta_pool: the pool is an interval, of its first and its last.
First(width) == IF width = "less_than_one_hour" THEN 1 ELSE 60
Last(width, max) == IF width = "less_than_one_hour" /\ max > 59 THEN 59 ELSE max
DeltaPool(width, max) == First(width)..Last(width, max)

\* pick_valid_delta: the directions with four deltas to choose from.
Directions(t, width, limit24) ==
    {d \in {"before", "after"} : Last(width, MaxMinutes(t, d, limit24)) >= First(width) + 3}

Signed(direction, m) == IF direction = "before" THEN -m ELSE m

\* The ends of a pool, where deltas are tried.
Ends(width, max) ==
    DeltaPool(width, max) \cap ((First(width)..First(width) + Edge - 1)
                                \cup (Last(width, max) - Edge + 1..Last(width, max)))

\* generate_minutes_for_dummy.  Three are drawn whenever the pool has three more,
\* as it does in a direction that was picked: the offsets and the fill from one
\* end never run.
Dummies(width, max, delta) ==
    {s \in SUBSET (Ends(width, max) \ {delta}) : Cardinality(s) = 3}

-----------------------------------------------------------------------------
Asked(type, time, style, limit24, width, direction, delta, answer, wrong) ==
    [type |-> type, time |-> time, style |-> style, limit24 |-> limit24, width |-> width,
     direction |-> direction, delta |-> delta, answer |-> answer, wrong |-> wrong]

\* _make_read_time_problem: the dial shows an hour of 1..12.
ReadTime ==
    \E h \in Hours \cap 1..12, m \in Minutes \ {0} :
    \E o1, o2 \in {5, 10, 15, 20, 25, 30}, o3 \in {60, 120}, s1, s2, s3 \in {-1, 1} :
        /\ o1 # o2
        /\ LET t == h * 60 + m
           IN clock' = Asked("read_time", t, "24h", FALSE, "", "", 0, Text(t, "24h"),
                             {Text(Moved(t, d), "24h") : d \in {s1 * o1, s2 * o2, s3 * o3}})

\* The four kinds that move a time, or compare two: the answer is the other time or
\* the span.  A time with no direction to pick fails.
Delta(type, t, style, limit24, width) ==
    \/ /\ Directions(t, width, limit24) = {}
       /\ clock' = [type |-> "error"]
    \/ \E direction \in Directions(t, width, limit24) :
       LET max == MaxMinutes(t, direction, limit24)
           shown(m) == IF type = "two_clocks" THEN <<"", m \div 60, m % 60>>
                       ELSE Text(Moved(t, Signed(direction, m)), style)
       IN \E delta \in Ends(width, max) : \E dummies \in Dummies(width, max, delta) :
            clock' = Asked(type, t, style, limit24, width, direction, delta, shown(delta),
                           {shown(m) : m \in dummies})

Widths == {"less_than_one_hour", "greater_than_or_equal_to_one_hour"}

\* _make_time_delta_without_am_pm_problem
WithoutAmPm(width) ==
    \E h \in Hours \cap 1..11, m \in Minutes \ {0} : Delta("without_am_pm", h * 60 + m, "24h", FALSE, width)

\* _make_time_delta_with_two_clock_pictures
TwoClocks(width) ==
    \E h \in Hours \cap 1..11, m \in Minutes : Delta("two_clocks", h * 60 + m, "24h", FALSE, width)

\* _make_time_delta_with_am_pm_problem: an hour of 1..11 of either half.
WithAmPm(width) ==
    \E h \in Hours \cap 1..11, m \in Minutes, half \in {"am", "pm"} :
        Delta("with_am_pm", Read(<<half, h, m>>), "am_pm", TRUE, width)

\* _make_time_delta_with_24_hours_problem
With24Hours(width) ==
    \E h \in Hours, m \in Minutes : Delta("with_24_hours", h * 60 + m, "24h", TRUE, width)

\* ClockProblemGenerator.generate
NextClock ==
    /\ clock = NoClock
    /\ \/ ReadTime
       \/ \E width \in Widths :
            WithoutAmPm(width) \/ TwoClocks(width) \/ WithAmPm(width) \/ With24Hours(width)

-----------------------------------------------------------------------------
\* What a dial of twelve hours shows of a time.
Dial(t) == t % (12 * 60)

\* Whether a choice answers the problem: the time that is read, the moved time, or
\* the span between the two dials in the direction asked for.
Answers(p, text) ==
    CASE p.type = "read_time"  -> Dial(Read(text)) = Dial(p.time)
      [] p.type = "two_clocks" ->
            Dial(Moved(p.time, Signed(p.direction, text[2] * 60 + text[3])))
                = Dial(Moved(p.time, Signed(p.direction, p.delta)))
      [] OTHER -> Moved(Read(text), -Signed(p.direction, p.delta)) = p.time

\* A clock problem can always be made (some direction has room for four deltas), its
\* answer is right and three different choices are wrong, also where twelve hours
\* apart look the same: on a dial, at noon and at midnight.
ClockRight ==
    clock # NoClock =>
        /\ clock.type # "error"
        /\ Answers(clock, clock.answer)
        /\ Cardinality(clock.wrong) = 3
        /\ \A w \in clock.wrong : ~Answers(clock, w)
=============================================================================
