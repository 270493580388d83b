-------------------------------- MODULE Sm2 --------------------------------
(***************************************************************************)
(* SM-2 as text_scheduler/services/progress.py computes it: the next ease  *)
(* factor, interval in days and repetition count of a unit that was rated  *)
(* q.  The ease factor is in hundredths.                                   *)
(***************************************************************************)
EXTENDS Integers

MIN_EF == 130

\* Python's round() of a number of hundredths: a half goes to the even side.
Round(x) ==
    LET floor == x \div 100
        rest  == x % 100
    IN  IF rest > 50 \/ (rest = 50 /\ floor % 2 = 1) THEN floor + 1 ELSE floor

\* EF + (0.1 - (5 - q) * (0.08 + (5 - q) * 0.02))
EasedBy(ef, q) == ef + 10 - (5 - q) * (8 + (5 - q) * 2)

\* mutant (TypeOK): the ease factor has no lower bound.
Unbounded(ef) == ef

AtLeastMin(ef) == IF ef < MIN_EF THEN MIN_EF ELSE ef

\* mutant (StreakCounted): a failure keeps the count.
Sm2NextKeeping(p, q) ==
    LET ef == AtLeastMin(EasedBy(p.ease_factor, q)) IN
    [ef |-> ef, interval |-> IF q < 3 THEN 1 ELSE 6, repetition |-> p.repetition_count + 1]

\* _sm2_next: the ease factor, interval and repetition count after a log.
Sm2Next(p, q) ==
    LET ef == AtLeastMin(EasedBy(p.ease_factor, q)) IN
    IF q < 3
    THEN [ef |-> ef, interval |-> 1, repetition |-> 1]
    ELSE [ef |-> ef,
          interval   |-> CASE p.repetition_count = 0 -> 1
                           [] p.repetition_count = 1 -> 6
                           [] OTHER -> Round(p.interval_days * ef),
          repetition |-> p.repetition_count + 1]

=============================================================================
