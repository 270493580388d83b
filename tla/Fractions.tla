------------------------------ MODULE Fractions ------------------------------
(***************************************************************************)
(* The rational numbers the problem generators of math_trainer calculate   *)
(* with (sympy's Rational), as pairs of a numerator, which has the sign,   *)
(* and a positive denominator.  The arithmetic leaves a result as it comes *)
(* out; Reduced gives the lowest terms, in which sympy stores and prints.  *)
(***************************************************************************)
EXTENDS Integers

\* The kinds of number a teacher chooses from.
NumberTypes == {"integer", "frac", "decimal"}

Fraction == Int \X (Nat \ {0})

Whole(n) == <<n, 1>>
One == Whole(1)

Plus(x, y)  == <<x[1] * y[2] + y[1] * x[2], x[2] * y[2]>>
Neg(x)      == <<-x[1], x[2]>>
Minus(x, y) == Plus(x, Neg(y))
Times(x, y) == <<x[1] * y[1], x[2] * y[2]>>
Ratio(x, y) == IF y[1] > 0 THEN <<x[1] * y[2], x[2] * y[1]>> ELSE <<-(x[1] * y[2]), -(x[2] * y[1])>>
Magnitude(x) == IF x[1] < 0 THEN Neg(x) ELSE x

Same(x, y) == x[1] * y[2] = y[1] * x[2]
IsZero(x)  == x[1] = 0
IsWhole(x) == x[1] % x[2] = 0

\* Euclid's algorithm, and the division by what divides both.
Gcd[p \in Nat \X Nat] == IF p[2] = 0 THEN p[1] ELSE Gcd[<<p[2], p[1] % p[2]>>]
Divides(d, x) == d \in Nat \ {0} /\ x[1] % d = 0 /\ x[2] % d = 0
Reduced(x) == LET d == Gcd[<<Magnitude(x)[1], x[2]>>]
              IN IF Divides(d, x) THEN <<x[1] \div d, x[2] \div d>> ELSE x

\* The tenth nearest to x, the upper one of two as near.
ToTenth(x) == Reduced(<<(20 * x[1] + x[2]) \div (2 * x[2]), 10>>)
FloorTenth(x) == Reduced(<<(10 * x[1]) \div x[2], 10>>)
CeilTenth(x)  == Neg(FloorTenth(Neg(x)))

-----------------------------------------------------------------------------
(***************************************************************************)
(* A printed term: the sign written before its number, if any, and the     *)
(* number, which has a minus of its own when it is negative.  A number 1   *)
(* that is left out before a letter reads the same as one that is written. *)
(***************************************************************************)
Blank    == [sign |-> "", num |-> Whole(0)]
Shown(x) == [sign |-> "", num |-> x]

\* The coefficient a term begins a side of an equation with.
Lead(a) == IF Same(a, Whole(-1)) THEN [sign |-> "-", num |-> One] ELSE Shown(a)

\* What is read: by a term alone, and whether it is read as a term of its own
\* after another one and not as a factor of it.
Reads(t) == IF t.sign = "-" THEN Neg(t.num) ELSE t.num
Apart(t) == t.sign # "" \/ t.num[1] <= 0
=============================================================================
