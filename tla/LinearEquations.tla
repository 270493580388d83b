--------------------------- MODULE LinearEquations ---------------------------
(***************************************************************************)
(* The linear equations of the first year of junior high school            *)
(* (math_process/junior_high1/specific_linear_equation_generator.py): the  *)
(* answer is drawn first, one constant of the equation is calculated from  *)
(* it, and three wrong choices are drawn from a pool of likely mistakes    *)
(* and near values.                                                        *)
(***************************************************************************)
EXTENDS Fractions, FiniteSets

CONSTANT
    LinearTried     \* bound: the numbers, in lowest terms, that the random ones are taken from

ASSUME LinearTriedAssumption == LinearTried \subseteq Fraction

VARIABLE linear     \* the problem generated, NoProblem before

NoProblem == [shape |-> "none"]
InitLinear == linear = NoProblem

\* _make_random_number
RandomNumber(type) == LinearTried \cap
    ( CASE type = "integer" -> {Whole(n) : n \in (-5..5) \ {0}}
        [] type = "frac"    -> {Reduced(<<p, q>>) : p \in (-5..-2) \cup (2..5), q \in 2..5}
        [] type = "decimal" -> {Reduced(<<n, 10>>) : n \in {i \in -59..59 : i % 10 # 0}} )

Coefficient(use) == UNION {RandomNumber(t) : t \in use}

\* The kinds of answer: whole ones, or any the numbers chosen make possible.
Answer(use, over) ==
    IF over = "only_integer" THEN RandomNumber("integer")
    ELSE IF use = {"decimal"} THEN RandomNumber("decimal")
    ELSE RandomNumber("frac") \cup RandomNumber("integer")

\* A constant after the letter's term: nothing when zero.
Constant(b) == IF IsZero(b) THEN Blank
               ELSE IF b[1] > 0 THEN [sign |-> "+", num |-> b] ELSE Shown(b)

Other(pool, x) == {Reduced(w) : w \in {v \in pool : ~Same(v, x)}}

-----------------------------------------------------------------------------
(* The pools of wrong choices.  The fallbacks of the code fill a pool that *)
(* has fewer than three; none has (OneRightChoice), and they never run.    *)

WholeNear(x, k) == {Plus(x, Whole(d)) : d \in (-k..k) \ {0}}

WholePool(mistakes, x) == Other({w \in mistakes : IsWhole(w)} \cup WholeNear(x, 5), x)

\* The last shape stops adding near values at eight, and drops the large ones.
CappedPool(mistakes, x) ==
    LET small == {w \in mistakes : IsWhole(w) /\ Magnitude(w)[1] <= 100 * w[2]}
        upto(k) == Other(small \cup WholeNear(x, k), x)
        enough == {k \in 1..5 : k = 5 \/ Cardinality(upto(k)) >= 8}
    IN upto(CHOOSE k \in enough : \A j \in enough : k <= j)

\* A mutant: the answer is taken out before the mistakes are rounded, and not after.
TenthPoolRounded(mistakes, x) ==
    {ToTenth(w) : w \in {v \in mistakes \cup {Plus(x, <<d, 10>>) : d \in -3..3} : ~Same(v, x)}}

TenthPool(mistakes, x) ==
    LET near == {Plus(x, <<d, 10>>) : d \in (-3..3) \ {0}}
                \cup {FloorTenth(x), CeilTenth(x), ToTenth(Times(x, Whole(10))), ToTenth(Times(x, <<1, 10>>))}
    IN {t \in {ToTenth(w) : w \in mistakes \cup near} : t # ToTenth(x)}

FractionPool(mistakes, x) ==
    LET p == x[1]
        q == x[2]
        near == {Plus(x, <<s, d>>) : s \in {-1, 1}, d \in 2..6}
                \cup {<<p - 1, q>>, <<p + 1, q>>, <<p, q + 1>>}
                \cup (IF q > 1 THEN {<<p, q - 1>>} ELSE {})
                \cup {Ratio(One, x)}
    IN Other(mistakes \cup near, x)

AnyPool(use, mistakes, x) ==
    IF use = {"decimal"} THEN TenthPool(mistakes, x) ELSE FractionPool(mistakes, x)

\* a divided by b, where the code has a guard (or drops sympy's infinity).
IfDefined(x, y) == IF IsZero(y) THEN {} ELSE {Ratio(x, y)}

-----------------------------------------------------------------------------
Problem(shape, use, x, x1, n1, x2, n2, pool) ==
    [shape |-> shape, tenths |-> use = {"decimal"}, answer |-> x,
     eq |-> [x1 |-> x1, n1 |-> n1, x2 |-> x2, n2 |-> n2], wrong |-> pool]

\* _make_ax_equal_b_only_integer, _make_ax_equal_b_all_number
AxEqualB(use, over) ==
    \E x \in Answer(use, over), a \in Coefficient(use) \ {One} :
        LET b == Reduced(Times(a, x))
            mistakes == IfDefined(a, b) \cup {Minus(b, a), Times(a, b), b, Neg(Ratio(b, a))}
        IN linear' = Problem("ax=b", use, x, Lead(a), Blank, Blank, Shown(b),
                             IF over = "only_integer" THEN WholePool(mistakes, x)
                             ELSE AnyPool(use, mistakes, x))

\* _make_ax_plus_b_equal_c_only_integer, _make_ax_plus_b_equal_c_all_number
AxPlusBEqualC(use, over) ==
    \E x \in Answer(use, over), a \in Coefficient(use), c \in Coefficient(use) :
        LET b == Reduced(Minus(c, Times(a, x)))
            cb == Reduced(Minus(c, b))
            mistakes == {Ratio(Plus(c, b), a), Neg(Ratio(cb, a)), Ratio(Magnitude(cb), a),
                         Plus(Ratio(cb, a), a), Minus(Ratio(cb, a), a),
                         cb, Minus(cb, a), Times(a, cb)}
                        \cup IfDefined(c, Plus(a, b))
        IN linear' = Problem("ax+b=c", use, x, Lead(a), Constant(b), Blank, Shown(c),
                             IF over = "only_integer" THEN WholePool(mistakes, x)
                             ELSE AnyPool(use, mistakes, x))

\* The constants b and d: one drawn, the other one calculated from the answer.
Constants(use, x, a, c) ==
    LET gap == Reduced(Times(Minus(a, c), x))        \* d - b
    IN {<<b, Reduced(Plus(b, gap))>> : b \in Coefficient(use)}
       \cup {<<Reduced(Minus(d, gap)), d>> : d \in Coefficient(use)}

\* _make_ax_plus_b_equal_cx_plus_d_only_integer, ..._all_number
AxPlusBEqualCxPlusD(use, over) ==
    \E x \in Answer(use, over), a \in Coefficient(use), c \in Coefficient(use) :
        /\ a # c
        /\ \E bd \in Constants(use, x, a, c) :
            LET b == bd[1]
                d == bd[2]
                gap == Reduced(Minus(d, b))
                sum == Plus(d, b)
                left == Minus(a, c)
                signs == {Ratio(sum, left), gap}
                         \cup IfDefined(gap, Plus(a, c)) \cup IfDefined(sum, Plus(a, c))
                         \cup IfDefined(left, gap)
                whole == signs \cup {Ratio(gap, a), Ratio(gap, c), Neg(Ratio(gap, left)),
                                     Ratio(Magnitude(gap), left), Ratio(gap, Magnitude(left))}
                any == signs \cup {Minus(Plus(c, gap), a), Ratio(Plus(c, gap), a),
                                   Times(gap, Minus(c, a))}
                             \cup IfDefined(Plus(c, d), Plus(a, b))
            IN linear' = Problem("ax+b=cx+d", use, x, Lead(a), Constant(b), Lead(c), Constant(d),
                                 IF over = "only_integer" THEN CappedPool(whole, x)
                                 ELSE AnyPool(use, any, x))

\* SpecificLinearEquationGenerator.generate.  A problem owes nothing to the one
\* generated before it: a behaviour generates one.
NextLinear ==
    /\ linear = NoProblem
    /\ \E use \in SUBSET NumberTypes \ {{}}, over \in {"only_integer", "all_number"} :
        AxEqualB(use, over) \/ AxPlusBEqualC(use, over) \/ AxPlusBEqualCxPlusD(use, over)

-----------------------------------------------------------------------------
\* x solves the equation as it is printed.
Solves(x, eq) ==
    Same(Times(Reduced(Minus(Reads(eq.x1), Reads(eq.x2))), x),
         Reduced(Minus(Reads(eq.n2), Reads(eq.n1))))

\* A printed linear equation reads as the equation that was built, its answer is
\* the only choice that solves it, and no two of the choices look the same: a
\* calculated constant may be zero, negative or a fraction, a likely mistake may
\* be the answer, and two of them may round to one tenth.
LinearRight ==
    linear # NoProblem =>
        /\ Solves(linear.answer, linear.eq)
        /\ Apart(linear.eq.n1)
        /\ linear.eq.x2 # Blank => Apart(linear.eq.n2)
        /\ Cardinality(linear.wrong) >= 3
        /\ \A w \in linear.wrong : ~Solves(w, linear.eq)
        /\ linear.tenths => Reduced(linear.answer) \notin {ToTenth(w) : w \in linear.wrong}
=============================================================================
