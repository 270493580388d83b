------------------------ MODULE SimultaneousEquations ------------------------
(***************************************************************************)
(* The simultaneous equations of the second year of junior high school     *)
(* (math_process/junior_high2/simultaneous_equations_generator.py): the    *)
(* two unknowns are drawn first, then two equations that they solve, again *)
(* and again until the system has no other solution, or has been tried     *)
(* often enough.                                                           *)
(***************************************************************************)
EXTENDS Fractions, FiniteSets

CONSTANTS
    SystemTried,    \* bound: the numbers, in lowest terms, that the random ones are taken from
    Uses,           \* bound: the choices of used_coefficients tried
    MaxRetry    \* bound: pairs of equations tried (max_retry, 20)

VARIABLE system     \* the problem as far as it is built, NoSystem before

ASSUME SystemAssumption ==
    SystemTried \subseteq Fraction /\ Uses \subseteq SUBSET NumberTypes /\ MaxRetry \in Nat \ {0}

NoSystem == [stage |-> "none"]
InitSystem == system = NoSystem

\* _random_num_maker
Drawn(type, n) == SystemTried \cap
    ( CASE type = "integer" -> {Whole(i) : i \in (-n..n) \ {0}}
        [] type = "frac"    -> {Reduced(<<p, q>>) : p \in (-n..-2) \cup (2..n), q \in 2..n}
        [] type = "decimal" -> {Reduced(<<i, 10>>) :
                                    i \in {k \in -2 * n..(IF n >= 5 THEN 15 ELSE 2 * n) : k % 10 # 0}} )

Coef(used, n) == UNION {Drawn(t, n) : t \in used}

\* _make_two_answers: each of the unknowns is of a kind drawn for it.
Unknown(used, kinds) ==
    (IF "only_integer" \in kinds THEN Drawn("integer", 6) ELSE {})
    \cup (IF "including_fraction_and_decimal" \notin kinds THEN {}
          ELSE IF used = {"decimal"} THEN Drawn("decimal", 6)
          ELSE Drawn("integer", 6) \cup Drawn("frac", 6))

\* SimultaneousEquationsGenerator.__init__ and the choice of the answer.  The page
\* refuses other settings (InvalidSettingsError).
ChooseAnswer ==
    /\ system = NoSystem
    /\ \E used \in Uses \ {{}},
          kinds \in SUBSET {"only_integer", "including_fraction_and_decimal"} \ {{}} :
       \E x, y \in Unknown(used, kinds) :
            system' = [stage |-> "first", used |-> used, x |-> x, y |-> y, tries |-> 0,
                       first |-> NoSystem, second |-> NoSystem, unique |-> FALSE]

-----------------------------------------------------------------------------
\* A term after another one.
Follow(b) ==
    CASE Same(b, One)        -> [sign |-> "+", num |-> One]
      [] Same(b, Whole(-1))  -> [sign |-> "-", num |-> One]
      [] b[1] > 0 /\ ~Same(b, One) -> [sign |-> "+", num |-> b]
      [] OTHER -> Shown(b)

\* EqParts: the equation A x + B y = C, and how it is printed,
\* x1 x + y1 y = c + k (x2 x + y2 y).
EqParts(a, b, c, x1, y1, k, x2, y2) ==
    [A |-> Reduced(a), B |-> Reduced(b), C |-> c, x1 |-> x1, y1 |-> y1, k |-> k, x2 |-> x2, y2 |-> y2]

At(a, b, x, y) == Reduced(Plus(Times(a, x), Times(b, y)))

\* _make_ax_plus_by_equal_c
Simple(used, x, y) ==
    {EqParts(a, b, At(a, b, x, y), Lead(a), Follow(b), Blank, Blank, Blank) :
        a \in Coef(used, 6), b \in Coef(used, 6)}

\* _make_ax_plus_by_equal_c_plus_dx_plus_ey: after a constant 0, which is left out,
\* the right side begins with its x.
TwoSided(used, x, y) ==
    LET print(a, b, d, e, c) ==
            EqParts(Minus(a, d), Minus(b, e), c, Lead(a), Follow(b), Shown(One),
                    IF IsZero(c) /\ Same(d, One) THEN Shown(One) ELSE Follow(d), Follow(e))
    IN {print(a, b, d, e, At(Minus(a, d), Minus(b, e), x, y)) :
            a \in Coef(used, 4), b \in Coef(used, 4), d \in Coef(used, 3), e \in Coef(used, 3)}

\* _make_ax_plus_by_equal_c_plus_d_ex_plus_fy
Bracketed(used, x, y) ==
    LET print(a, b, d, e, f, p, q) ==
            EqParts(p, q, At(p, q, x, y), Lead(a), Follow(b), Follow(d), Lead(e), Follow(f))
    IN {print(a, b, d, e, f, Minus(a, Times(d, e)), Minus(b, Times(d, f))) :
            a \in Coef(used, 4), b \in Coef(used, 4),
            d \in Coef(used, 2), e \in Coef(used, 2), f \in Coef(used, 2)}

\* _build_equation
Built(used, x, y) == Simple(used, x, y) \cup TwoSided(used, x, y) \cup Bracketed(used, x, y)

\* What _make_problem_text compares of the equations.
Line(eq) == [A |-> eq.A, B |-> eq.B, C |-> eq.C]
Lines(used, x, y) == {Line(eq) : eq \in Built(used, x, y)}
Singular(e1, e2) == Same(Times(e1.A, e2.B), Times(e2.A, e1.B))

\* _make_problem_text: an equation is built, then the other, and the two are kept,
\* built anew, or after the last try given up as having many solutions.
BuildFirst ==
    /\ system.stage = "first"
    /\ \E eq \in Lines(system.used, system.x, system.y) :
        system' = [system EXCEPT !.stage = "second", !.first = eq]

BuildSecond ==
    /\ system.stage = "second"
    /\ \E eq \in Lines(system.used, system.x, system.y) :
        LET again == Singular(system.first, eq) /\ system.tries + 1 < MaxRetry
        IN system' = [system EXCEPT !.stage = IF again THEN "first" ELSE "done",
                                    !.first = IF again THEN NoSystem ELSE @,
                                    !.second = IF again THEN NoSystem ELSE eq,
                                    !.unique = ~Singular(system.first, eq),
                                    !.used = IF again THEN @ ELSE {},
                                    !.tries = IF again THEN @ + 1 ELSE 0]

NextSystem == ChooseAnswer \/ BuildFirst \/ BuildSecond

\* _make_choices: three of the points next to the answer on the diagonals.
Wrong(x, y) == {<<Reduced(Plus(x, Whole(s * d))), Reduced(Plus(y, Whole(t * d)))>> :
                    s \in {-1, 1}, t \in {-1, 1}, d \in 1..4}

-----------------------------------------------------------------------------
\* A point on the line of an equation, and on that of the equation as it is printed.
OnLine(eq, x, y) == Same(At(eq.A, eq.B, x, y), eq.C)
Printed(eq) ==
    [A |-> Reduced(Minus(Reads(eq.x1), Times(Reads(eq.k), Reads(eq.x2)))),
     B |-> Reduced(Minus(Reads(eq.y1), Times(Reads(eq.k), Reads(eq.y2)))),
     C |-> eq.C]

\* A step along a line.
Along(eq) == <<eq.B, Neg(eq.A)>>

\* Every equation that is printed for an answer reads as the one that was built, and
\* the answer solves it.  Where the answer is announced as the only one, none of the
\* choices beside it solves the system, and where there are said to be many, another
\* point does.
SystemRight ==
    /\ system.stage = "first" =>
        \A eq \in Built(system.used, system.x, system.y) :
            /\ OnLine(Printed(eq), system.x, system.y)
            /\ Line(eq) = Printed(eq)
            /\ Apart(eq.y1) /\ Apart(eq.y2)
            /\ ~IsZero(eq.C) => Apart(eq.x2) \/ Apart(eq.k)
    /\ system.stage = "done" =>
        LET both(x, y) == OnLine(system.first, x, y) /\ OnLine(system.second, x, y)
        IN IF system.unique
           THEN /\ Cardinality(Wrong(system.x, system.y)) = 16
                /\ \A w \in Wrong(system.x, system.y) : ~both(w[1], w[2])
           ELSE \E s \in {Along(system.first), Along(system.second), <<One, One>>} :
                    /\ ~(IsZero(s[1]) /\ IsZero(s[2]))
                    /\ both(Plus(system.x, s[1]), Plus(system.y, s[2]))
=============================================================================
