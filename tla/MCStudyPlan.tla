---------------------------- MODULE MCStudyPlan ----------------------------
(***************************************************************************)
(* Materials of three units that take 5 minutes each, a day's budget of    *)
(* one or two of them, one or two reviews, with and without buffer days;   *)
(* one is edited to a later goal or to a range that leaves the first unit  *)
(* out.  The forms that are previewed have up to thirty days.              *)
(***************************************************************************)
EXTENDS StudyPlan

MCForm(first, last, q, b, s, g, w) ==
    [ start_number |-> first, end_number |-> last, required_reviews |-> q, minutes_per_unit |-> 5,
      budget |-> b, start_date |-> s, goal_date |-> g, buffers |-> w ]

MCCreated ==
    { MCForm(1, 3, p[1], b[1], 0, p[2], b[2]) :
      p \in {<<1, 3>>, <<2, 8>>}, b \in {<<5, {}>>, <<10, {}>>, <<10, {1}>>} }

MCEdited == {MCForm(2, 3, 1, 5, 2, 2, {}), MCForm(1, 3, 1, 10, 1, 5, {})}

\* Previews: any length, also with a deadline that has passed, no reviews, and
\* every day a buffer day.
MCForms ==
    { MCForm(1, last, q, b, s, g, w) :
      last \in {0, 1, 4, 13}, q \in 0 .. 3, b \in {5, 10, 20}, s \in 0 .. 1, g \in 0 .. 30,
      w \in {{}, {0}, {1, 3}, {5, 6}, 0 .. 6} }

=============================================================================
