--------------------------- MODULE MCPassageQuiz ---------------------------
(* An instance of PassageQuiz for TLC: the two tabs are alike, so are the    *)
(* two browsers and the two sources.                                         *)
EXTENDS PassageQuiz

CONSTANTS t1, t2

Symmetry == Permutations(Tab) \cup Permutations(Browser) \cup Permutations(Source)
=============================================================================
