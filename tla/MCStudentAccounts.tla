------------------------- MODULE MCStudentAccounts -------------------------
(* Instances of StudentAccounts for TLC.                                    *)
EXTENDS StudentAccounts, TLC

CONSTANTS w1, w2, s1, s2, e1, t1, t2

Symmetry == Permutations(Worker) \cup Permutations(Student) \cup Permutations(TokenId)
=============================================================================
