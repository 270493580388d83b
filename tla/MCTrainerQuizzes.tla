-------------------------- MODULE MCTrainerQuizzes --------------------------
(* Instances of TrainerQuizzes for TLC: one word in two chapters of a book, *)
(* and an item of chemistry of each category in turn.                       *)
EXTENDS TrainerQuizzes, TLC

CONSTANTS w1, w2, w3, s1, c1, c2, b1, b2, i1, i2, i3, i4

Words      == c1 :> "see" @@ c2 :> "see"
Chapters   == c1 :> "unit 1" @@ c2 :> "unit 2"
Books      == "unit 1" :> b1 @@ "unit 2" :> b1
Categories == i1 :> "element" @@ i2 :> "substance" @@ i3 :> "compound" @@ i4 :> "equation"

Symmetry == Permutations(Worker)
=============================================================================
