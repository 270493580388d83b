---------------------------- MODULE MCMathTrainer ----------------------------
(* Instances of MathTrainer for TLC: sheets of two problems, and numbers of *)
(* each kind, whole ones among the fractions, 1 and -1 among them all.      *)
EXTENDS MathTrainer, TLC

CONSTANTS w1, w2

Symmetry == Permutations(Worker)

Linears == {<<1, 1>>, <<-1, 1>>, <<2, 1>>, <<2, 3>>, <<-3, 2>>, <<3, 10>>, <<-6, 5>>, <<1, 2>>}
Systems4 == {<<1, 1>>, <<-1, 1>>, <<3, 2>>, <<-1, 2>>}
Used == {{"decimal"}, {"integer"}, {"integer", "frac"}}
=============================================================================
