----------------------------- MODULE MCTenancy -----------------------------
(* An instance of Tenancy for TLC: two organizations, one with a classroom, *)
(* a second classroom and a teacher that either may make.                   *)
EXTENDS Tenancy, TLC

CONSTANTS o1, o2, c1, c2, s1, s2, t1, a1, m1, m2, w1, w2

MCHome ==
    (c1 :> o1) @@ (c2 :> None) @@ (s1 :> o1) @@ (s2 :> o2)
    @@ (t1 :> None) @@ (a1 :> o1) @@ (m1 :> o1) @@ (m2 :> o2)
=============================================================================
