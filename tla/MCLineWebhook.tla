---------------------------- MODULE MCLineWebhook ---------------------------
EXTENDS LineWebhook, TLC

CONSTANTS o1, o2, w1, w2, u1, u2, b1, b2

Symmetry == Permutations(Worker)

MCRegistered == (<<o1, 1>> :> "bot")
MCDestination == [b \in Body |-> "bot"]
MCEvents == b1 :> << [user |-> u1, type |-> "text"], [user |-> u2, type |-> "command"] >>
            @@ b2 :> << [user |-> u2, type |-> "image"] >>
MCKnown == (u1 :> o1)
=============================================================================
