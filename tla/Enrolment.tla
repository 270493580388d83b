----------------------------- MODULE Enrolment -----------------------------
(***************************************************************************)
(* What the invitation service promises, with no requests, transactions or *)
(* locks: an offer is made to a slot (an organization and an address), and *)
(* is open until it is accepted or lapses.  OrgInvitation implements this. *)
(***************************************************************************)
EXTENDS Integers

CONSTANTS
    Org,           \* organizations
    Email,         \* e-mail addresses
    InvitationId,  \* names of offers
    Lifetime,      \* how long an offer stands
    LastTime       \* bound: the clock stops here

VARIABLES
    now,     \* the time
    offer,   \* the offers made: a function on the names in use
    taken    \* the addresses that belong to an account

evars == <<now, offer, taken>>

Offer == [ slot     : Org \X Email,
           deadline : Nat,
           status   : {"open", "accepted", "lapsed"} ]

Open(i) == offer[i].status = "open"

Init ==
    /\ now = 0
    /\ offer = [i \in {} |-> {}]
    /\ taken \in SUBSET Email

\* An offer is made to a slot once all earlier ones to it are settled; those
\* still open are past their deadline and lapse.  Its own deadline counts
\* from the moment, not after this one, when it was asked for.
MakeOffer(i, o, e, asked) ==
    LET lapsing == {j \in DOMAIN offer : offer[j].slot = <<o, e>> /\ Open(j)}
    IN  /\ i \notin DOMAIN offer
        /\ asked <= now
        /\ \A j \in lapsing : offer[j].deadline < asked
        /\ offer' = [j \in DOMAIN offer \cup {i} |->
                       IF j = i
                       THEN [slot |-> <<o, e>>, deadline |-> asked + Lifetime, status |-> "open"]
                       ELSE IF j \in lapsing THEN [offer[j] EXCEPT !.status = "lapsed"]
                       ELSE offer[j]]
        /\ UNCHANGED <<now, taken>>

\* An open offer is accepted and its address, free until then, is taken.
Accept(i) ==
    /\ i \in DOMAIN offer
    /\ Open(i)
    /\ offer[i].slot[2] \notin taken
    /\ offer' = [offer EXCEPT ![i].status = "accepted"]
    /\ taken' = taken \cup {offer[i].slot[2]}
    /\ UNCHANGED now

\* The address is taken by an account that no offer made.
Take(e) ==
    /\ e \notin taken
    /\ taken' = taken \cup {e}
    /\ UNCHANGED <<now, offer>>

Pass ==
    /\ now < LastTime
    /\ now' = now + 1
    /\ UNCHANGED <<offer, taken>>

Next ==
    \/ Pass
    \/ \E e \in Email : Take(e)
    \/ \E i \in InvitationId :
          \/ Accept(i)
          \/ \E o \in Org, e \in Email, asked \in 0 .. LastTime : MakeOffer(i, o, e, asked)

Spec == Init /\ [][Next]_evars

-----------------------------------------------------------------------------
OfferTypeOK ==
    /\ now \in 0 .. LastTime
    /\ DOMAIN offer \subseteq InvitationId
    /\ offer \in [DOMAIN offer -> Offer]
    /\ taken \subseteq Email

\* A slot has one open offer at most.
OneOpenPerSlot ==
    \A i, j \in DOMAIN offer :
        Open(i) /\ Open(j) /\ offer[i].slot = offer[j].slot => i = j

\* No address is enrolled twice, not even by two organizations that had both
\* invited it, and whoever accepted has the address.
EnrolledOnce ==
    \A i, j \in DOMAIN offer :
        offer[i].status = "accepted" =>
            /\ offer[i].slot[2] \in taken
            /\ offer[j].status = "accepted" /\ offer[i].slot[2] = offer[j].slot[2] => i = j
=============================================================================
