--------------------------- MODULE OrgInvitation ---------------------------
(***************************************************************************)
(* The invitation of organization administrators by e-mail                 *)
(* (accounts/services/invitations.py and accept_invitations.py).           *)
(*                                                                         *)
(* Workers are the web server's request handlers.  A worker serves one     *)
(* request at a time and every action is one database statement of it (or  *)
(* several that no other transaction can come between), so the requests of *)
(* different workers interleave the way PostgreSQL's READ COMMITTED lets   *)
(* them.  A transaction's own writes are applied by the action that        *)
(* commits it; until then it holds its row locks, which are read off the   *)
(* program counters (RowLocked, OrgLocked).                                *)
(*                                                                         *)
(* E-mail addresses are the normalised ones (normalize_email lower-cases   *)
(* and strips, and both save() methods apply it again).  Of the other      *)
(* accounts only how many hold an address is kept.                         *)
(***************************************************************************)
EXTENDS Integers, FiniteSets

CONSTANTS
    Worker,        \* the request handlers of the web server
    Org,           \* organizations
    Email,         \* normalised e-mail addresses
    InvitationId,  \* primary keys of Invitation rows; bound: no more rows than these
    EXPIRE_DAYS,   \* lifetime of an invitation and of the signed link
    MaxClock       \* bound: the clock stops here

ASSUME ExpireAssumption == EXPIRE_DAYS \in Nat /\ MaxClock \in Nat

None == -1       \* an unset date, SQL NULL
Time == 0 .. MaxClock

VARIABLES
    clock,        \* timezone.now(), in days
    invitation,   \* the Invitation table: a function on the ids in use
    holders,      \* how many BaseUser rows have the address
    adminsFrom,   \* how many administrators acceptances of the row created
    mailed,       \* ids whose link is in somebody's mailbox
    pc,           \* where each worker is
    req           \* the local variables of its request

dbVars == <<invitation, holders, adminsFrom, mailed>>
vars   == <<clock, invitation, holders, adminsFrom, mailed, pc, req>>

Invitation == [ organization : Org,
                email        : Email,
                expires_at   : Nat,
                signed_at    : Time,
                used_at      : Time \cup {None},
                revoked_at   : Time \cup {None},
                send_status  : {"pending", "sent", "failed"} ]

NoRequest == [idle |-> TRUE]

InviteRequest == [org : Org, email : Email, now : Time, stale : SUBSET InvitationId]
MailRequest   == [id : InvitationId, ok : BOOLEAN]
AcceptRequest == [id : InvitationId]

InvitePc == {"begin", "revoke", "check", "insert"}
MailPc   == {"send", "mark"}
AcceptPc == {"lock", "create"}

-----------------------------------------------------------------------------
(* Rows *)

Rows == DOMAIN invitation

\* The rows the partial unique constraint counts: unused and not revoked.
Unresolved(i) == invitation[i].used_at = None /\ invitation[i].revoked_at = None

\* Invitation.is_active
IsActive(i) == Unresolved(i) /\ invitation[i].expires_at >= clock

\* signing.loads(token, max_age = EXPIRE_SECONDS) does not raise.
TokenLoads(i) == clock <= invitation[i].signed_at + EXPIRE_DAYS

For(i, o, e) == invitation[i].organization = o /\ invitation[i].email = e

\* mutant (TypeOK): the lifetime is subtracted.
BackdatedInvitation(o, e, now) ==
    [ organization |-> o,
      email        |-> e,
      expires_at   |-> now - EXPIRE_DAYS,
      signed_at    |-> clock,
      used_at      |-> None,
      revoked_at   |-> None,
      send_status  |-> "pending" ]

NewInvitation(o, e, now) ==
    [ organization |-> o,
      email        |-> e,
      expires_at   |-> now + EXPIRE_DAYS,
      signed_at    |-> clock,
      used_at      |-> None,
      revoked_at   |-> None,
      send_status  |-> "pending" ]

-----------------------------------------------------------------------------
(* Row locks, held until the transaction ends *)

RowLocked(i) ==
    \E w \in Worker : \/ pc[w] = "create" /\ req[w].id = i
                      \/ pc[w] \in {"check", "insert"} /\ i \in req[w].stale

\* FOR UPDATE over the join with organization locks that row too.
OrgLocked(o) ==
    \E w \in Worker : pc[w] = "create" /\ invitation[req[w].id].organization = o

-----------------------------------------------------------------------------
Init ==
    /\ clock = 0
    /\ invitation = [i \in {} |-> {}]
    /\ holders \in [Email -> {0, 1}]
    /\ adminsFrom = [i \in InvitationId |-> 0]
    /\ mailed = {}
    /\ pc = [w \in Worker |-> "idle"]
    /\ req = [w \in Worker |-> NoRequest]

Goto(w, where, r) ==
    /\ pc' = [pc EXCEPT ![w] = where]
    /\ req' = [req EXCEPT ![w] = r]

\* The request is answered (or dies): its transaction, if any, is over.
Finish(w) == Goto(w, "idle", NoRequest)

-----------------------------------------------------------------------------
(* Inviting *)

\* Bound: an id is left for the request that starts now.
IdLeft ==
    Cardinality(Rows) + Cardinality({w \in Worker : pc[w] \in InvitePc})
        < Cardinality(InvitationId)

\* _check_invited_user_status, outside the transaction: any account that has
\* the address already makes the request fail.
InviteCheckUser(w, o, e) ==
    /\ pc[w] = "idle"
    /\ IdLeft
    /\ holders[e] = 0
    /\ Goto(w, "begin", [org |-> o, email |-> e, now |-> clock, stale |-> {}])
    /\ UNCHANGED <<clock, dbVars>>

\* mutant (UsedAndRevokedOnlyPastExpiry): the clean-up forgets its date filter.
AllUnresolvedInvitations(o, e, now) ==
    {i \in Rows : For(i, o, e) /\ Unresolved(i)}

\* Unresolved rows of this organization and address past their date.
StaleInvitations(o, e, now) ==
    {i \in Rows : For(i, o, e) /\ Unresolved(i) /\ invitation[i].expires_at < now}

\* now = timezone.now() and the query of _revoke_expired_invitations.
InviteBegin(w) ==
    /\ pc[w] = "begin"
    /\ Goto(w, "revoke",
            [req[w] EXCEPT !.now = clock,
                           !.stale = StaleInvitations(req[w].org, req[w].email, clock)])
    /\ UNCHANGED <<clock, dbVars>>

\* UPDATE ... SET revoked_at of each stale row, by primary key: it waits for
\* whoever has the row locked and then writes whatever the row has become.
InviteRevoke(w) ==
    /\ pc[w] = "revoke"
    /\ \A i \in req[w].stale : ~RowLocked(i)
    /\ Goto(w, "check", req[w])
    /\ UNCHANGED <<clock, dbVars>>

ActiveInvitationExists(o, e, now) ==
    \E i \in Rows : For(i, o, e) /\ Unresolved(i) /\ invitation[i].expires_at >= now

\* _raise_if_active_invitation_exists; raising rolls the revocations back.
InviteCheckActive(w) ==
    /\ pc[w] = "check"
    /\ IF ActiveInvitationExists(req[w].org, req[w].email, req[w].now)
       THEN Finish(w)
       ELSE Goto(w, "insert", req[w])
    /\ UNCHANGED <<clock, dbVars>>

\* mutant (OneUnresolvedInvitation): the migration without the constraint.
NoConstraint(o, e, revoked) == FALSE

\* uq_active_email_per_organization, as this transaction sees the table.
UniqueConflict(o, e, revoked) ==
    \E i \in Rows \ revoked : For(i, o, e) /\ Unresolved(i)

\* mutant (Enrols): revoke() saves the whole row it had read, used_at unset.
RevokedBySave(i, now) == [invitation[i] EXCEPT !.revoked_at = now, !.used_at = None]

Revoked(i, now) == [invitation[i] EXCEPT !.revoked_at = now]

\* Invitation.objects.create and the commit.  The foreign key needs a share
\* of the organization row, which an acceptance in progress has locked.
InviteCommit(w, i) ==
    LET r == req[w] IN
    /\ pc[w] = "insert"
    /\ i \in InvitationId \ Rows
    /\ ~UniqueConflict(r.org, r.email, r.stale)
    /\ ~OrgLocked(r.org)
    /\ invitation' = [j \in Rows \cup {i} |->
                        IF j = i THEN NewInvitation(r.org, r.email, r.now)
                        ELSE IF j \in r.stale THEN Revoked(j, r.now)
                        ELSE invitation[j]]
    /\ Goto(w, "send", [id |-> i, ok |-> FALSE])
    /\ UNCHANGED <<clock, holders, adminsFrom, mailed>>

\* mutant (RequestsEnd): the insert is tried again for as long as it fails.
InviteRetry(w) ==
    /\ pc[w] = "insert"
    /\ UniqueConflict(req[w].org, req[w].email, req[w].stale)
    /\ UNCHANGED vars

\* IntegrityError, answered as InvitationAlreadyExistsError: rollback.
InviteConflict(w) ==
    /\ pc[w] = "insert"
    /\ UniqueConflict(req[w].org, req[w].email, req[w].stale)
    /\ Finish(w)
    /\ UNCHANGED <<clock, dbVars>>

-----------------------------------------------------------------------------
(* The e-mail, sent by the on_commit callback *)

\* A send that raises may still have handed the message over.
SendMail(w, ok, delivered) ==
    /\ pc[w] = "send"
    /\ ok => delivered
    /\ mailed' = IF delivered THEN mailed \cup {req[w].id} ELSE mailed
    /\ Goto(w, "mark", [req[w] EXCEPT !.ok = ok])
    /\ UNCHANGED <<clock, invitation, holders, adminsFrom>>

\* mutant (AdminIffUsed): the mail bookkeeping saves the whole row it had read.
MarkSendBySave(w) ==
    LET i == req[w].id IN
    /\ pc[w] = "mark"
    /\ ~RowLocked(i)
    /\ invitation' = [invitation EXCEPT ![i].send_status = IF req[w].ok THEN "sent" ELSE "failed",
                                       ![i].used_at = None]
    /\ Finish(w)
    /\ UNCHANGED <<clock, holders, adminsFrom, mailed>>

\* mark_send_succeeded / mark_send_failed: save(update_fields = ...) leaves
\* the other columns of the row as they are in the database.
MarkSend(w) ==
    LET i == req[w].id IN
    /\ pc[w] = "mark"
    /\ ~RowLocked(i)
    /\ invitation' = [invitation EXCEPT ![i].send_status =
                                IF req[w].ok THEN "sent" ELSE "failed"]
    /\ Finish(w)
    /\ UNCHANGED <<clock, holders, adminsFrom, mailed>>

-----------------------------------------------------------------------------
(* Accepting *)

\* get_acceptable_invitation_by_token: a look at the row without a lock.
AcceptLookup(w, i) ==
    /\ pc[w] = "idle"
    /\ i \in mailed
    /\ TokenLoads(i)
    /\ IsActive(i)
    /\ Goto(w, "lock", [id |-> i])
    /\ UNCHANGED <<clock, dbVars>>

\* mutant (Resolution): the locked row is not looked at again.
AcceptLockUnchecked(w) ==
    LET i == req[w].id IN
    /\ pc[w] = "lock"
    /\ ~RowLocked(i)
    /\ ~OrgLocked(invitation[i].organization)
    /\ IF holders[invitation[i].email] = 0
       THEN Goto(w, "create", req[w])
       ELSE Finish(w)
    /\ UNCHANGED <<clock, dbVars>>

\* get_invitation_for_acceptance_lock, is_active again, and the search for an
\* account with the address: an exception releases the lock.
AcceptLock(w) ==
    LET i == req[w].id IN
    /\ pc[w] = "lock"
    /\ ~RowLocked(i)
    /\ ~OrgLocked(invitation[i].organization)
    /\ IF IsActive(i) /\ holders[invitation[i].email] = 0
       THEN Goto(w, "create", req[w])
       ELSE Finish(w)
    /\ UNCHANGED <<clock, dbVars>>

\* create_org_admin, mark_used and the commit.
AcceptCommit(w) ==
    LET i == req[w].id
        e == invitation[i].email
    IN  /\ pc[w] = "create"
        /\ holders[e] = 0
        /\ holders' = [holders EXCEPT ![e] = @ + 1]
        /\ adminsFrom' = [adminsFrom EXCEPT ![i] = @ + 1]
        /\ invitation' = [invitation EXCEPT ![i].used_at = clock]
        /\ Finish(w)
        /\ UNCHANGED <<clock, mailed>>

\* The unique constraint on BaseUser.email fails: not caught, rolled back.
AcceptConflict(w) ==
    /\ pc[w] = "create"
    /\ holders[invitation[req[w].id].email] > 0
    /\ Finish(w)
    /\ UNCHANGED <<clock, dbVars>>

-----------------------------------------------------------------------------
(* The rest of the system *)

\* Any other view saves an account with the address (a teacher is created, a
\* student registers one): BaseUser.email is unique.
OtherAccount(e) ==
    /\ holders[e] = 0
    /\ holders' = [holders EXCEPT ![e] = @ + 1]
    /\ UNCHANGED <<clock, invitation, adminsFrom, mailed, pc, req>>

\* The process serving the request is killed: PostgreSQL rolls back.
Crash(w) ==
    /\ pc[w] # "idle"
    /\ Finish(w)
    /\ UNCHANGED <<clock, dbVars>>

Tick ==
    /\ clock < MaxClock
    /\ clock' = clock + 1
    /\ UNCHANGED <<dbVars, pc, req>>

\* The next statement of the request worker w is serving.
Step(w) ==
    \/ InviteBegin(w)
    \/ InviteRevoke(w)
    \/ InviteCheckActive(w)
    \/ \E i \in InvitationId : InviteCommit(w, i)
    \/ InviteConflict(w)
    \/ \E ok, delivered \in BOOLEAN : SendMail(w, ok, delivered)
    \/ MarkSend(w)
    \/ AcceptLock(w)
    \/ AcceptCommit(w)
    \/ AcceptConflict(w)

Next ==
    \/ Tick
    \/ \E e \in Email : OtherAccount(e)
    \/ \E w \in Worker :
          \/ \E o \in Org, e \in Email : InviteCheckUser(w, o, e)
          \/ \E i \in InvitationId : AcceptLookup(w, i)
          \/ Step(w)
          \/ Crash(w)

Spec == Init /\ [][Next]_vars

\* A request that has been started is executed.  Strong fairness, because
\* PostgreSQL queues the transactions that wait for a row: one of them cannot
\* be passed over forever by others that take and release the same lock.
FairSpec == Spec /\ \A w \in Worker : SF_vars(Step(w))

-----------------------------------------------------------------------------
(* Properties *)

TypeOK ==
    /\ clock \in Time
    /\ Rows \subseteq InvitationId
    /\ invitation \in [Rows -> Invitation]
    /\ holders \in [Email -> Nat]
    /\ adminsFrom \in [InvitationId -> Nat]
    /\ mailed \subseteq Rows
    /\ pc \in [Worker -> {"idle"} \cup InvitePc \cup MailPc \cup AcceptPc]
    /\ DOMAIN req = Worker
    /\ \A w \in Worker :
          /\ pc[w] = "idle" => req[w] = NoRequest
          /\ pc[w] \in InvitePc => req[w] \in InviteRequest /\ req[w].stale \subseteq Rows
          /\ pc[w] \in MailPc => req[w] \in MailRequest /\ req[w].id \in Rows
          /\ pc[w] \in AcceptPc => req[w] \in AcceptRequest /\ req[w].id \in Rows

\* An organization never has two unresolved invitations out for one address,
\* although the expiry clean-up, the check and the insert are separate
\* statements of transactions that interleave (invitations.py).
OneUnresolvedInvitation ==
    \A i, j \in Rows :
        /\ Unresolved(i)
        /\ Unresolved(j)
        /\ For(i, invitation[j].organization, invitation[j].email)
        => i = j

\* A link is good for exactly one administrator: an invitation is marked used
\* if and only if one account was created from it, whatever crashes, repeated
\* submissions of the form and late mail bookkeeping come between.
AdminIffUsed ==
    /\ \A i \in Rows : adminsFrom[i] = IF invitation[i].used_at = None THEN 0 ELSE 1
    /\ \A i \in InvitationId \ Rows : adminsFrom[i] = 0

\* An invitation that ended both used and revoked was accepted in time and
\* swept by an expiry clean-up that read it just before that acceptance was
\* committed: the clean-up never revokes one that had not expired.
UsedAndRevokedOnlyPastExpiry ==
    \A i \in Rows :
        invitation[i].used_at # None /\ invitation[i].revoked_at # None
            => invitation[i].revoked_at > invitation[i].expires_at

\* What a step may never do to an invitation: bring a resolved one back, or
\* accept one that is revoked or was used before (the checks are made before
\* the password is hashed and the account written).
Resolution ==
    [][\A i \in Rows :
          /\ i \in Rows'
          /\ ~Unresolved(i) => ~Unresolved(i)'
          /\ adminsFrom'[i] # adminsFrom[i] => Unresolved(i)]_vars

\* Every request is answered: no transaction waits forever for a row that
\* another one, waiting too, has locked.
RequestsEnd == \A w \in Worker : pc[w] # "idle" ~> pc[w] = "idle"

-----------------------------------------------------------------------------
(* The abstract view of the tables: an invitation marked used is accepted,  *)
(* also when an expiry clean-up got to write revoked_at afterwards.         *)

Status(i) == IF invitation[i].used_at # None THEN "accepted"
             ELSE IF invitation[i].revoked_at # None THEN "lapsed" ELSE "open"

OfferView == [i \in Rows |-> [slot     |-> <<invitation[i].organization, invitation[i].email>>,
                              deadline |-> invitation[i].expires_at,
                              status   |-> Status(i)]]

E == INSTANCE Enrolment WITH
        Lifetime <- EXPIRE_DAYS,
        LastTime <- MaxClock,
        now      <- clock,
        offer    <- OfferView,
        taken    <- {e \in Email : holders[e] > 0}

\* The requests, with their unlocked reads, waits for locks, roll-backs and
\* crashes, only ever do what the service promises: every step is one of
\* Enrolment or changes nothing it speaks of.
Enrols == E!Spec
=============================================================================
