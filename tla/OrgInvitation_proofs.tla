------------------------ MODULE OrgInvitation_proofs ------------------------
(***************************************************************************)
(* Proofs, for any number of workers, organizations, addresses and         *)
(* invitations, of the properties of OrgInvitation that its runs check on  *)
(* small instances, and that it implements Enrolment under the view of its *)
(* tables that it defines (OfferView).                                     *)
(***************************************************************************)
EXTENDS OrgInvitation, TLAPS

LEMMA TypeInit == Init => TypeOK
BY ExpireAssumption
DEF Init, TypeOK, Rows, Time, None, NoRequest, InvitePc, MailPc, AcceptPc

\* One step per action; only the disjuncts of Next are unfolded first.
LEMMA TypeNext == TypeOK /\ [Next]_vars => TypeOK'
<1> SUFFICES ASSUME TypeOK, [Next]_vars PROVE TypeOK'
  OBVIOUS
<1> USE ExpireAssumption DEF TypeOK, Rows, InvitePc, MailPc, AcceptPc
<1>1. CASE UNCHANGED vars
  BY <1>1 DEF vars, dbVars
<1>2. CASE Tick
  BY <1>2 DEF Tick, dbVars, Time
<1>3. ASSUME NEW e \in Email, OtherAccount(e) PROVE TypeOK'
  BY <1>3 DEF OtherAccount
<1>4. ASSUME NEW w \in Worker, NEW o \in Org, NEW e \in Email, InviteCheckUser(w, o, e)
      PROVE TypeOK'
  BY <1>4 DEF InviteCheckUser, Goto, dbVars, InviteRequest
<1>5. ASSUME NEW w \in Worker, InviteBegin(w) PROVE TypeOK'
  <2> DEFINE stale == StaleInvitations(req[w].org, req[w].email, clock)
             r == [req[w] EXCEPT !.now = clock, !.stale = stale]
  <2>1. req[w] \in InviteRequest /\ pc[w] = "begin"
    BY <1>5 DEF InviteBegin
  <2>2. stale \subseteq Rows
    BY DEF StaleInvitations
  <2>3. r \in InviteRequest /\ r.stale \subseteq Rows
    BY <2>1, <2>2 DEF InviteRequest
  <2>4. /\ pc' = [pc EXCEPT ![w] = "revoke"]
        /\ req' = [req EXCEPT ![w] = r]
        /\ UNCHANGED <<clock, dbVars>>
    BY <1>5 DEF InviteBegin, Goto
  <2> HIDE DEF r, stale
  <2>5. QED
    BY <2>1, <2>3, <2>4 DEF dbVars
<1>6. ASSUME NEW w \in Worker, InviteRevoke(w) PROVE TypeOK'
  BY <1>6 DEF InviteRevoke, Goto, dbVars
<1>7. ASSUME NEW w \in Worker, InviteCheckActive(w) PROVE TypeOK'
  BY <1>7 DEF InviteCheckActive, Finish, Goto, dbVars
<1>8. ASSUME NEW w \in Worker, NEW i \in InvitationId, InviteCommit(w, i) PROVE TypeOK'
  BY <1>8 DEF InviteCommit, NewInvitation, Revoked, Goto, InviteRequest, MailRequest,
              Invitation, Time, None
<1>9. ASSUME NEW w \in Worker, InviteConflict(w) PROVE TypeOK'
  BY <1>9 DEF InviteConflict, Finish, Goto, dbVars
<1>10. ASSUME NEW w \in Worker, NEW ok \in BOOLEAN, NEW delivered \in BOOLEAN,
              SendMail(w, ok, delivered)
       PROVE TypeOK'
  BY <1>10 DEF SendMail, Goto, MailRequest
<1>11. ASSUME NEW w \in Worker, MarkSend(w) PROVE TypeOK'
  BY <1>11 DEF MarkSend, Finish, Goto, Invitation
<1>12. ASSUME NEW w \in Worker, NEW i \in InvitationId, AcceptLookup(w, i) PROVE TypeOK'
  BY <1>12 DEF AcceptLookup, Goto, dbVars, AcceptRequest
<1>13. ASSUME NEW w \in Worker, AcceptLock(w) PROVE TypeOK'
  BY <1>13 DEF AcceptLock, Finish, Goto, dbVars
<1>14. ASSUME NEW w \in Worker, AcceptCommit(w) PROVE TypeOK'
  <2> DEFINE i == req[w].id
             e == invitation[i].email
  <2>1. /\ i \in Rows /\ e \in Email /\ clock \in Time /\ DOMAIN invitation = Rows
        /\ Rows \subseteq InvitationId
    BY <1>14 DEF AcceptCommit, Invitation
  <2>2. [invitation[i] EXCEPT !.used_at = clock] \in Invitation
    BY <2>1 DEF Invitation
  <2>3. invitation' \in [Rows -> Invitation] /\ Rows' = Rows
    BY <1>14, <2>1, <2>2 DEF AcceptCommit
  <2>4. holders' \in [Email -> Nat] /\ adminsFrom' \in [InvitationId -> Nat]
    BY <1>14, <2>1 DEF AcceptCommit
  <2>5. UNCHANGED <<clock, mailed>> /\ Finish(w)
    BY <1>14 DEF AcceptCommit
  <2>6. QED
    BY <2>3, <2>4, <2>5 DEF Finish, Goto
<1>15. ASSUME NEW w \in Worker, AcceptConflict(w) PROVE TypeOK'
  BY <1>15 DEF AcceptConflict, Finish, Goto, dbVars
<1>16. ASSUME NEW w \in Worker, Crash(w) PROVE TypeOK'
  BY <1>16 DEF Crash, Finish, Goto, dbVars
<1>17. QED
  BY <1>1, <1>2, <1>3, <1>4, <1>5, <1>6, <1>7, <1>8, <1>9, <1>10, <1>11, <1>12,
     <1>13, <1>14, <1>15, <1>16
  DEF Next, Step

\* Type correctness of the tables, the program counters and the local
\* variables of the requests, for all values of the constants.
THEOREM TypeCorrect == Spec => []TypeOK
BY TypeInit, TypeNext, PTL DEF Spec

-----------------------------------------------------------------------------
(***************************************************************************)
(* The strengthening.  What a transaction has checked about an invitation  *)
(* stays true until it commits because of the row locks: Held says what    *)
(* the lock of an acceptance protects, Expired what the clean-up of an     *)
(* invitation request has read.                                            *)
(***************************************************************************)
Held ==
    \A w \in Worker : pc[w] = "create" =>
        /\ Unresolved(req[w].id)
        /\ \A v \in Worker :
              /\ pc[v] = "create" /\ v # w => req[v].id # req[w].id
              /\ pc[v] \in {"check", "insert"} => req[w].id \notin req[v].stale

Expired ==
    \A w \in Worker : pc[w] \in InvitePc =>
        \A i \in req[w].stale : invitation[i].expires_at < req[w].now

\* The invariants that speak of the tables only.
TableInv == /\ OneUnresolvedInvitation
            /\ AdminIffUsed
            /\ UsedAndRevokedOnlyPastExpiry

IInv == TypeOK /\ Held /\ Expired /\ TableInv

LEMMA IInvInit == Init => IInv
BY TypeInit
DEF Init, IInv, TableInv, Held, Expired, InvitePc, OneUnresolvedInvitation, AdminIffUsed, UsedAndRevokedOnlyPastExpiry, Rows

LEMMA TablesUnchanged ==
    ASSUME TableInv, UNCHANGED <<invitation, holders, adminsFrom>>
    PROVE  TableInv'
BY DEF TableInv, OneUnresolvedInvitation, Unresolved, For, Rows, AdminIffUsed,
       UsedAndRevokedOnlyPastExpiry

\* A worker that is idle, or comes to be, leaves the locks of the others alone.
LEMMA FinishKeepsLocks ==
    ASSUME TypeOK, Held, Expired, NEW w \in Worker, Finish(w), UNCHANGED invitation
    PROVE  Held' /\ Expired'
BY DEF TypeOK, Held, Expired, Finish, Goto, Unresolved, InvitePc

\* The steps of an invitation request.
LEMMA InviteKeepsIInv ==
    ASSUME IInv, TypeOK', NEW w \in Worker,
           \/ \E o \in Org, e \in Email : InviteCheckUser(w, o, e)
           \/ InviteBegin(w)
           \/ InviteRevoke(w)
           \/ InviteCheckActive(w)
           \/ InviteConflict(w)
    PROVE  IInv'
<1> USE DEF IInv, TypeOK
<1>1. CASE \E o \in Org, e \in Email : InviteCheckUser(w, o, e)
  <2>1. PICK o \in Org, e \in Email : InviteCheckUser(w, o, e)
    BY <1>1
  <2>2. Held' /\ Expired'
    BY <2>1 DEF InviteCheckUser, Goto, dbVars, Held, Expired, Unresolved, InvitePc
  <2>3. QED
    BY <2>1, <2>2, TablesUnchanged DEF InviteCheckUser, dbVars
<1>2. CASE InviteBegin(w)
  <2>1. Held'
    BY <1>2 DEF InviteBegin, Goto, dbVars, Held, Unresolved
  <2>2. req'[w].now = clock
        /\ req'[w].stale = StaleInvitations(req[w].org, req[w].email, clock)
    BY <1>2 DEF InviteBegin, Goto, InvitePc, InviteRequest
  <2>3. Expired'
    BY <1>2, <2>2 DEF InviteBegin, Goto, dbVars, Expired, StaleInvitations, InvitePc
  <2>4. QED
    BY <1>2, <2>1, <2>3, TablesUnchanged DEF InviteBegin, dbVars
<1>3. CASE InviteRevoke(w)
  <2>1. Held'
    BY <1>3 DEF InviteRevoke, Goto, dbVars, RowLocked, Held, Unresolved
  <2>2. Expired'
    BY <1>3 DEF InviteRevoke, Goto, dbVars, Expired, InvitePc
  <2>3. QED
    BY <1>3, <2>1, <2>2, TablesUnchanged DEF InviteRevoke, dbVars
<1>4. CASE InviteCheckActive(w)
  <2>1. Held' /\ Expired'
    BY <1>4 DEF InviteCheckActive, Finish, Goto, dbVars, Held, Expired, Unresolved, InvitePc
  <2>2. QED
    BY <1>4, <2>1, TablesUnchanged DEF InviteCheckActive, dbVars
<1>5. CASE InviteConflict(w)
  BY <1>5, FinishKeepsLocks, TablesUnchanged DEF InviteConflict, dbVars
<1>6. QED
  BY <1>1, <1>2, <1>3, <1>4, <1>5

\* What the commit of an invitation does to the table.
LEMMA InviteCommitTable ==
    ASSUME TypeOK, Expired, NEW w \in Worker, NEW i \in InvitationId, InviteCommit(w, i)
    PROVE  LET r == req[w] IN
           /\ i \notin Rows
           /\ Rows' = Rows \cup {i}
           /\ r.stale \subseteq Rows
           /\ r.now # None
           /\ invitation'[i] = NewInvitation(r.org, r.email, r.now)
           /\ \A j \in Rows \ r.stale : invitation'[j] = invitation[j]
           /\ \A j \in r.stale : /\ invitation'[j].revoked_at = r.now
                                 /\ invitation[j].expires_at < r.now
           /\ \A j \in Rows : /\ invitation'[j].used_at = invitation[j].used_at
                              /\ invitation'[j].expires_at = invitation[j].expires_at
                              /\ invitation'[j].organization = invitation[j].organization
                              /\ invitation'[j].email = invitation[j].email
<1> DEFINE r == req[w]
<1>1. /\ pc[w] = "insert"
      /\ r \in InviteRequest
      /\ r.stale \subseteq Rows
      /\ i \notin Rows
      /\ invitation \in [Rows -> Invitation]
  BY DEF InviteCommit, TypeOK, InvitePc
<1>2. \A j \in r.stale : invitation[j].expires_at < r.now
  BY <1>1 DEF Expired, InvitePc
<1>3. r.now # None
  BY <1>1 DEF InviteRequest, Time, None
<1>4. /\ Rows' = Rows \cup {i}
      /\ invitation'[i] = NewInvitation(r.org, r.email, r.now)
      /\ \A j \in Rows \ r.stale : invitation'[j] = invitation[j]
      /\ \A j \in r.stale : invitation'[j] = Revoked(j, r.now)
  BY <1>1 DEF InviteCommit, Rows
<1>5. \A j \in r.stale : /\ invitation'[j].revoked_at = r.now
                         /\ invitation'[j].used_at = invitation[j].used_at
                         /\ invitation'[j].expires_at = invitation[j].expires_at
                         /\ invitation'[j].organization = invitation[j].organization
                         /\ invitation'[j].email = invitation[j].email
  <2> TAKE j \in r.stale
  <2>1. invitation[j] \in Invitation
    BY <1>1
  <2>2. invitation'[j] = Revoked(j, r.now)
    BY <1>4
  <2> QED
    BY <2>1, <2>2 DEF Revoked, Invitation
<1>6. QED
  BY <1>1, <1>2, <1>3, <1>4, <1>5

\* The commit of an invitation: the new row is the only unresolved one of its
\* organization and address, and what it revokes had expired.
LEMMA InviteCommitKeepsIInv ==
    ASSUME IInv, TypeOK', NEW w \in Worker, NEW i \in InvitationId, InviteCommit(w, i)
    PROVE  IInv'
<1> DEFINE r == req[w]
<1>1. TypeOK /\ Held /\ Expired /\ TableInv
  BY DEF IInv
<1>2. /\ i \notin Rows
      /\ Rows' = Rows \cup {i}
      /\ r.stale \subseteq Rows
      /\ r.now # None
      /\ invitation'[i] = NewInvitation(r.org, r.email, r.now)
      /\ \A j \in Rows \ r.stale : invitation'[j] = invitation[j]
      /\ \A j \in r.stale : /\ invitation'[j].revoked_at = r.now
                            /\ invitation[j].expires_at < r.now
      /\ \A j \in Rows : /\ invitation'[j].used_at = invitation[j].used_at
                         /\ invitation'[j].expires_at = invitation[j].expires_at
                         /\ invitation'[j].organization = invitation[j].organization
                         /\ invitation'[j].email = invitation[j].email
  BY <1>1, InviteCommitTable
<1>3. /\ pc[w] = "insert"
      /\ ~UniqueConflict(r.org, r.email, r.stale)
      /\ pc' = [pc EXCEPT ![w] = "send"]
      /\ req' = [req EXCEPT ![w] = [id |-> i, ok |-> FALSE]]
      /\ UNCHANGED <<holders, adminsFrom>>
  BY DEF InviteCommit, Goto
<1>4. \A j \in Rows : Unresolved(j)' <=> Unresolved(j) /\ j \notin r.stale
  BY <1>2 DEF Unresolved
<1>5. Held'
  <2> SUFFICES ASSUME NEW v \in Worker, pc'[v] = "create"
               PROVE  /\ Unresolved(req[v].id)'
                      /\ \A u \in Worker :
                           /\ pc'[u] = "create" /\ u # v => req'[u].id # req'[v].id
                           /\ pc'[u] \in {"check", "insert"} => req'[v].id \notin req'[u].stale
    BY DEF Held
  <2>1. v # w /\ pc[v] = "create" /\ req'[v] = req[v]
    BY <1>1, <1>3 DEF TypeOK
  <2>2. req[v].id \in Rows /\ Unresolved(req[v].id) /\ req[v].id \notin r.stale
    BY <1>1, <1>3, <2>1 DEF Held, TypeOK, AcceptPc
  <2>3. Unresolved(req[v].id)'
    BY <1>4, <2>1, <2>2 DEF Unresolved
  <2>4. \A u \in Worker :
           /\ pc'[u] = "create" /\ u # v => req'[u].id # req'[v].id
           /\ pc'[u] \in {"check", "insert"} => req'[v].id \notin req'[u].stale
    BY <1>1, <1>3, <2>1 DEF Held, TypeOK
  <2> QED
    BY <2>1, <2>3, <2>4 DEF Unresolved
<1>6. Expired'
  <2> SUFFICES ASSUME NEW v \in Worker, pc'[v] \in InvitePc, NEW j \in req'[v].stale
               PROVE  invitation'[j].expires_at < req'[v].now
    BY DEF Expired
  <2>1. v # w /\ pc[v] \in InvitePc /\ req'[v] = req[v]
    BY <1>1, <1>3 DEF TypeOK, InvitePc
  <2>2. j \in Rows /\ invitation[j].expires_at < req[v].now
    BY <1>1, <2>1 DEF TypeOK, Expired
  <2> QED
    BY <1>2, <2>1, <2>2
<1>7. AdminIffUsed'
  BY <1>1, <1>2, <1>3 DEF TableInv, AdminIffUsed, NewInvitation
<1>8. OneUnresolvedInvitation'
  <2> SUFFICES ASSUME NEW j \in Rows', NEW k \in Rows', Unresolved(j)', Unresolved(k)',
                      For(j, invitation[k].organization, invitation[k].email)'
               PROVE  j = k
    BY DEF OneUnresolvedInvitation
  <2>1. \A x \in Rows : Unresolved(x)' => ~For(x, r.org, r.email)
    BY <1>3, <1>4 DEF UniqueConflict
  <2>2. /\ invitation'[i].organization = r.org
        /\ invitation'[i].email = r.email
    BY <1>2 DEF NewInvitation
  <2>3. CASE j \in Rows /\ k \in Rows
    BY <1>1, <1>2, <1>4, <2>3 DEF TableInv, OneUnresolvedInvitation, For
  <2>4. CASE j = i /\ k \in Rows
    BY <1>2, <2>1, <2>2, <2>4 DEF For
  <2>5. CASE j \in Rows /\ k = i
    BY <1>2, <2>1, <2>2, <2>5 DEF For
  <2> QED
    BY <1>2, <2>3, <2>4, <2>5
<1>9. UsedAndRevokedOnlyPastExpiry'
  <2> SUFFICES ASSUME NEW j \in Rows', invitation'[j].used_at # None,
                      invitation'[j].revoked_at # None
               PROVE  invitation'[j].revoked_at > invitation'[j].expires_at
    BY DEF UsedAndRevokedOnlyPastExpiry
  <2>1. CASE j = i
    BY <1>2, <2>1 DEF NewInvitation
  <2>2. CASE j \in r.stale
    <3>1. /\ invitation'[j].revoked_at = r.now
          /\ invitation'[j].expires_at = invitation[j].expires_at
          /\ invitation[j].expires_at < r.now
      BY <1>2, <2>2
    <3>2. r.now \in Int /\ invitation[j].expires_at \in Int
      BY <1>1, <1>2, <1>3, <2>2
      DEF TypeOK, InvitePc, InviteRequest, Time, Invitation, Rows
    <3> QED
      BY <3>1, <3>2
  <2>3. CASE j \in Rows \ r.stale
    BY <1>1, <1>2, <2>3 DEF TableInv, UsedAndRevokedOnlyPastExpiry
  <2> QED
    BY <1>2, <2>1, <2>2, <2>3
<1>10. QED
  BY <1>5, <1>6, <1>7, <1>8, <1>9 DEF IInv, TableInv

\* Sending the e-mail and recording how it went.
LEMMA MailKeepsIInv ==
    ASSUME IInv, TypeOK', NEW w \in Worker,
           \/ \E ok, delivered \in BOOLEAN : SendMail(w, ok, delivered)
           \/ MarkSend(w)
    PROVE  IInv'
<1> USE DEF IInv, TypeOK
<1>1. CASE \E ok, delivered \in BOOLEAN : SendMail(w, ok, delivered)
  <2>1. Held' /\ Expired'
    BY <1>1 DEF SendMail, Goto, Held, Expired, Unresolved, InvitePc
  <2>2. QED
    BY <1>1, <2>1, TablesUnchanged DEF SendMail
<1>2. CASE MarkSend(w)
  <2>1. /\ Rows' = Rows
        /\ \A j \in Rows : /\ invitation'[j].used_at = invitation[j].used_at
                           /\ invitation'[j].revoked_at = invitation[j].revoked_at
                           /\ invitation'[j].expires_at = invitation[j].expires_at
                           /\ invitation'[j].organization = invitation[j].organization
                           /\ invitation'[j].email = invitation[j].email
    BY <1>2 DEF MarkSend, Rows, MailPc, Invitation
  <2>2. Held' /\ Expired'
    BY <1>2, <2>1
    DEF MarkSend, Finish, Goto, Held, Expired, Unresolved, InvitePc, AcceptPc, Rows
  <2>3. TableInv'
    BY <1>2, <2>1
    DEF MarkSend, TableInv, OneUnresolvedInvitation, Unresolved, For,
        AdminIffUsed, UsedAndRevokedOnlyPastExpiry
  <2>4. QED
    BY <2>2, <2>3
<1>3. QED
  BY <1>1, <1>2

\* The steps of an acceptance: its commit is where Held is needed.
LEMMA AcceptKeepsIInv ==
    ASSUME IInv, TypeOK', NEW w \in Worker,
           \/ \E i \in InvitationId : AcceptLookup(w, i)
           \/ AcceptLock(w)
           \/ AcceptCommit(w)
           \/ AcceptConflict(w)
    PROVE  IInv'
<1> USE DEF IInv, TypeOK
<1>1. CASE \E i \in InvitationId : AcceptLookup(w, i)
  <2>1. Held' /\ Expired'
    BY <1>1 DEF AcceptLookup, Goto, dbVars, Held, Expired, Unresolved, InvitePc
  <2>2. QED
    BY <1>1, <2>1, TablesUnchanged DEF AcceptLookup, dbVars
<1>2. CASE AcceptLock(w)
  <2>1. CASE IsActive(req[w].id) /\ Goto(w, "create", req[w])
    <3>1. /\ IsActive(req[w].id) /\ ~RowLocked(req[w].id)
          /\ pc' = [pc EXCEPT ![w] = "create"]
          /\ \A v \in Worker : req'[v] = req[v]
      BY <1>2, <2>1 DEF AcceptLock, Goto
    <3>2. Held'
      BY <1>2, <3>1 DEF AcceptLock, dbVars, IsActive, RowLocked, Held, Unresolved
    <3>3. Expired'
      BY <1>2, <3>1 DEF AcceptLock, dbVars, Expired, InvitePc
    <3>4. QED
      BY <1>2, <3>2, <3>3, TablesUnchanged DEF AcceptLock, dbVars
  <2>2. CASE Finish(w)
    BY <1>2, <2>2, FinishKeepsLocks, TablesUnchanged DEF AcceptLock, dbVars
  <2>3. QED
    BY <1>2, <2>1, <2>2 DEF AcceptLock
<1>3. CASE AcceptCommit(w)
  <2> DEFINE i == req[w].id
  <2>1. /\ pc[w] = "create"
        /\ i \in Rows
        /\ Unresolved(i)
        /\ clock # None
    BY <1>3 DEF AcceptCommit, Held, AcceptPc, Time, None
  <2>2. /\ Rows' = Rows
        /\ invitation'[i].used_at = clock
        /\ \A j \in Rows : /\ j # i => invitation'[j] = invitation[j]
                           /\ invitation'[j].revoked_at = invitation[j].revoked_at
                           /\ invitation'[j].expires_at = invitation[j].expires_at
                           /\ invitation'[j].organization = invitation[j].organization
                           /\ invitation'[j].email = invitation[j].email
    BY <1>3, <2>1 DEF AcceptCommit, Rows, Invitation
  <2>3. Held' /\ Expired'
    BY <1>3, <2>1, <2>2
    DEF AcceptCommit, Finish, Goto, Held, Expired, Unresolved, InvitePc, AcceptPc, Rows
  <2>4. AdminIffUsed'
    BY <1>3, <2>1, <2>2 DEF AcceptCommit, TableInv, AdminIffUsed, Unresolved
  <2>5. OneUnresolvedInvitation'
    BY <2>1, <2>2 DEF TableInv, OneUnresolvedInvitation, Unresolved, For
  <2>6. UsedAndRevokedOnlyPastExpiry'
    BY <2>1, <2>2 DEF TableInv, UsedAndRevokedOnlyPastExpiry, Unresolved
  <2>7. QED
    BY <2>3, <2>4, <2>5, <2>6 DEF TableInv
<1>4. CASE AcceptConflict(w)
  BY <1>4, FinishKeepsLocks, TablesUnchanged DEF AcceptConflict, dbVars
<1>5. QED
  BY <1>1, <1>2, <1>3, <1>4

LEMMA IInvNext == IInv /\ [Next]_vars => IInv'
<1> SUFFICES ASSUME IInv, [Next]_vars PROVE IInv'
  OBVIOUS
<1>1. TypeOK'
  BY TypeNext DEF IInv
<1>2. CASE UNCHANGED vars
  BY <1>1, <1>2, TablesUnchanged DEF IInv, vars, dbVars, Held, Expired, Unresolved
<1>3. CASE Tick
  BY <1>1, <1>3, TablesUnchanged DEF IInv, Tick, dbVars, Held, Expired, Unresolved
<1>4. ASSUME NEW e \in Email, OtherAccount(e) PROVE IInv'
  BY <1>1, <1>4
  DEF IInv, TypeOK, OtherAccount, Held, Expired, TableInv, OneUnresolvedInvitation, Unresolved, For, Rows, AdminIffUsed,
      UsedAndRevokedOnlyPastExpiry
<1>5. ASSUME NEW w \in Worker, Crash(w) PROVE IInv'
  BY <1>1, <1>5, FinishKeepsLocks, TablesUnchanged DEF IInv, Crash, dbVars
<1>6. QED
  BY <1>1, <1>2, <1>3, <1>4, <1>5, InviteKeepsIInv, InviteCommitKeepsIInv, MailKeepsIInv,
     AcceptKeepsIInv
  DEF Next, Step

\* IInv is inductive.
THEOREM Inductive == Spec => []IInv
BY IInvInit, IInvNext, PTL DEF Spec

\* An organization has at most one unresolved invitation per address.
THEOREM OneUnresolvedInvitationAlways == Spec => []OneUnresolvedInvitation
BY Inductive, PTL DEF IInv, TableInv

\* An invitation is marked used if and only if one account was created by it.
THEOREM AdminIffUsedAlways == Spec => []AdminIffUsed
BY Inductive, PTL DEF IInv, TableInv

\* The clean-up of expired invitations revokes none that had not expired.
THEOREM UsedAndRevokedOnlyPastExpiryAlways == Spec => []UsedAndRevokedOnlyPastExpiry
BY Inductive, PTL DEF IInv, TableInv

-----------------------------------------------------------------------------
(***************************************************************************)
(* What a step may do to an invitation.                                    *)
(***************************************************************************)

\* Only two actions write the dates of an invitation; an acceptance commits
\* on one that Held says is unresolved.
LEMMA ResolutionStep ==
    ASSUME IInv, [Next]_vars
    PROVE  \A i \in Rows : /\ i \in Rows'
                           /\ ~Unresolved(i) => ~Unresolved(i)'
                           /\ adminsFrom'[i] # adminsFrom[i] => Unresolved(i)
<1> SUFFICES ASSUME NEW i \in Rows
             PROVE  /\ i \in Rows'
                    /\ ~Unresolved(i) => ~Unresolved(i)'
                    /\ adminsFrom'[i] # adminsFrom[i] => Unresolved(i)
  OBVIOUS
<1>1. TypeOK /\ Held /\ Expired
  BY DEF IInv
<1>2. CASE UNCHANGED <<invitation, adminsFrom>>
  BY <1>2 DEF Rows, Unresolved
<1>3. ASSUME NEW w \in Worker, NEW k \in InvitationId, InviteCommit(w, k)
      PROVE  /\ i \in Rows'
             /\ ~Unresolved(i) => ~Unresolved(i)'
             /\ UNCHANGED adminsFrom
  <2>1. CASE i \in req[w].stale
    BY <1>1, <1>3, <2>1, InviteCommitTable DEF Unresolved, InviteCommit
  <2>2. CASE i \notin req[w].stale
    BY <1>1, <1>3, <2>2, InviteCommitTable DEF Unresolved, InviteCommit
  <2> QED
    BY <2>1, <2>2
<1>4. ASSUME NEW w \in Worker, MarkSend(w)
      PROVE  /\ i \in Rows'
             /\ ~Unresolved(i) => ~Unresolved(i)'
             /\ UNCHANGED adminsFrom
  BY <1>1, <1>4 DEF MarkSend, TypeOK, Rows, Unresolved, Invitation
<1>5. ASSUME NEW w \in Worker, AcceptCommit(w)
      PROVE  /\ i \in Rows'
             /\ ~Unresolved(i) => ~Unresolved(i)'
             /\ adminsFrom'[i] # adminsFrom[i] => Unresolved(i)
  <2>1. Unresolved(req[w].id) /\ req[w].id \in InvitationId
    BY <1>1, <1>5 DEF AcceptCommit, Held, TypeOK, AcceptPc, AcceptRequest
  <2>2. CASE i = req[w].id
    BY <1>1, <1>5, <2>1, <2>2 DEF AcceptCommit, TypeOK, Rows
  <2>3. CASE i # req[w].id
    BY <1>1, <1>5, <2>1, <2>3 DEF AcceptCommit, TypeOK, Rows, Unresolved
  <2> QED
    BY <2>2, <2>3
<1>6. CASE UNCHANGED vars
  BY <1>2, <1>6 DEF vars, dbVars
<1>7. CASE Next
  BY <1>2, <1>3, <1>4, <1>5, <1>7
  DEF Next, Step, Tick, OtherAccount, InviteCheckUser, InviteBegin, InviteRevoke,
      InviteCheckActive, InviteConflict, SendMail, AcceptLookup, AcceptLock, AcceptConflict,
      Crash, dbVars
<1> QED
  BY <1>6, <1>7

\* A resolved invitation stays resolved and creates no administrator.
THEOREM ResolutionAlways == Spec => Resolution
BY Inductive, ResolutionStep, PTL DEF Spec, Resolution

-----------------------------------------------------------------------------
(* OrgInvitation implements Enrolment.                                      *)

\* The time an invitation request computed its date from is not in the future,
\* and the rows it found stale are rows of the slot it invites to.
Asked ==
    \A w \in Worker : pc[w] \in InvitePc =>
        /\ req[w].now <= clock
        /\ \A i \in req[w].stale : For(i, req[w].org, req[w].email)

LEMMA AskedInit == Init => Asked
BY DEF Init, Asked, InvitePc

\* The organization and the address of an invitation never change.
LEMMA SlotFixed ==
    ASSUME IInv, [Next]_vars, NEW i \in Rows
    PROVE  /\ invitation'[i].organization = invitation[i].organization
           /\ invitation'[i].email = invitation[i].email
<1>1. TypeOK /\ Expired
  BY DEF IInv
<1>2. CASE UNCHANGED invitation
  BY <1>2
<1>3. ASSUME NEW w \in Worker, NEW k \in InvitationId, InviteCommit(w, k)
      PROVE  /\ invitation'[i].organization = invitation[i].organization
             /\ invitation'[i].email = invitation[i].email
  BY <1>1, <1>3, InviteCommitTable
<1>4. ASSUME NEW w \in Worker, MarkSend(w) \/ AcceptCommit(w)
      PROVE  /\ invitation'[i].organization = invitation[i].organization
             /\ invitation'[i].email = invitation[i].email
  BY <1>1, <1>4 DEF MarkSend, AcceptCommit, TypeOK, Rows, Invitation
<1> QED
  BY <1>2, <1>3, <1>4
  DEF Next, Step, Tick, OtherAccount, InviteCheckUser, InviteBegin, InviteRevoke,
      InviteCheckActive, InviteConflict, SendMail, AcceptLookup, AcceptLock, AcceptConflict,
      Crash, vars, dbVars

\* A worker inside an invitation request kept its local variables, or it has
\* just read the clock and the stale rows.
LEMMA JustRead ==
    ASSUME TypeOK, [Next]_vars, NEW v \in Worker, pc'[v] \in InvitePc
    PROVE  \/ pc[v] \in InvitePc /\ req'[v] = req[v]
           \/ /\ req'[v].now = clock
              /\ UNCHANGED invitation
              /\ req'[v].stale \subseteq StaleInvitations(req'[v].org, req'[v].email, clock)
<1> DEFINE Kept == pc[v] \in InvitePc /\ req'[v] = req[v]
           Read == /\ req'[v].now = clock
                   /\ UNCHANGED invitation
                   /\ req'[v].stale \subseteq
                         StaleInvitations(req'[v].org, req'[v].email, clock)
<1>1. CASE UNCHANGED <<pc, req>>
  BY <1>1
<1>2. ASSUME NEW w \in Worker, Finish(w) PROVE Kept
  BY <1>2 DEF Finish, Goto, TypeOK, InvitePc
<1>3. ASSUME NEW w \in Worker, NEW o \in Org, NEW e \in Email, InviteCheckUser(w, o, e)
      PROVE  Kept \/ Read
  BY <1>3 DEF InviteCheckUser, Goto, dbVars, TypeOK, InvitePc
<1>4. ASSUME NEW w \in Worker, InviteBegin(w)
      PROVE  Kept \/ Read
  <2>1. CASE v # w
    BY <1>4, <2>1 DEF InviteBegin, Goto, TypeOK, InvitePc
  <2>2. CASE v = w
    <3>1. req[w] \in InviteRequest
      BY <1>4 DEF InviteBegin, TypeOK, InvitePc
    <3>2. req'[w] = [req[w] EXCEPT !.now = clock,
                         !.stale = StaleInvitations(req[w].org, req[w].email, clock)]
      BY <1>4 DEF InviteBegin, Goto, TypeOK
    <3>3. /\ req'[w].org = req[w].org
          /\ req'[w].email = req[w].email
          /\ req'[w].now = clock
          /\ req'[w].stale = StaleInvitations(req[w].org, req[w].email, clock)
      BY <3>1, <3>2 DEF InviteRequest
    <3> QED
      BY <1>4, <2>2, <3>3 DEF InviteBegin, dbVars
  <2> QED
    BY <2>1, <2>2
<1>5. ASSUME NEW w \in Worker,
             \/ InviteRevoke(w)
             \/ InviteCheckActive(w)
             \/ \E i \in InvitationId : InviteCommit(w, i)
             \/ \E ok, delivered \in BOOLEAN : SendMail(w, ok, delivered)
             \/ \E i \in InvitationId : AcceptLookup(w, i)
             \/ AcceptLock(w)
      PROVE  Kept
  BY <1>2, <1>5
  DEF InviteRevoke, InviteCheckActive, InviteCommit, SendMail, AcceptLookup, AcceptLock, Goto,
      TypeOK, InvitePc
<1> HIDE DEF Kept, Read
<1>6. Kept \/ Read
  <2>1. CASE UNCHANGED vars
    BY <1>1, <2>1 DEF vars, Kept
  <2>2. CASE Next
    BY <1>1, <1>2, <1>3, <1>4, <1>5, <2>2
    DEF Next, Step, Tick, OtherAccount, InviteConflict, MarkSend, AcceptCommit,
        AcceptConflict, Crash, Kept
  <2> QED
    BY <2>1, <2>2
<1> QED
  BY <1>6 DEF Kept, Read

LEMMA AskedNext ==
    ASSUME IInv, Asked, [Next]_vars
    PROVE  Asked'
<1> SUFFICES ASSUME NEW v \in Worker, pc'[v] \in InvitePc
             PROVE  /\ req'[v].now <= clock'
                    /\ \A i \in req'[v].stale : For(i, req[v].org, req[v].email)'
  BY DEF Asked, For
<1>1. TypeOK
  BY DEF IInv
<1>2. clock \in Int /\ clock' \in Int /\ clock <= clock'
  <2>1. clock' = clock \/ Tick
    BY DEF Next, Step, OtherAccount, InviteCheckUser, InviteBegin, InviteRevoke,
           InviteCheckActive, InviteCommit, InviteConflict, SendMail, MarkSend, AcceptLookup,
           AcceptLock, AcceptCommit, AcceptConflict, Crash, vars
  <2>2. clock \in Int
    BY <1>1, ExpireAssumption DEF TypeOK, Time
  <2> QED
    BY <2>1, <2>2 DEF Tick
<1>3. CASE pc[v] \in InvitePc /\ req'[v] = req[v]
  <2>1. req[v].now \in Int /\ req[v].now <= clock /\ req[v].stale \subseteq Rows
    BY <1>1, <1>3 DEF Asked, TypeOK, InviteRequest, Time
  <2>2. \A i \in req[v].stale : For(i, req[v].org, req[v].email)
    BY <1>3 DEF Asked
  <2> QED
    BY <1>2, <1>3, <2>1, <2>2, SlotFixed DEF For
<1>4. CASE /\ req'[v].now = clock
           /\ UNCHANGED invitation
           /\ req'[v].stale \subseteq StaleInvitations(req'[v].org, req'[v].email, clock)
  BY <1>2, <1>4 DEF StaleInvitations, For
<1> QED
  BY <1>1, <1>3, <1>4, JustRead

-----------------------------------------------------------------------------
Taken == {e \in Email : holders[e] > 0}

LEMMA InitSimulates == Init => E!Init
BY DEF Init, E!Init, OfferView, Rows

\* A step that leaves the abstract view of every row, the accounts and the
\* clock alone is a stutter.
LEMMA Stutter ==
    ASSUME Rows' = Rows,
           \A i \in Rows : /\ invitation'[i].organization = invitation[i].organization
                           /\ invitation'[i].email = invitation[i].email
                           /\ invitation'[i].expires_at = invitation[i].expires_at
                           /\ invitation'[i].used_at = invitation[i].used_at
                           /\ invitation'[i].revoked_at = invitation[i].revoked_at,
           UNCHANGED <<clock, holders>>
    PROVE  UNCHANGED E!evars
<1>1. \A i \in Rows : Status(i)' = Status(i)
  BY DEF Status
<1>2. OfferView' = OfferView
  BY <1>1 DEF OfferView
<1> QED
  BY <1>2 DEF E!evars

\* The commit of an invitation makes an offer: what it did not revoke of its
\* slot was resolved, by the unique constraint.
LEMMA CommitSimulates ==
    ASSUME IInv, Asked, NEW w \in Worker, NEW i \in InvitationId, InviteCommit(w, i)
    PROVE  E!Next
<1> DEFINE r == req[w]
           lapsing == {j \in DOMAIN OfferView :
                         OfferView[j].slot = <<r.org, r.email>> /\ E!Open(j)}
<1>1. TypeOK /\ Expired
  BY DEF IInv
<1>2. /\ i \notin Rows
      /\ Rows' = Rows \cup {i}
      /\ r.stale \subseteq Rows
      /\ r.now # None
      /\ invitation'[i] = NewInvitation(r.org, r.email, r.now)
      /\ \A j \in Rows \ r.stale : invitation'[j] = invitation[j]
      /\ \A j \in r.stale : /\ invitation'[j].revoked_at = r.now
                            /\ invitation[j].expires_at < r.now
      /\ \A j \in Rows : /\ invitation'[j].used_at = invitation[j].used_at
                         /\ invitation'[j].expires_at = invitation[j].expires_at
                         /\ invitation'[j].organization = invitation[j].organization
                         /\ invitation'[j].email = invitation[j].email
  BY <1>1, InviteCommitTable
<1>3. /\ r.org \in Org /\ r.email \in Email /\ r.now \in 0 .. MaxClock
      /\ r.now <= clock
      /\ ~UniqueConflict(r.org, r.email, r.stale)
      /\ \A j \in r.stale : For(j, r.org, r.email)
      /\ UNCHANGED <<clock, holders>>
  BY <1>1 DEF InviteCommit, TypeOK, InvitePc, InviteRequest, Time, Asked
<1>4. DOMAIN OfferView = Rows
  BY DEF OfferView
<1>5. \A j \in Rows : j \in lapsing <=> For(j, r.org, r.email) /\ Unresolved(j)
  BY <1>4 DEF OfferView, Status, E!Open, For, Unresolved
<1>6. \A j \in lapsing : j \in r.stale
  BY <1>3, <1>4, <1>5 DEF UniqueConflict
<1>7. \A j \in lapsing : OfferView[j].deadline < r.now
  BY <1>2, <1>4, <1>6 DEF OfferView
<1>8. OfferView' = [j \in DOMAIN OfferView \cup {i} |->
                      IF j = i
                      THEN [slot |-> <<r.org, r.email>>, deadline |-> r.now + EXPIRE_DAYS,
                            status |-> "open"]
                      ELSE IF j \in lapsing THEN [OfferView[j] EXCEPT !.status = "lapsed"]
                      ELSE OfferView[j]]
  <2>1. \A j \in Rows' : OfferView'[j] =
            [slot |-> <<invitation'[j].organization, invitation'[j].email>>,
             deadline |-> invitation'[j].expires_at, status |-> Status(j)']
    BY DEF OfferView
  <2>2. OfferView'[i] = [slot |-> <<r.org, r.email>>, deadline |-> r.now + EXPIRE_DAYS,
                         status |-> "open"]
    BY <1>2, <2>1 DEF NewInvitation, Status, None
  <2>3. \A j \in lapsing : OfferView'[j] = [OfferView[j] EXCEPT !.status = "lapsed"]
    <3> SUFFICES ASSUME NEW j \in lapsing
                 PROVE  OfferView'[j] = [OfferView[j] EXCEPT !.status = "lapsed"]
      OBVIOUS
    <3>1. j \in Rows /\ j \in r.stale /\ Unresolved(j)
      BY <1>4, <1>5, <1>6
    <3>2. Status(j)' = "lapsed"
      BY <1>2, <3>1 DEF Status, Unresolved
    <3>3. OfferView'[j] = [slot |-> <<invitation[j].organization, invitation[j].email>>,
                           deadline |-> invitation[j].expires_at, status |-> "lapsed"]
      BY <1>2, <2>1, <3>1, <3>2
    <3> QED
      BY <3>1, <3>3 DEF OfferView
  <2>4. \A j \in Rows \ lapsing : OfferView'[j] = OfferView[j]
    <3> SUFFICES ASSUME NEW j \in Rows, j \notin lapsing
                 PROVE  OfferView'[j] = OfferView[j]
      OBVIOUS
    <3>1. Status(j)' = Status(j)
      <4>1. CASE j \notin r.stale
        BY <1>2, <4>1 DEF Status
      <4>2. CASE j \in r.stale /\ invitation[j].used_at # None
        BY <1>2, <4>2 DEF Status
      <4>3. CASE j \in r.stale /\ invitation[j].revoked_at # None
        BY <1>2, <4>3 DEF Status
      <4>4. j \in r.stale => ~Unresolved(j)
        BY <1>3, <1>5
      <4> QED
        BY <4>1, <4>2, <4>3, <4>4 DEF Unresolved
    <3> QED
      BY <1>2, <2>1, <3>1 DEF OfferView
  <2> HIDE DEF lapsing
  <2>5. /\ OfferView' = [j \in Rows' |-> OfferView'[j]]
        /\ Rows' = DOMAIN OfferView \cup {i}
    BY <1>2, <1>4 DEF OfferView
  <2> QED
    BY <1>2, <1>4, <2>2, <2>3, <2>4, <2>5
<1>9. E!MakeOffer(i, r.org, r.email, r.now)
  BY <1>2, <1>3, <1>4, <1>7, <1>8 DEF E!MakeOffer
<1> QED
  BY <1>3, <1>9 DEF E!Next

\* The commit of an acceptance accepts the offer.
LEMMA AcceptSimulates ==
    ASSUME IInv, NEW w \in Worker, NEW i \in InvitationId, i = req[w].id, AcceptCommit(w)
    PROVE  E!Next
<1> DEFINE e == invitation[i].email
<1>1. /\ TypeOK
      /\ i \in Rows
      /\ Unresolved(i)
      /\ clock # None
  BY DEF IInv, AcceptCommit, TypeOK, Held, AcceptPc, Time, None
<1>2. /\ e \in Email
      /\ holders[e] = 0
      /\ holders' = [holders EXCEPT ![e] = @ + 1]
      /\ UNCHANGED clock
  BY <1>1 DEF AcceptCommit, TypeOK, Invitation
<1>3. /\ Rows' = Rows
      /\ invitation'[i].used_at = clock
      /\ \A j \in Rows : /\ j # i => invitation'[j] = invitation[j]
                         /\ invitation'[j].expires_at = invitation[j].expires_at
                         /\ invitation'[j].organization = invitation[j].organization
                         /\ invitation'[j].email = invitation[j].email
  BY <1>1 DEF AcceptCommit, TypeOK, Rows, Invitation
<1>4. /\ DOMAIN OfferView = Rows
      /\ OfferView[i].slot[2] = e
      /\ E!Open(i)
  BY <1>1 DEF OfferView, Status, E!Open, Unresolved
<1>5. OfferView' = [OfferView EXCEPT ![i].status = "accepted"]
  <2>1. \A j \in Rows : Status(j)' = IF j = i THEN "accepted" ELSE Status(j)
    BY <1>1, <1>3 DEF Status
  <2>2. \A j \in Rows : OfferView'[j] =
            IF j = i THEN [OfferView[i] EXCEPT !.status = "accepted"] ELSE OfferView[j]
    BY <1>1, <1>3, <2>1 DEF OfferView
  <2>3. /\ OfferView = [j \in Rows |-> OfferView[j]]
        /\ OfferView' = [j \in Rows |-> OfferView'[j]]
    BY <1>3 DEF OfferView
  <2> QED
    BY <1>1, <1>4, <2>2, <2>3
<1>6. e \notin Taken /\ Taken' = Taken \cup {e}
  BY <1>1, <1>2 DEF Taken, TypeOK
<1>7. E!Accept(i)
  BY <1>1, <1>2, <1>4, <1>5, <1>6 DEF E!Accept, Taken
<1> QED
  BY <1>1, <1>7 DEF E!Next

LEMMA StepSimulates ==
    ASSUME IInv, Asked, [Next]_vars
    PROVE  [E!Next]_E!evars
<1>1. TypeOK
  BY DEF IInv
<1>2. CASE UNCHANGED <<clock, invitation, holders>>
  BY <1>2, Stutter DEF Rows
<1>3. CASE Tick
  <2>1. UNCHANGED <<OfferView, Taken>>
    BY <1>3 DEF Tick, dbVars, OfferView, Status, Rows, Taken
  <2>2. E!Pass
    BY <1>3, <2>1 DEF Tick, Taken, E!Pass
  <2> QED
    BY <2>2 DEF E!Next
<1>4. ASSUME NEW e \in Email, OtherAccount(e) PROVE E!Next
  <2>1. UNCHANGED <<clock, OfferView>>
    BY <1>4 DEF OtherAccount, OfferView, Status, Rows
  <2>2. e \notin Taken /\ Taken' = Taken \cup {e}
    BY <1>1, <1>4 DEF OtherAccount, Taken, TypeOK
  <2>3. E!Take(e)
    BY <2>1, <2>2 DEF Taken, E!Take
  <2> QED
    BY <2>3 DEF E!Next
<1>5. ASSUME NEW w \in Worker, MarkSend(w) PROVE UNCHANGED E!evars
  <2>1. /\ Rows' = Rows
        /\ \A i \in Rows : /\ invitation'[i].organization = invitation[i].organization
                           /\ invitation'[i].email = invitation[i].email
                           /\ invitation'[i].expires_at = invitation[i].expires_at
                           /\ invitation'[i].used_at = invitation[i].used_at
                           /\ invitation'[i].revoked_at = invitation[i].revoked_at
    BY <1>1, <1>5 DEF MarkSend, TypeOK, Rows, Invitation
  <2> QED
    BY <1>5, <2>1, Stutter DEF MarkSend
<1>6. ASSUME NEW w \in Worker, AcceptCommit(w) PROVE E!Next
  <2>1. req[w].id \in InvitationId
    BY <1>1, <1>6 DEF AcceptCommit, TypeOK, AcceptPc, AcceptRequest
  <2> QED
    BY <1>6, <2>1, AcceptSimulates
<1>7. CASE UNCHANGED vars
  BY <1>2, <1>7 DEF vars, dbVars
<1>8. CASE Next
  BY <1>2, <1>3, <1>4, <1>5, <1>6, <1>8, CommitSimulates
  DEF Next, Step, InviteCheckUser, InviteBegin, InviteRevoke, InviteCheckActive,
      InviteConflict, SendMail, AcceptLookup, AcceptLock, AcceptConflict, Crash, dbVars
<1> QED
  BY <1>7, <1>8

\* The invitation service implements Enrolment, for all values of the constants.
THEOREM Refinement == Spec => Enrols
<1>1. Spec => []Asked
  BY AskedInit, AskedNext, Inductive, PTL DEF Spec
<1>2. QED
  BY <1>1, Inductive, InitSimulates, StepSimulates, PTL DEF Spec, Enrols, E!Spec

-----------------------------------------------------------------------------
(* What Enrolment promises, of the offers that the tables stand for: its    *)
(* own inductive invariant, under the view.                                 *)

LEMMA OfferTypeInit == E!Init => E!OfferTypeOK
<1> SUFFICES ASSUME E!Init PROVE E!OfferTypeOK
  OBVIOUS
<1>1. clock = 0 /\ OfferView = [i \in {} |-> {}] /\ Taken \subseteq Email
  BY DEF E!Init, Taken
<1> QED
  BY <1>1, ExpireAssumption DEF E!OfferTypeOK, E!Offer, Taken

LEMMA OfferTypeNext == E!OfferTypeOK /\ [E!Next]_E!evars => E!OfferTypeOK'
<1> SUFFICES ASSUME E!OfferTypeOK, [E!Next]_E!evars PROVE E!OfferTypeOK'
  OBVIOUS
<1> USE ExpireAssumption DEF E!OfferTypeOK, E!Offer
<1>1. CASE UNCHANGED E!evars
  BY <1>1 DEF E!evars
<1>2. CASE E!Pass
  BY <1>2 DEF E!Pass
<1>3. ASSUME NEW e \in Email, E!Take(e) PROVE E!OfferTypeOK'
  BY <1>3 DEF E!Take
<1>4. ASSUME NEW i \in InvitationId, E!Accept(i) PROVE E!OfferTypeOK'
  BY <1>4 DEF E!Accept
<1>5. ASSUME NEW i \in InvitationId, NEW o \in Org, NEW e \in Email,
             NEW asked \in 0 .. MaxClock, E!MakeOffer(i, o, e, asked)
      PROVE  E!OfferTypeOK'
  BY <1>5 DEF E!MakeOffer
<1> QED
  BY <1>1, <1>2, <1>3, <1>4, <1>5 DEF E!Next

LEMMA EnrolledNext ==
    E!OfferTypeOK /\ E!OneOpenPerSlot /\ E!EnrolledOnce /\ [E!Next]_E!evars
        => E!OneOpenPerSlot' /\ E!EnrolledOnce'
<1> SUFFICES ASSUME E!OfferTypeOK, E!OneOpenPerSlot, E!EnrolledOnce, [E!Next]_E!evars
             PROVE  E!OneOpenPerSlot' /\ E!EnrolledOnce'
  OBVIOUS
<1> USE DEF E!OneOpenPerSlot, E!EnrolledOnce, E!Open
<1>1. CASE UNCHANGED <<OfferView, Taken>>
  BY <1>1 DEF Taken
<1>2. ASSUME NEW e \in Email, E!Take(e) PROVE E!OneOpenPerSlot' /\ E!EnrolledOnce'
  BY <1>2 DEF E!Take
<1>3. ASSUME NEW i \in InvitationId, E!Accept(i) PROVE E!OneOpenPerSlot' /\ E!EnrolledOnce'
  <2>1. /\ DOMAIN OfferView' = DOMAIN OfferView
        /\ \A j \in DOMAIN OfferView :
              /\ OfferView'[j].slot = OfferView[j].slot
              /\ OfferView'[j].status = IF j = i THEN "accepted" ELSE OfferView[j].status
    BY <1>3 DEF E!Accept, E!OfferTypeOK, E!Offer
  <2> QED
    BY <1>3, <2>1 DEF E!Accept
<1>4. ASSUME NEW i \in InvitationId, NEW o \in Org, NEW e \in Email,
             NEW asked \in 0 .. MaxClock, E!MakeOffer(i, o, e, asked)
      PROVE  E!OneOpenPerSlot' /\ E!EnrolledOnce'
  <2>1. /\ DOMAIN OfferView' = DOMAIN OfferView \cup {i}
        /\ i \notin DOMAIN OfferView
        /\ OfferView'[i].slot = <<o, e>> /\ OfferView'[i].status = "open"
        /\ UNCHANGED Taken
    BY <1>4 DEF E!MakeOffer, Taken
  <2>2. \A j \in DOMAIN OfferView :
              /\ OfferView'[j].slot = OfferView[j].slot
              /\ OfferView'[j].status = IF OfferView[j].slot = <<o, e>> /\ E!Open(j)
                                        THEN "lapsed" ELSE OfferView[j].status
    BY <1>4 DEF E!MakeOffer, E!OfferTypeOK, E!Offer
  <2> QED
    BY <2>1, <2>2 DEF Taken
<1> QED
  BY <1>1, <1>2, <1>3, <1>4 DEF E!Next, E!Pass, E!evars, Taken

\* A slot never has two open offers, and no address is enrolled twice,
\* whatever invitations several organizations make to it: what Enrolment
\* promises, kept by the service with its requests, locks and crashes.
THEOREM Promise == Spec => [](E!OneOpenPerSlot /\ E!EnrolledOnce)
<1>1. E!Init => E!OneOpenPerSlot /\ E!EnrolledOnce
  BY DEF E!Init, E!OneOpenPerSlot, E!EnrolledOnce
<1>2. E!Spec => [](E!OneOpenPerSlot /\ E!EnrolledOnce)
  BY <1>1, OfferTypeInit, OfferTypeNext, EnrolledNext, PTL DEF E!Spec
<1>3. QED
  BY <1>2, Refinement, PTL DEF Enrols
=============================================================================
