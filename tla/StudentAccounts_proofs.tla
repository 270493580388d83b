----------------------- MODULE StudentAccounts_proofs -----------------------
(***************************************************************************)
(* Students' accounts, for any number of students, requests, addresses and *)
(* links: types, one active link per student, unique addresses, links that *)
(* stay resolved, and registrations whose checks still hold at the commit. *)
(***************************************************************************)
EXTENDS StudentAccounts, TLAPS

\* The tokens and the Student rows that the request of w has locked.
Held(w) == IF pc[w] \in ConfirmPc THEN {req[w].token}
           ELSE IF pc[w] = "create" THEN req[w].stale ELSE {}
HeldStudents(w) == IF pc[w] \in ConfirmPc THEN {token[req[w].token].student} ELSE {}

ReqTyped(w) ==
    /\ pc[w] \in IssuePc \cup ConfirmPc \cup SavePc \cup UserPc \cup OtherPc
    /\ pc[w] = "idle" => req[w] = NoRequest
    /\ pc[w] \in {"issue", "reset"} => req[w] \in [student : Student]
    /\ pc[w] \in {"lock", "create"} => req[w] \in [student : Student, stale : SUBSET Tokens]
    /\ pc[w] \in ConfirmPc => req[w] \in ConfirmRequest /\ req[w].token \in Tokens
    /\ pc[w] = "page" => req[w] \in PageRequest
    /\ pc[w] = "name" => req[w] \in [student : Student, password : Password]
    /\ pc[w] = "account" => req[w] \in AccountRequest
    /\ pc[w] \in SavePc => req[w] \in SaveRequest
    /\ pc[w] \in UserPc => req[w] \in UserRequest

\* What a request read under its locks is still so.
Fresh(w) ==
    /\ pc[w] = "create" => req[w].stale \subseteq ActiveTokens(req[w].student)
    /\ pc[w] = "write" =>
          /\ Active(req[w].token)
          /\ row[token[req[w].token].student].active
          /\ row[token[req[w].token].student].email = NoEmail

DbTyped ==
    /\ row \in [Student -> Row] /\ elsewhere \subseteq Email
    /\ Tokens \subseteq TokenId /\ token \in [Tokens -> Token] /\ expired \subseteq Tokens

DbInv == DbTyped /\ OneActiveToken

Places == pc = [w \in Worker |-> pc[w]] /\ req = [w \in Worker |-> req[w]]

Apart(v, w) == Held(v) \cap Held(w) = {} /\ HeldStudents(v) \cap HeldStudents(w) = {}

\* The inductive invariant: the row locks exclude each other, and what was read
\* under them keeps.
Inv ==
    /\ DbInv /\ Places
    /\ \A w \in Worker : ReqTyped(w) /\ Fresh(w)
    /\ \A v, w \in Worker : v # w => Apart(v, w)

LEMMA InitInv == Init => Inv
<1> SUFFICES ASSUME Init PROVE Inv
  OBVIOUS
<1>1. DbTyped
  BY DEF Init, DbTyped, Tokens, NewRow, Row, Address, Password
<1>2. OneActiveToken
  BY DEF Init, OneActiveToken, Tokens
<1>3. \A w \in Worker : ReqTyped(w) /\ Fresh(w) /\ Held(w) = {} /\ HeldStudents(w) = {}
  BY DEF Init, ReqTyped, Fresh, Held, HeldStudents, OtherPc, ConfirmPc, SavePc, UserPc
<1>4. Places
  BY DEF Init, Places
<1>5. QED
  BY <1>1, <1>2, <1>3, <1>4 DEF Inv, DbInv, Apart

-----------------------------------------------------------------------------
(* A step of one request.                                                   *)

\* No token disappears or changes hands, and what others have locked is left.
LeavesLocked(v) ==
    /\ \A t \in Held(v) : token'[t] = token[t]
    /\ pc[v] = "write" => \A s \in HeldStudents(v) :
          row'[s].email = row[s].email /\ row'[s].active = row[s].active
TokensStay == Tokens \subseteq Tokens' /\ \A t \in Tokens : token'[t].student = token[t].student

LEMMA OthersKeep ==
    ASSUME Inv, NEW v \in Worker, pc'[v] = pc[v], req'[v] = req[v], TokensStay, LeavesLocked(v)
    PROVE  ReqTyped(v)' /\ Fresh(v)' /\ Held(v)' = Held(v) /\ HeldStudents(v)' = HeldStudents(v)
<1>1. ReqTyped(v) /\ Fresh(v)
  BY DEF Inv
<1>2. Held(v)' = Held(v)
  BY DEF Held
<1>3. HeldStudents(v)' = HeldStudents(v)
  <2>1. CASE pc[v] \in ConfirmPc
    BY <1>1, <2>1 DEF HeldStudents, ReqTyped, TokensStay
  <2>2. CASE pc[v] \notin ConfirmPc
    BY <2>2 DEF HeldStudents
  <2>3. QED
    BY <2>1, <2>2
<1>4. ReqTyped(v)'
  <2>1. pc[v] \in {"lock", "create"} => req[v] \in [student : Student, stale : SUBSET Tokens']
    BY <1>1 DEF ReqTyped, TokensStay
  <2>2. pc[v] \in ConfirmPc => req[v].token \in Tokens'
    BY <1>1 DEF ReqTyped, TokensStay
  <2>3. QED
    BY <1>1, <2>1, <2>2 DEF ReqTyped
<1>5. Fresh(v)'
  <2>1. CASE pc[v] = "create"
    <3>1. \A t \in req[v].stale : t \in Tokens' /\ token'[t] = token[t]
      BY <1>1, <2>1 DEF ReqTyped, TokensStay, LeavesLocked, Held, ConfirmPc
    <3>2. QED
      BY <1>1, <2>1, <3>1 DEF Fresh, ActiveTokens, Active
  <2>2. CASE pc[v] = "write"
    <3>1. token'[req[v].token] = token[req[v].token]
      BY <2>2 DEF LeavesLocked, Held, ConfirmPc
    <3>2. token[req[v].token].student \in HeldStudents(v)
      BY <2>2 DEF HeldStudents, ConfirmPc
    <3>3. QED
      BY <1>1, <2>2, <3>1, <3>2 DEF Fresh, Active, LeavesLocked
  <2>3. QED
    BY <2>1, <2>2 DEF Fresh
<1>6. QED
  BY <1>2, <1>3, <1>4, <1>5

LEMMA Moves ==
    ASSUME Places, NEW w \in Worker, NEW place, NEW r, Goto(w, place, r)
    PROVE  /\ pc'[w] = place /\ req'[w] = r /\ Places'
           /\ \A v \in Worker \ {w} : pc'[v] = pc[v] /\ req'[v] = req[v]
BY DEF Places, Goto

LEMMA StepKeeps ==
    ASSUME Inv, DbInv', NEW w \in Worker, NEW place, NEW r, Goto(w, place, r),
           TokensStay, \A v \in Worker \ {w} : LeavesLocked(v),
           ReqTyped(w)', Fresh(w)',
           \A v \in Worker \ {w} : Held(w)' \cap Held(v) = {}
                                   /\ HeldStudents(w)' \cap HeldStudents(v) = {}
    PROVE  Inv'
<1>1. Places' /\ \A v \in Worker \ {w} : pc'[v] = pc[v] /\ req'[v] = req[v]
  BY Moves DEF Inv
<1>2. \A v \in Worker \ {w} :
          ReqTyped(v)' /\ Fresh(v)' /\ Held(v)' = Held(v) /\ HeldStudents(v)' = HeldStudents(v)
  BY <1>1, OthersKeep
<1>3. ASSUME NEW u \in Worker, NEW v \in Worker, u # v PROVE Apart(u, v)'
  <2>1. CASE u # w /\ v # w
    BY <1>2, <1>3, <2>1 DEF Inv, Apart
  <2>2. CASE u = w
    BY <1>2, <1>3, <2>2 DEF Apart
  <2>3. CASE v = w
    BY <1>2, <1>3, <2>3 DEF Apart
  <2>4. QED
    BY <2>1, <2>2, <2>3
<1>4. QED
  BY <1>1, <1>2, <1>3 DEF Inv

LEMMA StillKeeps ==
    ASSUME Inv, DbInv', UNCHANGED <<pc, req>>, TokensStay, \A v \in Worker : LeavesLocked(v)
    PROVE  Inv'
<1>1. \A v \in Worker :
          ReqTyped(v)' /\ Fresh(v)' /\ Held(v)' = Held(v) /\ HeldStudents(v)' = HeldStudents(v)
  BY OthersKeep
<1>2. Places'
  BY DEF Inv, Places
<1>3. QED
  BY <1>1, <1>2 DEF Inv, Apart

LEMMA DbStays ==
    ASSUME Inv, UNCHANGED dbVars
    PROVE  DbInv' /\ TokensStay /\ \A v \in Worker : LeavesLocked(v)
<1>1. UNCHANGED <<row, elsewhere, token, expired>>
  BY DEF dbVars, tokenVars
<1>2. DbInv'
  BY <1>1 DEF Inv, DbInv, DbTyped, OneActiveToken, Tokens, Active
<1>3. QED
  BY <1>1, <1>2 DEF TokensStay, LeavesLocked, Tokens

\* A step that only reads, and after which the request holds no token.
LEMMA QuietStep ==
    ASSUME Inv, NEW w \in Worker, NEW place, NEW r, Goto(w, place, r), UNCHANGED dbVars,
           place \notin {"base", "write", "create"}, ReqTyped(w)'
    PROVE  Inv'
<1>1. pc'[w] = place
  BY Moves DEF Inv
<1>2. Fresh(w)' /\ Held(w)' = {} /\ HeldStudents(w)' = {}
  BY <1>1 DEF Fresh, Held, HeldStudents, ConfirmPc
<1>3. QED
  BY <1>2, DbStays, StepKeeps

LEMMA FinishTyped ==
    ASSUME Places, NEW w \in Worker, Finish(w)
    PROVE  ReqTyped(w)'
BY Moves DEF Finish, ReqTyped, OtherPc, ConfirmPc, SavePc, UserPc

LEMMA FinishStep ==
    ASSUME Inv, NEW w \in Worker, Finish(w), UNCHANGED dbVars
    PROVE  Inv'
BY FinishTyped, QuietStep DEF Finish, Inv
-----------------------------------------------------------------------------
(* Links are issued.                                                        *)

LEMMA IssueInv ==
    ASSUME Inv, NEW w \in Worker,
           \/ \E s \in Student : IssueRead(w, s)
           \/ IssueQuery(w) \/ IssueLock(w) \/ IssueConflict(w)
    PROVE  Inv'
<1>1. CASE \E s \in Student : IssueRead(w, s)
  <2>1. PICK s \in Student : Goto(w, "issue", [student |-> s]) /\ UNCHANGED dbVars
    BY <1>1 DEF IssueRead
  <2>2. ReqTyped(w)'
    BY <2>1, Moves DEF Inv, ReqTyped, IssuePc, ConfirmPc, SavePc, UserPc
  <2>3. QED
    BY <2>1, <2>2, QuietStep
<1>2. CASE IssueQuery(w)
  <2> DEFINE s == req[w].student
  <2>1. /\ pc[w] = "issue" /\ UNCHANGED dbVars
        /\ Goto(w, "lock", [student |-> s, stale |-> ActiveTokens(s)])
    BY <1>2 DEF IssueQuery
  <2>2. s \in Student /\ ActiveTokens(s) \in SUBSET Tokens
    BY <2>1 DEF Inv, ReqTyped, ActiveTokens
  <2>3. Tokens' = Tokens
    BY <2>1 DEF dbVars, tokenVars, Tokens
  <2>4. ReqTyped(w)'
    BY <2>1, <2>2, <2>3, Moves DEF Inv, ReqTyped, IssuePc, ConfirmPc, SavePc, UserPc
  <2>5. QED
    BY <2>1, <2>4, QuietStep
<1>3. CASE IssueLock(w)
  <2> DEFINE r == [student |-> req[w].student, stale |-> req[w].stale \cap ActiveTokens(req[w].student)]
  <2>1. req[w] \in [student : Student, stale : SUBSET Tokens]
    BY <1>3 DEF IssueLock, Inv, ReqTyped
  <2>2. /\ \A t \in req[w].stale : ~TokenLocked(t)
        /\ Goto(w, "create", r) /\ UNCHANGED dbVars
    BY <1>3, <2>1 DEF IssueLock
  <2>3. pc'[w] = "create" /\ req'[w] = r
    BY <2>2, Moves DEF Inv
  <2>4. UNCHANGED <<row, elsewhere, token, expired, Tokens>>
    BY <2>2 DEF dbVars, tokenVars, Tokens
  <2>5. ReqTyped(w)'
    BY <2>1, <2>3, <2>4 DEF ReqTyped, IssuePc, ConfirmPc, SavePc, UserPc
  <2>6. Fresh(w)'
    BY <2>3, <2>4 DEF Fresh, ActiveTokens, Active
  <2>7. Held(w)' \subseteq req[w].stale /\ HeldStudents(w)' = {}
    BY <2>3 DEF Held, HeldStudents, ConfirmPc
  <2>8. \A v \in Worker : req[w].stale \cap Held(v) = {}
    BY <2>2 DEF TokenLocked, Held
  <2>9. QED
    BY <2>2, <2>5, <2>6, <2>7, <2>8, DbStays, StepKeeps
<1>4. CASE IssueConflict(w)
  BY <1>4, FinishStep DEF IssueConflict
<1>5. QED
  BY <1>1, <1>2, <1>3, <1>4

\* The student's active links are all among those revoked, or the constraint
\* would have refused the new one.
LEMMA CreateInv ==
    ASSUME Inv, NEW w \in Worker, NEW t \in TokenId, IssueCreate(w, t)
    PROVE  Inv'
<1> DEFINE s == req[w].student
           stale == req[w].stale
           new == [student |-> s, state |-> "active"]
<1>1. /\ pc[w] = "create" /\ t \notin Tokens /\ ActiveTokens(s) \subseteq stale
      /\ token' = [x \in Tokens \cup {t} |->
                     IF x = t THEN new
                     ELSE IF x \in stale THEN [token[x] EXCEPT !.state = "revoked"]
                     ELSE token[x]]
      /\ Finish(w) /\ UNCHANGED <<row, elsewhere, expired>>
  BY DEF IssueCreate, UniqueConflict
<1>2. s \in Student /\ stale \subseteq ActiveTokens(s) /\ Held(w) = stale
  BY <1>1 DEF Inv, ReqTyped, Fresh, Held, ConfirmPc
<1>3. DbTyped /\ OneActiveToken
  BY DEF Inv, DbInv
<1>4. /\ Tokens' = Tokens \cup {t} /\ token'[t] = new
      /\ \A x \in Tokens \ stale : token'[x] = token[x]
      /\ \A x \in stale : token'[x].state = "revoked" /\ token'[x].student = token[x].student
                          /\ token'[x] \in Token
  BY <1>1, <1>2, <1>3 DEF Tokens, DbTyped, Token, ActiveTokens
<1>5. DbTyped'
  <2>1. new \in Token
    BY <1>2 DEF Token
  <2>2. token' \in [Tokens' -> Token]
    BY <1>1, <1>3, <1>4, <2>1 DEF DbTyped
  <2>3. QED
    BY <1>1, <1>3, <1>4, <2>2 DEF DbTyped
<1>6. OneActiveToken'
  <2>1. \A x \in Tokens' : Active(x)' => x = t \/ (x \in Tokens \ stale /\ Active(x))
    BY <1>4 DEF Active
  <2>2. \A x \in Tokens \ stale : Active(x) => token[x].student # s
    BY <1>1 DEF ActiveTokens
  <2>3. QED
    BY <1>3, <1>4, <2>1, <2>2 DEF OneActiveToken
<1>7. TokensStay
  BY <1>2, <1>4 DEF TokensStay
<1>8. ASSUME NEW v \in Worker \ {w} PROVE LeavesLocked(v)
  <2>1. Held(v) \cap stale = {}
    BY <1>2 DEF Inv, Apart
  <2>2. Held(v) \subseteq Tokens
    BY DEF Held, Inv, ReqTyped
  <2>3. QED
    BY <1>1, <1>4, <2>1, <2>2 DEF LeavesLocked
<1>9. pc'[w] = "idle"
  BY <1>1, Moves DEF Finish, Inv
<1>10. Fresh(w)' /\ Held(w)' = {} /\ HeldStudents(w)' = {}
  BY <1>9 DEF Fresh, Held, HeldStudents, ConfirmPc
<1>11. QED
  BY <1>1, <1>5, <1>6, <1>7, <1>8, <1>10, FinishTyped, StepKeeps DEF Inv, DbInv, Finish

-----------------------------------------------------------------------------
(* Links are followed.                                                      *)

LEMMA ConfirmInv ==
    ASSUME Inv, NEW w \in Worker,
           \/ \E t \in TokenId, e \in Email : ConfirmLock(w, t, e)
           \/ ConfirmCheck(w) \/ ConfirmConflict(w)
    PROVE  Inv'
<1>1. CASE \E t \in TokenId, e \in Email : ConfirmLock(w, t, e)
  <2>1. PICK t \in TokenId, e \in Email :
            /\ t \in Tokens /\ ~TokenLocked(t) /\ ~StudentLocked(token[t].student)
            /\ Goto(w, "base", [token |-> t, email |-> e]) /\ UNCHANGED dbVars
    BY <1>1 DEF ConfirmLock
  <2>2. pc'[w] = "base" /\ req'[w] = [token |-> t, email |-> e]
    BY <2>1, Moves DEF Inv
  <2>3. UNCHANGED <<token, Tokens>>
    BY <2>1 DEF dbVars, tokenVars, Tokens
  <2>4. ReqTyped(w)' /\ Fresh(w)'
    BY <2>1, <2>2, <2>3 DEF ReqTyped, Fresh, ConfirmPc, ConfirmRequest, SavePc, UserPc
  <2>5. Held(w)' = {t} /\ HeldStudents(w)' = {token[t].student}
    BY <2>2, <2>3 DEF Held, HeldStudents, ConfirmPc
  <2>6. \A v \in Worker : t \notin Held(v) /\ token[t].student \notin HeldStudents(v)
    BY <2>1 DEF TokenLocked, StudentLocked, Held, HeldStudents
  <2>7. QED
    BY <2>1, <2>4, <2>5, <2>6, DbStays, StepKeeps
<1>2. CASE ConfirmCheck(w)
  <2> DEFINE t == req[w].token
             s == token[t].student
  <2>1. CASE Goto(w, "write", req[w]) /\ pc[w] = "base" /\ UNCHANGED dbVars
             /\ Active(t) /\ row[s].active /\ row[s].email = NoEmail
    <3>1. pc'[w] = "write" /\ req'[w] = req[w]
      BY <2>1, Moves DEF Inv
    <3>2. UNCHANGED <<row, token, Tokens>>
      BY <2>1 DEF dbVars, tokenVars, Tokens
    <3>3. ReqTyped(w)' /\ Fresh(w)'
      BY <2>1, <3>1, <3>2 DEF Inv, ReqTyped, Fresh, Active, ConfirmPc, SavePc, UserPc
    <3>4. Held(w)' = Held(w) /\ HeldStudents(w)' = HeldStudents(w)
      BY <2>1, <3>1, <3>2 DEF Held, HeldStudents, ConfirmPc
    <3>5. \A v \in Worker \ {w} : Apart(w, v)
      BY DEF Inv
    <3>6. QED
      BY <2>1, <3>3, <3>4, <3>5, DbStays, StepKeeps DEF Apart
  <2>2. CASE Finish(w) /\ UNCHANGED dbVars
    BY <2>2, FinishStep
  <2>3. QED
    BY <1>2, <2>1, <2>2 DEF ConfirmCheck, IsActive
<1>3. CASE ConfirmConflict(w)
  BY <1>3, FinishStep DEF ConfirmConflict
<1>4. QED
  BY <1>1, <1>2, <1>3

LEMMA CommitInv ==
    ASSUME Inv, NEW w \in Worker, ConfirmCommit(w)
    PROVE  Inv'
<1> DEFINE t == req[w].token
           s == token[t].student
           new == [row[s] EXCEPT !.email = req[w].email]
<1>1. /\ pc[w] = "write" /\ ~EmailTaken(s, req[w].email)
      /\ row' = [row EXCEPT ![s].email = req[w].email]
      /\ token' = [token EXCEPT ![t].state = "used"]
      /\ Finish(w) /\ UNCHANGED <<elsewhere, expired>>
  BY DEF ConfirmCommit
<1>2. t \in Tokens /\ req[w].email \in Email /\ Held(w) = {t} /\ HeldStudents(w) = {s}
  BY <1>1 DEF Inv, ReqTyped, ConfirmPc, ConfirmRequest, Held, HeldStudents
<1>3. DbTyped /\ OneActiveToken
  BY DEF Inv, DbInv
<1>4. s \in Student /\ new \in Row /\ new.email = req[w].email /\ row' = [row EXCEPT ![s] = new]
  <2>1. s \in Student /\ row[s] \in Row
    BY <1>2, <1>3 DEF DbTyped, Token
  <2>2. new \in Row /\ new.email = req[w].email
    BY <1>2, <2>1 DEF Row, Address
  <2>3. QED
    BY <1>1, <2>1, <2>2
<1>5. /\ Tokens' = Tokens /\ token' \in [Tokens -> Token]
      /\ \A x \in Tokens \ {t} : token'[x] = token[x]
      /\ token'[t].state = "used" /\ token'[t].student = s
  BY <1>1, <1>2, <1>3 DEF DbTyped, Token, Tokens
<1>6. DbTyped'
  BY <1>1, <1>3, <1>4, <1>5 DEF DbTyped
<1>7. OneActiveToken'
  BY <1>3, <1>5 DEF OneActiveToken, Active
<1>8. TokensStay
  BY <1>5 DEF TokensStay
<1>9. ASSUME NEW v \in Worker \ {w} PROVE LeavesLocked(v)
  <2>1. Apart(v, w)
    BY DEF Inv
  <2>2. t \notin Held(v) /\ s \notin HeldStudents(v)
    BY <1>2, <2>1 DEF Apart
  <2>3. Held(v) \subseteq Tokens
    BY DEF Held, Inv, ReqTyped
  <2>4. \A x \in Student \ {s} : row'[x] = row[x]
    BY <1>3, <1>4 DEF DbTyped
  <2>5. HeldStudents(v) \subseteq Student
    BY <1>3 DEF HeldStudents, Inv, ReqTyped, DbTyped, Token
  <2>6. QED
    BY <1>5, <2>2, <2>3, <2>4, <2>5 DEF LeavesLocked
<1>10. pc'[w] = "idle"
  BY <1>1, Moves DEF Finish, Inv
<1>11. Fresh(w)' /\ Held(w)' = {} /\ HeldStudents(w)' = {}
  BY <1>10 DEF Fresh, Held, HeldStudents, ConfirmPc
<1>12. QED
  BY <1>1, <1>6, <1>7, <1>8, <1>9, <1>11, FinishTyped, StepKeeps DEF Inv, DbInv, Finish
-----------------------------------------------------------------------------
(* Rows are written.                                                        *)

\* One row is written; nobody has checked it and not yet committed, or what was
\* checked stays.
LEMMA RowStep ==
    ASSUME Inv, NEW s \in Student, NEW new \in Row,
           row' = [row EXCEPT ![s] = new], UNCHANGED <<elsewhere, tokenVars>>,
           \/ new.email = row[s].email /\ new.active = row[s].active
           \/ \A v \in Worker : pc[v] = "write" => s \notin HeldStudents(v)
    PROVE  DbInv' /\ TokensStay /\ \A v \in Worker : LeavesLocked(v)
<1>1. UNCHANGED <<token, expired, Tokens>>
  BY DEF tokenVars, Tokens
<1>2. DbTyped'
  BY <1>1 DEF Inv, DbInv, DbTyped
<1>3. OneActiveToken'
  BY <1>1 DEF Inv, DbInv, OneActiveToken, Active
<1>4. row'[s] = new /\ \A x \in Student \ {s} : row'[x] = row[x]
  BY DEF Inv, DbInv, DbTyped
<1>5. \A v \in Worker : HeldStudents(v) \subseteq Student
  BY DEF HeldStudents, Inv, ReqTyped, DbInv, DbTyped, Token
<1>6. \A v \in Worker : LeavesLocked(v)
  BY <1>1, <1>4, <1>5 DEF LeavesLocked
<1>7. QED
  BY <1>1, <1>2, <1>3, <1>6 DEF DbInv, TokensStay

LEMMA NotWriting ==
    ASSUME Inv, NEW s, ~BaseLocked(s) \/ ~StudentLocked(s)
    PROVE  \A v \in Worker : pc[v] = "write" => s \notin HeldStudents(v)
BY DEF BaseLocked, StudentLocked, HeldStudents, ConfirmPc

LEMMA RowOf ==
    ASSUME Inv, NEW s \in Student
    PROVE  row[s] \in Row
BY DEF Inv, DbInv, DbTyped

LEMMA RowAndGo ==
    ASSUME Inv, NEW w \in Worker, NEW place, NEW r, Goto(w, place, r),
           place \notin {"base", "write", "create"}, ReqTyped(w)',
           NEW s \in Student, NEW new \in Row,
           row' = [row EXCEPT ![s] = new], UNCHANGED <<elsewhere, tokenVars>>,
           \/ new.email = row[s].email /\ new.active = row[s].active
           \/ \A v \in Worker : pc[v] = "write" => s \notin HeldStudents(v)
    PROVE  Inv'
<1>1. pc'[w] = place
  BY Moves DEF Inv
<1>2. Fresh(w)' /\ Held(w)' = {} /\ HeldStudents(w)' = {}
  BY <1>1 DEF Fresh, Held, HeldStudents, ConfirmPc
<1>3. QED
  BY <1>2, RowStep, StepKeeps

-----------------------------------------------------------------------------
(* The forms of the staff, reactivation, and names.                         *)

LEMMA StaffInv ==
    ASSUME Inv, NEW w \in Worker,
           \/ \E s \in Student : StaffOpen(w, s) \/ ReactivateRead(w, s) \/ NameRead(w, s)
           \/ \E e \in Address, named \in BOOLEAN, view \in {"edit", "reset"} \cap Requests :
                  StaffPost(w, e, named, view)
           \/ SaveBase(w)
    PROVE  Inv'
<1>1. CASE \E s \in Student : StaffOpen(w, s)
  <2>1. PICK s \in Student :
            /\ Goto(w, "page", [student |-> s, shown |-> row[s].email, named |-> row[s].named])
            /\ UNCHANGED dbVars
    BY <1>1 DEF StaffOpen
  <2>2. row[s].email \in Address /\ row[s].named \in BOOLEAN
    BY RowOf DEF Row
  <2>3. ReqTyped(w)'
    BY <2>1, <2>2, Moves DEF Inv, ReqTyped, OtherPc, ConfirmPc, SavePc, UserPc, PageRequest
  <2>4. QED
    BY <2>1, <2>3, QuietStep
<1>2. CASE \E s \in Student : ReactivateRead(w, s)
  <2>1. PICK s \in Student :
            /\ Goto(w, "save_base", [student |-> s, view |-> "reactivate",
                                     new |-> [row[s] EXCEPT !.active = TRUE]])
            /\ UNCHANGED dbVars
    BY <1>2 DEF ReactivateRead
  <2>2. [row[s] EXCEPT !.active = TRUE] \in Row
    BY RowOf DEF Row
  <2>3. ReqTyped(w)'
    <3> DEFINE new == [row[s] EXCEPT !.active = TRUE]
               r == [student |-> s, view |-> "reactivate", new |-> new]
    <3>1. new \in Row
      BY <2>2
    <3>2. r \in SaveRequest
      <4> HIDE DEF new
      <4>1. QED
        BY <3>1 DEF SaveRequest
    <3>3. pc'[w] = "save_base" /\ req'[w] = r
      BY <2>1, Moves DEF Inv
    <3>4. QED
      BY <3>2, <3>3 DEF ReqTyped, ConfirmPc, SavePc, UserPc
  <2>4. QED
    BY <2>1, <2>3, QuietStep
<1>3. CASE \E s \in Student : NameRead(w, s)
  <2>1. PICK s \in Student :
            /\ Goto(w, "name", [student |-> s, password |-> row[s].password])
            /\ UNCHANGED dbVars
    BY <1>3 DEF NameRead
  <2>2. row[s].password \in Password
    BY RowOf DEF Row
  <2>3. ReqTyped(w)'
    BY <2>1, <2>2, Moves DEF Inv, ReqTyped, OtherPc, ConfirmPc, SavePc, UserPc
  <2>4. QED
    BY <2>1, <2>3, QuietStep
<1>4. CASE \E e \in Address, named \in BOOLEAN, view \in {"edit", "reset"} \cap Requests :
               StaffPost(w, e, named, view)
  <2>1. PICK e \in Address, named \in BOOLEAN, view \in {"edit", "reset"} :
            StaffPost(w, e, named, view)
    BY <1>4
  <2> DEFINE s == req[w].student
             r == [student |-> s, view |-> view,
                   new |-> [row[s] EXCEPT !.email = e, !.named = named]]
  <2>2. s \in Student
    BY <2>1 DEF StaffPost, Inv, ReqTyped, PageRequest
  <2>3. r \in SaveRequest
    <3>1. [row[s] EXCEPT !.email = e, !.named = named] \in Row
      BY <2>2, RowOf DEF Row
    <3>2. QED
      BY <2>2, <3>1 DEF SaveRequest
  <2>4. CASE Goto(w, "save_base", r) /\ UNCHANGED dbVars
    <3>1. ReqTyped(w)'
      BY <2>3, <2>4, Moves DEF Inv, ReqTyped, ConfirmPc, SavePc, UserPc
    <3>2. QED
      BY <2>4, <3>1, QuietStep
  <2>5. CASE Finish(w) /\ UNCHANGED dbVars
    BY <2>5, FinishStep
  <2>6. QED
    BY <2>1, <2>4, <2>5 DEF StaffPost
<1>5. CASE SaveBase(w)
  <2>1. CASE Goto(w, "save_student", req[w]) /\ pc[w] = "save_base" /\ UNCHANGED dbVars
    <3>1. ReqTyped(w)'
      BY <2>1, Moves DEF Inv, ReqTyped, ConfirmPc, SavePc, UserPc
    <3>2. QED
      BY <2>1, <3>1, QuietStep
  <2>2. CASE Finish(w) /\ UNCHANGED dbVars
    BY <2>2, FinishStep
  <2>3. QED
    BY <1>5, <2>1, <2>2 DEF SaveBase
<1>6. QED
  BY <1>1, <1>2, <1>3, <1>4, <1>5

LEMMA ResetTyped ==
    ASSUME Inv, NEW w \in Worker, NEW s \in Student, Goto(w, "reset", [student |-> s])
    PROVE  ReqTyped(w)'
BY Moves DEF Inv, ReqTyped, OtherPc, ConfirmPc, SavePc, UserPc

LEMMA SaveInv ==
    ASSUME Inv, NEW w \in Worker, SaveStudent(w) \/ SetDefaultPassword(w) \/ NameSave(w)
    PROVE  Inv'
<1> DEFINE s == req[w].student
<1>1. CASE SaveStudent(w)
  <2>1. pc[w] = "save_student" /\ ~StudentLocked(s) /\ UNCHANGED <<elsewhere, tokenVars>>
    BY <1>1 DEF SaveStudent
  <2>2. s \in Student /\ req[w].new \in Row
    BY <2>1 DEF Inv, ReqTyped, SavePc, SaveRequest
  <2>3. CASE Finish(w) /\ UNCHANGED row
    BY <2>1, <2>3, FinishStep DEF dbVars
  <2>4. CASE /\ row' = [row EXCEPT ![s] = req[w].new]
             /\ Goto(w, "reset", [student |-> s])
    <3>1. ReqTyped(w)'
      BY <2>2, <2>4, ResetTyped
    <3>2. \A v \in Worker : pc[v] = "write" => s \notin HeldStudents(v)
      BY <2>1, NotWriting
    <3>3. SUFFICES ASSUME NEW r, r = [student |-> s] PROVE Inv'
      OBVIOUS
    <3>4. Goto(w, "reset", r)
      BY <2>4, <3>3
    <3>5. QED
      BY <2>1, <2>2, <2>4, <3>1, <3>2, <3>4, RowAndGo
  <2>5. CASE row' = [row EXCEPT ![s] = req[w].new] /\ Finish(w)
    BY <2>1, <2>2, <2>5, FinishTyped, NotWriting, RowAndGo DEF Finish, Inv
  <2>6. QED
    BY <1>1, <2>3, <2>4, <2>5 DEF SaveStudent
<1>2. CASE SetDefaultPassword(w)
  <2> DEFINE new == [row[s] EXCEPT !.password = "default", !.first = TRUE]
  <2>1. /\ pc[w] = "reset" /\ Finish(w) /\ UNCHANGED <<elsewhere, tokenVars>>
        /\ row' = [row EXCEPT ![s].password = "default", ![s].first = TRUE]
    BY <1>2 DEF SetDefaultPassword
  <2>2. s \in Student
    BY <2>1 DEF Inv, ReqTyped
  <2>3. new \in Row /\ new.email = row[s].email /\ new.active = row[s].active
    BY <2>2, RowOf DEF Row, Password
  <2>4. row' = [row EXCEPT ![s] = new]
    BY <2>1, <2>2 DEF Inv, DbInv, DbTyped
  <2>5. QED
    BY <2>1, <2>2, <2>3, <2>4, FinishTyped, RowAndGo DEF Finish, Inv
<1>3. CASE NameSave(w)
  <2> DEFINE new == [row[s] EXCEPT !.named = TRUE]
  <2>1. /\ pc[w] = "name" /\ UNCHANGED <<elsewhere, tokenVars>>
        /\ row' = [row EXCEPT ![s] = new]
        /\ Goto(w, "reset", [student |-> s]) \/ Finish(w)
    BY <1>3 DEF NameSave
  <2>2. s \in Student
    BY <2>1 DEF Inv, ReqTyped
  <2>3. new \in Row /\ new.email = row[s].email /\ new.active = row[s].active
    BY <2>2, RowOf DEF Row
  <2>4. CASE Finish(w)
    BY <2>1, <2>2, <2>3, <2>4, FinishTyped, RowAndGo DEF Finish, Inv
  <2>5. CASE Goto(w, "reset", [student |-> s])
    <3>1. ReqTyped(w)'
      BY <2>2, <2>5, ResetTyped
    <3>2. SUFFICES ASSUME NEW r, r = [student |-> s] PROVE Inv'
      OBVIOUS
    <3>3. Goto(w, "reset", r)
      BY <2>5, <3>2
    <3>4. QED
      BY <2>1, <2>2, <2>3, <3>1, <3>3, RowAndGo
  <2>6. QED
    BY <2>1, <2>4, <2>5
<1>4. QED
  BY <1>1, <1>2, <1>3

-----------------------------------------------------------------------------
(* The student's own form.                                                  *)

LEMMA AccountInv ==
    ASSUME Inv, NEW w \in Worker,
           \/ \E s \in Student : AccountOpen(w, s)
           \/ \E e \in Address, change \in BOOLEAN : AccountPost(w, e, change)
           \/ AccountRefused(w) \/ AccountReread(w) \/ AccountSave(w)
    PROVE  Inv'
<1> DEFINE s == req[w].student
<1>1. CASE \E x \in Student : AccountOpen(w, x)
  <2>1. PICK x \in Student :
            /\ Goto(w, "account", [student |-> x, shown |-> row[x].email,
                                   password |-> row[x].password])
            /\ UNCHANGED dbVars
    BY <1>1 DEF AccountOpen
  <2>2. row[x].email \in Address /\ row[x].password \in Password
    BY RowOf DEF Row
  <2>3. ReqTyped(w)'
    BY <2>1, <2>2, Moves DEF Inv, ReqTyped, OtherPc, ConfirmPc, SavePc, UserPc, AccountRequest
  <2>4. QED
    BY <2>1, <2>3, QuietStep
<1>2. CASE \E e \in Address, change \in BOOLEAN : AccountPost(w, e, change)
  <2>1. PICK e \in Address, change \in BOOLEAN : AccountPost(w, e, change)
    BY <1>2
  <2> DEFINE changed == [row[s] EXCEPT !.email = e, !.password = "own", !.first = FALSE]
             same == [row[s] EXCEPT !.email = e]
  <2>2. s \in Student
    BY <2>1 DEF AccountPost, Inv, ReqTyped, AccountRequest
  <2>3. changed \in Row /\ same \in Row
    BY <2>2, RowOf DEF Row, Password
  <2>4. CASE Goto(w, "save_user", [student |-> s, new |-> changed]) /\ UNCHANGED dbVars
    <3>1. ReqTyped(w)'
      BY <2>2, <2>3, <2>4, Moves DEF Inv, ReqTyped, ConfirmPc, SavePc, UserPc, UserRequest
    <3>2. QED
      BY <2>4, <3>1, QuietStep
  <2>5. CASE Goto(w, "reread", [student |-> s, new |-> same]) /\ UNCHANGED dbVars
    <3>1. ReqTyped(w)'
      BY <2>2, <2>3, <2>5, Moves DEF Inv, ReqTyped, ConfirmPc, SavePc, UserPc, UserRequest
    <3>2. QED
      BY <2>5, <3>1, QuietStep
  <2>6. QED
    BY <2>1, <2>4, <2>5 DEF AccountPost
<1>3. CASE AccountRefused(w)
  BY <1>3, FinishStep DEF AccountRefused
<1>4. CASE AccountReread(w)
  <2> DEFINE r == [req[w] EXCEPT !.new.password = row[s].password]
  <2>1. pc[w] = "reread" /\ Goto(w, "save_user", r) /\ UNCHANGED dbVars
    BY <1>4 DEF AccountReread
  <2>2. s \in Student /\ req[w] \in UserRequest
    BY <2>1 DEF Inv, ReqTyped, UserPc, UserRequest
  <2>3. r \in UserRequest
    BY <2>2, RowOf DEF UserRequest, Row
  <2>4. ReqTyped(w)'
    BY <2>1, <2>3, Moves DEF Inv, ReqTyped, ConfirmPc, SavePc, UserPc
  <2>5. QED
    BY <2>1, <2>4, QuietStep
<1>5. CASE AccountSave(w)
  <2>1. /\ pc[w] = "save_user" /\ ~BaseLocked(s) /\ Finish(w) /\ UNCHANGED <<elsewhere, tokenVars>>
        /\ row' = IF EmailTaken(s, req[w].new.email) THEN row ELSE [row EXCEPT ![s] = req[w].new]
    BY <1>5 DEF AccountSave
  <2>2. s \in Student /\ req[w].new \in Row
    BY <2>1 DEF Inv, ReqTyped, UserPc, UserRequest
  <2>3. CASE EmailTaken(s, req[w].new.email)
    BY <2>1, <2>3, FinishStep DEF dbVars
  <2>4. CASE ~EmailTaken(s, req[w].new.email)
    BY <2>1, <2>2, <2>4, FinishTyped, NotWriting, RowAndGo DEF Finish, Inv
  <2>5. QED
    BY <2>3, <2>4
<1>6. QED
  BY <1>1, <1>2, <1>3, <1>4, <1>5

LEMMA RestInv ==
    ASSUME Inv,
           \/ \E s \in Student : Deactivate(s)
           \/ \E e \in Email : OtherAccount(e)
           \/ \E t \in TokenId : Expire(t)
    PROVE  Inv'
<1>1. CASE \E s \in Student : Deactivate(s)
  <2>1. PICK s \in Student :
            /\ ~BaseLocked(s) /\ row' = [row EXCEPT ![s].active = FALSE]
            /\ UNCHANGED <<elsewhere, tokenVars, pc, req>>
    BY <1>1 DEF Deactivate
  <2> DEFINE new == [row[s] EXCEPT !.active = FALSE]
  <2>2. new \in Row /\ new.email = row[s].email
    BY RowOf DEF Row
  <2>3. QED
    BY <2>1, <2>2, NotWriting, RowStep, StillKeeps
<1>2. CASE \E e \in Email : OtherAccount(e)
  <2>1. PICK e \in Email :
            /\ \A s \in Student : row[s].email # e
            /\ elsewhere' = elsewhere \cup {e} /\ UNCHANGED <<row, tokenVars, pc, req>>
    BY <1>2 DEF OtherAccount
  <2>2. UNCHANGED <<token, expired, Tokens>>
    BY <2>1 DEF tokenVars, Tokens
  <2>3. DbInv'
    BY <2>1, <2>2 DEF Inv, DbInv, DbTyped, OneActiveToken, Active
  <2>4. QED
    BY <2>1, <2>2, <2>3, StillKeeps DEF TokensStay, LeavesLocked
<1>3. CASE \E t \in TokenId : Expire(t)
  <2>1. /\ expired' \subseteq Tokens
        /\ UNCHANGED <<row, elsewhere, token, pc, req, Tokens>>
    BY <1>3 DEF Expire, Inv, DbInv, DbTyped, Tokens
  <2>2. DbInv'
    BY <2>1 DEF Inv, DbInv, DbTyped, OneActiveToken, Active
  <2>3. QED
    BY <2>1, <2>2, StillKeeps DEF TokensStay, LeavesLocked
<1>4. QED
  BY <1>1, <1>2, <1>3

LEMMA StepInv == Inv /\ [Next]_vars => Inv'
<1> SUFFICES ASSUME Inv, [Next]_vars PROVE Inv'
  OBVIOUS
<1>1. CASE UNCHANGED vars
  BY <1>1, DbStays, StillKeeps DEF vars
<1>2. ASSUME NEW w \in Worker, Step(w) PROVE Inv'
  <2>1. CASE IssueQuery(w) \/ IssueLock(w) \/ IssueConflict(w)
    BY <2>1, IssueInv
  <2>2. CASE \E t \in TokenId : IssueCreate(w, t)
    BY <2>2, CreateInv
  <2>3. CASE ConfirmCheck(w) \/ ConfirmConflict(w)
    BY <2>3, ConfirmInv
  <2>4. CASE ConfirmCommit(w)
    BY <2>4, CommitInv
  <2>5. CASE SaveBase(w)
    BY <2>5, StaffInv
  <2>6. CASE SaveStudent(w) \/ SetDefaultPassword(w) \/ NameSave(w)
    BY <2>6, SaveInv
  <2>7. CASE AccountReread(w) \/ AccountSave(w)
    BY <2>7, AccountInv
  <2>8. CASE BreakDeadlock(w)
    BY <2>8, FinishStep DEF BreakDeadlock
  <2>9. QED
    BY <1>2, <2>1, <2>2, <2>3, <2>4, <2>5, <2>6, <2>7, <2>8 DEF Step
<1>3. ASSUME NEW w \in Worker, Crash(w) PROVE Inv'
  BY <1>3, FinishStep DEF Crash
<1>4. CASE Next
  BY <1>2, <1>3, <1>4, IssueInv, ConfirmInv, StaffInv, AccountInv, RestInv DEF Next
<1>5. QED
  BY <1>1, <1>4

\* The inductive invariant holds in every state.
THEOREM InvAlways == Spec => []Inv
<1>1. QED
  BY InitInv, StepInv, PTL DEF Spec

-----------------------------------------------------------------------------
(* What follows.                                                            *)

\* Rows, links and the local variables of every request keep their types: in
\* particular no save writes back a copy that another handler left malformed.
THEOREM TypeCorrect == Spec => []TypeOK
<1>1. Inv => TypeOK
  BY DEF Inv, DbInv, DbTyped, Places, ReqTyped, TypeOK
<1>2. QED
  BY <1>1, InvAlways, PTL

\* issue_email_registration_token: however requests to issue a link and
\* registrations overlap, a student has at most one link that is active.
THEOREM OneActiveTokenAlways == Spec => []OneActiveToken
<1>1. Inv => OneActiveToken
  BY DEF Inv, DbInv
<1>2. QED
  BY <1>1, InvAlways, PTL

\* Only these two steps write the table of links.
LEMMA TokenWriters ==
    ASSUME [Next]_vars
    PROVE  \/ UNCHANGED token
           \/ \E w \in Worker : ConfirmCommit(w)
           \/ \E w \in Worker, t \in TokenId : IssueCreate(w, t)
<1>1. CASE UNCHANGED vars
  BY <1>1 DEF vars, dbVars, tokenVars
<1>2. ASSUME NEW w \in Worker, Step(w)
      PROVE  UNCHANGED token \/ ConfirmCommit(w) \/ \E t \in TokenId : IssueCreate(w, t)
  BY <1>2 DEF Step, IssueQuery, IssueLock, IssueConflict, ConfirmCheck, ConfirmConflict, SaveBase,
              SaveStudent, SetDefaultPassword, NameSave, AccountReread, AccountSave,
              BreakDeadlock, dbVars, tokenVars
<1>3. ASSUME NEW w \in Worker, NEW s \in Student,
             \/ IssueRead(w, s) \/ StaffOpen(w, s) \/ ReactivateRead(w, s)
             \/ NameRead(w, s) \/ AccountOpen(w, s)
      PROVE  UNCHANGED token
  BY <1>3 DEF IssueRead, StaffOpen, ReactivateRead, NameRead, AccountOpen, dbVars, tokenVars
<1>4. ASSUME NEW w \in Worker,
             \/ \E t \in TokenId, e \in Email : ConfirmLock(w, t, e)
             \/ \E e \in Address, named \in BOOLEAN, view \in {"edit", "reset"} \cap Requests :
                   StaffPost(w, e, named, view)
             \/ \E e \in Address, change \in BOOLEAN : AccountPost(w, e, change)
             \/ AccountRefused(w) \/ Crash(w)
      PROVE  UNCHANGED token
  BY <1>4 DEF ConfirmLock, StaffPost, AccountPost, AccountRefused, Crash, dbVars, tokenVars
<1>5. CASE \/ \E s \in Student : Deactivate(s)
           \/ \E e \in Email : OtherAccount(e)
           \/ \E t \in TokenId : Expire(t)
  BY <1>5 DEF Deactivate, OtherAccount, Expire, tokenVars
<1>6. CASE Next
  BY <1>2, <1>3, <1>4, <1>5, <1>6 DEF Next
<1>7. QED
  BY <1>1, <1>6

LEMMA CommitMeans ==
    ASSUME Inv, NEW w \in Worker, ConfirmCommit(w)
    PROVE  LET t == req[w].token
               s == token[t].student
           IN  /\ t \in Tokens /\ s \in Student /\ Active(t) /\ Tokens' = Tokens
               /\ row[s].active /\ row[s].email = NoEmail
               /\ row'[s].email \in Email \ (elsewhere \cup {row[x].email : x \in Student \ {s}})
               /\ \A x \in Student \ {s} : row'[x] = row[x]
               /\ \A u \in Tokens \ {t} : token'[u] = token[u]
               /\ token'[t].student = s
<1> DEFINE t == req[w].token
           s == token[t].student
<1>1. /\ pc[w] = "write" /\ ~EmailTaken(s, req[w].email)
      /\ row' = [row EXCEPT ![s].email = req[w].email]
      /\ token' = [token EXCEPT ![t].state = "used"]
  BY DEF ConfirmCommit
<1>2. t \in Tokens /\ req[w].email \in Email /\ req[w].email # NoEmail
  BY <1>1, EmailAssumption DEF Inv, ReqTyped, ConfirmPc, ConfirmRequest
<1>3. Active(t) /\ row[s].active /\ row[s].email = NoEmail
  BY <1>1 DEF Inv, Fresh
<1>4. row \in [Student -> Row] /\ token \in [Tokens -> Token]
  BY DEF Inv, DbInv, DbTyped
<1>5. s \in Student /\ row[s] \in Row /\ token[t] \in Token
  BY <1>2, <1>4 DEF Token
<1>6. row'[s].email = req[w].email /\ \A x \in Student \ {s} : row'[x] = row[x]
  BY <1>1, <1>4, <1>5 DEF Row
<1>7. req[w].email \notin elsewhere \cup {row[x].email : x \in Student \ {s}}
  BY <1>1, <1>2 DEF EmailTaken
<1>8. /\ \A u \in Tokens \ {t} : token'[u] = token[u]
      /\ token'[t].student = s /\ Tokens' = Tokens
  BY <1>1, <1>2, <1>4, <1>5 DEF Token, Tokens
<1>9. QED
  BY <1>2, <1>3, <1>5, <1>6, <1>7, <1>8

LEMMA CreateMeans ==
    ASSUME Inv, NEW w \in Worker, NEW t \in TokenId, IssueCreate(w, t)
    PROVE  /\ Tokens \subseteq Tokens'
           /\ \A u \in Tokens : ~Active(u) => token'[u] = token[u]
           /\ \A u \in Tokens : token'[u].student = token[u].student
           /\ \A u \in Tokens : token'[u].state = "used" => token[u].state = "used"
<1> DEFINE stale == req[w].stale
<1>1. /\ pc[w] = "create" /\ t \notin Tokens
      /\ token' = [x \in Tokens \cup {t} |->
                     IF x = t THEN [student |-> req[w].student, state |-> "active"]
                     ELSE IF x \in stale THEN [token[x] EXCEPT !.state = "revoked"]
                     ELSE token[x]]
  BY DEF IssueCreate
<1>2. stale \subseteq ActiveTokens(req[w].student)
  BY <1>1 DEF Inv, Fresh
<1>3. token \in [Tokens -> Token] /\ Tokens' = Tokens \cup {t}
  BY <1>1 DEF Inv, DbInv, DbTyped, Tokens
<1>4. \A u \in Tokens \ stale : token'[u] = token[u]
  BY <1>1
<1>5. \A u \in stale : Active(u) /\ token'[u].state = "revoked" /\ token'[u].student = token[u].student
  BY <1>1, <1>2, <1>3 DEF ActiveTokens, Token
<1>6. QED
  BY <1>3, <1>4, <1>5

\* StudentEmailRegistrationToken: a link that was used or revoked is never
\* written again, and no link disappears or passes to another student.
THEOREM TokenHistoryAlways == Spec => TokenHistory
<1> DEFINE Kept == \A t \in Tokens : /\ t \in Tokens'
                                     /\ ~Active(t) => token'[t] = token[t]
                                     /\ token'[t].student = token[t].student
<1>1. Inv /\ [Next]_vars => [Kept]_vars
  <2> SUFFICES ASSUME Inv, [Next]_vars PROVE Kept
    OBVIOUS
  <2>1. CASE UNCHANGED token
    BY <2>1 DEF Tokens
  <2>2. CASE \E w \in Worker : ConfirmCommit(w)
    BY <2>2, CommitMeans
  <2>3. CASE \E w \in Worker, t \in TokenId : IssueCreate(w, t)
    BY <2>3, CreateMeans
  <2>4. QED
    BY <2>1, <2>2, <2>3, TokenWriters
<1>2. QED
  BY <1>1, InvAlways, PTL DEF Spec, TokenHistory

\* confirm_email_registration: what was checked under the locks still holds at
\* the commit, so that a link is used up only while it is active, for an active
\* student without an address, and only that student gets one, which nobody has.
THEOREM RegistrationSoundAlways == Spec => RegistrationSound
<1> DEFINE Sound == \A t \in Tokens :
                       token'[t].state = "used" /\ token[t].state # "used" =>
                          LET s == token[t].student IN
                          /\ Active(t)
                          /\ row[s].active
                          /\ row[s].email = NoEmail
                          /\ row'[s].email \in Email \ (elsewhere \cup {row[x].email : x \in Student \ {s}})
                          /\ \A x \in Student \ {s} : row'[x] = row[x]
<1>1. Inv /\ [Next]_vars => [Sound]_vars
  <2> SUFFICES ASSUME Inv, [Next]_vars PROVE Sound
    OBVIOUS
  <2>1. CASE UNCHANGED token
    BY <2>1
  <2>2. CASE \E w \in Worker : ConfirmCommit(w)
    BY <2>2, CommitMeans
  <2>3. CASE \E w \in Worker, t \in TokenId : IssueCreate(w, t)
    BY <2>3, CreateMeans
  <2>4. QED
    BY <2>1, <2>2, <2>3, TokenWriters
<1>2. QED
  BY <1>1, InvAlways, PTL DEF Spec, RegistrationSound
=============================================================================
