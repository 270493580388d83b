-------------------------- MODULE StudentAccounts --------------------------
(***************************************************************************)
(* The account of a student and everything that writes it: the e-mail      *)
(* registration through a link sent over LINE                              *)
(* (accounts/services/student_email_registration.py), the name             *)
(* registration, the edit forms of the staff, deactivation and             *)
(* reactivation, the student's own account form.                           *)
(*                                                                         *)
(* A worker serves one request; an action is one statement, or several     *)
(* nothing can come between.  Writes are applied when the transaction      *)
(* commits and row locks are read off the program counters.  A Student is  *)
(* two rows (multi-table inheritance): a full save() updates the BaseUser  *)
(* row and then the Student row, while the registration locks them in the  *)
(* opposite order, so PostgreSQL may have to break a deadlock.  All columns *)
(* modelled are of the BaseUser row.  The students are of one organization.*)
(***************************************************************************)
EXTENDS Integers, FiniteSets

CONSTANTS
    Worker,    \* the request handlers of the web server
    Student,   \* students, each known by the LINE account that wrote first
    Email,     \* normalised e-mail addresses
    TokenId,   \* registration links; bound: no more than these are issued
    Requests   \* bound: the kinds of request that are made in this instance

NoEmail == "no address"    \* SQL NULL

AllRequests == {"issue", "confirm", "edit", "reset", "deactivate", "reactivate", "name", "account"}

ASSUME EmailAssumption == NoEmail \notin Email
ASSUME RequestsAssumption == Requests \subseteq AllRequests

VARIABLES
    row,        \* the BaseUser row of each student
    elsewhere,  \* addresses of all other accounts
    token,      \* the StudentEmailRegistrationToken table: a function on the ids in use
    expired,    \* the tokens whose 15 minutes are over
    pc,         \* where each worker is
    req         \* the local variables of its request

tokenVars == <<token, expired>>
dbVars    == <<row, elsewhere, tokenVars>>
vars      == <<dbVars, pc, req>>

Address == Email \cup {NoEmail}

\* What the hash in the password column is of: "none" is the empty string a
\* new row has there, "default" the password all students start with.
Password == {"none", "default", "own"}

Row == [ email    : Address,
         active   : BOOLEAN,
         password : Password,
         first    : BOOLEAN,     \* is_first_login
         named    : BOOLEAN ]    \* username is set

Token == [ student : Student,
           state   : {"active", "used", "revoked"} ]   \* used_at, revoked_at

IssuePc   == {"issue", "lock", "create"}
ConfirmPc == {"base", "write"}
SavePc    == {"save_base", "save_student"}
UserPc    == {"reread", "save_user"}
OtherPc   == {"idle", "page", "account", "name", "reset"}

Tokens == DOMAIN token

Active(t) == token[t].state = "active"

\* StudentEmailRegistrationToken.is_active
IsActive(t) == Active(t) /\ t \notin expired

\* Somebody other than s has the address: BaseUser.email is unique.
EmailTaken(s, e) ==
    /\ e # NoEmail
    /\ e \in elsewhere \cup {row[x].email : x \in Student \ {s}}

-----------------------------------------------------------------------------
(* Row locks *)

TokenLocked(t) ==
    \E w \in Worker : \/ pc[w] \in ConfirmPc /\ req[w].token = t
                      \/ pc[w] = "create" /\ t \in req[w].stale

StudentLocked(s) ==
    \E w \in Worker : pc[w] \in ConfirmPc /\ token[req[w].token].student = s

BaseLocked(s) ==
    \E w \in Worker : \/ pc[w] = "write" /\ token[req[w].token].student = s
                      \/ pc[w] = "save_student" /\ req[w].student = s

\* The registration locks the one organization row as well.
OrgLocked == \E w \in Worker : pc[w] = "write"

-----------------------------------------------------------------------------
NoRequest == [idle |-> TRUE]

Goto(w, where, r) ==
    /\ pc' = [pc EXCEPT ![w] = where]
    /\ req' = [req EXCEPT ![w] = r]

Finish(w) == Goto(w, "idle", NoRequest)

\* A student has just written to the LINE account for the first time.
NewRow == [email |-> NoEmail, active |-> TRUE, password |-> "none",
           first |-> TRUE, named |-> FALSE]

Init ==
    /\ row = [s \in Student |-> NewRow]
    /\ elsewhere = {}
    /\ token = [t \in {} |-> {}]
    /\ expired = {}
    /\ pc = [w \in Worker |-> "idle"]
    /\ req = [w \in Worker |-> NoRequest]

-----------------------------------------------------------------------------
(* Issuing a registration link *)

\* Bound: an id is left for the request that starts now.
IdLeft ==
    Cardinality(Tokens) + Cardinality({w \in Worker : pc[w] \in IssuePc}) < Cardinality(TokenId)

\* maybe_build_email_registration_response: the student writes the command.
IssueRead(w, s) ==
    /\ pc[w] = "idle" /\ "issue" \in Requests
    /\ IdLeft
    /\ row[s].active /\ row[s].named /\ row[s].email = NoEmail
    /\ Goto(w, "issue", [student |-> s])
    /\ UNCHANGED dbVars

ActiveTokens(s) == {t \in Tokens : token[t].student = s /\ Active(t)}

\* SELECT ... FOR UPDATE of the student's active tokens, expired or not: the
\* rows there are when the statement begins ...
IssueQuery(w) ==
    LET s == req[w].student IN
    /\ pc[w] = "issue"
    /\ Goto(w, "lock", [student |-> s, stale |-> ActiveTokens(s)])
    /\ UNCHANGED dbVars

\* mutant (TokenHistory): no row lock, the links are revoked as they were read.
IssueLockStale(w) ==
    /\ pc[w] = "lock"
    /\ Goto(w, "create", req[w])
    /\ UNCHANGED dbVars

\* ... of which it waits for the locked ones, and drops those resolved meanwhile.
IssueLock(w) ==
    LET r == req[w] IN
    /\ pc[w] = "lock"
    /\ \A t \in r.stale : ~TokenLocked(t)
    /\ Goto(w, "create", [r EXCEPT !.stale = @ \cap ActiveTokens(r.student)])
    /\ UNCHANGED dbVars

\* mutant (OneActiveToken): the migration without the constraint.
NoConstraint(s, revoked) == FALSE

\* uq_active_student_email_registration_token_per_student
UniqueConflict(s, revoked) == ActiveTokens(s) \ revoked # {}

\* They are revoked, the new one is created (a reference to the student and
\* the organization: their rows must not be locked), and all is committed.
IssueCreate(w, t) ==
    LET r == req[w] IN
    /\ pc[w] = "create"
    /\ t \in TokenId \ Tokens
    /\ ~UniqueConflict(r.student, r.stale)
    /\ ~StudentLocked(r.student) /\ ~OrgLocked
    /\ token' = [x \in Tokens \cup {t} |->
                   IF x = t THEN [student |-> r.student, state |-> "active"]
                   ELSE IF x \in r.stale THEN [token[x] EXCEPT !.state = "revoked"]
                   ELSE token[x]]
    /\ Finish(w)
    /\ UNCHANGED <<row, elsewhere, expired>>

\* Another request issued one meanwhile: IntegrityError, not caught.
IssueConflict(w) ==
    /\ pc[w] = "create"
    /\ UniqueConflict(req[w].student, req[w].stale)
    /\ Finish(w)
    /\ UNCHANGED dbVars

-----------------------------------------------------------------------------
(* Following the link: confirm_email_registration, one transaction *)

\* SELECT ... FOR UPDATE over the join locks the row of the token, the Student
\* row, then the BaseUser row and the organization, and sees their newest
\* versions.  Waiting for the first two, it holds nothing anyone waits for.
ConfirmLock(w, t, e) ==
    /\ pc[w] = "idle" /\ "confirm" \in Requests
    /\ t \in Tokens
    /\ ~TokenLocked(t) /\ ~StudentLocked(token[t].student)
    /\ Goto(w, "base", [token |-> t, email |-> e])
    /\ UNCHANGED dbVars

\* mutant (RegistrationSound): the link is looked at before it is locked only.
ConfirmCheckAnyToken(w) ==
    LET t == req[w].token
        s == token[t].student
    IN  /\ pc[w] = "base"
        /\ ~BaseLocked(s) /\ ~OrgLocked
        /\ IF row[s].active /\ row[s].email = NoEmail /\ ~EmailTaken(s, req[w].email)
           THEN Goto(w, "write", req[w])
           ELSE Finish(w)
        /\ UNCHANGED dbVars

\* The last locks and, on what they protect, the checks.
ConfirmCheck(w) ==
    LET t == req[w].token
        s == token[t].student
    IN  /\ pc[w] = "base"
        /\ ~BaseLocked(s) /\ ~OrgLocked
        /\ IF /\ IsActive(t)
              /\ row[s].active
              /\ row[s].email = NoEmail
              /\ ~EmailTaken(s, req[w].email)
           THEN Goto(w, "write", req[w])
           ELSE Finish(w)
        /\ UNCHANGED dbVars

\* save(update_fields = ["email"]), mark_used, commit.
ConfirmCommit(w) ==
    LET t == req[w].token
        s == token[t].student
    IN  /\ pc[w] = "write"
        /\ ~EmailTaken(s, req[w].email)
        /\ row' = [row EXCEPT ![s].email = req[w].email]
        /\ token' = [token EXCEPT ![t].state = "used"]
        /\ Finish(w)
        /\ UNCHANGED <<elsewhere, expired>>

\* mutant (RequestsEnd): the update is tried again for as long as it fails.
ConfirmRetry(w) ==
    /\ pc[w] = "write"
    /\ EmailTaken(token[req[w].token].student, req[w].email)
    /\ UNCHANGED vars

\* An account with the address was committed after the check.
ConfirmConflict(w) ==
    /\ pc[w] = "write"
    /\ EmailTaken(token[req[w].token].student, req[w].email)
    /\ Finish(w)
    /\ UNCHANGED dbVars

-----------------------------------------------------------------------------
(* The edit forms of administrators and teachers, and reactivation *)

\* The form is shown with what the student's row holds now.
StaffOpen(w, s) ==
    /\ pc[w] = "idle" /\ Requests \cap {"edit", "reset"} # {}
    /\ row[s].active
    /\ Goto(w, "page", [student |-> s, shown |-> row[s].email, named |-> row[s].named])
    /\ UNCHANGED dbVars

\* It is posted, its fields left as they were shown or typed over ("reset": with
\* the box that resets the password; the teachers' form has no name).  The view
\* reads the student again; every column the form does not have will be
\* written back as it is read here.  full_clean looks for the address.
StaffPost(w, e, named, view) ==
    LET s == req[w].student IN
    /\ pc[w] = "page"
    /\ e \in {req[w].shown, row[s].email} \cup Email
    /\ named \in {req[w].named, row[s].named, TRUE}
    /\ IF row[s].active /\ ~EmailTaken(s, e)
       THEN Goto(w, "save_base", [student |-> s, view |-> view,
                                  new |-> [row[s] EXCEPT !.email = e, !.named = named]])
       ELSE Finish(w)
    /\ UNCHANGED dbVars

\* StudentReactivateView.post reads the deactivated student.
ReactivateRead(w, s) ==
    /\ pc[w] = "idle" /\ "reactivate" \in Requests
    /\ ~row[s].active
    /\ Goto(w, "save_base", [student |-> s, view |-> "reactivate",
                             new |-> [row[s] EXCEPT !.active = TRUE]])
    /\ UNCHANGED dbVars

\* save() of a Student: the UPDATE of the BaseUser row, all columns ...
SaveBase(w) ==
    LET s == req[w].student IN
    /\ pc[w] = "save_base"
    /\ ~BaseLocked(s)
    /\ IF EmailTaken(s, req[w].new.email) THEN Finish(w)     \* IntegrityError
       ELSE Goto(w, "save_student", req[w])
    /\ UNCHANGED dbVars

\* ... then of the Student row, and the commit.
SaveStudent(w) ==
    LET s == req[w].student IN
    /\ pc[w] = "save_student"
    /\ ~StudentLocked(s)
    /\ IF EmailTaken(s, req[w].new.email)
       THEN Finish(w) /\ UNCHANGED row
       ELSE /\ row' = [row EXCEPT ![s] = req[w].new]
            /\ IF req[w].view = "reset" THEN Goto(w, "reset", [student |-> s]) ELSE Finish(w)
    /\ UNCHANGED <<elsewhere, tokenVars>>

\* set_default_password: save(update_fields = ["password", "is_first_login"]).
SetDefaultPassword(w) ==
    LET s == req[w].student IN
    /\ pc[w] = "reset"
    /\ ~BaseLocked(s)
    /\ row' = [row EXCEPT ![s].password = "default", ![s].first = TRUE]
    /\ Finish(w)
    /\ UNCHANGED <<elsewhere, tokenVars>>

\* StudentDeleteView.post: save(update_fields = ["is_active"]).
Deactivate(s) ==
    /\ "deactivate" \in Requests
    /\ row[s].active
    /\ ~BaseLocked(s)
    /\ row' = [row EXCEPT ![s].active = FALSE]
    /\ UNCHANGED <<elsewhere, tokenVars, pc, req>>

-----------------------------------------------------------------------------
(* Registering the name through LINE: RegisterName.post *)

NameRead(w, s) ==
    /\ pc[w] = "idle" /\ "name" \in Requests
    /\ row[s].active /\ ~row[s].named
    /\ Goto(w, "name", [student |-> s, password |-> row[s].password])
    /\ UNCHANGED dbVars

\* save(update_fields = ["username"]), committed before the password is set.
NameSave(w) ==
    LET s == req[w].student IN
    /\ pc[w] = "name"
    /\ ~BaseLocked(s)
    /\ row' = [row EXCEPT ![s].named = TRUE]
    /\ IF req[w].password = "none"
       THEN Goto(w, "reset", [student |-> s])
       ELSE Finish(w)
    /\ UNCHANGED <<elsewhere, tokenVars>>

-----------------------------------------------------------------------------
(* The student's own account form: AccountEditView *)

\* A student who can log in opens it.
AccountOpen(w, s) ==
    /\ pc[w] = "idle" /\ "account" \in Requests
    /\ row[s].active /\ row[s].email # NoEmail /\ row[s].password # "none"
    /\ Goto(w, "account", [student |-> s, shown |-> row[s].email,
                           password |-> row[s].password])
    /\ UNCHANGED dbVars

\* The session is good while the account is active and the password the same
\* (here, of the same kind: the student's passwords are not told apart).
\* A first login must change the password and cannot change the address;
\* request.user is the copy the view saves.
AccountPost(w, e, change) ==
    LET s == req[w].student IN
    /\ pc[w] = "account"
    /\ row[s].active /\ row[s].password = req[w].password
    /\ e = row[s].email \/ (~row[s].first /\ e \in Email \cup {req[w].shown})
    /\ row[s].first => change
    /\ ~EmailTaken(s, e)
    /\ IF change
       THEN Goto(w, "save_user", [student |-> s, new |-> [row[s] EXCEPT !.email = e, !.password = "own",
                                                                !.first = FALSE]])
       ELSE Goto(w, "reread", [student |-> s, new |-> [row[s] EXCEPT !.email = e]])
    /\ UNCHANGED dbVars

\* The post is refused: logged out, or an address somebody else has.
AccountRefused(w) ==
    /\ pc[w] = "account"
    /\ Finish(w)
    /\ UNCHANGED dbVars

\* mutant (TypeOK): set_password(None) leaves the mark of an unusable password.
AccountRereadUnusable(w) ==
    /\ pc[w] = "reread"
    /\ Goto(w, "save_user", [req[w] EXCEPT !.new.password = "unusable"])
    /\ UNCHANGED dbVars

\* No new password was given: the hash alone is read once more.
AccountReread(w) ==
    LET s == req[w].student IN
    /\ pc[w] = "reread"
    /\ Goto(w, "save_user", [req[w] EXCEPT !.new.password = row[s].password])
    /\ UNCHANGED dbVars

\* user.save() of the BaseUser, all columns.
AccountSave(w) ==
    LET s == req[w].student IN
    /\ pc[w] = "save_user"
    /\ ~BaseLocked(s)
    /\ row' = IF EmailTaken(s, req[w].new.email) THEN row ELSE [row EXCEPT ![s] = req[w].new]
    /\ Finish(w)
    /\ UNCHANGED <<elsewhere, tokenVars>>

-----------------------------------------------------------------------------
(* The rest of the system *)

\* Another account gets the address.
OtherAccount(e) ==
    /\ \A s \in Student : ~EmailTaken(s, e) /\ row[s].email # e
    /\ elsewhere' = elsewhere \cup {e}
    /\ UNCHANGED <<row, tokenVars, pc, req>>

Expire(t) ==
    /\ t \in Tokens \ expired /\ Active(t)
    /\ expired' = expired \cup {t}
    /\ UNCHANGED <<row, elsewhere, token, pc, req>>

\* A full save holds the BaseUser row and waits for the Student row that a
\* registration holds, which waits for the BaseUser row: PostgreSQL breaks
\* off one of the two transactions.
Deadlocked(v, w) ==
    /\ pc[v] = "base"
    /\ pc[w] = "save_student"
    /\ token[req[v].token].student = req[w].student

BreakDeadlock(w) ==
    /\ \E v \in Worker : Deadlocked(v, w) \/ Deadlocked(w, v)
    /\ Finish(w)
    /\ UNCHANGED dbVars

\* The process is killed: what it had committed stays.
Crash(w) ==
    /\ pc[w] # "idle"
    /\ Finish(w)
    /\ UNCHANGED dbVars

\* The next statement of the request worker w is serving.
Step(w) ==
    \/ IssueQuery(w)
    \/ IssueLock(w)
    \/ \E t \in TokenId : IssueCreate(w, t)
    \/ IssueConflict(w)
    \/ ConfirmCheck(w)
    \/ ConfirmCommit(w)
    \/ ConfirmConflict(w)
    \/ SaveBase(w)
    \/ SaveStudent(w)
    \/ SetDefaultPassword(w)
    \/ NameSave(w)
    \/ AccountReread(w)
    \/ AccountSave(w)
    \/ BreakDeadlock(w)

Next ==
    \/ \E w \in Worker, s \in Student :
          \/ IssueRead(w, s)
          \/ StaffOpen(w, s)
          \/ ReactivateRead(w, s)
          \/ NameRead(w, s)
          \/ AccountOpen(w, s)
    \/ \E w \in Worker :
          \/ \E t \in TokenId, e \in Email : ConfirmLock(w, t, e)
          \/ \E e \in Address, named \in BOOLEAN, view \in {"edit", "reset"} \cap Requests :
                StaffPost(w, e, named, view)
          \/ \E e \in Address, change \in BOOLEAN : AccountPost(w, e, change)
          \/ AccountRefused(w)
          \/ Step(w)
          \/ Crash(w)
    \/ \E s \in Student : Deactivate(s)
    \/ \E e \in Email : OtherAccount(e)
    \/ \E t \in TokenId : Expire(t)

Spec == Init /\ [][Next]_vars

\* A request that has been posted is executed; a page may stay open for ever.
\* Strong fairness: PostgreSQL queues whoever waits for a row.
FairSpec == Spec /\ \A w \in Worker : SF_vars(Step(w))

-----------------------------------------------------------------------------
(* Properties *)

ConfirmRequest == [token : TokenId, email : Email]
PageRequest    == [student : Student, shown : Address, named : BOOLEAN]
AccountRequest == [student : Student, shown : Address, password : Password]
SaveRequest    == [student : Student, new : Row, view : {"edit", "reset", "reactivate"}]
UserRequest    == [student : Student, new : Row]

TypeOK ==
    /\ row \in [Student -> Row]
    /\ elsewhere \subseteq Email
    /\ Tokens \subseteq TokenId
    /\ token \in [Tokens -> Token]
    /\ expired \subseteq Tokens
    /\ pc \in [Worker -> IssuePc \cup ConfirmPc \cup SavePc \cup UserPc \cup OtherPc]
    /\ DOMAIN req = Worker
    /\ \A w \in Worker :
          /\ pc[w] = "idle" => req[w] = NoRequest
          /\ pc[w] \in {"issue", "reset"} => req[w] \in [student : Student]
          /\ pc[w] \in {"lock", "create"} => req[w] \in [student : Student, stale : SUBSET Tokens]
          /\ pc[w] \in ConfirmPc => req[w] \in ConfirmRequest /\ req[w].token \in Tokens
          /\ pc[w] = "page" => req[w] \in PageRequest
          /\ pc[w] = "name" => req[w] \in [student : Student, password : Password]
          /\ pc[w] = "account" => req[w] \in AccountRequest
          /\ pc[w] \in SavePc => req[w] \in SaveRequest
          /\ pc[w] \in UserPc => req[w] \in UserRequest

\* A student has at most one active link, although requests to issue one
\* overlap each other and registrations in progress (the model's Notes promise
\* it, a test issues twice in sequence only).
OneActiveToken ==
    \A t, u \in Tokens :
        Active(t) /\ Active(u) /\ token[t].student = token[u].student => t = u

\* What the registration checked is still so when it commits: a link is used
\* up by a step only while it is active, for an active student who has no
\* address, and exactly that student gets one, which no other account has.  The
\* checks and the commit are separate statements; deactivation, edits, a second
\* post of the form, a new link and other accounts come between.
RegistrationSound ==
    [][\A t \in Tokens :
          token'[t].state = "used" /\ token[t].state # "used" =>
              LET s == token[t].student IN
              /\ Active(t)
              /\ row[s].active
              /\ row[s].email = NoEmail
              /\ row'[s].email \in Email \ (elsewhere \cup {row[x].email : x \in Student \ {s}})
              /\ \A x \in Student \ {s} : row'[x] = row[x]]_vars

\* A link that was used or revoked never comes back to life, and the student
\* it belongs to never changes.
TokenHistory ==
    [][\A t \in Tokens : /\ t \in Tokens'
                         /\ ~Active(t) => token'[t] = token[t]
                         /\ token'[t].student = token[t].student]_vars

\* Every posted request is answered: waits for rows end, deadlocks included.
Waiting(w) == pc[w] \notin {"idle", "page", "account"}
RequestsEnd == \A w \in Worker : Waiting(w) ~> ~Waiting(w)

-----------------------------------------------------------------------------
(* What the code says of itself and does not keep *)

\* "Puts back the state of the first login" (set_default_password): whoever
\* has the default password will be made to change it.
DefaultMeansFirstLogin ==
    \A s \in Student : row[s].password = "default" => row[s].first

\* "The student was deactivated": only a reactivation makes it active again.
DeactivatedStays ==
    [][\A s \in Student :
          ~row[s].active /\ row'[s].active =>
              \E w \in Worker : pc[w] = "save_student" /\ req[w].view = "reactivate"]_vars
=============================================================================
