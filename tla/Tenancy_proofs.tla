--------------------------- MODULE Tenancy_proofs ---------------------------
(***************************************************************************)
(* Nobody sees a student of another organization, and the parts of the     *)
(* program agree on who is seen, for any organizations, people, classrooms *)
(* and number of requests at once: proof of Tenancy!SeesOwnTenant and      *)
(* Tenancy!SeenAlike.                                                      *)
(***************************************************************************)
EXTENDS Tenancy, TLAPS

Made(x) == org[x] # None
Linked(p) == org[p[1]] = org[p[2]] /\ Made(p[1])

RowsInv ==
    /\ org \in [Thing -> Organization \cup {None}]
    /\ rows \subseteq Thing /\ active \subseteq Student
    /\ \A x \in rows \cup Student \cup ClassroomAdmin \cup OrgAdmin : Made(x)

LinksInv ==
    /\ attends \subseteq Student \X Classroom /\ taughtBy \subseteq Student \X Teacher
    /\ worksAt \subseteq Teacher \X Classroom /\ manages \subseteq ClassroomAdmin \X Classroom
    /\ \A p \in attends \cup taughtBy \cup worksAt \cup manages : Linked(p)

\* A form in hand that will insert its row again is of a row that was made.
InHand(w) ==
    /\ work[w] \in Form \cup {None}
    /\ work[w] # None /\ work[w].view \in {"teacher", "fill", "classroom"} => Made(work[w].one)

WorkInv ==
    /\ work = [w \in Worker |-> work[w]]
    /\ \A w \in Worker : InHand(w)

\* The inductive invariant.  The signals only compare organizations at the time of
\* a link: it stays sound because whatever is linked, or is in hand to be inserted
\* again, has been made, and what was made keeps its organization.
Inv == RowsInv /\ LinksInv /\ WorkInv

LEMMA InitInv == Init => Inv
<1> SUFFICES ASSUME Init PROVE Inv
  OBVIOUS
<1>1. RowsInv
  BY HomeAssumption DEF Init, RowsInv, Made, Thing, Staff
<1>2. LinksInv
  BY DEF Init, LinksInv
<1>3. WorkInv
  BY DEF Init, WorkInv, InHand
<1>4. QED
  BY <1>1, <1>2, <1>3 DEF Inv

-----------------------------------------------------------------------------
(* What a step leaves alone stays sound as long as no row loses or changes  *)
(* its organization.                                                        *)

Kept == \A x \in Thing : Made(x) => org'[x] = org[x]

LEMMA FormOne ==
    ASSUME NEW f \in Form
    PROVE  f.one \in Thing
BY DEF Form, Thing, Staff

LEMMA LinkEnds ==
    ASSUME LinksInv, NEW p \in attends \cup taughtBy \cup worksAt \cup manages
    PROVE  p[1] \in Thing /\ p[2] \in Thing
BY DEF LinksInv, Thing, Staff

LEMMA LinksKept ==
    ASSUME LinksInv, Kept, UNCHANGED links
    PROVE  LinksInv'
<1>1. ASSUME NEW p \in attends \cup taughtBy \cup worksAt \cup manages PROVE Linked(p)'
  <2>1. Linked(p) /\ p[1] \in Thing /\ p[2] \in Thing
    BY LinkEnds DEF LinksInv
  <2>2. Made(p[1]) /\ Made(p[2])
    BY <2>1 DEF Linked, Made
  <2>3. QED
    BY <2>1, <2>2 DEF Kept, Linked, Made
<1>2. QED
  BY <1>1 DEF LinksInv, links

LEMMA LinksAdded ==
    ASSUME LinksInv, UNCHANGED org,
           attends' \subseteq Student \X Classroom, taughtBy' \subseteq Student \X Teacher,
           worksAt' \subseteq Teacher \X Classroom, manages' \subseteq ClassroomAdmin \X Classroom,
           \A p \in attends' \cup taughtBy' \cup worksAt' \cup manages' :
               p \in attends \cup taughtBy \cup worksAt \cup manages \/ Linked(p)
    PROVE  LinksInv'
BY DEF LinksInv, Linked, Made

LEMMA HandKept ==
    ASSUME NEW v \in Worker, InHand(v), Kept, work'[v] = work[v]
    PROVE  InHand(v)'
<1>1. CASE work[v] = None
  BY <1>1 DEF InHand
<1>2. CASE work[v] # None
  <2>1. work[v].one \in Thing
    BY <1>2, FormOne DEF InHand
  <2>2. QED
    BY <1>2, <2>1 DEF InHand, Kept, Made
<1>3. QED
  BY <1>1, <1>2

LEMMA WorkKept ==
    ASSUME WorkInv, Kept, UNCHANGED work
    PROVE  WorkInv'
BY HandKept DEF WorkInv

LEMMA Taken ==
    ASSUME WorkInv, Kept, NEW w \in Worker, NEW f \in Form,
           f.view \in {"teacher", "fill", "classroom"} => org'[f.one] # None,
           work' = [work EXCEPT ![w] = f]
    PROVE  WorkInv'
<1>1. work' = [v \in Worker |-> work'[v]] /\ work'[w] = f
      /\ \A v \in Worker : v # w => work'[v] = work[v]
  BY DEF WorkInv
<1>2. InHand(w)'
  BY <1>1 DEF InHand, Made
<1>3. QED
  BY <1>1, <1>2, HandKept DEF WorkInv

LEMMA Ended ==
    ASSUME WorkInv, Kept, NEW w \in Worker, Done(w)
    PROVE  WorkInv'
<1>1. work' = [v \in Worker |-> work'[v]] /\ work'[w] = None
      /\ \A v \in Worker : v # w => work'[v] = work[v]
  BY DEF WorkInv, Done
<1>2. InHand(w)'
  BY <1>1 DEF InHand
<1>3. QED
  BY <1>1, <1>2, HandKept DEF WorkInv

-----------------------------------------------------------------------------
(* Forms are checked.                                                       *)

LEMMA CheckedKeeps ==
    ASSUME Inv, NEW w \in Worker, NEW view, NEW one, NEW many, Checked(w, view, one, many),
           [view |-> view, one |-> one, many |-> many] \in Form,
           view \in {"teacher", "fill", "classroom"} => Made(one)
    PROVE  Inv'
<1>1. UNCHANGED <<org, rows, active, links>>
      /\ work' = [work EXCEPT ![w] = [view |-> view, one |-> one, many |-> many]]
  BY DEF Checked
<1>2. Kept /\ RowsInv'
  BY <1>1 DEF Inv, RowsInv, Kept, Made
<1>3. LinksInv'
  BY <1>1, <1>2, LinksKept DEF Inv
<1>4. WorkInv'
  BY <1>1, <1>2, Taken DEF Inv, Made
<1>5. QED
  BY <1>2, <1>3, <1>4 DEF Inv

LEMMA CheckInv ==
    ASSUME Inv, NEW w \in Worker, NEW u \in Staff, Check(w, u)
    PROVE  Inv'
<1>1. CASE CheckAssign(w, u)
  <2>1. PICK s \in SeenInAccounts(u), c \in GetAccessibleClassrooms(u) :
            Checked(w, "assign", s, {c})
    BY <1>1 DEF CheckAssign
  <2>2. s \in Student /\ c \in Classroom
    BY DEF SeenInAccounts, SeenAmong, GetAccessibleClassrooms, Inv, RowsInv
  <2>3. [view |-> "assign", one |-> s, many |-> {c}] \in Form
    BY <2>2 DEF Form
  <2>4. QED
    BY <2>1, <2>3, CheckedKeeps
<1>2. CASE CheckStudentEdit(w, u)
  <2>1. PICK s \in SeenInAccounts(u), chosen \in SUBSET Teacher :
            Checked(w, "student", s, chosen)
    BY <1>2 DEF CheckStudentEdit, Offered
  <2>2. s \in Student /\ chosen \in SUBSET Teacher
    BY DEF SeenInAccounts, SeenAmong, Inv, RowsInv
  <2>3. [view |-> "student", one |-> s, many |-> chosen] \in Form
    BY <2>2 DEF Form
  <2>4. QED
    BY <2>1, <2>3, CheckedKeeps
<1>3. CASE CheckTeachersEdit(w, u)
  <2>1. PICK s \in GetStudents(u) : Checked(w, "note", s, {})
    BY <1>3 DEF CheckTeachersEdit
  <2>2. [view |-> "note", one |-> s, many |-> {}] \in Form
    BY DEF GetStudents, Taught, Form
  <2>3. QED
    BY <2>1, <2>2, CheckedKeeps
<1>4. CASE CheckTeacherEdit(w, u)
  <2>1. PICK t \in Teacher \cap rows, chosen \in SUBSET Classroom :
            Checked(w, "teacher", t, chosen)
    BY <1>4 DEF CheckTeacherEdit
  <2>2. [view |-> "teacher", one |-> t, many |-> chosen] \in Form /\ Made(t)
    BY DEF Form, Inv, RowsInv
  <2>3. QED
    BY <2>1, <2>2, CheckedKeeps
<1>5. CASE CheckClassroomEdit(w, u)
  <2>1. PICK c \in Classroom \cap rows : Checked(w, "classroom", c, {})
    BY <1>5 DEF CheckClassroomEdit
  <2>2. [view |-> "classroom", one |-> c, many |-> {}] \in Form /\ Made(c)
    BY DEF Form, Inv, RowsInv
  <2>3. QED
    BY <2>1, <2>2, CheckedKeeps
<1>6. CASE TeacherCreate(w, u)
  <2>1. PICK t \in Teacher, chosen \in SUBSET Classroom, o \in Organization :
            /\ org[t] = None
            /\ org' = [org EXCEPT ![t] = o] /\ rows' = rows \cup {t}
            /\ work' = [work EXCEPT ![w] = [view |-> "fill", one |-> t, many |-> chosen]]
            /\ UNCHANGED <<active, links>>
    BY <1>6 DEF TeacherCreate
  <2>2. t \in Thing /\ o # None
    BY IdsAssumption DEF Thing, Staff
  <2>3. Kept /\ RowsInv' /\ org'[t] # None
    BY <2>1, <2>2 DEF Inv, RowsInv, Kept, Made
  <2>4. [view |-> "fill", one |-> t, many |-> chosen] \in Form
    BY DEF Form
  <2>5. WorkInv'
    BY <2>1, <2>3, <2>4, Taken DEF Inv
  <2>6. LinksInv'
    BY <2>1, <2>3, LinksKept DEF Inv
  <2>7. QED
    BY <2>3, <2>5, <2>6 DEF Inv
<1>7. QED
  BY <1>1, <1>2, <1>3, <1>4, <1>5, <1>6 DEF Check
-----------------------------------------------------------------------------
(* Forms are saved.                                                         *)

\* What is in hand has the type of its view.
LEMMA InHandOf ==
    ASSUME WorkInv, NEW w \in Worker, work[w] # None
    PROVE  /\ work[w].view = "assign" => work[w].one \in Student /\ work[w].many \subseteq Classroom
           /\ work[w].view = "student" => work[w].one \in Student /\ work[w].many \subseteq Teacher
           /\ work[w].view = "join" =>
                work[w] \in [view : {"join"}, one : Student, many : SUBSET (Teacher \X Classroom)]
           /\ work[w].view = "note" => work[w].one \in Student
           /\ work[w].view \in {"teacher", "fill"} =>
                work[w].one \in Teacher /\ work[w].many \subseteq Classroom /\ Made(work[w].one)
           /\ work[w].view = "classroom" => work[w].one \in Classroom /\ Made(work[w].one)
BY DEF WorkInv, InHand, Form

LEMMA SaveInv ==
    ASSUME Inv, NEW w \in Worker, Save(w)
    PROVE  Inv'
<1> DEFINE s == work[w].one  many == work[w].many
<1>1. CASE SaveAssign(w)
  <2>1. work[w] # None /\ work[w].view = "assign" /\ Done(w)
        /\ UNCHANGED <<org, rows, active, taughtBy, worksAt, manages>>
        /\ \/ UNCHANGED attends
           \/ (\A c \in many : org[c] = org[s]) /\ attends' = attends \cup ({s} \X many)
    BY <1>1 DEF SaveAssign, Holds, ValidateStudentClassrooms
  <2>2. s \in Student /\ many \subseteq Classroom
    BY <2>1, InHandOf DEF Inv
  <2>3. Kept /\ RowsInv'
    BY <2>1 DEF Inv, RowsInv, Kept, Made
  <2>4. \A p \in {s} \X many : (\A c \in many : org[c] = org[s]) => Linked(p)
    BY <2>2 DEF Inv, RowsInv, Linked
  <2>5. LinksInv'
    <3>1. CASE UNCHANGED attends
      BY <2>1, <2>3, <3>1, LinksKept DEF Inv, links
    <3>2. CASE (\A c \in many : org[c] = org[s]) /\ attends' = attends \cup ({s} \X many)
      <4>1. attends' \subseteq Student \X Classroom
        BY <2>2, <3>2 DEF Inv, LinksInv
      <4>2. QED
        BY <2>1, <2>4, <3>2, <4>1, LinksAdded DEF Inv, LinksInv
    <3>3. QED
      BY <2>1, <3>1, <3>2
  <2>6. WorkInv'
    BY <2>1, <2>3, Ended DEF Inv
  <2>7. QED
    BY <2>3, <2>5, <2>6 DEF Inv
<1>2. CASE SaveStudent(w)
  <2> DEFINE added == many \ Of(taughtBy, s)
             taken == [view |-> "join", one |-> s, many |-> many \X (Of(attends, s) \cap Classroom)]
  <2>1. work[w] # None /\ work[w].view = "student"
        /\ active' = active \cup {s}
        /\ UNCHANGED <<org, rows, attends, worksAt, manages>>
        /\ \/ UNCHANGED taughtBy /\ Done(w)
           \/ /\ \A t \in added : org[t] = org[s]
              /\ taughtBy' = SetTo(taughtBy, s, many)
              /\ work' = [work EXCEPT ![w] = taken]
    BY <1>2 DEF SaveStudent, Holds, ValidateStudentTeachers
  <2>2. s \in Student /\ many \subseteq Teacher
    BY <2>1, InHandOf DEF Inv
  <2>3. Kept /\ RowsInv'
    BY <2>1, <2>2 DEF Inv, RowsInv, Kept, Made
  <2>4. CASE UNCHANGED taughtBy /\ Done(w)
    BY <2>1, <2>3, <2>4, LinksKept, Ended DEF Inv, links
  <2>5. CASE /\ \A t \in added : org[t] = org[s]
             /\ taughtBy' = SetTo(taughtBy, s, many)
             /\ work' = [work EXCEPT ![w] = taken]
    <3>1. \A t \in many : org[t] = org[s]
      <4>1. ASSUME NEW t \in many, t \in Of(taughtBy, s) PROVE org[t] = org[s]
        BY <4>1 DEF Of, Inv, LinksInv, Linked
      <4>2. QED
        BY <2>5, <4>1
    <3>2. \A p \in {s} \X many : Linked(p)
      BY <2>2, <3>1 DEF Inv, RowsInv, Linked
    <3>3. taughtBy' \subseteq Student \X Teacher /\ taughtBy' \subseteq taughtBy \cup ({s} \X many)
      BY <2>2, <2>5 DEF SetTo, Inv, LinksInv
    <3>4. LinksInv'
      BY <2>1, <3>2, <3>3, LinksAdded DEF Inv, LinksInv
    <3>5. taken \in Form
      BY <2>2 DEF Form
    <3>6. WorkInv'
      BY <2>3, <2>5, <3>5, Taken DEF Inv
    <3>7. QED
      BY <2>3, <3>4, <3>6 DEF Inv
  <2>6. QED
    BY <2>1, <2>4, <2>5
<1>3. CASE JoinClassroom(w)
  <2>1. work[w] \in [view : {"join"}, one : Student, many : SUBSET (Teacher \X Classroom)]
        /\ UNCHANGED <<org, rows, active, attends, taughtBy, manages>>
    BY <1>3, InHandOf DEF JoinClassroom, Holds, Inv
  <2>2. Kept /\ RowsInv'
    BY <2>1 DEF Inv, RowsInv, Kept, Made
  <2>3. CASE UNCHANGED worksAt /\ Done(w)
    BY <2>1, <2>2, <2>3, LinksKept, Ended DEF Inv, links
  <2>4. ASSUME NEW p \in many, {p[1], p[2]} \subseteq rows, org[p[2]] = org[p[1]],
               worksAt' = worksAt \cup {p}, work' = [work EXCEPT ![w].many = @ \ {p}]
        PROVE  Inv'
    <3>1. Linked(p) /\ p \in Teacher \X Classroom
      BY <2>1, <2>4 DEF Linked, Inv, RowsInv
    <3>2. LinksInv'
      BY <2>1, <2>4, <3>1, LinksAdded DEF Inv, LinksInv
    <3>3. [work[w] EXCEPT !.many = @ \ {p}] \in Form /\ [work[w] EXCEPT !.many = @ \ {p}].view = "join"
      BY <2>1 DEF Form
    <3>4. WorkInv'
      BY <2>2, <2>4, <3>3, Taken DEF Inv
    <3>5. QED
      BY <2>2, <3>2, <3>4 DEF Inv
  <2>5. QED
    BY <1>3, <2>3, <2>4 DEF JoinClassroom, ValidateTeacherClassrooms
<1>4. CASE SaveNote(w)
  <2>1. s \in Student /\ Done(w) /\ active' = active \cup {s} /\ UNCHANGED <<org, rows, links>>
    BY <1>4, InHandOf DEF SaveNote, Holds, Inv
  <2>2. Kept /\ RowsInv'
    BY <2>1 DEF Inv, RowsInv, Kept, Made
  <2>3. QED
    BY <2>1, <2>2, LinksKept, Ended DEF Inv
<1>5. CASE SaveTeacher(w)
  <2> DEFINE added == many \ Of(worksAt, s)
  <2>1. s \in Teacher /\ many \subseteq Classroom /\ Made(s)
    BY <1>5, InHandOf DEF SaveTeacher, Holds, Inv
  <2>2. /\ Done(w) /\ UNCHANGED <<org, active, attends, taughtBy, manages>>
        /\ rows' \subseteq rows \cup {s}
        /\ \/ UNCHANGED worksAt
           \/ (\A c \in added : org[c] = org[s]) /\ worksAt' = SetTo(worksAt, s, many)
    BY <1>5 DEF SaveTeacher, ValidateTeacherClassrooms
  <2>3. Kept /\ RowsInv'
    BY <2>1, <2>2 DEF Inv, RowsInv, Kept, Made, Thing, Staff
  <2>4. LinksInv'
    <3>1. CASE UNCHANGED worksAt
      BY <2>2, <2>3, <3>1, LinksKept DEF Inv, links
    <3>2. CASE (\A c \in added : org[c] = org[s]) /\ worksAt' = SetTo(worksAt, s, many)
      <4>1. ASSUME NEW c \in many, c \in Of(worksAt, s) PROVE org[c] = org[s]
        BY <4>1 DEF Of, Inv, LinksInv, Linked
      <4>2. \A p \in {s} \X many : Linked(p)
        BY <2>1, <3>2, <4>1 DEF Linked
      <4>3. worksAt' \subseteq Teacher \X Classroom /\ worksAt' \subseteq worksAt \cup ({s} \X many)
        BY <2>1, <3>2 DEF SetTo, Inv, LinksInv
      <4>4. QED
        BY <2>2, <4>2, <4>3, LinksAdded DEF Inv, LinksInv
    <3>3. QED
      BY <2>2, <3>1, <3>2
  <2>5. QED
    BY <2>2, <2>3, <2>4, Ended DEF Inv
<1>6. CASE SaveClassroom(w)
  <2>1. s \in Classroom /\ Made(s) /\ Done(w)
        /\ rows' = rows \cup {s} /\ UNCHANGED <<org, active, links>>
    BY <1>6, InHandOf DEF SaveClassroom, Holds, Inv
  <2>2. Kept /\ RowsInv'
    BY <2>1 DEF Inv, RowsInv, Kept, Made, Thing
  <2>3. QED
    BY <2>1, <2>2, LinksKept, Ended DEF Inv
<1>7. QED
  BY <1>1, <1>2, <1>3, <1>4, <1>5, <1>6 DEF Save

-----------------------------------------------------------------------------
(* Requests of one statement.                                               *)

LEMMA DeleteInv ==
    ASSUME Inv, NEW x, Delete(x)
    PROVE  Inv'
<1>1. UNCHANGED <<org, active, work>> /\ rows' \subseteq rows
      /\ attends' \subseteq attends /\ taughtBy' \subseteq taughtBy
      /\ worksAt' \subseteq worksAt /\ manages' \subseteq manages
  BY DEF Delete, Without
<1>2. Kept /\ RowsInv'
  BY <1>1 DEF Inv, RowsInv, Kept, Made
<1>3. LinksInv'
  BY <1>1, LinksAdded DEF Inv, LinksInv
<1>4. QED
  BY <1>1, <1>2, <1>3, WorkKept DEF Inv

LEMMA OneStatementInv ==
    ASSUME Inv, NEW u \in Staff, OneStatement(u)
    PROVE  Inv'
<1>1. CASE ClassroomCreate(u)
  <2>1. PICK c \in Classroom :
            /\ u \in OrgAdmin /\ org[c] = None
            /\ org' = [org EXCEPT ![c] = org[u]] /\ rows' = rows \cup {c}
            /\ UNCHANGED <<active, links, work>>
    BY <1>1 DEF ClassroomCreate
  <2>2. c \in Thing /\ u \in Thing /\ Made(u)
    BY <2>1 DEF Thing, Staff, Inv, RowsInv
  <2>3. Kept /\ RowsInv'
    BY <2>1, <2>2 DEF Inv, RowsInv, Kept, Made
  <2>4. QED
    BY <2>1, <2>3, LinksKept, WorkKept DEF Inv
<1>2. CASE ClassroomDelete(u) \/ TeacherDelete(u)
  BY <1>2, DeleteInv DEF ClassroomDelete, TeacherDelete
<1>3. CASE StudentDelete(u) \/ StudentReactivate(u)
  <2>1. UNCHANGED <<org, rows, links, work>> /\ active' \subseteq active \cup Student
    BY <1>3 DEF StudentDelete, StudentReactivate, SeenInactive, SeenAmong
  <2>2. Kept /\ RowsInv'
    BY <2>1 DEF Inv, RowsInv, Kept, Made
  <2>3. QED
    BY <2>1, <2>2, LinksKept, WorkKept DEF Inv
<1>4. QED
  BY <1>1, <1>2, <1>3 DEF OneStatement

LEMMA AddInv ==
    ASSUME Inv, Add
    PROVE  Inv'
<1>1. Kept /\ RowsInv' /\ WorkInv'
  BY WorkKept DEF Add, Inv, RowsInv, Kept, Made
<1>2. LinksInv'
  <2>1. ASSUME NEW s \in Student, NEW y \in (Classroom \cup Teacher) \cap rows, org[y] = org[s]
        PROVE  Linked(<<s, y>>)
    BY <2>1 DEF Inv, RowsInv, Linked
  <2>2. ASSUME NEW x \in Teacher \cup ClassroomAdmin, NEW c \in Classroom \cap rows, org[c] = org[x]
        PROVE  Linked(<<x, c>>)
    BY <2>2 DEF Inv, RowsInv, Linked, Made
  <2>3. CASE \E s \in Student, c \in Classroom \cap rows :
               /\ ValidateStudentClassrooms(s, {c})
               /\ attends' = attends \cup {<<s, c>>} /\ UNCHANGED <<org, taughtBy, worksAt, manages>>
    BY <2>1, <2>3, LinksAdded DEF Inv, LinksInv, ValidateStudentClassrooms
  <2>4. CASE \E s \in Student, t \in Teacher \cap rows :
               /\ ValidateStudentTeachers(s, {t})
               /\ taughtBy' = taughtBy \cup {<<s, t>>} /\ UNCHANGED <<org, attends, worksAt, manages>>
    BY <2>1, <2>4, LinksAdded DEF Inv, LinksInv, ValidateStudentTeachers
  <2>5. CASE \E t \in Teacher \cap rows, c \in Classroom \cap rows :
               /\ ValidateTeacherClassrooms(t, {c})
               /\ worksAt' = worksAt \cup {<<t, c>>} /\ UNCHANGED <<org, attends, taughtBy, manages>>
    BY <2>2, <2>5, LinksAdded DEF Inv, LinksInv, ValidateTeacherClassrooms
  <2>6. CASE \E a \in ClassroomAdmin, c \in Classroom \cap rows :
               /\ ValidateAdministratorClassrooms(a, {c})
               /\ manages' = manages \cup {<<a, c>>} /\ UNCHANGED <<org, attends, taughtBy, worksAt>>
    BY <2>2, <2>6, LinksAdded DEF Inv, LinksInv, ValidateAdministratorClassrooms
  <2>7. QED
    BY <2>3, <2>4, <2>5, <2>6 DEF Add
<1>3. QED
  BY <1>1, <1>2 DEF Inv

LEMMA FixInv ==
    ASSUME Inv, NEW t \in Teacher, FixTeacher(t)
    PROVE  Inv'
<1> DEFINE missing == {c \in Classroom : org[c] = org[t] /\
                         \E s \in Student : <<s, t>> \in taughtBy /\ <<s, c>> \in attends}
<1>1. /\ t \in rows
      /\ worksAt' = worksAt \cup ({t} \X missing)
      /\ UNCHANGED <<org, rows, active, attends, taughtBy, manages, work>>
  BY DEF FixTeacher
<1>2. Kept /\ RowsInv'
  BY <1>1 DEF Inv, RowsInv, Kept, Made
<1>3. \A p \in {t} \X missing : Linked(p)
  BY <1>1 DEF Inv, RowsInv, Linked
<1>4. LinksInv'
  BY <1>1, <1>3, LinksAdded DEF Inv, LinksInv
<1>5. QED
  BY <1>1, <1>2, <1>4, WorkKept DEF Inv

LEMMA StepInv == Inv /\ [Next]_vars => Inv'
<1> SUFFICES ASSUME Inv, [Next]_vars PROVE Inv'
  OBVIOUS
<1>1. CASE UNCHANGED vars
  <2>1. UNCHANGED <<org, rows, active, links, work>>
    BY <1>1 DEF vars
  <2>2. Kept /\ RowsInv'
    BY <2>1 DEF Inv, RowsInv, Kept, Made
  <2>3. QED
    BY <2>1, <2>2, LinksKept, WorkKept DEF Inv
<1>2. CASE Next
  BY <1>2, CheckInv, SaveInv, OneStatementInv, AddInv, FixInv DEF Next
<1>3. QED
  BY <1>1, <1>2

THEOREM InvAlways == Spec => []Inv
<1>1. QED
  BY InitInv, StepInv, PTL DEF Spec

-----------------------------------------------------------------------------
(* The properties.                                                          *)

LEMMA ClassroomsShared ==
    ASSUME Inv, NEW u \in ClassroomAdmin
    PROVE  InClassrooms(u) \subseteq InTenant(u)
<1>1. ASSUME NEW s \in Student, NEW c \in Of(attends, s) \cap Of(manages, u)
      PROVE  org[s] = org[u]
  BY DEF Of, Inv, LinksInv, Linked
<1>2. QED
  BY <1>1 DEF InClassrooms, InTenant

\* Whatever part of the program is asked, nobody sees a student of another
\* organization (accounts/selectors.py and the six other implementations),
\* because no form or signal lets a link cross an organization (signals.py).
THEOREM SeesOwnTenantAlways == Spec => []SeesOwnTenant
<1>1. Inv => SeesOwnTenant
  <2> SUFFICES ASSUME Inv, NEW u \in Staff
               PROVE  SeenInAccounts(u) \cup SeenInactive(u) \cup SeenInScheduler(u)
                        \cup SeenInVocab(u) \cup SeenInReading(u) \cup SeenInListening(u)
                        \cup SeenInMath(u) \cup SeenInReminders(u) \subseteq InTenant(u)
    BY DEF SeesOwnTenant
  <2>1. SeenInAccounts(u) \cup SeenInactive(u) \subseteq InTenant(u)
    BY ClassroomsShared DEF SeenInAccounts, SeenInactive, SeenAmong
  <2>2. SeenInScheduler(u) \cup SeenInVocab(u) \subseteq InTenant(u)
    BY ClassroomsShared DEF SeenInScheduler, SeenInVocab, GetStudents
  <2>3. SeenInReading(u) \cup SeenInListening(u) \subseteq InTenant(u)
    BY ClassroomsShared DEF SeenInReading, SeenInListening, PassagesVisible, ListeningVisible
  <2>4. SeenInMath(u) \cup SeenInReminders(u) \subseteq InTenant(u)
    <3>1. SeenInReminders(u) \subseteq InTenant(u)
      BY DEF SeenInReminders, ReminderStudents
    <3>2. \A s \in Student : CanManageStudent(u, s) => s \in InTenant(u)
      BY ClassroomsShared DEF CanManageStudent, GetStudents, InTenant
    <3>3. SeenInMath(u) \subseteq InTenant(u)
      BY <3>2 DEF SeenInMath, SessionCanBeAccessed, SessionsVisible, Inv, RowsInv
    <3>4. QED
      BY <3>1, <3>3
  <2>5. QED
    BY <2>1, <2>2, <2>3, <2>4
<1>2. QED
  BY <1>1, InvAlways, PTL

\* The parts of the program agree on who sees a student, although each of them
\* decides by a query of its own (study_reminder/views.py, text_scheduler and
\* vocab_trainer/access_policies.py, the access_check packages, accounts/selectors.py).
THEOREM SeenAlikeAlways == Spec => []SeenAlike
<1>1. Inv => SeenAlike
  <2> SUFFICES ASSUME Inv, NEW u \in Staff PROVE
        LET managed == {s \in Student : CanManageStudent(u, s)} IN
        /\ SeenInAccounts(u) = managed /\ SeenInScheduler(u) = managed
        /\ SeenInVocab(u) = managed /\ SeenInReading(u) = managed
        /\ SeenInListening(u) = managed /\ SeenInReminders(u) = managed
        /\ u \notin ClassroomAdmin => SeenInMath(u) = managed
    BY DEF SeenAlike
  <2> DEFINE managed == {s \in Student : CanManageStudent(u, s)}
  <2>1. managed \subseteq active \cap InTenant(u) /\ active \subseteq Student
    BY ClassroomsShared DEF CanManageStudent, GetStudents, InTenant, Inv, RowsInv
  <2>2. CASE u \in Teacher
    <3>1. u \notin ClassroomAdmin /\ u \notin OrgAdmin
      BY <2>2, IdsAssumption
    <3>2. managed = GetStudents(u)
      BY <2>2, <3>1 DEF CanManageStudent, GetStudents, Taught
    <3>3. Taught(u) \subseteq InTenant(u)
      BY DEF Taught, InTenant, Inv, LinksInv, Linked
    <3>4. SeenInAccounts(u) = managed /\ SeenInScheduler(u) = managed /\ SeenInVocab(u) = managed
      BY <2>1, <2>2, <3>1, <3>2
      DEF SeenInAccounts, SeenAmong, SeenInScheduler, SeenInVocab, GetStudents
    <3>5. SeenInReading(u) = managed /\ SeenInListening(u) = managed
      BY <2>1, <2>2, <3>1, <3>2 DEF SeenInReading, SeenInListening, PassagesVisible,
         ListeningVisible, MayAccess, ListeningAccess, GetStudents
    <3>6. SeenInReminders(u) = managed /\ SeenInMath(u) = managed
      BY <2>1, <2>2, <3>1, <3>2, <3>3 DEF SeenInReminders, ReminderStudents, FilterByAccess,
         SeenInMath, SessionsVisible, SessionCanBeAccessed, GetStudents
    <3>7. QED
      BY <3>4, <3>5, <3>6
  <2>3. CASE u \in ClassroomAdmin
    <3>1. u \notin Teacher /\ u \notin OrgAdmin
      BY <2>3, IdsAssumption
    <3>2. managed = active \cap InClassrooms(u)
      BY <2>1, <2>3, <3>1 DEF CanManageStudent
    <3>3. SeenInAccounts(u) = managed /\ SeenInScheduler(u) = managed /\ SeenInVocab(u) = managed
      BY <2>3, <3>1, <3>2 DEF SeenInAccounts, SeenAmong, SeenInScheduler, SeenInVocab
    <3>4. SeenInReading(u) = managed /\ SeenInListening(u) = managed
      BY <2>1, <2>3, <3>1, <3>2 DEF SeenInReading, SeenInListening, PassagesVisible,
         ListeningVisible, MayAccess, ListeningAccess
    <3>5. SeenInReminders(u) = managed
      BY <2>1, <2>3, <3>1, <3>2 DEF SeenInReminders, ReminderStudents, FilterByAccess
    <3>6. QED
      BY <2>3, <3>3, <3>4, <3>5
  <2>4. CASE u \in OrgAdmin
    <3>1. u \notin Teacher /\ u \notin ClassroomAdmin
      BY <2>4, IdsAssumption
    <3>2. managed = active \cap InTenant(u)
      BY <2>1, <2>4, <3>1 DEF CanManageStudent, InTenant
    <3>3. SeenInAccounts(u) = managed /\ SeenInScheduler(u) = managed /\ SeenInVocab(u) = managed
      BY <2>4, <3>1, <3>2 DEF SeenInAccounts, SeenAmong, SeenInScheduler, SeenInVocab
    <3>4. SeenInReading(u) = managed /\ SeenInListening(u) = managed
      BY <2>1, <2>4, <3>1, <3>2 DEF SeenInReading, SeenInListening, PassagesVisible,
         ListeningVisible, MayAccess, ListeningAccess
    <3>5. SeenInReminders(u) = managed /\ SeenInMath(u) = managed
      BY <2>1, <2>4, <3>1, <3>2 DEF SeenInReminders, ReminderStudents, FilterByAccess,
         SeenInMath, SessionsVisible, SessionCanBeAccessed
    <3>6. QED
      BY <3>3, <3>4, <3>5
  <2>5. QED
    BY <2>2, <2>3, <2>4 DEF Staff
<1>2. QED
  BY <1>1, InvAlways, PTL

=============================================================================
