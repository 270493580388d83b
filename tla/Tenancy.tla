------------------------------ MODULE Tenancy ------------------------------
(* Organizations, their classrooms and people, and who may see which        *)
(* student.  Staff change links and rows through forms: a form is checked   *)
(* by the rows it read and saved later, when other requests may have        *)
(* changed them.  Seven parts of the program answer by code of their own    *)
(* whether a member of staff may see a student.                             *)
EXTENDS FiniteSets

CONSTANTS
    Organization, Classroom, Student, Teacher, ClassroomAdmin, OrgAdmin,
    Worker,     \* requests in flight at a time
    None,       \* no organization (the row was never made), no request
    Home        \* the organization of everyone and everything made before

Staff == Teacher \cup ClassroomAdmin \cup OrgAdmin
Thing == Classroom \cup Student \cup Staff

ASSUME HomeAssumption ==
    /\ Home \in [Thing -> Organization \cup {None}]
    /\ \A p \in Student \cup ClassroomAdmin \cup OrgAdmin : Home[p] # None

ASSUME IdsAssumption ==
    /\ None \notin Organization
    /\ Teacher \cap OrgAdmin = {} /\ Teacher \cap ClassroomAdmin = {}
    /\ OrgAdmin \cap ClassroomAdmin = {}
    /\ Classroom \cap (Student \cup Staff) = {} /\ Student \cap Staff = {}

VARIABLES
    org,        \* the organization of a row: set when the row is made
    rows,       \* the rows there are
    active,     \* the students with is_active
    attends,    \* Student.classrooms
    taughtBy,   \* Student.teachers
    worksAt,    \* Teacher.classrooms
    manages,    \* ClassroomAdministrator.classrooms
    work        \* the form each worker has checked and not yet saved

links == <<attends, taughtBy, worksAt, manages>>
vars  == <<org, rows, active, links, work>>

Of(relation, x) == {y \in Thing : <<x, y>> \in relation}

Init ==
    /\ org = Home
    /\ rows = {x \in Thing : Home[x] # None}
    /\ active = Student
    /\ attends = {} /\ taughtBy = {} /\ worksAt = {} /\ manages = {}
    /\ work = [w \in Worker |-> None]

----------------------------------------------------------------------------
(* Who may see a student.                                                   *)

InTenant(u) == {s \in Student : org[s] = org[u]}
InClassrooms(u) == {s \in Student : Of(attends, s) \cap Of(manages, u) # {}}
Taught(u) == {s \in Student : <<s, u>> \in taughtBy}

\* Teacher.get_students: the teacher's, active and of the same organization.
GetStudents(u) == active \cap Taught(u) \cap InTenant(u)

\* A version that lets a classroom administrator keep deactivated students.
CanManageStudentAny(u, s) ==
    \/ u \in Teacher /\ s \in GetStudents(u)
    \/ u \in ClassroomAdmin /\ s \in InClassrooms(u)
    \/ u \in OrgAdmin /\ s \in active /\ org[u] = org[s]

\* can_manage_student of the three roles.
CanManageStudent(u, s) ==
    \/ u \in Teacher /\ s \in GetStudents(u)
    \/ u \in ClassroomAdmin /\ s \in active /\ s \in InClassrooms(u)
    \/ u \in OrgAdmin /\ s \in active /\ org[u] = org[s]

\* accounts: visible_students_qs, and the same of deactivated students.
SeenAmong(students, u) == {s \in students :
    \/ u \in Teacher /\ s \in Taught(u) \cap InTenant(u)
    \/ u \in ClassroomAdmin /\ s \in InClassrooms(u)
    \/ u \in OrgAdmin /\ s \in InTenant(u)}
SeenInAccounts(u) == SeenAmong(active, u)
SeenInactive(u) == SeenAmong(Student \ active, u)

\* text_scheduler and vocab_trainer: visible_students_qs.
SeenInScheduler(u) == {s \in active :
    \/ u \in Teacher /\ s \in GetStudents(u)
    \/ u \in ClassroomAdmin /\ s \in InClassrooms(u)
    \/ u \in OrgAdmin /\ s \in InTenant(u)}
SeenInVocab(u) == {s \in active :
    \/ u \in Teacher /\ s \in GetStudents(u)
    \/ u \in ClassroomAdmin /\ s \in InClassrooms(u)
    \/ u \in OrgAdmin /\ s \in InTenant(u)}

\* read_trainer and listening_trainer: the students whose passages open, by
\* visible_to and then by ensure_can_access_student.
PassagesVisible(u) == {s \in active :
    \/ u \in Teacher /\ s \in Taught(u) \cap InTenant(u)
    \/ u \in ClassroomAdmin /\ s \in InClassrooms(u)
    \/ u \in OrgAdmin /\ s \in InTenant(u)}
MayAccess(u, s) == s \in active /\ CanManageStudent(u, s)
SeenInReading(u) == {s \in PassagesVisible(u) : MayAccess(u, s)}

ListeningVisible(u) == {s \in active :
    \/ u \in Teacher /\ s \in Taught(u) \cap InTenant(u)
    \/ u \in ClassroomAdmin /\ s \in InClassrooms(u)
    \/ u \in OrgAdmin /\ s \in InTenant(u)}
ListeningAccess(u, s) == s \in active /\ CanManageStudent(u, s)
SeenInListening(u) == {s \in ListeningVisible(u) : ListeningAccess(u, s)}

\* math_trainer: the students whose sessions open.  visible_to gives a
\* classroom administrator's classrooms to the query as a manager, not as a
\* queryset, and the request ends with a TypeError.
SessionsVisible(u) == {s \in active :
    \/ u \in Teacher /\ s \in Taught(u)
    \/ u \in OrgAdmin /\ s \in InTenant(u)}
SessionCanBeAccessed(u, s) == s \in active /\ CanManageStudent(u, s)
SeenInMath(u) == {s \in SessionsVisible(u) : SessionCanBeAccessed(u, s)}

\* study_reminder: the list of students, and their reminders in it.
ReminderStudents(u) == {s \in active \cap InTenant(u) :
    \/ u \in Teacher /\ s \in Taught(u)
    \/ u \in ClassroomAdmin /\ s \in InClassrooms(u)
    \/ u \in OrgAdmin}
FilterByAccess(u) == {s \in active \cap InTenant(u) :
    \/ u \in Teacher /\ s \in Taught(u)
    \/ u \in ClassroomAdmin /\ s \in InClassrooms(u)
    \/ u \in OrgAdmin}
SeenInReminders(u) == ReminderStudents(u) \cap FilterByAccess(u)

----------------------------------------------------------------------------
(* Who may act on a classroom or a teacher.                                 *)

GetAccessibleClassrooms(u) ==
    rows \cap IF u \in OrgAdmin THEN {c \in Classroom : org[c] = org[u]}
                                ELSE Of(manages, u) \cap Classroom
ClassroomCanBeAccessed(u, c) ==
    \/ u \in OrgAdmin /\ org[u] = org[c]
    \/ u \in ClassroomAdmin /\ <<u, c>> \in manages
CanManageClassroom(u, c) ==
    \/ u \in OrgAdmin /\ org[u] = org[c]
    \/ u \in ClassroomAdmin /\ <<u, c>> \in manages
TeacherCanBeAccessed(u, t) ==
    \/ u \in OrgAdmin /\ \E c \in Of(worksAt, t) : org[c] = org[u]
    \/ u \in ClassroomAdmin /\ Of(worksAt, t) \cap Of(manages, u) # {}

\* The signals: what is added belongs to the organization it is added to.
ValidateStudentClassrooms(s, classrooms) == \A c \in classrooms : org[c] = org[s]
ValidateStudentTeachers(s, teachers) == \A t \in teachers : org[t] = org[s]
ValidateTeacherClassrooms(t, classrooms) == \A c \in classrooms : org[c] = org[t]
ValidateAdministratorClassroomsLate(a, classrooms) == \A c \in classrooms : c \in rows
ValidateAdministratorClassrooms(a, classrooms) == \A c \in classrooms : org[c] = org[a]

\* .clean(): a row whose links left its organization is refused by its form.
StudentClean(s) ==
    /\ \A c \in Of(attends, s) : org[c] = org[s]
    /\ \A t \in Of(taughtBy, s) : org[t] = org[s]
TeacherClean(t) == \A c \in Of(worksAt, t) : org[c] = org[t]

\* relation.set(ys) of x
SetTo(relation, x, ys) == {p \in relation : p[1] # x} \cup ({x} \X ys)

----------------------------------------------------------------------------
(* A form is checked ...                                                    *)

Checked(w, view, one, many) ==
    /\ work[w] = None
    /\ work' = [work EXCEPT ![w] = [view |-> view, one |-> one, many |-> many]]
    /\ UNCHANGED <<org, rows, active, links>>

\* AssignClassroomForm: an unassigned student, a classroom of the organization
CheckAssign(w, u) == \E s \in SeenInAccounts(u), c \in GetAccessibleClassrooms(u) :
    /\ u \in OrgAdmin
    /\ Of(attends, s) = {} /\ org[s] = org[c]
    /\ Checked(w, "assign", s, {c})

\* StudentEditForm offers the teachers of the organization, or of the
\* administrator's classrooms, of the student's organization.
Offered(u, s) == {t \in Teacher \cap rows :
    /\ org[t] = org[s]
    /\ \/ u \in OrgAdmin /\ org[t] = org[u]
       \/ u \in ClassroomAdmin /\ Of(worksAt, t) \cap Of(manages, u) # {}}
CheckStudentEdit(w, u) == \E s \in SeenInAccounts(u) :
    /\ u \notin Teacher /\ StudentClean(s)
    /\ \E chosen \in SUBSET Offered(u, s) : Checked(w, "student", s, chosen)

\* StudentEditForTeachersView
CheckTeachersEdit(w, u) == \E s \in GetStudents(u) :
    u \in Teacher /\ StudentClean(s) /\ Checked(w, "note", s, {})

\* TeacherEditView
CheckTeacherEdit(w, u) == \E t \in Teacher \cap rows :
    /\ TeacherCanBeAccessed(u, t) /\ TeacherClean(t)
    /\ \E chosen \in SUBSET {c \in Classroom \cap rows : ClassroomCanBeAccessed(u, c)} \ {{}} :
          Checked(w, "teacher", t, chosen)

\* ClassroomEditView: the name; its field of administrators is not one of the
\* model's own relations and a ModelForm does not save it.
CheckClassroomEdit(w, u) == \E c \in Classroom \cap rows :
    CanManageClassroom(u, c) /\ Checked(w, "classroom", c, {})

\* TeacherCreateForm: the classrooms decide the organization.  The row is
\* saved, then its classrooms are set.
TeacherCreate(w, u) == \E t \in Teacher :
  \E chosen \in SUBSET {c \in Classroom \cap rows : ClassroomCanBeAccessed(u, c)} \ {{}} :
    /\ work[w] = None /\ org[t] = None
    /\ \E o \in Organization :
          /\ {org[c] : c \in chosen} = {o}
          /\ org' = [org EXCEPT ![t] = o]
    /\ rows' = rows \cup {t}
    /\ work' = [work EXCEPT ![w] = [view |-> "fill", one |-> t, many |-> chosen]]
    /\ UNCHANGED <<active, links>>

----------------------------------------------------------------------------
(* ... and saved.  A row that was deleted meanwhile is inserted again by    *)
(* save(); a link to a row that was deleted is refused by the database, and *)
(* a link the signals refuse ends the request.                              *)

Holds(w, view) == work[w] # None /\ work[w].view = view
Done(w) == work' = [work EXCEPT ![w] = None]

SaveAssign(w) ==
    LET s == work[w].one  classrooms == work[w].many IN
    /\ Holds(w, "assign") /\ Done(w)
    /\ IF classrooms \subseteq rows /\ ValidateStudentClassrooms(s, classrooms)
       THEN attends' = attends \cup ({s} \X classrooms)
       ELSE attends' = attends
    /\ UNCHANGED <<org, rows, active, taughtBy, worksAt, manages>>

\* The whole row is saved, is_active as it was read, then the teachers, and
\* the teachers that do not work in a classroom of the student join it.
SaveStudent(w) ==
    LET s == work[w].one  teachers == work[w].many
        added == teachers \ Of(taughtBy, s) IN
    /\ Holds(w, "student")
    /\ active' = active \cup {s}
    /\ IF teachers \subseteq rows /\ ValidateStudentTeachers(s, added)
       THEN /\ taughtBy' = SetTo(taughtBy, s, teachers)
            /\ work' = [work EXCEPT ![w] =
                  [view |-> "join", one |-> s,
                   many |-> teachers \X (Of(attends, s) \cap Classroom)]]
       ELSE taughtBy' = taughtBy /\ Done(w)
    /\ UNCHANGED <<org, rows, attends, worksAt, manages>>

JoinClassroom(w) ==
    /\ Holds(w, "join")
    /\ \/ /\ work[w].many = {} /\ Done(w)
          /\ UNCHANGED worksAt
       \/ \E p \in work[w].many :
             IF {p[1], p[2]} \subseteq rows /\ ValidateTeacherClassrooms(p[1], {p[2]})
             THEN /\ worksAt' = worksAt \cup {p}
                  /\ work' = [work EXCEPT ![w].many = @ \ {p}]
             ELSE worksAt' = worksAt /\ Done(w)
    /\ UNCHANGED <<org, rows, active, attends, taughtBy, manages>>

SaveNote(w) ==
    /\ Holds(w, "note") /\ Done(w)
    /\ active' = active \cup {work[w].one}
    /\ UNCHANGED <<org, rows, links>>

SaveTeacher(w) ==
    LET t == work[w].one  classrooms == work[w].many
        added == classrooms \ Of(worksAt, t) IN
    /\ Holds(w, "teacher") \/ Holds(w, "fill")
    /\ Done(w)
    /\ rows' = IF Holds(w, "teacher") THEN rows \cup {t} ELSE rows
    /\ IF classrooms \cup {t} \subseteq rows' /\ ValidateTeacherClassrooms(t, added)
       THEN worksAt' = SetTo(worksAt, t, classrooms)
       ELSE worksAt' = worksAt
    /\ UNCHANGED <<org, active, attends, taughtBy, manages>>

SaveClassroom(w) ==
    /\ Holds(w, "classroom") /\ Done(w)
    /\ rows' = rows \cup {work[w].one}
    /\ UNCHANGED <<org, active, links>>

----------------------------------------------------------------------------
(* Requests of one statement.                                               *)

ClassroomCreate(u) == \E c \in Classroom :
    /\ u \in OrgAdmin /\ org[c] = None
    /\ org' = [org EXCEPT ![c] = org[u]]
    /\ rows' = rows \cup {c}
    /\ UNCHANGED <<active, links, work>>

Without(relation, x) == {p \in relation : p[1] # x /\ p[2] # x}

\* Deleting a row deletes its links.
Delete(x) ==
    /\ rows' = rows \ {x}
    /\ attends' = Without(attends, x) /\ taughtBy' = Without(taughtBy, x)
    /\ worksAt' = Without(worksAt, x) /\ manages' = Without(manages, x)
    /\ UNCHANGED <<org, active, work>>

ClassroomDelete(u) == \E c \in Classroom \cap rows : CanManageClassroom(u, c) /\ Delete(c)
TeacherDelete(u) == \E t \in Teacher \cap rows : TeacherCanBeAccessed(u, t) /\ Delete(t)

\* StudentDeleteView deactivates.
StudentDelete(u) == \E s \in SeenInAccounts(u) :
    /\ u \notin Teacher /\ CanManageStudent(u, s)
    /\ active' = active \ {s}
    /\ UNCHANGED <<org, rows, links, work>>

StudentReactivate(u) == \E c \in Classroom \cap rows :
    /\ CanManageClassroom(u, c) /\ ClassroomCanBeAccessed(u, c)
    /\ \E chosen \in SUBSET {s \in SeenInactive(u) : <<s, c>> \in attends} :
          chosen # {} /\ active' = active \cup chosen
    /\ UNCHANGED <<org, rows, links, work>>

\* Links added past the forms, with the relation of the row that owns it, as src
\* does (student.classrooms.add, teacher.classrooms.add, ...), or of a teacher
\* (teacher.students.add): only the signals guard them.  Nothing else makes an
\* administrator one of a classroom.  The side of a classroom, of which three of
\* the signals would compare the wrong rows, has no caller in src.
Add ==
    /\ \/ \E s \in Student, c \in Classroom \cap rows :
             /\ ValidateStudentClassrooms(s, {c})
             /\ attends' = attends \cup {<<s, c>>} /\ UNCHANGED <<taughtBy, worksAt, manages>>
       \/ \E s \in Student, t \in Teacher \cap rows :
             /\ ValidateStudentTeachers(s, {t})
             /\ taughtBy' = taughtBy \cup {<<s, t>>} /\ UNCHANGED <<attends, worksAt, manages>>
       \/ \E t \in Teacher \cap rows, c \in Classroom \cap rows :
             /\ ValidateTeacherClassrooms(t, {c})
             /\ worksAt' = worksAt \cup {<<t, c>>} /\ UNCHANGED <<attends, taughtBy, manages>>
       \/ \E a \in ClassroomAdmin, c \in Classroom \cap rows :
             /\ ValidateAdministratorClassrooms(a, {c})
             /\ manages' = manages \cup {<<a, c>>} /\ UNCHANGED <<attends, taughtBy, worksAt>>
    /\ UNCHANGED <<org, rows, active, work>>

\* fix_teacher_classrooms_from_students, teacher by teacher, run in the shell.
\* (fix_org_classroom_integrity cuts links that leave an organization: with
\* TenantsApart there are none.)
FixTeacher(t) ==
    LET missing == {c \in Classroom : org[c] = org[t] /\
                      \E s \in Student : <<s, t>> \in taughtBy /\ <<s, c>> \in attends} IN
    /\ t \in rows
    /\ ValidateTeacherClassrooms(t, missing)
    /\ worksAt' = worksAt \cup ({t} \X missing)
    /\ UNCHANGED <<org, rows, active, attends, taughtBy, manages, work>>

Check(w, u) ==
    \/ CheckAssign(w, u) \/ CheckStudentEdit(w, u) \/ CheckTeachersEdit(w, u)
    \/ CheckTeacherEdit(w, u) \/ CheckClassroomEdit(w, u) \/ TeacherCreate(w, u)
Save(w) ==
    \/ SaveAssign(w) \/ SaveStudent(w) \/ JoinClassroom(w) \/ SaveNote(w)
    \/ SaveTeacher(w) \/ SaveClassroom(w)
OneStatement(u) ==
    \/ ClassroomCreate(u) \/ ClassroomDelete(u) \/ TeacherDelete(u)
    \/ StudentDelete(u) \/ StudentReactivate(u)

Next ==
    \/ \E u \in Staff \cap rows : OneStatement(u) \/ \E w \in Worker : Check(w, u)
    \/ \E w \in Worker : Save(w)
    \/ Add
    \/ \E t \in Teacher : FixTeacher(t)

Spec == Init /\ [][Next]_vars

----------------------------------------------------------------------------
Form ==
         [view : {"assign"}, one : Student, many : SUBSET Classroom]
    \cup [view : {"student"}, one : Student, many : SUBSET Teacher]
    \cup [view : {"join"}, one : Student, many : SUBSET (Teacher \X Classroom)]
    \cup [view : {"note"}, one : Student, many : {{}}]
    \cup [view : {"teacher", "fill"}, one : Teacher, many : SUBSET Classroom]
    \cup [view : {"classroom"}, one : Classroom, many : {{}}]

\* Types.
TypeOK ==
    /\ org \in [Thing -> Organization \cup {None}]
    /\ rows \subseteq Thing /\ active \subseteq Student
    /\ attends \subseteq Student \X Classroom /\ taughtBy \subseteq Student \X Teacher
    /\ worksAt \subseteq Teacher \X Classroom /\ manages \subseteq ClassroomAdmin \X Classroom
    /\ work \in [Worker -> Form \cup {None}]

\* No link crosses the border of an organization: what the signals, the forms
\* and the clean methods keep together (signals.py, forms.py), as long as links
\* are added as src adds them.
TenantsApart ==
    /\ \A p \in attends : org[p[1]] = org[p[2]]
    /\ \A p \in taughtBy : org[p[1]] = org[p[2]]
    /\ \A p \in worksAt : org[p[1]] = org[p[2]]
    /\ \A p \in manages : org[p[1]] = org[p[2]]

\* Whatever part of the program is asked, nobody sees a student of another
\* organization: the lists for classroom administrators ask for common
\* classrooms only and rely on every link having been kept inside.
SeesOwnTenant == \A u \in Staff :
    SeenInAccounts(u) \cup SeenInactive(u) \cup SeenInScheduler(u) \cup SeenInVocab(u)
        \cup SeenInReading(u) \cup SeenInListening(u) \cup SeenInMath(u)
        \cup SeenInReminders(u) \subseteq InTenant(u)

\* The parts of the program agree: a student is seen in each of them by
\* exactly the staff that may manage the student (but for the sessions of
\* mathematics, which a classroom administrator cannot open).
SeenAlike == \A u \in Staff :
    LET managed == {s \in Student : CanManageStudent(u, s)} IN
    /\ SeenInAccounts(u) = managed /\ SeenInScheduler(u) = managed
    /\ SeenInVocab(u) = managed /\ SeenInReading(u) = managed
    /\ SeenInListening(u) = managed /\ SeenInReminders(u) = managed
    /\ u \notin ClassroomAdmin => SeenInMath(u) = managed
=============================================================================
