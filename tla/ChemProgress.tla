---------------------------- MODULE ChemProgress ----------------------------
(***************************************************************************)
(* The chemistry quizzes (chem_trainer/views/): a quiz of one of four      *)
(* categories picks an item; check_answer saves the student's progress and *)
(* then the difficulty of the item, each statement by itself, for there is *)
(* no transaction; a study card saves the progress row it has read.        *)
(*                                                                         *)
(* The wording of a question and its choices are left out, and the review  *)
(* priority orders nothing here: any item a list may hold may be asked.    *)
(***************************************************************************)
EXTENDS TrainerRequests, Sequences, FiniteSets

CONSTANTS
    Item,         \* elements, substances, compounds and equations
    CategoryOf    \* the category of an item

Category == {"element", "substance", "compound", "equation"}

ASSUME ItemAssumption == CategoryOf \in [Item -> Category]

VARIABLES
    chemProgress,    \* Student...Progress: the rows of each student and item
    chemDifficulty,  \* ...Difficulty: a function on the items with a row
    chemScreen,      \* the question on each student's screen
    chemPosted,      \* history: answers posted, for each student and item
    chemSaved,       \* history: the counts of those whose progress was saved
    chemRaced,       \* history: students and items with two requests between read and save
    chemPc,          \* where each worker is
    chemReq          \* the local variables of its request

chemVars == <<chemProgress, chemDifficulty, chemScreen, chemPosted, chemSaved, chemRaced, chemPc, chemReq>>

NoAnswer == [idle |-> TRUE]

ChemGoto(w, where, r) == chemPc' = [chemPc EXCEPT ![w] = where] /\ chemReq' = [chemReq EXCEPT ![w] = r]

ChemFinish(w) == ChemGoto(w, "idle", NoAnswer)

Seen(s) == {i \in Item : chemProgress[s, i] # <<>>}

-----------------------------------------------------------------------------
(* Asking *)

\* generate_question_item: new items, the highest priorities and items once
\* answered right; without any item random.choice raises.
QuestionItems(s, category) ==
    LET items == {i \in Item : CategoryOf[i] = category} IN
    (items \ Seen(s)) \cup (items \cap Seen(s))

\* A question replaces the one before.  (Bound: the answers of a behaviour are to
\* one item; the rows of two items have nothing in common.)
ChemShow(s, i) ==
    /\ \A k \in Student \X Item : chemPosted[k] > 0 => k[2] = i
    /\ chemScreen' = [chemScreen EXCEPT ![s] = i]
    /\ UNCHANGED <<chemProgress, chemDifficulty, chemPosted, chemSaved, chemRaced, chemPc, chemReq>>

ElementalQuiz(s, i) == i \in QuestionItems(s, "element") /\ ChemShow(s, i)
SubstanceQuiz(s, i) == i \in QuestionItems(s, "substance") /\ ChemShow(s, i)
CompoundQuiz(s, i) == i \in QuestionItems(s, "compound") /\ ChemShow(s, i)

\* Only one of the three kinds of question is rendered; the other two end
\* without a response, which leaves the screen as it was.
EquationQuiz(s, i) == i \in QuestionItems(s, "equation") /\ ChemShow(s, i)

\* review_quiz: the first of the progress rows that are not of an element.
ReviewQuiz(s, i) == i \in Seen(s) /\ CategoryOf[i] # "element" /\ ChemShow(s, i)

-----------------------------------------------------------------------------
(* check_answer *)

ChemPost(w, s, i, is_correct) ==
    /\ chemPc[w] = "idle" /\ chemScreen[s] = i
    /\ Cardinality({x \in (Student \X Item) \X (1 .. MaxAnswers) : x[2] <= chemPosted[x[1]]}) < MaxAnswers
    /\ chemPosted' = [chemPosted EXCEPT ![<<s, i>>] = @ + 1]
    /\ ChemGoto(w, "get", [student |-> s, item |-> i, is_correct |-> is_correct])
    /\ UNCHANGED <<chemProgress, chemDifficulty, chemScreen, chemSaved, chemRaced>>

\* Another request has read the rows of k and is to create or save one.
HasRead(v, k) ==
    \/ chemPc[v] \in {"create", "card"} /\ <<chemReq[v].student, chemReq[v].item>> = k
    \/ chemPc[v] = "save" /\ <<chemReq[v].answer.student, chemReq[v].answer.item>> = k
NoteRead(w, k) ==
    chemRaced' = IF \E v \in Worker \ {w} : HasRead(v, k) THEN chemRaced \cup {k} ELSE chemRaced

\* get_or_create of the progress: two rows raise, and so does every later answer.
GetProgress(w) ==
    LET k == <<chemReq[w].student, chemReq[w].item>>
        rows == chemProgress[k] IN
    /\ chemPc[w] = "get"
    /\ CASE Len(rows) = 0 -> ChemGoto(w, "create", chemReq[w])
         [] Len(rows) = 1 -> ChemGoto(w, "save", [answer |-> chemReq[w], id |-> 1, row |-> rows[1]])
         [] OTHER -> ChemFinish(w)
    /\ NoteRead(w, k)
    /\ UNCHANGED <<chemProgress, chemDifficulty, chemScreen, chemPosted, chemSaved>>

\* Nothing is unique: a second request creates a second row.
CreateProgress(w) ==
    LET q == chemReq[w]
        k == <<q.student, q.item>>
        row == [correct |-> 0, total |-> 0] IN
    /\ chemPc[w] = "create"
    /\ chemProgress' = [chemProgress EXCEPT ![k] = Append(@, row)]
    /\ ChemGoto(w, "save", [answer |-> q, id |-> Len(chemProgress[k]) + 1, row |-> row])
    /\ UNCHANGED <<chemDifficulty, chemScreen, chemPosted, chemSaved, chemRaced>>

\* update_progress: the row, as it was read, plus one answer.
SaveProgress(w) ==
    LET q == chemReq[w]
        k == <<q.answer.student, q.answer.item>>
        row == [correct |-> IF q.answer.is_correct THEN q.row.correct + 1 ELSE q.row.correct,
                total |-> q.row.total + 1] IN
    /\ chemPc[w] = "save"
    /\ chemProgress' = [chemProgress EXCEPT ![k] = [@ EXCEPT ![q.id] = row]]
    /\ chemSaved' = [chemSaved EXCEPT ![k] =
                       [correct |-> IF q.answer.is_correct THEN @.correct + 1 ELSE @.correct,
                        total |-> @.total + 1]]
    /\ ChemGoto(w, "difficulty", q.answer)
    /\ UNCHANGED <<chemDifficulty, chemScreen, chemPosted, chemRaced>>

\* get_or_create of the difficulty, one row for an item: a request that comes
\* second to create it reads the row of the first.
GetDifficulty(w) ==
    LET i == chemReq[w].item
        new == [correct |-> 0, total |-> 0, level |-> 1] IN
    /\ chemPc[w] = "difficulty"
    /\ chemDifficulty' = IF i \in DOMAIN chemDifficulty THEN chemDifficulty
                         ELSE [j \in DOMAIN chemDifficulty \cup {i} |->
                                 IF j = i THEN new ELSE chemDifficulty[j]]
    /\ ChemGoto(w, "level", [answer |-> chemReq[w], row |-> chemDifficulty'[i]])
    /\ UNCHANGED <<chemProgress, chemScreen, chemPosted, chemSaved, chemRaced>>

\* The level goes up when less than 3 in 10 answers are right, and down when
\* more than 7 are.
Level(level, correct, total) ==
    IF 10 * correct < 3 * total THEN (IF level = 5 THEN 5 ELSE level + 1)
    ELSE IF 10 * correct > 7 * total THEN (IF level = 1 THEN 1 ELSE level - 1)
    ELSE level

\* update_difficulty
SaveDifficulty(w) ==
    LET q == chemReq[w]
        correct == IF q.answer.is_correct THEN q.row.correct + 1 ELSE q.row.correct
        total == q.row.total + 1 IN
    /\ chemPc[w] = "level"
    /\ chemDifficulty' = [chemDifficulty EXCEPT ![q.answer.item] =
                            [correct |-> correct, total |-> total, level |-> Level(q.row.level, correct, total)]]
    /\ ChemFinish(w)
    /\ UNCHANGED <<chemProgress, chemScreen, chemPosted, chemSaved, chemRaced>>

\* study_card: get_object_or_404 and a full save.  Elements have no card.
ChemCardRead(w, s, i) ==
    /\ chemPc[w] = "idle" /\ CategoryOf[i] # "element" /\ Len(chemProgress[s, i]) = 1
    /\ ChemGoto(w, "card", [student |-> s, item |-> i, row |-> chemProgress[s, i][1]])
    /\ NoteRead(w, <<s, i>>)
    /\ UNCHANGED <<chemProgress, chemDifficulty, chemScreen, chemPosted, chemSaved>>

ChemCardSave(w) ==
    LET q == chemReq[w] IN
    /\ chemPc[w] = "card"
    /\ chemProgress' = [chemProgress EXCEPT ![<<q.student, q.item>>] = [@ EXCEPT ![1] = q.row]]
    /\ ChemFinish(w)
    /\ UNCHANGED <<chemDifficulty, chemScreen, chemPosted, chemSaved, chemRaced>>

\* The request fails or its process ends: what it has saved stays.
ChemAbort(w) ==
    /\ chemPc[w] # "idle"
    /\ ChemFinish(w)
    /\ UNCHANGED <<chemProgress, chemDifficulty, chemScreen, chemPosted, chemSaved, chemRaced>>

InitChem ==
    /\ chemProgress = [k \in Student \X Item |-> <<>>]
    /\ chemDifficulty = [i \in {} |-> {}]
    /\ chemScreen = [s \in Student |-> "none"]
    /\ chemPosted = [k \in Student \X Item |-> 0]
    /\ chemSaved = [k \in Student \X Item |-> [correct |-> 0, total |-> 0]]
    /\ chemRaced = {}
    /\ chemPc = [w \in Worker |-> "idle"]
    /\ chemReq = [w \in Worker |-> NoAnswer]

NextChem ==
    \/ \E s \in Student, i \in Item :
          \/ ElementalQuiz(s, i) \/ SubstanceQuiz(s, i) \/ CompoundQuiz(s, i)
          \/ EquationQuiz(s, i) \/ ReviewQuiz(s, i)
          \/ \E w \in Worker :
                ChemCardRead(w, s, i) \/ (\E is_correct \in BOOLEAN : ChemPost(w, s, i, is_correct))
    \/ \E w \in Worker :
          \/ GetProgress(w) \/ CreateProgress(w) \/ SaveProgress(w)
          \/ GetDifficulty(w) \/ SaveDifficulty(w) \/ ChemCardSave(w) \/ ChemAbort(w)

-----------------------------------------------------------------------------
(* Properties *)

\* A second row, and an answer that a row misses, come only of two requests of
\* the student for the item between their read and their save; else there is one
\* row and it counts what was saved.  Even then no row counts an answer that was not
\* given, the right ones never outnumber all, and the level, which the review
\* multiplies by, is one of five.
ChemRates ==
    /\ \A k \in (Student \X Item) \ chemRaced :
          IF chemProgress[k] = <<>> THEN chemSaved[k].total = 0
          ELSE chemProgress[k] = <<chemSaved[k]>>
    /\ \A k \in Student \X Item : \A n \in DOMAIN chemProgress[k] :
          /\ chemProgress[k][n].correct <= chemProgress[k][n].total
          /\ chemProgress[k][n].total <= chemPosted[k]
    /\ \A i \in DOMAIN chemDifficulty :
          /\ chemDifficulty[i].correct <= chemDifficulty[i].total
          /\ chemDifficulty[i].level \in 1 .. 5
=============================================================================
