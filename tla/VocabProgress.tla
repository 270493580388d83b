--------------------------- MODULE VocabProgress ---------------------------
(***************************************************************************)
(* The vocabulary quizzes (vocab_trainer/): a quiz picks a context, a word *)
(* with its meaning in a chapter of a textbook; check_answer stores the    *)
(* answer, the difficulty of the word and the progress of the student in   *)
(* one transaction; a study card saves the progress row it has read.       *)
(*                                                                         *)
(* Transactions are READ COMMITTED: a query sees what is committed, and an *)
(* UPDATE waits for the transaction that holds its row.  What a student    *)
(* reads, the other choices of a question and the review priority, which   *)
(* only orders what may be asked, are left out.                            *)
(***************************************************************************)
EXTENDS TrainerRequests, Sequences, FiniteSets

CONSTANTS
    Book,            \* textbooks
    Context,         \* WordMeaningContext rows
    RelationOf,      \* the WordMeaningRelation of a context
    ChapterOf,       \* the chapter of a context
    BookOf,          \* the textbook of a chapter
    MAX_CANDIDATES,  \* 100 in the code
    MaxDay           \* bound: the clock stops here

Relation == {RelationOf[c] : c \in Context}
Chapter  == {ChapterOf[c] : c \in Context}

ASSUME QuizAssumption ==
    /\ ChapterOf \in [Context -> Chapter] /\ RelationOf \in [Context -> Relation]
    /\ BookOf \in [Chapter -> Book]
    /\ MAX_CANDIDATES \in Nat \ {0} /\ MaxDay \in Nat

VARIABLES
    contextProgress, \* StudentContextProgress: the rows of each student and context
    difficulty,      \* WordMeaningRelationDifficulty: a function on the relations with a row
    results,         \* QuizResult: the answers, in the order they were committed
    holder,          \* the transaction that holds the difficulty row of a relation
    book,            \* the textbook of each student, or none
    pages,           \* the questions on the students' screens
    day,             \* today
    posted,          \* history: answers posted
    savedOver,       \* history: progress a study card has saved an older copy of
    missed,          \* history: answers committed, by word, after another had read its counters
    vocabPc,         \* where each worker is
    vocabReq         \* the local variables of its request

vocabVars == <<contextProgress, difficulty, results, holder, book, pages, day, posted, savedOver, missed,
               vocabPc, vocabReq>>

None == "none"

ASSUME NoneAssumption == None \notin Worker

-----------------------------------------------------------------------------
(* StudentContextProgress, with ease_factor in 1/SCALE *)

SCALE    == 600
MIN_EASE == 780     \* 1.3

NewRow == [correct |-> 0, total |-> 0, repetition |-> 0, last |-> "none",
           ease |-> 1500, interval |-> 1, next_due_at |-> 0]

AtLeast(low, x) == IF x < low THEN low ELSE x

\* ease_factor after the answer, from the accuracy that counts it.
Ease(row, is_correct, total, correct) ==
    IF is_correct THEN AtLeast(MIN_EASE, row.ease - 120 + (300 * correct) \div total)
    ELSE AtLeast(MIN_EASE, row.ease - 120)

\* update_progress
Updated(row, is_correct, today) ==
    LET total    == row.total + 1
        correct  == IF is_correct THEN row.correct + 1 ELSE row.correct
        ease     == Ease(row, is_correct, total, correct)
        interval == IF is_correct THEN (row.interval * ease) \div SCALE ELSE 1 IN
    [correct     |-> correct,
     total       |-> total,
     repetition  |-> IF ~is_correct THEN 0 ELSE IF row.last = "right" THEN row.repetition + 1 ELSE 1,
     last        |-> IF is_correct THEN "right" ELSE "wrong",
     ease        |-> ease,
     interval    |-> interval,
     next_due_at |-> today + (IF is_correct THEN AtLeast(1, interval) ELSE 1)]

Learned(s) == {c \in Context : contextProgress[s, c] # <<>>}

-----------------------------------------------------------------------------
(* Asking.  A question is a page with the context in it; the same page may *)
(* be answered again, from another tab or after going back.                *)

VocabGoto(w, where, r) ==
    /\ vocabPc' = [vocabPc EXCEPT ![w] = where]
    /\ vocabReq' = [vocabReq EXCEPT ![w] = r]

NoPost == [idle |-> TRUE]

VocabFinish(w) == VocabGoto(w, "idle", NoPost)

Show(s, c) ==
    /\ pages' = pages \cup {<<s, c>>}
    /\ UNCHANGED <<contextProgress, difficulty, results, holder, book, day, posted, savedOver, missed,
                   vocabPc, vocabReq>>

InBook(s) == {c \in Context : BookOf[ChapterOf[c]] = book[s]}

\* quiz_all: any context of the textbook.
AskAll(s, c) == c \in InBook(s) /\ Show(s, c)

\* The buckets new, high and random of pick_quiz_context_by_ratio; they are
\* tried in a random order, and a word without progress in the chapters is new.
New(s, base) == {c \in base : \A d \in base \cap Learned(s) : RelationOf[d] # RelationOf[c]}
High(s, base) == base \cap Learned(s)
Random(s, base) ==
    {c \in base \cap Learned(s) :
        \E i \in DOMAIN contextProgress[s, c] : contextProgress[s, c][i].correct > 0}

PickByRatio(s, base) == New(s, base) \cup High(s, base) \cup Random(s, base)

\* quiz_chapter: chapters of the student's textbook.
AskChapter(s, chapters, c) ==
    /\ \A x \in chapters : BookOf[x] = book[s]
    /\ c \in PickByRatio(s, {d \in Context : ChapterOf[d] \in chapters})
    /\ Show(s, c)

Due(s) == {c \in Learned(s) \cap InBook(s) :
              \E i \in DOMAIN contextProgress[s, c] : contextProgress[s, c][i].next_due_at <= day}

\* get_review_candidates_by_due: what is due, and others only when that is
\* less than MAX_CANDIDATES.
Candidates(s) ==
    IF Cardinality(Due(s)) >= MAX_CANDIDATES THEN Due(s) ELSE Learned(s) \cap InBook(s)

\* quiz_review: softmax gives each candidate a chance.
AskReview(s, c) == c \in Candidates(s) /\ Show(s, c)

\* Staff who sit a quiz with a student ask from the rows of that student.
AskAllWithAdmin(s, c) == AskAll(s, c)
AskChapterWithAdmin(s, chapters, c) == AskChapter(s, chapters, c)
AskReviewWithAdmin(s, c) == AskReview(s, c)

-----------------------------------------------------------------------------
(* check_answer *)

VocabBusy(w) == vocabPc[w] # "idle"
InFlight == {w \in Worker : vocabPc[w] \in {"select", "insert", "update", "progress", "commit"}}

\* The page is posted; the transaction begins with the QuizResult, which no
\* other transaction sees.
PostAnswer(w, s, c, is_correct) ==
    /\ ~VocabBusy(w) /\ <<s, c>> \in pages
    /\ posted < MaxAnswers /\ posted' = posted + 1
    /\ VocabGoto(w, "select", [student |-> s, context |-> c, is_correct |-> is_correct])
    /\ UNCHANGED <<contextProgress, difficulty, results, holder, book, pages, day, savedOver, missed>>

PostAnswerWithAdmin(w, s, c, is_correct) == PostAnswer(w, s, c, is_correct)

Rel(w) == RelationOf[vocabReq[w].context]

\* The answer q with the counters of its word, as they were read, and as they
\* will be saved.
Reading(q, counters) ==
    [student |-> q.student, context |-> q.context, is_correct |-> q.is_correct, read |-> counters]
Rating(q, counters) ==
    [student |-> q.student, context |-> q.context, is_correct |-> q.is_correct, difficulty |-> counters]

\* The counters of a word as they are committed.
Counters(r) == IF r \in DOMAIN difficulty THEN difficulty[r] ELSE [correct |-> 0, total |-> 0]

\* get_or_create of the difficulty: its SELECT.
SelectDifficulty(w) ==
    /\ vocabPc[w] = "select"
    /\ IF Rel(w) \in DOMAIN difficulty
       THEN VocabGoto(w, "update", Reading(vocabReq[w], difficulty[Rel(w)]))
       ELSE VocabGoto(w, "insert", vocabReq[w])
    /\ UNCHANGED <<contextProgress, difficulty, results, holder, book, pages, day, posted, savedOver, missed>>

\* Its INSERT: the unique relation makes it wait for another's; then either
\* there is a row, which is read instead, or the row is this transaction's.
InsertDifficulty(w) ==
    /\ vocabPc[w] = "insert" /\ holder[Rel(w)] = None
    /\ holder' = IF Rel(w) \in DOMAIN difficulty THEN holder ELSE [holder EXCEPT ![Rel(w)] = w]
    /\ VocabGoto(w, "update", Reading(vocabReq[w], Counters(Rel(w))))
    /\ UNCHANGED <<contextProgress, difficulty, results, book, pages, day, posted, savedOver, missed>>

Counted(row, is_correct) ==
    [correct |-> IF is_correct THEN row.correct + 1 ELSE row.correct, total |-> row.total + 1]

\* mutant (AnswersCounted): without transaction.atomic the row is committed, and
\* released, at once.
UpdateReleased(w) ==
    /\ vocabPc[w] = "update" /\ holder[Rel(w)] \in {None, w}
    /\ holder' = [holder EXCEPT ![Rel(w)] = None]
    /\ VocabGoto(w, "progress",
                 Rating(vocabReq[w], Counted(vocabReq[w].read, vocabReq[w].is_correct)))
    /\ UNCHANGED <<contextProgress, difficulty, results, book, pages, day, posted, savedOver, missed>>

\* mutant (RatesSane): only the right answers are counted in the database, by
\* an expression on the column.
UpdateColumn(w) ==
    /\ vocabPc[w] = "update" /\ holder[Rel(w)] \in {None, w}
    /\ holder' = [holder EXCEPT ![Rel(w)] = w]
    /\ VocabGoto(w, "progress",
                 Rating(vocabReq[w],
                        [correct |-> Counted(Counters(Rel(w)), vocabReq[w].is_correct).correct,
                         total   |-> vocabReq[w].read.total + 1]))
    /\ UNCHANGED <<contextProgress, difficulty, results, book, pages, day, posted, savedOver, missed>>

\* The counters, read before, are saved whole; from here to the end of the
\* transaction the row is locked.
UpdateDifficulty(w) ==
    /\ vocabPc[w] = "update" /\ holder[Rel(w)] \in {None, w}
    /\ holder' = [holder EXCEPT ![Rel(w)] = w]
    /\ VocabGoto(w, "progress",
                 Rating(vocabReq[w], Counted(vocabReq[w].read, vocabReq[w].is_correct)))
    /\ UNCHANGED <<contextProgress, difficulty, results, book, pages, day, posted, savedOver, missed>>

Release(w) == holder' = [r \in Relation |-> IF holder[r] = w THEN None ELSE holder[r]]

\* get_or_create of the progress, which nothing makes unique: with two rows it
\* raises and the transaction is undone.
SelectProgress(w) ==
    LET rows == contextProgress[vocabReq[w].student, vocabReq[w].context] IN
    /\ vocabPc[w] = "progress"
    /\ IF Len(rows) <= 1
       THEN /\ VocabGoto(w, "commit",
                         [student    |-> vocabReq[w].student,
                          context    |-> vocabReq[w].context,
                          is_correct |-> vocabReq[w].is_correct,
                          difficulty |-> vocabReq[w].difficulty,
                          new        |-> rows = <<>>,
                          row        |-> IF rows = <<>> THEN NewRow ELSE rows[1]])
            /\ UNCHANGED holder
       ELSE VocabFinish(w) /\ Release(w)
    /\ UNCHANGED <<contextProgress, difficulty, results, book, pages, day, posted, savedOver, missed>>

\* update_progress, its save and the commit.
CommitAnswer(w) ==
    LET q == vocabReq[w]
        k == <<q.student, q.context>>
        row == Updated(q.row, q.is_correct, day) IN
    /\ vocabPc[w] = "commit"
    /\ difficulty' = [r \in DOMAIN difficulty \cup {Rel(w)} |->
                        IF r = Rel(w) THEN q.difficulty ELSE difficulty[r]]
    /\ contextProgress' =
          [contextProgress EXCEPT ![k] = IF q.new THEN Append(@, row) ELSE [@ EXCEPT ![1] = row]]
    /\ results' = [results EXCEPT ![k] = Append(@, q.is_correct)]
    /\ missed' = IF \E v \in Worker \ {w} : vocabPc[v] = "update" /\ Rel(v) = Rel(w)
                 THEN [missed EXCEPT ![Rel(w)] = @ + 1] ELSE missed
    /\ Release(w) /\ VocabFinish(w)
    /\ UNCHANGED <<book, pages, day, posted, savedOver>>

\* An exception, or the end of the process: the transaction is undone.
Abort(w) ==
    /\ w \in InFlight
    /\ Release(w) /\ VocabFinish(w)
    /\ UNCHANGED <<contextProgress, difficulty, results, book, pages, day, posted, savedOver, missed>>

-----------------------------------------------------------------------------
(* study_card, outside of a transaction *)

CardRead(w, s, c) ==
    /\ ~VocabBusy(w) /\ Len(contextProgress[s, c]) = 1
    /\ VocabGoto(w, "card", [student |-> s, context |-> c, row |-> contextProgress[s, c][1]])
    /\ UNCHANGED <<contextProgress, difficulty, results, holder, book, pages, day, posted, savedOver, missed>>

\* save() writes every column; priority and last_answered_at are left out here.
CardSave(w) ==
    LET k == <<vocabReq[w].student, vocabReq[w].context>> IN
    /\ vocabPc[w] = "card"
    /\ contextProgress' = [contextProgress EXCEPT ![k] = [@ EXCEPT ![1] = vocabReq[w].row]]
    /\ savedOver' = IF contextProgress[k][1] = vocabReq[w].row THEN savedOver ELSE savedOver \cup {k}
    /\ VocabFinish(w)
    /\ UNCHANGED <<difficulty, results, holder, book, pages, day, posted, missed>>

-----------------------------------------------------------------------------
\* StudentEditForm, and StudentEditForTeachersForm: another textbook, or none.
ChangeBook(s, b) ==
    /\ book' = [book EXCEPT ![s] = b]
    /\ UNCHANGED <<contextProgress, difficulty, results, holder, pages, day, posted, savedOver, missed,
                   vocabPc, vocabReq>>

Tick ==
    /\ day < MaxDay
    /\ day' = day + 1
    /\ UNCHANGED <<contextProgress, difficulty, results, holder, book, pages, posted, savedOver, missed,
                   vocabPc, vocabReq>>

InitVocab ==
    /\ contextProgress = [k \in Student \X Context |-> <<>>]
    /\ difficulty = [r \in {} |-> {}]
    /\ results = [k \in Student \X Context |-> <<>>]
    /\ holder = [r \in Relation |-> None]
    /\ book \in [Student -> Book]
    /\ pages = {}
    /\ day = 0
    /\ posted = 0
    /\ savedOver = {} /\ missed = [r \in Relation |-> 0]
    /\ vocabPc = [w \in Worker |-> "idle"]
    /\ vocabReq = [w \in Worker |-> NoPost]

AnswerStep(w) ==
    \/ SelectDifficulty(w) \/ InsertDifficulty(w) \/ UpdateDifficulty(w)
    \/ SelectProgress(w) \/ CommitAnswer(w)

NextVocab ==
    \/ \E s \in Student, c \in Context :
          \/ AskAll(s, c) \/ AskAllWithAdmin(s, c)
          \/ AskReview(s, c) \/ AskReviewWithAdmin(s, c)
          \/ \E chapters \in SUBSET Chapter \ {{}} :
                AskChapter(s, chapters, c) \/ AskChapterWithAdmin(s, chapters, c)
    \/ \E w \in Worker :
          \/ \E s \in Student, c \in Context :
                \/ CardRead(w, s, c)
                \/ \E is_correct \in BOOLEAN :
                      PostAnswer(w, s, c, is_correct) \/ PostAnswerWithAdmin(w, s, c, is_correct)
          \/ AnswerStep(w) \/ CardSave(w) \/ Abort(w)
    \/ \E s \in Student, b \in Book \cup {None} : ChangeBook(s, b)
    \/ Tick

SpecVocab == InitVocab /\ [][NextVocab]_vocabVars

-----------------------------------------------------------------------------
(* Properties *)

\* How many of the last answers in a row were right.
Streak(answers) ==
    LET n == Len(answers) IN
    Cardinality({i \in 1 .. n : \A j \in i .. n : answers[j]})

\* Nothing makes the progress of a student and a context unique or locks it,
\* and still no answer is lost and no second row appears, whoever answers in how
\* many tabs: the transaction holds the word's difficulty row before it looks at
\* the progress.  Only a study card may save an older copy over it.
AnswersCounted ==
    \A k \in (Student \X Context) \ savedOver :
        LET answers == results[k] IN
        IF answers = <<>> THEN contextProgress[k] = <<>>
        ELSE /\ Len(contextProgress[k]) = 1
             /\ contextProgress[k][1].total = Len(answers)
             /\ contextProgress[k][1].correct = Cardinality({i \in DOMAIN answers : answers[i]})
             /\ contextProgress[k][1].last = (IF answers[Len(answers)] THEN "right" ELSE "wrong")
             /\ contextProgress[k][1].repetition = Streak(answers)

\* The right, or the wrong, answers that were committed of a word.
AnswersTo(r, b) ==
    UNION {{<<k, i>> : i \in {j \in DOMAIN results[k] : results[k][j] = b}} :
           k \in {x \in Student \X Context : RelationOf[x[2]] = r}}

\* The counters of a word, read before its row is locked and shared by all
\* students, count right and wrong answers that were given, and miss no other than
\* those committed while a request that had read them waited for the row: without
\* such requests they are exact.
VocabRates ==
    \A r \in Relation :
        LET right == Cardinality(AnswersTo(r, TRUE))
            wrong == Cardinality(AnswersTo(r, FALSE))
            rate  == Counters(r)
        IN  /\ rate.correct \in 0 .. right
            /\ rate.total - rate.correct \in 0 .. wrong
            /\ right + wrong - rate.total <= missed[r]

\* ease_factor keeps to its bound and the interval to whole days, so that the
\* priority, 1 / (ease_factor * interval), always exists, and a row is due again
\* some day after its last answer.
EaseBounded ==
    \A k \in Student \X Context : \A i \in DOMAIN contextProgress[k] :
        /\ contextProgress[k][i].ease >= 780
        /\ contextProgress[k][i].interval >= 1
=============================================================================
