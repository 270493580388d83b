---------------------------- MODULE PassageQuiz ----------------------------
(***************************************************************************)
(* The reading and listening quizzes of one student (read_trainer and      *)
(* listening_trainer): passages and questions that OpenAI generates, the   *)
(* pages on which they are solved, the grading, the SM-2 progress of a     *)
(* passage, the result page, and the pruning of old progress.              *)
(*                                                                         *)
(* The two applications and, in each, the views of the student and of the  *)
(* staff who sit beside the student, are copies of one another; they share *)
(* the actions below and differ where the comments say.  A tab goes from   *)
(* request to request; the tabs of a browser share its session, which      *)
(* Django loads when a request starts and saves whole when it ends.        *)
(*                                                                         *)
(* The student is active and has learned words; access is Tenancy's        *)
(* subject.  Refusals that change nothing are left out.  The ease factor   *)
(* is in hundredths; next_due_at is interval days after the review.        *)
(***************************************************************************)
EXTENDS Integers, Sequences, FiniteSets, SequencesExt, FiniteSetsExt

CONSTANTS
    Tab,          \* the tabs, and the request each of them may be waiting for
    Student, Staff, \* the browser of the student and of a staff member
    Trainer,      \* of {"reading", "listening"}
    Textbook, Eiken, \* the source of a passage
    SetSizes,     \* bound: how many questions OpenAI returns; asked for 3 or 4
    MAX_COUNT,    \* progress rows kept by pruning; 100 in the code
    MaxPassages,  \* bound: passages
    MaxWork,      \* bound: no request while there is so much generated and graded
    MaxAnswers    \* bound: no submission once there are so many answers

ASSUME TabAssumption == IsFiniteSet(Tab)
ASSUME TrainerAssumption == Trainer \subseteq {"reading", "listening"}
ASSUME SizesAssumption == SetSizes \subseteq Nat
ASSUME BoundsAssumption ==
    MAX_COUNT \in Nat /\ MaxPassages \in Nat /\ MaxWork \in Nat /\ MaxAnswers \in Nat

VARIABLES
    passages,   \* ReadingPassage and ListeningPassage rows
    questions,  \* their ReadingQuestion and ListeningQuestion rows
    answers,    \* ReadingAnswer and ListeningAnswer rows
    progress,   \* the progress rows: a function on the passages that have one
    session,    \* of each browser: the result that waits to be shown, by trainer
    graded,     \* history: the submissions that reached the progress
    pc,         \* where each tab is
    req         \* what its page holds, and the variables of its request

tableVars == <<passages, questions, answers, progress>>
vars      == <<tableVars, session, graded, pc, req>>

None == [none |-> TRUE]
Browser == {Student, Staff}
Source  == {Textbook, Eiken}
Option == {"right", "wrong"}     \* of A to D: the one that is correct, or another

Passage  == [trainer : Trainer, source : Source]
Question == [passage : Nat, batch : Nat, set : Nat]
Answer   == [question : Nat, selected : Option]

QuestionsOf(p, batch) ==
    {q \in DOMAIN questions : questions[q].passage = p /\ questions[q].batch = batch}
BatchesOf(p) == {questions[q].batch : q \in {x \in DOMAIN questions : questions[x].passage = p}}
SetsOf(p, batch) == {questions[q].set : q \in QuestionsOf(p, batch)}

-----------------------------------------------------------------------------
(* Grading *)

NewProgress == [id |-> 0, interval |-> 1, ease_factor |-> 250, repetition_count |-> 0, last_reviewed_at |-> 0]

\* _determine_sm2_score
Score(correct, problems) ==
    1 + Cardinality({percent \in {50, 70, 85, 95} : 100 * correct >= percent * problems})

AtLeast(low, x) == IF x < low THEN low ELSE x

\* mutant (IntervalEarned): a failure keeps the repetitions.
UpdatedBySm2Counting(p, score, now) ==
    [p EXCEPT !.repetition_count = @ + 1,
              !.interval = IF score < 3 THEN 1
                           ELSE CASE p.repetition_count = 0 -> 1
                                  [] p.repetition_count = 1 -> 6
                                  [] OTHER -> (@ * p.ease_factor) \div 100,
              !.last_reviewed_at = now]

\* mutant (TypeOK): after a failure the passage is due at once.
UpdatedBySm2AtOnce(p, score, now) ==
    [p EXCEPT !.repetition_count = IF score >= 3 THEN @ + 1 ELSE 0,
              !.interval = IF score >= 3 THEN 1 ELSE 0]

\* _update_by_sm2 of both progress models, at a logical time.
UpdatedBySm2(p, score, now) ==
    IF score >= 3
    THEN [ id |-> p.id,
           repetition_count |-> p.repetition_count + 1,
           interval |-> CASE p.repetition_count = 0 -> 1
                          [] p.repetition_count = 1 -> 6
                          [] OTHER -> (p.interval * p.ease_factor) \div 100,
           ease_factor |-> AtLeast(130, p.ease_factor + 10 - (5 - score) * (8 + (5 - score) * 2)),
           last_reviewed_at |-> now ]
    ELSE [ id |-> p.id,
           repetition_count |-> 0,
           interval |-> 1,
           ease_factor |-> AtLeast(130, p.ease_factor - 20),
           last_reviewed_at |-> now ]

-----------------------------------------------------------------------------
NoRequest == [idle |-> TRUE]

Goto(w, where, r) ==
    /\ pc' = [pc EXCEPT ![w] = where]
    /\ req' = [req EXCEPT ![w] = r]

Finish(w) == Goto(w, "idle", NoRequest)
Busy(w)   == pc[w] # "idle"

\* Whose tab, in which application.
Of(w, b, t) == Busy(w) /\ req[w].browser = b /\ req[w].trainer = t

Init ==
    /\ passages = <<>> /\ questions = <<>> /\ answers = <<>>
    /\ progress = [p \in {} |-> NewProgress]
    /\ session = [b \in Browser |-> [t \in Trainer |-> None]]
    /\ graded = <<>>
    /\ pc = [w \in Tab |-> "idle"]
    /\ req = [w \in Tab |-> NoRequest]

-----------------------------------------------------------------------------
(* Generating questions *)

\* How many tabs are in one of those places (for the bounds).
InPlaces(places) == Cardinality({w \in Tab : pc[w] \in places})

WorkBounded ==
    Cardinality(DOMAIN questions) + Len(graded) + InPlaces({"generate", "create", "grade", "save"}) < MaxWork

\* quiz_type new or eiken_new.
DispatchNew(w, b, t, s) ==
    /\ ~Busy(w) /\ WorkBounded
    /\ Len(passages) + InPlaces({"generate", "create"}) < MaxPassages
    /\ Goto(w, "generate", [browser |-> b, trainer |-> t, source |-> s, passage |-> 0])
    /\ UNCHANGED <<tableVars, session, graded>>

\* quiz_type reuse_questions or eiken_reuse_questions: passage_access_check
\* looks for a passage of that source.
DispatchMore(w, b, t, s) ==
    /\ ~Busy(w) /\ WorkBounded
    /\ \E p \in DOMAIN passages :
          /\ passages[p] = [trainer |-> t, source |-> s]
          /\ Goto(w, "generate", [browser |-> b, trainer |-> t, source |-> s, passage |-> p])
    /\ UNCHANGED <<tableVars, session, graded>>

\* get_latest_batch_for_passage
LatestBatch(p) == Max(BatchesOf(p))

\* quiz_type reuse_all or eiken_reuse_all: to the page of the latest batch.
DispatchAgain(w, b, t, s) ==
    /\ ~Busy(w)
    /\ \E p \in DOMAIN passages :
          /\ passages[p] = [trainer |-> t, source |-> s]
          /\ BatchesOf(p) # {}
          /\ Goto(w, "solve", [browser |-> b, trainer |-> t, passage |-> p, batch |-> LatestBatch(p)])
    /\ UNCHANGED <<tableVars, session, graded>>

\* What the generator of a trainer and source comes back with: so many questions,
\* or nothing to use (no API key, no answer, or one that is malformed).
Failed == -1
Reply  == {Failed} \cup SetSizes

\* mutant (BatchesContiguous): the batch is numbered by the questions there are.
NextBatchCounted(p) == 1 + Cardinality({q \in DOMAIN questions : questions[q].passage = p})

\* The batch of further questions is numbered after the reply has come.
NextBatch(p) == 1 + Max({0} \cup BatchesOf(p))

\* quiz_generation.py: a new passage has batch 1 and any number of questions,
\* none included ...
GeneratePassage(w) ==
    /\ pc[w] = "generate" /\ req[w].passage = 0
    /\ \E size \in Reply :
          IF size = Failed THEN Finish(w)
          ELSE Goto(w, "create", [browser |-> req[w].browser, trainer |-> req[w].trainer,
                                  source |-> req[w].source, passage |-> 0,
                                  size |-> size, batch |-> 1])
    /\ UNCHANGED <<tableVars, session, graded>>

\* ... and an empty list of further questions is an error.
AppendQuestions(w) ==
    /\ pc[w] = "generate" /\ req[w].passage # 0
    /\ \E size \in Reply :
          IF size \in {Failed, 0} THEN Finish(w)
          ELSE Goto(w, "create", [browser |-> req[w].browser, trainer |-> req[w].trainer,
                                  source |-> req[w].source, passage |-> req[w].passage,
                                  size |-> size, batch |-> NextBatch(req[w].passage)])
    /\ UNCHANGED <<tableVars, session, graded>>

Asks(w, t, s) == pc[w] = "generate" /\ req[w].trainer = t /\ req[w].source = s

GenerateReading(w)        == Asks(w, "reading", Textbook) /\ GeneratePassage(w)
AppendReading(w)          == Asks(w, "reading", Textbook) /\ AppendQuestions(w)
GenerateEikenReading(w)   == Asks(w, "reading", Eiken) /\ GeneratePassage(w)
AppendEikenReading(w)     == Asks(w, "reading", Eiken) /\ AppendQuestions(w)
GenerateListening(w)      == Asks(w, "listening", Textbook) /\ GeneratePassage(w)
AppendListening(w)        == Asks(w, "listening", Textbook) /\ AppendQuestions(w)
GenerateEikenListening(w) == Asks(w, "listening", Eiken) /\ GeneratePassage(w)
AppendEikenListening(w)   == Asks(w, "listening", Eiken) /\ AppendQuestions(w)

\* The rows are committed, and the browser is redirected to the page.
CreateRows(w) ==
    /\ pc[w] = "create"
    /\ LET r   == req[w]
           p   == IF r.passage = 0 THEN Len(passages) + 1 ELSE r.passage
           row == [passage |-> p, batch |-> r.batch, set |-> Len(questions) + 1]
       IN  /\ passages' = IF r.passage # 0 THEN passages
                          ELSE Append(passages, [trainer |-> r.trainer, source |-> r.source])
           /\ questions' = questions \o [k \in 1 .. r.size |-> row]
           /\ Goto(w, "solve", [browser |-> r.browser, trainer |-> r.trainer,
                                passage |-> p, batch |-> r.batch])
    /\ UNCHANGED <<answers, progress, session, graded>>

-----------------------------------------------------------------------------
(* Solving *)

OpenPage(w) ==
    /\ pc[w] = "solve"
    /\ LET shown == QuestionsOf(req[w].passage, req[w].batch) IN
       IF shown = {} THEN Finish(w)
       ELSE Goto(w, "page", [browser |-> req[w].browser, trainer |-> req[w].trainer,
                             passage |-> req[w].passage, batch |-> req[w].batch,
                             shown |-> shown])
    /\ UNCHANGED <<tableVars, session, graded>>

\* Every question on the page is answered (the inputs are required); the
\* questions are read again.
Submit(w) ==
    /\ pc[w] = "page" /\ WorkBounded /\ Len(answers) < MaxAnswers
    /\ \E picks \in [req[w].shown -> Option] :
          Goto(w, "grade",
               [browser |-> req[w].browser, trainer |-> req[w].trainer,
                passage |-> req[w].passage, batch |-> req[w].batch,
                session |-> session[req[w].browser], picks |-> picks,
                todo |-> QuestionsOf(req[w].passage, req[w].batch),
                rows |-> <<>>])
    /\ UNCHANGED <<tableVars, session, graded>>

\* The questions are graded in the order of their identifiers.
NextQuestion(w) == Min(req[w].todo)

\* An answer is written in the transaction of process_reading_answers, which
\* is atomic; process_listening_answers is not, and each is committed.
GradeQuestion(w) ==
    /\ pc[w] = "grade" /\ req[w].todo # {}
    /\ NextQuestion(w) \in DOMAIN req[w].picks
    /\ LET r   == req[w]
           row == [question |-> NextQuestion(w), selected |-> r.picks[NextQuestion(w)]]
       IN  /\ Goto(w, "grade", [r EXCEPT !.todo = @ \ {NextQuestion(w)}, !.rows = Append(@, row)])
           /\ answers' = IF r.trainer = "reading" THEN answers ELSE Append(answers, row)
    /\ UNCHANGED <<passages, questions, progress, session, graded>>

\* mutant (AnswersCounted): process_reading_answers is not atomic either.
QuestionMissingKept(w) ==
    /\ pc[w] = "grade" /\ req[w].todo # {}
    /\ NextQuestion(w) \notin DOMAIN req[w].picks
    /\ answers' = answers \o req[w].rows
    /\ Finish(w)
    /\ UNCHANGED <<passages, questions, progress, session, graded>>

\* A question without an option: ValueError.
QuestionMissing(w) ==
    /\ pc[w] = "grade" /\ req[w].todo # {}
    /\ NextQuestion(w) \notin DOMAIN req[w].picks
    /\ Finish(w)
    /\ UNCHANGED <<tableVars, session, graded>>

\* A reading transaction that inserted p's row holds its unique key.
Inserting(p, v) == pc[v] = "save" /\ req[v].passage = p /\ req[v].inserted

\* The progress rows once p's row is this one.
ProgressWith(p, row) ==
    [x \in DOMAIN progress \cup {p} |-> IF x = p THEN row ELSE progress[x]]

\* get_or_create of the progress; listening's insert is committed at once.
ReadProgress(w) ==
    /\ pc[w] = "grade" /\ req[w].todo = {}
    /\ LET r == req[w]  p == r.passage  missing == p \notin DOMAIN progress IN
       /\ missing => \A v \in Tab : ~Inserting(p, v)
       /\ Goto(w, "save",
               [browser |-> r.browser, trainer |-> r.trainer, passage |-> p, batch |-> r.batch,
                session |-> r.session, picks |-> r.picks, rows |-> r.rows,
                inserted |-> missing /\ r.trainer = "reading",
                row |-> IF missing THEN NewProgress ELSE progress[p]])
       /\ progress' = IF missing /\ r.trainer = "listening"
                      THEN ProgressWith(p, NewProgress) ELSE progress
    /\ UNCHANGED <<passages, questions, answers, session, graded>>

Correct(rows) == Cardinality({k \in DOMAIN rows : rows[k].selected = "right"})

\* The row in hand was pruned, and p has another one since.
Replaced(r) == /\ ~r.inserted
               /\ r.passage \in DOMAIN progress
               /\ progress[r.passage].id # r.row.id

\* The whole progress row is saved, and the transaction of a reading quiz is
\* committed.  A row that was pruned since is inserted again under its old
\* identifier, once no other insertion for the passage is open.
SaveProgress(w) ==
    /\ pc[w] = "save" /\ ~Replaced(req[w])
    /\ LET r     == req[w]
           score == Score(Correct(r.rows), Len(r.rows))
           now   == Len(graded) + 1
           row   == IF r.inserted THEN [r.row EXCEPT !.id = now] ELSE r.row
       IN
       /\ r.passage \notin DOMAIN progress => \A v \in Tab \ {w} : ~Inserting(r.passage, v)
       /\ progress' = ProgressWith(r.passage, UpdatedBySm2(row, score, now))
       /\ answers' = IF r.trainer = "reading" THEN answers \o r.rows ELSE answers
       /\ graded' = Append(graded, [passage |-> r.passage, correct |-> Correct(r.rows),
                                    problems |-> Len(r.rows)])
       /\ Goto(w, "respond", r)
    /\ UNCHANGED <<passages, questions, session>>

\* The insertion violates unique_together: IntegrityError, rolled back.
SaveConflict(w) ==
    /\ pc[w] = "save" /\ Replaced(req[w])
    /\ Finish(w)
    /\ UNCHANGED <<tableVars, session, graded>>

\* The session is saved whole, as it was when the request started but for the
\* new result, and the browser is redirected to the result.
Respond(w) ==
    /\ pc[w] = "respond"
    /\ LET r == req[w]
           result == [passage |-> r.passage, batch |-> r.batch,
                      data |-> [q \in {row.question : row \in Range(r.rows)} |-> r.picks[q]]]
       IN  session' = [session EXCEPT ![r.browser] = [r.session EXCEPT ![r.trainer] = result]]
    /\ Goto(w, "result", [browser |-> req[w].browser, trainer |-> req[w].trainer])
    /\ UNCHANGED <<tableVars, graded>>

\* The result is popped; without one, back to the selection.
OpenResult(w) ==
    /\ pc[w] = "result"
    /\ LET r == req[w]  data == session[r.browser][r.trainer] IN
       IF data = None THEN Finish(w)
       ELSE Goto(w, "show", [browser |-> r.browser, trainer |-> r.trainer, data |-> data,
                             session |-> [session[r.browser] EXCEPT ![r.trainer] = None]])
    /\ UNCHANGED <<tableVars, session, graded>>

\* mutant (ResultHonest): the questions of the latest batch.
ResultQuestionsLatest(data) == QuestionsOf(data.passage, Max(BatchesOf(data.passage)))

ResultQuestions(data) == QuestionsOf(data.passage, data.batch)

\* The questions are read again; one that is not in the result counts as wrong.
ShowResult(w) ==
    /\ pc[w] = "show"
    /\ LET r == req[w]  data == r.data IN
       /\ Goto(w, "shown",
               [browser |-> r.browser, trainer |-> r.trainer, data |-> data,
                is_correct |-> [q \in ResultQuestions(data) |->
                                  q \in DOMAIN data.data /\ data.data[q] = "right"]])
       /\ session' = [session EXCEPT ![r.browser] = r.session]
    /\ UNCHANGED <<tableVars, graded>>

-----------------------------------------------------------------------------
(* Selecting a passage, and pruning *)

ProgressOf(t, s) == {p \in DOMAIN progress : passages[p] = [trainer |-> t, source |-> s]}

\* The selection counts the progress rows.
OpenSelection(w, b, t, s) ==
    /\ ~Busy(w)
    /\ Cardinality(ProgressOf(t, s)) > MAX_COUNT
    /\ Goto(w, "prune", [browser |-> b, trainer |-> t, source |-> s,
                         excess |-> Cardinality(ProgressOf(t, s)) - MAX_COUNT])
    /\ UNCHANGED <<tableVars, session, graded>>

\* The rows that were reviewed first, so many of them.
Oldest(rows, n) ==
    {p \in rows : Cardinality({q \in rows : progress[q].last_reviewed_at
                                              < progress[p].last_reviewed_at}) < n}

\* read_trainer: the identifiers of the excess rows are read ...
ReadOldest(w) ==
    /\ pc[w] = "prune" /\ req[w].trainer = "reading"
    /\ Goto(w, "delete", [browser |-> req[w].browser, trainer |-> req[w].trainer,
                           ids |-> {<<p, progress[p].id>> :
                                      p \in Oldest(ProgressOf(req[w].trainer, req[w].source),
                                                  req[w].excess)}])
    /\ UNCHANGED <<tableVars, session, graded>>

\* ... and the rows deleted.
DeleteOldest(w) ==
    /\ pc[w] = "delete"
    /\ progress' = [p \in {x \in DOMAIN progress : <<x, progress[x].id>> \notin req[w].ids} |-> progress[p]]
    /\ Finish(w)
    /\ UNCHANGED <<passages, questions, answers, session, graded>>

\* listening_trainer: Django refuses to delete a sliced query set; the request
\* ends in a TypeError.
PruneListening(w) ==
    /\ pc[w] = "prune" /\ req[w].trainer = "listening"
    /\ Goto(w, "error", req[w])
    /\ UNCHANGED <<tableVars, session, graded>>

\* A tab is closed or the server restarted: an open transaction is rolled back.
Abandon(w) ==
    /\ Busy(w)
    /\ Finish(w)
    /\ UNCHANGED <<tableVars, session, graded>>

-----------------------------------------------------------------------------
(* The views *)

Dispatch(w, b, t) ==
    t \in Trainer /\ \E s \in Source : DispatchNew(w, b, t, s) \/ DispatchMore(w, b, t, s) \/ DispatchAgain(w, b, t, s)

\* The dispatcher's request, once it waits for OpenAI.
Answered(w) ==
    \/ GenerateReading(w) \/ AppendReading(w) \/ GenerateEikenReading(w) \/ AppendEikenReading(w)
    \/ GenerateListening(w) \/ AppendListening(w)
    \/ GenerateEikenListening(w) \/ AppendEikenListening(w)
    \/ CreateRows(w)

Solve(w) ==
    \/ OpenPage(w) \/ Submit(w)
    \/ GradeQuestion(w) \/ QuestionMissing(w) \/ ReadProgress(w)
    \/ SaveProgress(w) \/ SaveConflict(w) \/ Respond(w)

Result(w) == OpenResult(w) \/ ShowResult(w)

Select(w, b, t) == \E s \in Source : OpenSelection(w, b, t, s)

StudentReadingQuizDispatcherView(w) ==
    Dispatch(w, Student, "reading") \/ (Of(w, Student, "reading") /\ Answered(w))
StudentReadingQuizSolveView(w) == Of(w, Student, "reading") /\ Solve(w)
StudentReadingResult(w)        == Of(w, Student, "reading") /\ Result(w)
StudentReadingSelect(w)        == Select(w, Student, "reading")

AdminReadingQuizDispatcherView(w) ==
    Dispatch(w, Staff, "reading") \/ (Of(w, Staff, "reading") /\ Answered(w))
AdminReadingQuizSolveView(w) == Of(w, Staff, "reading") /\ Solve(w)
AdminReadingResult(w)        == Of(w, Staff, "reading") /\ Result(w)
AdminReadingSelect(w)        == Select(w, Staff, "reading")

StudentListeningQuizDispatcherView(w) ==
    Dispatch(w, Student, "listening") \/ (Of(w, Student, "listening") /\ Answered(w))
StudentListeningQuizSolveView(w) == Of(w, Student, "listening") /\ Solve(w)
StudentListeningResult(w)        == Of(w, Student, "listening") /\ Result(w)
StudentListeningSelect(w)        == Select(w, Student, "listening")

AdminListeningQuizDispatcherView(w) ==
    Dispatch(w, Staff, "listening") \/ (Of(w, Staff, "listening") /\ Answered(w))
AdminListeningQuizSolveView(w) == Of(w, Staff, "listening") /\ Solve(w)
AdminListeningResult(w)        == Of(w, Staff, "listening") /\ Result(w)
AdminListeningSelect(w)        == Select(w, Staff, "listening")

Next ==
    \E w \in Tab :
        \/ StudentReadingQuizDispatcherView(w) \/ StudentReadingQuizSolveView(w)
        \/ StudentReadingResult(w) \/ StudentReadingSelect(w)
        \/ AdminReadingQuizDispatcherView(w) \/ AdminReadingQuizSolveView(w)
        \/ AdminReadingResult(w) \/ AdminReadingSelect(w)
        \/ StudentListeningQuizDispatcherView(w) \/ StudentListeningQuizSolveView(w)
        \/ StudentListeningResult(w) \/ StudentListeningSelect(w)
        \/ AdminListeningQuizDispatcherView(w) \/ AdminListeningQuizSolveView(w)
        \/ AdminListeningResult(w) \/ AdminListeningSelect(w)
        \/ ReadOldest(w) \/ DeleteOldest(w) \/ PruneListening(w)
        \/ Abandon(w)

Spec == Init /\ [][Next]_vars

-----------------------------------------------------------------------------
(* Properties *)

Progress == [id : Nat, interval : Nat \ {0}, ease_factor : {ef \in Nat : ef >= 130},
             repetition_count : Nat, last_reviewed_at : Nat]

TypeOK ==
    /\ passages \in Seq(Passage)
    /\ questions \in Seq(Question)
    /\ answers \in Seq(Answer)
    /\ progress \in [DOMAIN progress -> Progress] /\ DOMAIN progress \subseteq DOMAIN passages
    /\ \A q \in DOMAIN questions : questions[q].passage \in DOMAIN passages
    /\ pc \in [Tab -> {"idle", "generate", "create", "solve", "page", "grade", "save",
                       "respond", "result", "show", "shown", "prune", "delete", "error"}]

AnswersOf(p) == {k \in DOMAIN answers : questions[answers[k].question].passage = p}
RightOf(p)   == {k \in AnswersOf(p) : answers[k].selected = "right"}
GradedOf(p)  == {k \in DOMAIN graded : graded[k].passage = p}

\* One element for every problem, and for every correct one, of the submissions.
ProblemsOf(p) == UNION {{k} \X (1 .. graded[k].problems) : k \in GradedOf(p)}
CorrectOf(p)  == UNION {{k} \X (1 .. graded[k].correct) : k \in GradedOf(p)}

\* The answers kept for a reading passage are those of the submissions that
\* moved its progress, all of them and no other, whatever is abandoned or
\* refused half way; a listening passage has at least those.
AnswersCounted ==
    \A p \in DOMAIN passages :
        LET total == Cardinality(ProblemsOf(p))
            right == Cardinality(CorrectOf(p))
        IN  IF passages[p].trainer = "reading"
            THEN Cardinality(AnswersOf(p)) = total /\ Cardinality(RightOf(p)) = right
            ELSE Cardinality(AnswersOf(p)) >= total /\ Cardinality(RightOf(p)) >= right

\* However many tabs overwrite it, and whether or not it was pruned in between,
\* a progress row is one that so many successes give: no more repetitions than
\* passing submissions, and the interval of its repetitions.
Passed(p) == {k \in GradedOf(p) : Score(graded[k].correct, graded[k].problems) >= 3}

IntervalEarned ==
    \A p \in DOMAIN progress :
        LET n == progress[p].repetition_count  days == progress[p].interval IN
        /\ n <= Cardinality(Passed(p))
        /\ n <= 1 => days = 1
        /\ n = 2 => days = 6
        /\ n >= 3 => days > 6

\* A result page shows every question that was submitted, with the option that
\* was recorded as its answer.  A question the student never saw is shown as
\* wrong only with the whole of its set: a set that was generated at the same
\* time, got the same batch number, and was committed after the submission.
ResultHonest ==
    \A w \in Tab : pc[w] = "shown" =>
        LET data == req[w].data.data  shown == DOMAIN req[w].is_correct IN
        /\ DOMAIN data \subseteq shown
        /\ shown \subseteq QuestionsOf(req[w].data.passage, req[w].data.batch)
        /\ \A q \in shown :
              IF q \in DOMAIN data
              THEN \E k \in DOMAIN answers : answers[k] = [question |-> q, selected |-> data[q]]
              ELSE \A x \in DOMAIN data : questions[x].set # questions[q].set

\* The batches of a passage are 1, 2, ... without a gap, in whatever order the
\* generated sets are committed; and though nothing keeps two sets from one batch
\* number, no more of them share it than there were requests at once.
BatchesContiguous ==
    \A p \in DOMAIN passages : \A n \in BatchesOf(p) :
        /\ n > 1 => n - 1 \in BatchesOf(p)
        /\ Cardinality(SetsOf(p, n)) <= Cardinality(Tab)

\* "One set of four questions per quiz, managed by the batch identifier":
\* violated, two sets generated at the same time get the same batch.
OneSetPerBatch ==
    \A q \in DOMAIN questions : Cardinality(SetsOf(questions[q].passage, questions[q].batch)) = 1

\* "If there are more than max_count, they are deleted from the oldest and the
\* rest returned": violated by the listening trainer, whose selection fails.
SelectionServed == \A w \in Tab : pc[w] # "error"
=============================================================================
