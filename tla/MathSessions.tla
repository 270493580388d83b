---------------------------- MODULE MathSessions ----------------------------
(***************************************************************************)
(* The sessions of math_trainer: sets of problems that are generated for a *)
(* student and shown on the screen or printed, the answers on the screen   *)
(* that are marked at once, and the marks of printed sheets that a teacher *)
(* enters later, as often as wanted and beside other teachers.             *)
(*                                                                         *)
(* Requests run beside each other, in database transactions where the code *)
(* has one (READ COMMITTED: a row that a transaction wrote is locked until *)
(* its end).                                                               *)
(***************************************************************************)
EXTENDS WebServer, Integers, Sequences, FiniteSets

CONSTANTS
    Problems,       \* the problems of a sheet (6 or 10)
    Papers,         \* ALLOWED_PAPER_NUMBERS: the sheets printed at a time
    MaxSessions,    \* bound: sessions generated
    MaxRequests     \* bound: requests started

VARIABLES
    sessions,   \* ProblemSession and its problems: mode, problems stored, score
    answers,    \* StudentAnswer: the marks stored of each session
    browser,    \* request.session of the browser the requests come from
    work,       \* what each worker is doing
    requests,   \* requests started
    lastMarks   \* history: the marks of the form entered last, for each session

sessionVars == <<sessions, answers, browser, work, requests, lastMarks>>

ASSUME SessionsAssumption ==
    Problems \in Nat \ {0} /\ Papers \subseteq Nat \ {0} /\ MaxSessions \in Nat /\ MaxRequests \in Nat

Idle == [op |-> "idle"]
Id == 1..MaxSessions

\* A score is stored as an average; here with the counts it is calculated from.
Unscored == <<"unscored">>
Score(correct, total) == <<"scored", correct, total>>

NoMarks == [i \in {} |-> TRUE]

InitSessions ==
    /\ sessions = <<>>
    /\ answers = [s \in Id |-> NoMarks]
    /\ browser = [keys |-> {}, types |-> "none", paper |-> 0, result |-> <<>>]
    /\ work = [w \in Worker |-> Idle]
    /\ requests = 0
    /\ lastMarks = [s \in Id |-> NoMarks]

Start(w) ==
    /\ work[w] = Idle
    /\ requests < MaxRequests
    /\ requests' = requests + 1

Write(f, g) == [i \in DOMAIN f \cup DOMAIN g |-> IF i \in DOMAIN g THEN g[i] ELSE f[i]]

-----------------------------------------------------------------------------
(* The options of a page are posted to a dispatcher, which keeps them in   *)
(* request.session and redirects to the page that generates the problems.  *)

\* The options that are kept one by one, up to the first that is missing.  Two
\* grades keep their kinds of problem under the same key, problem_types.
Keep(w, types, kept, papers) ==
    /\ Start(w)
    /\ \E keys \in kept, paper \in papers :
        browser' = [browser EXCEPT !.keys = @ \cup keys,
                                   !.types = IF "problem_types" \in keys THEN types ELSE @,
                                   !.paper = paper]
    /\ UNCHANGED <<sessions, answers, work, lastMarks>>

ClockKeys  == {"problem_types", "widths_of_time"}
LinearKeys == {"problem_types", "numbers_to_use"}
SystemKeys == {"used_coefficients", "equation_types", "answer_types"}
Systems    == {{"used_coefficients"}, {"used_coefficients", "equation_types"}, SystemKeys}

DispatchClock(w)  == Keep(w, "clock", {ClockKeys}, {browser.paper})
DispatchLinear(w) == Keep(w, "linear", {LinearKeys}, {browser.paper})
DispatchSystem(w) == Keep(w, "none", Systems, {browser.paper})

DispatchClockPrint(w)  == Keep(w, "clock", {{}, {"problem_types"}, ClockKeys}, Papers)
DispatchLinearPrint(w) == Keep(w, "linear", {{}, LinearKeys}, Papers)
DispatchSystemPrint(w) == Keep(w, "none", {{}} \cup Systems, Papers)

-----------------------------------------------------------------------------
(* problem_generator: all problems are generated, then the session is      *)
(* stored and its problems after it, one by one and without a transaction. *)

\* A page takes its options from request.session; without one of them it sends
\* back.  The options of the other grade make the generator fail (ValueError).
Generate(w, mode, keys, types) ==
    /\ Start(w)
    /\ keys \subseteq browser.keys
    /\ types = "any" \/ browser.types = types
    /\ mode = "print" => browser.paper > 0
    /\ Len(sessions) < MaxSessions
    /\ sessions' = Append(sessions, [mode |-> mode, stored |-> 0, score |-> Unscored])
    /\ work' = [work EXCEPT ![w] = [op |-> "generate", id |-> Len(sessions) + 1, mode |-> mode,
                                    sheets |-> IF mode = "print" THEN browser.paper ELSE 1]]
    /\ UNCHANGED <<answers, browser, lastMarks>>

DisplayClock(w)  == Generate(w, "display", ClockKeys, "clock")
DisplayLinear(w) == Generate(w, "display", LinearKeys, "linear")
DisplaySystem(w) == Generate(w, "display", SystemKeys, "any")
PrintClock(w)    == Generate(w, "print", ClockKeys, "clock")
PrintLinear(w)   == Generate(w, "print", LinearKeys, "linear")
PrintSystem(w)   == Generate(w, "print", SystemKeys, "any")

StoreProblem(w) ==
    /\ work[w].op = "generate"
    /\ sessions[work[w].id].stored < Problems
    /\ sessions' = [sessions EXCEPT ![work[w].id].stored = @ + 1]
    /\ UNCHANGED <<answers, browser, work, requests, lastMarks>>

\* The next sheet, or the page.
SheetDone(w) ==
    /\ work[w].op = "generate"
    /\ sessions[work[w].id].stored = Problems
    /\ IF work[w].sheets > 1
       THEN /\ Len(sessions) < MaxSessions
            /\ sessions' = Append(sessions, [mode |-> "print", stored |-> 0, score |-> Unscored])
            /\ work' = [work EXCEPT ![w].id = Len(sessions) + 1, ![w].sheets = @ - 1]
       ELSE work' = [work EXCEPT ![w] = Idle] /\ UNCHANGED sessions
    /\ UNCHANGED <<answers, browser, requests, lastMarks>>

-----------------------------------------------------------------------------
(* The answers of a page on the screen are marked when they are posted:    *)
(* only the result is kept, in request.session, until it is shown.         *)

Submit(w) ==
    /\ Start(w)
    /\ \E s \in DOMAIN sessions :
        /\ sessions[s].mode = "display"
        /\ \E right \in SUBSET (1..sessions[s].stored) :
            browser' = [browser EXCEPT !.result = <<s, right, sessions[s].stored>>]
    /\ UNCHANGED <<sessions, answers, work, lastMarks>>

SubmitClock(w)  == Submit(w)
SubmitLinear(w) == Submit(w)
SubmitSystem(w) == Submit(w)

ShowResult(w) ==
    /\ Start(w)
    /\ browser.result # <<>>
    /\ browser' = [browser EXCEPT !.result = <<>>]
    /\ UNCHANGED <<sessions, answers, work, lastMarks>>

ClockResult(w)  == ShowResult(w)
LinearResult(w) == ShowResult(w)
SystemResult(w) == ShowResult(w)

-----------------------------------------------------------------------------
(* ScoringView.post, one transaction: the mark of each problem that has    *)
(* one in the form, the score of the session, and a last check of access.  *)

\* The form is of any print session, scored or not; a mark may be missing.
PostScore(w) ==
    /\ Start(w)
    /\ \E s \in DOMAIN sessions :
        /\ sessions[s].mode = "print"
        /\ \E some \in SUBSET (1..sessions[s].stored) : \E marks \in [some -> BOOLEAN] :
            work' = [work EXCEPT ![w] = [op |-> "score", id |-> s, marks |-> marks,
                                         written |-> NoMarks, correct |-> 0, total |-> 0,
                                         scored |-> FALSE]]
    /\ UNCHANGED <<sessions, answers, browser, lastMarks>>

Scoring(w) == work[w].op = "score" /\ ~work[w].scored

Todo(w) == DOMAIN work[w].marks \ DOMAIN work[w].written
NextMark(w) == CHOOSE i \in Todo(w) : \A j \in Todo(w) : i <= j

\* Another transaction wrote the row.
Locked(w, s, i) == \E v \in Worker \ {w} : work[v].op = "score" /\ work[v].id = s /\ i \in DOMAIN work[v].written
ScoreLocked(w, s) == \E v \in Worker \ {w} : work[v].op = "score" /\ work[v].id = s /\ work[v].scored

\* What the marks count for the score.
Marked(w, i) ==
    [work[w] EXCEPT !.written = Write(@, [j \in {i} |-> work[w].marks[i]]),
                    !.total = @ + 1,
                    !.correct = IF work[w].marks[i] THEN @ + 1 ELSE @]

\* mutant (ScoreOfAnswers): without transaction.atomic a mark is committed at once.
UpsertCommitted(w) ==
    /\ Scoring(w)
    /\ Todo(w) # {}
    /\ ~Locked(w, work[w].id, NextMark(w))
    /\ work' = [work EXCEPT ![w] = Marked(w, NextMark(w))]
    /\ answers' = [answers EXCEPT ![work[w].id] =
                     Write(@, [j \in {NextMark(w)} |-> work[w].marks[NextMark(w)]])]
    /\ UNCHANGED <<sessions, browser, requests, lastMarks>>

\* StudentAnswer.update_or_create, which waits for the row.
UpsertAnswer(w) ==
    /\ Scoring(w)
    /\ Todo(w) # {}
    /\ ~Locked(w, work[w].id, NextMark(w))
    /\ work' = [work EXCEPT ![w] = Marked(w, NextMark(w))]
    /\ UNCHANGED <<sessions, answers, browser, requests, lastMarks>>

\* session.save(update_fields=["score"])
SaveScore(w) ==
    /\ Scoring(w)
    /\ Todo(w) = {}
    /\ ~ScoreLocked(w, work[w].id)
    /\ work' = [work EXCEPT ![w].scored = TRUE]
    /\ UNCHANGED <<sessions, answers, browser, requests, lastMarks>>

\* The transaction ends.
CommitScore(w) ==
    /\ work[w].op = "score" /\ work[w].scored
    /\ sessions' = [sessions EXCEPT ![work[w].id].score = Score(work[w].correct, work[w].total)]
    /\ answers' = [answers EXCEPT ![work[w].id] = Write(@, work[w].written)]
    /\ lastMarks' = [lastMarks EXCEPT ![work[w].id] = work[w].marks]
    /\ work' = [work EXCEPT ![w] = Idle]
    /\ UNCHANGED <<browser, requests>>

\* Access to the student of the form is refused, or the request dies: a marking is
\* rolled back, a session that is being generated stays as it is.
Drop(w) ==
    /\ work[w] # Idle
    /\ work' = [work EXCEPT ![w] = Idle]
    /\ UNCHANGED <<sessions, answers, browser, requests, lastMarks>>

NextSessions ==
    \E w \in Worker :
        \/ DispatchClock(w) \/ DispatchLinear(w) \/ DispatchSystem(w)
        \/ DispatchClockPrint(w) \/ DispatchLinearPrint(w) \/ DispatchSystemPrint(w)
        \/ DisplayClock(w) \/ DisplayLinear(w) \/ DisplaySystem(w)
        \/ PrintClock(w) \/ PrintLinear(w) \/ PrintSystem(w)
        \/ StoreProblem(w) \/ SheetDone(w)
        \/ SubmitClock(w) \/ SubmitLinear(w) \/ SubmitSystem(w)
        \/ ClockResult(w) \/ LinearResult(w) \/ SystemResult(w)
        \/ PostScore(w) \/ UpsertAnswer(w) \/ SaveScore(w) \/ CommitScore(w) \/ Drop(w)

SpecSessions == InitSessions /\ [][NextSessions]_sessionVars

-----------------------------------------------------------------------------
RightIn(marks) == Cardinality({i \in DOMAIN marks : marks[i]})

\* The score of a sheet is the average of the form that was entered last, and the
\* marks stored of the problems in that form are that form's, whoever enters forms,
\* complete or not, beside whom, and however many are rolled back half way.  A form
\* that leaves marks out keeps the older ones, which its score does not count; one
\* of every problem with a mark gives the average of the marks stored.  Only a
\* printed sheet has marks.
ScoreOfAnswers ==
    \A s \in DOMAIN sessions :
        /\ sessions[s].score # Unscored =>
            LET form == lastMarks[s] IN
            /\ sessions[s].score = Score(RightIn(form), Cardinality(DOMAIN form))
            /\ \A i \in DOMAIN form : i \in DOMAIN answers[s] /\ answers[s][i] = form[i]
        /\ sessions[s].mode = "display" => answers[s] = NoMarks /\ sessions[s].score = Unscored
=============================================================================
