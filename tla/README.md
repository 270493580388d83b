# A TLA+ model of Study Hub

Study Hub is a Django site on PostgreSQL for the students of cram schools: an
organization has classrooms, teachers and students; students write to a LINE
account, answer quizzes, log what they studied, and are reminded over LINE.
These modules model what the site does where requests, transactions, messages,
crashes and the calendar make it hard to test. Every definition is translated
from the code in `src/`; `PROJECT.json` maps it to its lines.

## The system

| Component | State | Operations | What makes it correct |
|---|---|---|---|
| Invitations of organization administrators (`accounts/services/invitations.py`, `accept_invitations.py`) | `Invitation` rows, administrator accounts, mails | invite, send the mail, accept | one unresolved invitation per organization and address; an administrator exactly for each accepted invitation |
| Student accounts (`accounts/models/user_models.py`, `services/student_email_registration.py`, the staff's and the students' forms) | `BaseUser`/`Student` rows, registration tokens | issue a link, register an address, edit, reset the password, deactivate, reactivate, name, account form | one active link per student, what a registration checked holds when it commits |
| Organizations, classrooms, access policies (`accounts/access_policies.py`, `selectors.py`, `signals.py`, `forms.py`, and the filters of six applications) | rows and the links between students, teachers, administrators and classrooms | assign, edit, create, delete, deactivate, links added past the forms | nobody sees another organization's student; all parts of the program agree on who sees whom |
| Study reminders (`study_reminder/`, `cloud_functions/main.py`, `listener.py`) | `StudyReminder` rows, the Pub/Sub subscription | the scheduler's request, publish, create, edit, delete, deliver | a noted day was published; a second copy of a day has its cause; the subscription drains |
| Text scheduler (`text_scheduler/`) | materials, `StudyLog`, `StudentUnitProgress`, `DailyPlan` | post logs, edit and delete a material, today's plan, diagnosis of a plan | progress is what the logs come to; a plan that is followed ends in time; the diagnosis agrees with the plan |
| LINE channels (`line_channels/`) | channels, key bundles | create, rotate, activate, deactivate | exactly one active key of each kind |
| Conversations and webhook (`conversations/`, `line_integration/`) | conversations, message logs, summaries | receive, redeliver, answer, end, summarise | what is acknowledged is recorded, in the right organization; everything is served in the end |
| Reading and listening quizzes (`read_trainer/`, `listening_trainer/`) | passages, questions in batches, answers, progress, the browser's session | generate, solve, grade, show the result, prune | answers, progress, batches and result pages are consistent |
| Vocabulary (`vocab_trainer/`), chemistry (`chem_trainer/`) | progress rows, difficulty counters | draw a question, check an answer, study card | no answer lost under the lock; the counters are rates of the answers given, and miss only what overlapped |
| Mathematics (`math_trainer/`) | sessions, problems, marks, scores, the browser's session | generate, display, print, mark | a score is that of the marking entered last; a problem has its stored answer, and one right choice |
| OpenAI processors, audio, mail, log-in of the scheduler | none | calls of services | - |

How they interact: the web server's workers share the database and nothing
else. There is no `ATOMIC_REQUESTS`; a transaction is where the code says
`transaction.atomic`, at PostgreSQL's READ COMMITTED. `process_reminders` is
called by Cloud Scheduler, publishes to Pub/Sub, and a cloud function (or
`listener.py`) calls LINE. LINE calls the webhook, which finds the student by
LINE account, asks for a name (`RegisterName`), offers the e-mail registration
and passes the rest to the processors. Every application asks, in code of its
own, which students a member of staff may see. Tabs of one browser share a
session, which Django reads when a request starts and saves whole at its end.

What is hard here: two workers between a check and a write; a form that saves
all columns of a row it read before; row locks taken in different orders; a
process that stops between a commit and the mail or message that follows; a
message delivered twice, late or to a consumer that cannot read it; two posts of
one answer; a plan that is recomputed every day from what was done and what was
edited; arithmetic on dates and fractions. `PROJECT.json` lists these hazards
line by line and the property that answers each.

## Conventions

A *worker* (thread, tab) serves one request at a time. An action is one statement
of the database or of a service, or several that nothing can come between; `pc`
is where the request is and `req` holds its local variables. Uncommitted writes
stay in `req` (or are applied by the committing action), and row locks are read
off `pc` and `req`. An action waiting for a row is disabled. `Crash` or `Abort`
ends a worker's request anywhere: its transaction is rolled back, what it
committed stays. Tables are functions on the ids in use. A *history* variable
is one the program does not have; no guard reads it, except where a comment
says that it bounds an instance.

Definitions whose comment begins with *mutant* are mistakes kept next to the
definition they would replace; each shows that a property notices it.

## Modules

**OrgInvitation** - `invitations.py` and `accept_invitations.py`. `invitation`
is the table; `holders` counts the accounts of each address; `adminsFrom`
counts the administrators an invitation created, `mailed` the links sent. An
invitation request runs `InviteCheckUser`, `InviteBegin`, `InviteRevoke` (the
clean-up of expired rows, under row locks), the check and the insertion
(`InviteConflict` when the partial unique constraint refuses it), then the mail
and `MarkSend`. An acceptance locks the row with its organization, checks,
hashes the password and writes. `Tick` moves the clock.

**Enrolment** - what the two services promise with no requests or locks: an
offer is made to a slot, accepted or lapses. `OrgInvitation` implements it under
`OfferView` (`Enrols`): an invitation marked used is accepted, one revoked has
lapsed.

**StudentAccounts** - one action per statement of every writer of a student's
row and of registration tokens. A `Student` is two tables: `SaveBase` and
`SaveStudent` are the two updates of a full `save()`, and the registration
locks in the opposite order, so `BreakDeadlock` is PostgreSQL's. A page
(`StaffOpen`, `AccountOpen`) may stay open for any time before it is posted,
but the row the post saves is read by the post itself. Passwords are `none`
(the empty column), `default` or `own`; whether a link's 15 minutes are over
is a set (`expired`).

**Tenancy** - `org` is the organization of every row; `attends`, `taughtBy`,
`worksAt` and `manages` are the four many-to-many tables. `Seen...` are the
seven answers of the program to "which students may this member of staff see",
each translated from its own file. A form of staff is two steps, `Check...` (what
`is_valid` read) and `Save...` (what is written later), so that another request
may delete, make or move what was checked; requests of one statement are one
step. `Add` puts a link in past the forms, guarded by the `m2m_changed` signals
only, from the side of the row that owns the relation (or of a teacher), as every
caller in `src/` does; `FixTeacher` is the repair command.

**ReminderPipeline** - time is counted in 15-minute slots. `Trigger` is the
query of `process_reminders`, with the end of the slot taken as a time of the
day the way the code does. `Publish`, `PublishRaises` and `PublishTimesOut` are
the outcomes of a publication, `Mark` saves the day. The subscription holds
`published - consumed` copies of each message and redelivers until they are
acknowledged; either the cloud function or `listener.py` takes a copy. The forms
of the staff create, edit and delete; an edit saves a row that may be gone. The
history `excused` counts, per message, how often a request fetched the reminder while
another had it in hand and how often the note of the day was lost; it stops at
`MaxCopies - 1`, more than which the last copy cannot need.

**WebServer** - the workers, which every application has in common.

**StudyLogs** with **Sm2** - one material of one student (others share no row).
A post is a transaction that applies its forms one by one: `UpdateUnit` or
`CreateUnit` (`get_or_create` under `select_for_update`), then `Commit`.
`full_clean` of an existing row reads the material afresh, that of a created one
does not: so `Refused` is possible for the former only. Logs are kept in the
order of the commits, and `Replay` applies them to a new row one after the other.
`Sm2` is the SM-2 step in hundredths.

**Feasibility** and **StudyPlan** - `Feasibility` holds `feasibility.py` as
operators over a form: review lead, usable weekdays, daily shares, minutes, the
status of a plan, its extension and its timeline. `StudyPlan` is the machine of
days: `OpenList` calculates the plan of the day anew and saves it, `Post` logs a
unit, `EditMaterial` saves the form, `NextDay` is midnight. The back-casting of
`daily_plan.py` is `Needed`; the student may follow the list or not.

**PassageQuiz** - both trainers and, in each, the views of the student and of
the staff beside the student: eight entry points that share their actions and
differ where comments say. The dispatcher asks OpenAI, of which only the outcome is
modelled (`Reply`: nothing usable, or a set of so many questions), and appends or
creates rows; two sets generated at once may share a batch number, so that a page, a
submission and a result may be of both. The page is solved and graded question by
question (`GradeQuestion`, in the order of their ids), the progress row is read and
saved, the result goes through the session, and the selection prunes old progress. A
tab that saves a progress row which was pruned and made again meanwhile gets the
database's `IntegrityError` (`SaveConflict`); one that was only pruned is inserted
again. `Abandon` closes a tab or stops the server at any place.

**LineChannels** and **LineWebhook** - a rotation is two statements, `Retire`
under the row lock and `Insert` against a partial unique index. `line` says of
each body of events whether LINE still has to deliver it. `Receive` resolves the
channel by the bot, `HandleEvent` finds or creates the student and refuses one of
another organization, and `FindConversation`, `OpenConversation`, `Ask`, `Answer` and
`SaveConversation` are the statements of a question, none in a transaction: a message
is logged, and the conversation's time of activity saved, in two. `Abort`,
`LineTimesOut` and redelivery may come at any place.

**TrainerRequests**, **VocabProgress**, **ChemProgress**, **TrainerQuizzes** -
`VocabProgress` follows `check_answer` through `SelectDifficulty`,
`InsertDifficulty` (waiting for another's insertion of the unique row),
`UpdateDifficulty`, `SelectProgress`, `CommitAnswer`; the row lock that the update takes
is `holder`. `ChemProgress` does the same without a transaction, where every
statement commits. Three histories tell overlaps apart: `missed`, the answers of a word
that were committed while a request had read its counters; `chemSaved`, what was saved
of an item; `chemRaced`, who had two requests between read and save. `TrainerQuizzes`
runs both; what an `Ask...` definition allows is what a quiz may show.

**MathSessions**, **Fractions**, **LinearEquations**, **SimultaneousEquations**,
**ClockProblems**, **MathTrainer** - `MathSessions` is the database and the
browser's session: sheets generated problem by problem, the display quiz, and the
marks of a printed sheet entered in a transaction, of all problems or of some
(`lastMarks`, a history, is the form that was entered last). The other modules are the
generators: what may be drawn, what is calculated from it, which wrong choices are
offered, in exact rationals. `MathTrainer` puts them together.

Abstracted throughout: names, texts, tokens' characters, hashing, ciphers, the
wording of messages and questions, HTTP statuses, and, outside `Tenancy`, who is
allowed to open a page.

## Runs

| Run | Question | Instance |
|---|---|---|
| `invitations` | Do requests that overlap, crash, expire or lose their mail keep the tables consistent, implement `Enrolment`, and end? | 2 workers, 2 organizations, 1 address, 2 rows, lifetime 1 day of 2 |
| `students` | Is what a registration checked still so when it commits, and do links have one life? | 2 workers, 2 students, 2 links, 1 address; link, registration, edit, deactivation, reactivation |
| `students_live` | Does every request end although locks are taken in opposite orders? | 2 workers, 1 student, 1 link; link, registration, reset, name, account form |
| `tenancy` | Does nobody see another organization's student, and do all parts of the program agree? | 2 organizations, 2 classrooms, 2 students, a teacher, a classroom administrator, 2 organization administrators, 2 forms at once |
| `reminders` | Is a noted day one that was published, is there a cause for every second copy, and does a failing LINE leave the subscription empty? | 2 workers, 1 reminder, 3 slots a day, 4 slots, 2 copies, crashes and time-outs |
| `reminders_midnight` | (a difference) is what is due in a slot fetched? | 1 worker, 1 reminder, 3 slots |
| `study_logs` | Is progress what the logs come to, whatever overlaps, deadlocks or is refused half way, and does every post end? | 2 workers, 2 units, ratings 0 and 5, posts of up to 2 forms |
| `study_plan` | Does the plan keep its deadline for whoever follows it, is the list honest, and does the form's diagnosis agree with it? | materials of 3 units, a budget of one or two a day, 4 days, 4 edits or posts; previews of up to 30 days |
| `quizzes` | Do answers, progress, batches and result pages stay consistent whatever tabs do, two sets of one batch included? | 2 tabs, 2 browsers, both trainers, 1 passage, sets of 1 or 2 questions, 4 questions generated or submissions graded, 3 answers, pruning down to none |
| `line` | Is nothing acknowledged lost, nothing crossing organizations, one key active, every body served? | 2 threads, 2 organizations with one bot, 2 users, bodies of 2 events and 1, 2 operations or faults |
| `trainer_quizzes` | Are answers counted where the code locks, and do the counters miss only what overlapped where it does not? | 3 workers, a word in 2 chapters, 4 items of chemistry, 3 answers, 2 days |
| `math` | Is a score that of the marking entered last, and has every problem one right choice? | 2 workers, sheets of 2 problems, 2 sessions, 4 requests; numbers of each kind among the fractions, times next to noon, midnight and the full hour |

What the properties say is above each of them. Those that take the longest way
to be violated:

- `RegistrationSound`: the student is active, the link unused and the address
  free when a registration commits, although each was read by another statement.
- `CacheOfLogs`: the progress of a unit is the replay of its committed logs,
  though posts lock units one by one, deadlock, and are refused half way.
- `FirstLearningInTime`: the plan of a day counts from what was learned so far, and
  whoever learns what it asks has begun every unit when the last day of first
  learning is over, but for as many as were learned before an edit moved the range
  away from them. `DiagnosisAgrees`: the other implementation of the same count,
  in the form, asks for the same.
- `IntervalEarned`: however many tabs overwrite a progress row, it is one that the
  passing submissions there were could give.
- `ResultHonest`: a result page passes through the session, which tabs of a browser
  overwrite; what is shown as answered was answered so, and what is shown as wrong
  though never asked is of a set the page did not have, under the same number.
- `OncePerDay`: a copy of a message beyond the first is matched by a request that
  fetched the reminder while another had it, or by a note of the day that was lost, one
  for one, through crashes, time-outs and edits that save an older day.
- `RatesSane`: the counters of a word miss at most the answers that were committed while
  another request had read them; a chemistry item raced for by nobody has one row, of
  every answer saved.
- `ScoreOfAnswers`: a score is that of the form that was entered last, and the stored
  marks agree with it, although forms of some problems overlap and are rolled back.
- `AckedIsRecorded`: LINE gets a 200 only for what is in the log with an answer
  after it, in one conversation.
- `SeenAlike`: seven implementations of one access rule, each relying on other
  links having been kept inside an organization.
- `AnswersCounted` of `VocabProgress`: nothing makes a progress row unique, and
  still none is doubled and no answer lost, because the transaction holds the row of
  *another* table by then.

### Bounds

Every bound is a constant whose comment begins with *bound* and is enforced in a
guard. Two workers are enough for each pairwise race and for a deadlock; what three
would add is a longer queue for a row, and the proofs below are for any number.
Two rows (invitations, links) are the old and the new one; a second organization
lets two invitations of one address be accepted at once, and a bot be claimed twice.
`MaxClock` lets an invitation be made, expire and be replaced. Three slots
make a day with a first, a middle and a last one, the fourth is the next day's, which
is also the next week's, so that `last_notified` matters; `MaxCopies` 2 is enough to
publish twice. In `StudyLogs` a post starts only while `MaxLogs` leaves room, so two
overlapping posts reach four logs of one unit: first, second (6 days), the multiplied
interval, and a failure anywhere among them. In `StudyPlan`, `Horizon` and the
materials let a plan start, fall behind, be extended and run past its deadline.
`PassageQuiz` prunes with `MAX_COUNT` 0, so that pruning happens with one passage; a
second batch is generated while the first is solved, or at once with a third and under
its number, and no submission begins once there are two answers, which leaves room for
three in two tabs: three passes, after which intervals multiply. `MaxWork` in `LineWebhook`
counts operations of the staff and faults *together* (any two of them: rotation,
new channel, deactivation, abort, time-out, tick), while deliveries are not bounded.
The vocabulary word in two chapters is what makes two progress rows share one
difficulty row; the third worker lets a study card or a third answer come between two.
`Requests` and `Faults` switch request kinds and faults off where an instance is not
about them; together the runs have all of them on. `CHECK_DEADLOCK` is off
everywhere: bounded ids, days and work run out.

### Fairness

`FairSpec` of `OrgInvitation`, `StudentAccounts` and `StudyLogs` gives each worker
strong fairness on the next statement of its request: gunicorn goes on executing a
request it has begun, and PostgreSQL queues whoever waits for a row, so a row that is
released again and again is eventually granted. In `ReminderPipeline` consuming is
weakly fair: Pub/Sub redelivers until acknowledged. In `LineWebhook` a thread goes
on (weak fairness: the webhook waits for no lock), and LINE redelivers a body
that was not answered with 200 however busy the server was (strong fairness, an
assumption on LINE: `Served` is about a channel whose redelivery is switched on).
Nothing makes a page be posted, a request arrive, the clock move or a process crash,
and no request is assumed to succeed.

### Where the program differs from what it says

`reminders_midnight` is the run: the slot that begins at 23:45 ends at 0:00 and is
empty; the form offers that time.

Some definitions at the end of the modules state what a comment, a doc or a field's
help text says and the code does not keep (`DefaultMeansFirstLogin`,
`DeactivatedStays`, `OneOpenConversation`, `SummaryFresh`, `PreventsDuplicates`,
`DueInRange`, `OkMeansInTime`, `TimelineStacks`, `OneSetPerBatch`, `SelectionServed`, ...). No run
checks these; adding one to the configuration of its module gives the behaviour.
What was met while modelling, by part:

*Accounts.* The account form (`accounts/forms.py:342`) saves the row it read: a
password reset in between leaves the default password with `is_first_login` off
(against `user_models.py:382`). The staff's edit form, posted while the student is
deactivated, makes it active again, and undoes a registration
(`organization_admin_views.py:251`). `line_views.py:118` saves the name and then the
password, in two saves without a transaction.

*Reminders.* Two overlapping scheduler requests publish twice: `last_notified` is
saved after publishing (`views.py:98`), although it "prevents duplicate notifications"
(`models.py:193`); `OncePerDay` says what is left of that. LINE refuses, the function
acknowledges, the day stays noted (`cloud_functions/main.py:60`). `listener.py:66`
looks for an attribute the publisher does not set. An edit of a deleted reminder
inserts its row again (`views.py:117`).

*Text scheduler.* Progress goes by the order of commits, a recomputation would go by
`studied_at` (`models.py:53`). A dozen successes in a row, or a required number of
reviews from about 15, take a date past its range (`progress.py:61`,
`daily_plan.py:180`). The form says "ok" of a plan whose first deadline lies before
its start (`feasibility.py:128`); its timeline does not stack the intervals
(`feasibility.py:283`, doc at 241); a plan of buffer days only whose deadline is past
overflows. The lead days assume an ease factor of 2.5 throughout (`daily_plan.py:7`). Every
edit after the start has to move `start_date`. Units learned outside a moved range count
as learned (`daily_plan.py:79`), so that as many inside it are never asked for, and are
still due (`daily_plan.py:106`): the plan's `full_clean` (`models.py:268`) then raises
and the list cannot be shown.

*Quizzes.* `listening_trainer/utils/quiz_selection.py:19` calls `delete()` on a sliced
query set, which Django refuses: the selection fails where the comment at line 10
says it prunes. Two sets generated at once get one batch number
(`read_trainer/utils/quiz_generation.py:120`): a page then shows both, and a result marks
questions wrong that the student never saw.

*LINE.* Two deliveries may each open a conversation (`conversations/models.py:33`); the
older one is never ended. The chat's context is the *oldest* ten messages of all open
conversations (`chat_processor.py:63`). A bot of two active channels is refused for
both organizations. A summary's messages are counted after the text was made
(`conversations/views.py:40`, against the help text at `models.py:65`), and the text
that stands for a failure is cached like any other (`summary_processor.py:79`).

*Vocabulary and chemistry.* A study card saves the whole row over an answer given
meanwhile; the difficulty counters lose updates. A synonym may be offered as a wrong
choice (`choices.py:14`); only the review view checks that there are four. About
twelve right answers overflow `next_due_at`. A word that shares its relation with a
learned one is never asked as new in the chapter mode. The error path of
`for_admin/quiz_chapter.py` raises a `TypeError`. In chemistry, two first answers at
once leave two progress rows, after which every answer raises (`quiz.py:266`);
`equation_quiz` renders one of its three kinds (`quiz.py:163`); `random_quiz` leaves
compounds out; the difficulty enters the combined priority twice.

*Mathematics.* A marking form that is sent in part leaves older marks, while the score
counts the last form only (`scoring_views.py:131`), as `ScoreOfAnswers` says.
`problem_generator.py:50` has no transaction: a session whose
generation stopped stays listed. Two grades use the key `problem_types` of the
browser's session, and the one's options make the other's page fail
(`elementary2/display_views.py:76`, `junior_high1/display_views.py:74`); a second tab
overwrites `math_quiz_result`. `answered_at` is `auto_now_add` yet among the defaults;
`order` is never set; `StudentProblemProgress` is unused; the generators' fall-backs
never run.

*Tenancy.* `math_trainer/models.py:130` passes a manager where the commented line
before it has `.all()`: a session cannot be opened by a classroom administrator
(`SeenAlike` leaves that case out and says so). The field `administrators` of
`ClassroomEditForm` is a reverse relation that the form does not save. The
signals, but for `validate_student_teachers`, ignore `reverse`: a link added from the
side of a classroom (`classroom.students.add`) would be checked against classrooms with
the ids of students (`signals.py:42`). Nothing in `src/` adds one that way, and `Tenancy`
has no such step; what it shows is for links added as `src/` does. An edit by an administrator of one
classroom drops links to those he cannot see. A form that saves a row deleted
meanwhile inserts it again. A teacher left without a classroom, and a deactivated student
without one, cannot be reached through the site.

## Proofs

Eight modules hold proofs; each is for all values of the constants of its module, and
rests on the assumptions named there, which TLC evaluates in the runs.

`OrgInvitation_proofs` proves the type invariant and the other properties of
`invitations` but liveness. The inductive invariant is `IInv`: `TypeOK`, with the shape
of each request at each `pc`; `Held`, an acceptance that has passed its checks works on
a row that is still unresolved, that no other such acceptance has and no clean-up has
locked; `Expired`, the rows a clean-up has selected were past their expiry at its
`now`, whatever is done to them before it revokes them; and `TableInv`, the four
properties themselves. `Held` is what carries the checks over the password hashing to
the commit; `Expired` is needed because the clean-up's query and its update are
separate. `Refinement` shows that each step maps to a step of `Enrolment` or a stutter;
it needs `Asked`, that a pending invitation's `now` is not in the future and that it
revokes rows of its own organization and address only. `Promise` carries what
`Enrolment` promises, one open offer per slot and one enrolment per address, over to
the service.

`StudentAccounts_proofs` proves all safety properties of `students` and the type
invariant. `Inv` is `DbInv` (tables) with `Places` and `ReqTyped` (what a request
remembers at each place), `Fresh` (what was read under a lock still holds) and `Apart`
(no two requests hold one link, or one student). Of each action it is shown what it
leaves alone for the others.

`ReminderPipeline_proofs` proves types and `MarkedWasPublished` from one invariant (of
the table and of what each request is about to write), and `OncePerDay` from a second,
`Once`, which counts the copies there are together with the requests that may still
send one, against the excuses. `OncePerDay` alone says nothing of a message that is
still to be sent, nor of a row that nobody holds and whose note is missing (`Open`),
which the next request will send again. `DivMono` is the arithmetic of days.

`PassageQuiz_proofs` proves every property of `quizzes`. That batches have no gap, and are shared by no more sets than there are tabs, needs `BatchInv` only: the
sets of a number and the tabs that still have one to store under it are counted
together (`Shared`). The others hold by `QuizInv`: `Tables`, what refers to what;
`ProgressEarned`, each progress row, and each copy a tab will save, is one that the
submissions that passed could give; `SessionsSound`, what a browser's session shows was
graded; `AllCounted`, the answers of a passage against the submissions that moved its
progress, where those a listening quiz has written before its progress is saved are
*pending*; and `Local`, what a tab remembers at each place. A submission's counts are
cardinalities, so that each step adds one element to a set or none. `AllCounted` is
stated of both counts, that of all answers and that of the right ones.

`Calculations_proofs` proves every property of `study_plan`, for any materials, edits and
days. `FirstLearningInTime` and `NeverPilesUp` rest on `Track`: what is missing, all
units less all that was learned in or out of the range, fits the learning days that are
left times what the plan asks, which the rounding up of the shares keeps. An edit
begins the count anew, on a day it leaves time for. That nothing is missing then reads as
`FirstLearningInTime` by counting the two differences of sets (`LacksAndHas`). `ListHonest` rests on `RangeKept` (no learned unit left the range) and
`DiagnosisAgrees` on `Stored` (what the form asserted). `FormsHonest` is about
`Feasibility` alone: its recursive functions (the gaps of the reviews, the extension)
are first shown to exist and to give natural numbers, then the day an extension ends on
is the first with room for all units. `Foreseen` is where it stops: of a preview whose
goal lies more than a day before its start, or that would need more than the ten years
after which `feasibility.py` gives up, nothing is claimed.

It also proves `OneRightChoice`, for any numbers the generators draw: the constants that
bound the runs (`LinearTried`, `SystemTried`, `Uses`, `Hours`, `Minutes`) may be all there
are. The argument has four parts.
- *Fractions*: `Gcd` is a recursive function; it exists, divides both numbers and is a sum
  of multiples of them (`GcdIsGcd`). So what `Reduced` returns has no common divisor left,
  and two fractions are the same number exactly when they reduce to the same pair
  (`ReducedCanonical`). Comparing what is printed is comparing the numbers.
- *Linear equations*: an equation reads as its coefficients (`LeadReads`,
  `ConstantReads`), the coefficient of the letter is not zero, as the two sides never
  draw the same one, and a wrong choice is another number than the answer. Hence it
  is no solution (`OnlyOne`). A pool has at least three choices since the
  near values alone give three (`WholePoolRight`, `TenthPoolRight`, `FractionPoolRight`).
  Where choices are printed to a tenth, those of a pool are whole or tenths already
  (`WholeTenth`, `TenthTwice`).
- *Systems*: `SystemInv` says that every equation kept so far is a line through the
  answer, and that `unique` tells whether the two are parallel. `OneRightChoice` alone is
  not inductive, as it says nothing between the two equations. A wrong choice lies on a
  diagonal through the answer; if both lines met there, both would have its slope
  (`LevelSlope`), and the system would be singular. Two lines through the answer that
  are parallel also share the next point along one of them (`AnotherPoint`).
- *Clocks*: a printed time is read as the time it was (`TextIsRead`), and two moves of
  less than half a dial end at different places of it.

`LineWebhook_proofs` proves all safety properties of `line`. `OneActiveKey`: of every
channel and kind one statement either leaves exactly one bundle or is refused.
`TenantsKeepApart`: a student's organization and a conversation's student never change,
so that what a thread compared, and the conversation it looked up, are still its
student's when it records a message. `AckedIsRecorded`: by `AckInv` a body is awaited by
a thread that handles it, and of the events before the one it is at none is still owed
an entry in the log; what a step adds to the log never takes an entry away (`Grows`).

`PracticeRecords_proofs` proves the safety of `study_logs` and `trainer_quizzes`, and of
`math` the part about sessions.
- *Study logs*: `Replay` is a recursive function of the logs. `CacheInv` adds to
  `CacheOfLogs` that no two requests hold a row (`HeldApart`) and that what a request
  holds is its own logs replayed on the rows as they are (`MineOfLogs`), since nobody
  else can write those. Then a commit appends logs to the table and rows to the cache
  alike. `StreakCounted` follows from the cache and the logs alone.
- *Vocabulary*: nothing makes a progress row unique. `VocabInv` says that a worker that
  has updated the difficulty of a word holds that row, so that the progress it read is
  the one it will save over. Of the counters, those stored and every copy a request has
  read fit the answers given less those missed (`Fits`): when an answer is committed, it
  is missed for whoever else has a copy (`FitsBeside`), and counted in its own
  (`FitsCounted`). `EaseBounded`, which no run lists, is proved beside them: the ease never falls
  below 1.3 nor the interval to zero, so the priority, which divides by both, exists.
- *Chemistry*: nothing is locked. What a worker will add to is at most the number of
  answers that are *done*: posted, less those a worker has still to save. That number
  never falls, and grows with each save; hence no row counts an answer too many. By
  `ExactOK`, of an item without a race at most one request has read the row, and what it
  has read is stored still; hence the row has everything that was saved.
- *Mathematics*: by `MarksInv` a marking's counts are those of what it has written, which
  is of its form; when its score is stored, it has written all of it.

`Tenancy_proofs` proves `SeesOwnTenant` and `SeenAlike` from `RowsInv`, `LinksInv` (no
link crosses an organization) and `WorkInv` (a form that was checked still saves
links inside, whatever happened to the rows since).

The library's induction theorems take an operator as a parameter, which the installed
provers cannot instantiate. Where a proof needs induction over numbers (`Replay`, the
gaps between reviews, counting up to a day), it takes the *least* number at which the
claim would fail instead: `Least` says that a set of natural numbers that is not empty
has one.

Only model-checked: liveness (`RequestsEnd`, `Drained`, `Served`), which is outside the
proof system. Every safety property of the passing runs is also proved.

## Not modelled

The processors, audio, mail back-end and token verification keep no state. The Kobun
trainer is a stub. Kobun, chemistry and the admin site are not routed in `urls.py`;
chemistry is modelled from its views all the same. Admin sites, settings, commands,
migrations and templates are configuration, one-off or layout. Of modelled parts:
log-in and middleware, the operators' list of organizations, the forms of teachers' own
accounts, printing and PDF, pictures, charts, minutes and durations, the weekly refresh
of the vocabulary's priorities, and the wrong choices of vocabulary and chemistry. In
`Tenancy`, requests of a single statement are one step. The signature check of the
webhook and LINE's own limits are abstracted.
