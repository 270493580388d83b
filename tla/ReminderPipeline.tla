-------------------------- MODULE ReminderPipeline --------------------------
(***************************************************************************)
(* The weekly study reminders (study_reminder/): the request Cloud         *)
(* Scheduler makes every 15 minutes, which publishes a message for each    *)
(* reminder of the slot and then notes the day in last_notified; the       *)
(* forms of the staff; and the two subscribers of the topic, the cloud     *)
(* function (cloud_functions/main.py) and listener.py, either of which may *)
(* take a message.                                                         *)
(*                                                                         *)
(* Time is counted in slots: the clock is a slot since some Monday 0:00,   *)
(* and a reminder's time_of_day, a multiple of 15 minutes, is a slot of    *)
(* its day.  Nothing here runs in a transaction: every statement commits.  *)
(* What a message says is left out, and so is StudyReminder.is_active,     *)
(* which no view changes.                                                  *)
(***************************************************************************)
EXTENDS Integers, FiniteSets

CONSTANTS
    Worker,        \* the request handlers of the web server, finitely many
    Reminder,      \* primary keys of StudyReminder rows; bound: no more rows
    SLOTS_PER_DAY, \* 96 in the code
    DAYS_PER_WEEK, \* 7 in the code
    LastSlot,      \* bound: the clock stops here
    MaxCopies,     \* bound: so often at most is one reminder published for one day
    Faults         \* bound: what goes wrong in this instance

ASSUME TimeAssumption ==
    /\ SLOTS_PER_DAY \in Nat \ {0} /\ DAYS_PER_WEEK \in Nat \ {0}
    /\ LastSlot \in Nat /\ MaxCopies \in Nat \ {0}
ASSUME WorkersAssumption == IsFiniteSet(Worker)
ASSUME FaultAssumption == Faults \subseteq {"crash", "timeout", "line"}

VARIABLES
    clock,      \* localtime()
    reminder,   \* the StudyReminder table: a function on the ids in use
    deleted,    \* ids whose row was deleted
    active,     \* the reminders whose student is active
    published,  \* messages the topic has taken, by reminder and day
    consumed,   \* messages the subscriber has acknowledged
    lineUp,     \* whether LINE accepts messages
    excused,    \* history, per message: how often a request fetched the reminder while
                \* another held it, or the note of the day was lost (see Excuse)
    pc,         \* where each worker is
    req         \* the local variables of its request

tableVars == <<reminder, deleted, active>>
queueVars == <<published, consumed, lineUp>>
vars      == <<clock, tableVars, queueVars, excused, pc, req>>

None == -1     \* SQL NULL

DayOf(t) == t \div SLOTS_PER_DAY
Day      == 0 .. DayOf(LastSlot)
Slot     == 0 .. SLOTS_PER_DAY - 1
Weekday  == 0 .. DAYS_PER_WEEK - 1

Row     == [weekday : Weekday, slot : Slot, last : Day \cup {None}]
Message == Reminder \X Day

Rows == DOMAIN reminder

NoRequest == [idle |-> TRUE]

\* A step of the request of w.
Goto(w, where, r) ==
    /\ pc' = [pc EXCEPT ![w] = where]
    /\ req' = [req EXCEPT ![w] = r]

Finish(w) == Goto(w, "idle", NoRequest)

\* The request of w has yet to send the message ...
Fetched(w, m) == pc[w] \in {"loop", "mark"} /\ m \in req[w].todo \X {req[w].day}

\* ... or has sent it and has yet to note the day.
Unnoted(w, m) == pc[w] = "mark" /\ m = <<req[w].sent, req[w].day>>

Holds(w, m) == Fetched(w, m) \/ Unnoted(w, m)

\* Messages whose note is lost when r gets a row with this last_notified.
Overwritten(r, last) ==
    {m \in Message : /\ m[1] = r /\ published[m] > 0 /\ last < m[2]
                     /\ r \in Rows => m[2] <= reminder[r].last}

\* One more excuse for each of the messages; more than the last copy needs are
\* not counted.
Excuse(messages) ==
    excused' = [m \in Message |-> IF m \in messages /\ excused[m] < MaxCopies - 1
                                  THEN excused[m] + 1 ELSE excused[m]]

Init ==
    /\ clock = 0
    /\ reminder = [r \in {} |-> {}]
    /\ deleted = {}
    /\ active = Reminder
    /\ published = [m \in Message |-> 0]
    /\ consumed = [m \in Message |-> 0]
    /\ lineUp = TRUE
    /\ excused = [m \in Message |-> 0]
    /\ pc = [w \in Worker |-> "idle"]
    /\ req = [w \in Worker |-> NoRequest]

-----------------------------------------------------------------------------
(* process_reminders *)

\* StudyReminderQuerySet.notifiable_in_slot: start included, end excluded, as
\* times of the day.
Notifiable(day, start, end) ==
    {r \in Rows \cap active :
        LET x == reminder[r] IN
        /\ x.weekday = day % DAYS_PER_WEEK
        /\ x.slot >= start /\ x.slot < end
        /\ x.last = None \/ x.last < day}

\* The clock, rounded down to its slot, the end of the slot, whose time() is
\* 0:00 for the last of a day, and the query.
Trigger(w) ==
    LET day  == DayOf(clock)
        todo == Notifiable(day, clock % SLOTS_PER_DAY, (clock + 1) % SLOTS_PER_DAY)
    IN
    /\ pc[w] = "idle"
    /\ Goto(w, "loop", [day |-> day, todo |-> todo])
    /\ Excuse({m \in todo \X {day} : \E v \in Worker : Holds(v, m)})
    /\ UNCHANGED <<clock, tableVars, queueVars>>

\* send_notification returns FALSE: no LINE id, no active channel, or its
\* access token cannot be decrypted.
Skip(w, r) ==
    /\ pc[w] = "loop" /\ r \in req[w].todo
    /\ Goto(w, "loop", [req[w] EXCEPT !.todo = @ \ {r}])
    /\ UNCHANGED <<clock, tableVars, queueVars, excused>>

\* mutant (MarkedWasPublished): the day is noted before the message is sent.
PublishMarked(w, r) ==
    /\ pc[w] = "loop" /\ r \in req[w].todo
    /\ Goto(w, "mark", [day |-> req[w].day, todo |-> req[w].todo \ {r}, sent |-> r])
    /\ UNCHANGED <<clock, tableVars, queueVars, excused>>

\* The topic takes the message: only the row as the query read it is looked at.
Publish(w, r) ==
    LET m == <<r, req[w].day>> IN
    /\ pc[w] = "loop" /\ r \in req[w].todo
    /\ published[m] < MaxCopies
    /\ published' = [published EXCEPT ![m] = @ + 1]
    /\ Goto(w, "mark", [day |-> req[w].day, todo |-> req[w].todo \ {r}, sent |-> r])
    /\ UNCHANGED <<clock, tableVars, consumed, lineUp, excused>>

\* The message cannot be generated or published: the exception ends the request.
PublishRaises(w) ==
    /\ pc[w] = "loop" /\ req[w].todo # {}
    /\ Finish(w)
    /\ UNCHANGED <<clock, tableVars, queueVars, excused>>

\* future.result(timeout = 10) gives up on a message that the topic has taken.
PublishTimesOut(w, r) ==
    LET m == <<r, req[w].day>> IN
    /\ "timeout" \in Faults
    /\ pc[w] = "loop" /\ r \in req[w].todo
    /\ published[m] < MaxCopies
    /\ published' = [published EXCEPT ![m] = @ + 1]
    /\ Finish(w) /\ Excuse({m})
    /\ UNCHANGED <<clock, tableVars, consumed, lineUp>>

\* mutant (OncePerDay): the day is noted on the object and never saved.
MarkUnsaved(w) ==
    /\ pc[w] = "mark"
    /\ Goto(w, "loop", [day |-> req[w].day, todo |-> req[w].todo])
    /\ UNCHANGED <<clock, tableVars, queueVars, excused>>

\* save(update_fields = ["last_notified"]); without the row it raises.
Mark(w) ==
    LET r == req[w].sent IN
    /\ pc[w] = "mark"
    /\ IF r \in Rows
       THEN /\ reminder' = [reminder EXCEPT ![r].last = req[w].day]
            /\ Excuse(Overwritten(r, req[w].day))
            /\ Goto(w, "loop", [day |-> req[w].day, todo |-> req[w].todo])
       ELSE Finish(w) /\ UNCHANGED <<reminder, excused>>
    /\ UNCHANGED <<clock, deleted, active, queueVars>>

Respond(w) ==
    /\ pc[w] = "loop" /\ req[w].todo = {}
    /\ Finish(w)
    /\ UNCHANGED <<clock, tableVars, queueVars, excused>>

-----------------------------------------------------------------------------
(* The forms of the staff *)

\* ReminderCreateView.form_valid: a new row, for an active student.
Create(r, weekday, slot) ==
    /\ r \in active \ (Rows \cup deleted)
    /\ reminder' = [x \in Rows \cup {r} |->
                      IF x = r THEN [weekday |-> weekday, slot |-> slot, last |-> None]
                      ELSE reminder[x]]
    /\ UNCHANGED <<clock, deleted, active, queueVars, excused, pc, req>>

\* ReminderEditView.get_object, when the form is posted.
EditRead(w, r) ==
    /\ pc[w] = "idle"
    /\ r \in Rows \cap active
    /\ Goto(w, "edit", [id |-> r, read |-> reminder[r]])
    /\ UNCHANGED <<clock, tableVars, queueVars, excused>>

\* save() of all columns: an UPDATE or, if there is no row any more, an INSERT.
EditSave(w, weekday, slot) ==
    LET r == req[w].id IN
    /\ pc[w] = "edit"
    /\ reminder' = [x \in Rows \cup {r} |->
                      IF x = r THEN [req[w].read EXCEPT !.weekday = weekday, !.slot = slot]
                      ELSE reminder[x]]
    /\ Excuse(Overwritten(r, req[w].read.last))
    /\ Finish(w)
    /\ UNCHANGED <<clock, deleted, active, queueVars>>

\* ReminderDeleteView.post
Delete(r) ==
    /\ r \in Rows \cap active
    /\ reminder' = [x \in Rows \ {r} |-> reminder[x]]
    /\ deleted' = deleted \cup {r}
    /\ UNCHANGED <<clock, active, queueVars, excused, pc, req>>

\* The student is deactivated or reactivated (StudentAccounts).
SetStudentActive(r) ==
    /\ active' = IF r \in active THEN active \ {r} ELSE active \cup {r}
    /\ UNCHANGED <<clock, reminder, deleted, queueVars, excused, pc, req>>

-----------------------------------------------------------------------------
(* The subscribers *)

Pending(m) == consumed[m] < published[m]

\* pubsub_listener: LINE accepts the message.
Deliver(m) ==
    /\ Pending(m) /\ lineUp
    /\ consumed' = [consumed EXCEPT ![m] = @ + 1]
    /\ UNCHANGED <<clock, tableVars, published, lineUp, excused, pc, req>>

\* mutant (Drained): the function raises, and Pub/Sub sends the message again.
DeliverRaises(m) ==
    /\ Pending(m) /\ ~lineUp
    /\ UNCHANGED vars

\* LINE refuses it or cannot be reached: the error is logged and the function
\* returns normally, which acknowledges the message.
DeliverFails(m) ==
    /\ Pending(m) /\ ~lineUp
    /\ consumed' = [consumed EXCEPT ![m] = @ + 1]
    /\ UNCHANGED <<clock, tableVars, published, lineUp, excused, pc, req>>

\* listener.py's callback: no message has a reminder_id attribute, and one
\* without is acknowledged and dropped.
ListenerCallback(m) ==
    /\ Pending(m)
    /\ consumed' = [consumed EXCEPT ![m] = @ + 1]
    /\ UNCHANGED <<clock, tableVars, published, lineUp, excused, pc, req>>

-----------------------------------------------------------------------------
Tick ==
    /\ clock < LastSlot
    /\ clock' = clock + 1
    /\ UNCHANGED <<tableVars, queueVars, excused, pc, req>>

\* LINE fails, for a while or for ever (a token that was revoked).
LineChanges ==
    /\ "line" \in Faults
    /\ lineUp' = ~lineUp
    /\ UNCHANGED <<clock, tableVars, published, consumed, excused, pc, req>>

\* The process serving the request is killed.
Crash(w) ==
    /\ "crash" \in Faults
    /\ pc[w] # "idle"
    /\ Finish(w) /\ Excuse({m \in Message : Unnoted(w, m)})
    /\ UNCHANGED <<clock, tableVars, queueVars>>

Consume(m) == Deliver(m) \/ DeliverFails(m)

Next ==
    \/ Tick
    \/ LineChanges
    \/ \E w \in Worker :
          \/ Trigger(w)
          \/ \E r \in Reminder : Skip(w, r) \/ Publish(w, r) \/ PublishTimesOut(w, r)
          \/ PublishRaises(w)
          \/ Mark(w)
          \/ Respond(w)
          \/ \E r \in Reminder : EditRead(w, r)
          \/ \E weekday \in Weekday, slot \in Slot : EditSave(w, weekday, slot)
          \/ Crash(w)
    \/ \E r \in Reminder, weekday \in Weekday, slot \in Slot : Create(r, weekday, slot)
    \/ \E r \in Reminder : Delete(r) \/ SetStudentActive(r)
    \/ \E m \in Message : Consume(m) \/ ListenerCallback(m)

Spec == Init /\ [][Next]_vars

\* Pub/Sub delivers, again and again, what has not been acknowledged.
FairSpec == Spec /\ \A m \in Message : WF_vars(Consume(m))

-----------------------------------------------------------------------------
(* Properties *)

LoopRequest == [day : Day, todo : SUBSET Reminder]
MarkRequest == [day : Day, todo : SUBSET Reminder, sent : Reminder]
EditRequest == [id : Reminder, read : Row]

TypeOK ==
    /\ clock \in 0 .. LastSlot
    /\ Rows \subseteq Reminder
    /\ reminder \in [Rows -> Row]
    /\ deleted \subseteq Reminder
    /\ active \subseteq Reminder
    /\ published \in [Message -> 0 .. MaxCopies]
    /\ \A m \in Message : consumed[m] \in 0 .. published[m]
    /\ lineUp \in BOOLEAN
    /\ excused \in [Message -> 0 .. MaxCopies - 1]
    /\ pc \in [Worker -> {"idle", "loop", "mark", "edit"}]
    /\ DOMAIN req = Worker
    /\ \A w \in Worker :
          /\ pc[w] = "idle" => req[w] = NoRequest
          /\ pc[w] = "loop" => req[w] \in LoopRequest
          /\ pc[w] = "mark" => req[w] \in MarkRequest
          /\ pc[w] = "edit" => req[w] \in EditRequest

\* A day noted as notified is one a message was published for, whatever
\* requests overlap, die, time out or race an edit: the order of send and save
\* may cause a second message, never the loss of the only one.
MarkedWasPublished ==
    \A r \in Rows : reminder[r].last # None => published[<<r, reminder[r].last>>] > 0

\* A reminder is published once a day, moved to another slot of the day by an
\* edit or not, and at most once more for each time that a request fetched it
\* while another had yet to send it or to note the day, and for each time that
\* the note was lost: the request stopped before it was saved, or an older day
\* was saved over it, by an edit or by a request of the day before.
OncePerDay == \A m \in Message : published[m] <= 1 + excused[m]

\* A LINE API that is down, for however long, does not clog the subscription:
\* what the topic has taken is handled.
Drained == \A m \in Message : [](Pending(m) => <>~Pending(m))

-----------------------------------------------------------------------------
(* What the code says of itself and does not keep *)

\* last_notified "records the date of the last notification and prevents
\* duplicate notifications" (its help text).
PreventsDuplicates == \A m \in Message : published[m] <= 1

\* "Every slot of a day can be chosen", and "the reminders of the current slot
\* are fetched": a request fetches those due now that were not notified today.
DueIsFetched ==
    [][\A w \in Worker : pc[w] = "idle" /\ pc'[w] = "loop" =>
          {r \in Rows \cap active :
              /\ reminder[r].weekday = DayOf(clock) % DAYS_PER_WEEK
              /\ reminder[r].slot = clock % SLOTS_PER_DAY
              /\ reminder[r].last # DayOf(clock)} \subseteq req'[w].todo]_vars
=============================================================================
