---------------------------- MODULE LineWebhook -----------------------------
(***************************************************************************)
(* LINE delivers bodies of events to line_integration/views.py until one   *)
(* is acknowledged; the events of a body are handled one after the other,  *)
(* without a transaction, and recorded in a conversation                   *)
(* (conversations/models.py).  Staff members look at summaries             *)
(* (conversations/views.py) and maintain the channels meanwhile.           *)
(***************************************************************************)
EXTENDS LineChannels, Sequences, SequencesExt

CONSTANTS
    User,        \* LINE user ids
    Body,        \* what LINE delivers
    Destination, \* the bot a body is for
    Events,      \* and its events: sequences of [user, type]
    Known,       \* the students there are at first: [user -> organization]
    MaxTime      \* bound: the clock, in spans of the 60 minutes of is_active()

EventType == {"text", "command", "image", "sticker"}

ASSUME EventsAssumption ==
    /\ DOMAIN Destination = Body /\ DOMAIN Events = Body
    /\ \A b \in Body : /\ Destination[b] \in Bot
                       /\ Events[b] \in Seq([user : User, type : EventType]) /\ Events[b] # <<>>
ASSUME KnownAssumption ==
    DOMAIN Known \subseteq User /\ \A u \in DOMAIN Known : Known[u] \in Org
ASSUME TimeAssumption == MaxTime \in Nat
ASSUME ThreadsAssumption == Worker \cap {"unsent", "lost", "acked"} = {}   \* see line

VARIABLES
    line,           \* per body: "unsent", "lost" (to be redelivered), "acked", or
                    \* the thread whose response LINE awaits
    students,       \* per user: the Student row, or NoStudent
    conversations,  \* Conversation rows, by primary key
    logs,           \* MessageLog rows, in the order of their timestamps
    summaries,      \* per user: the StudentSummary row, or NoSummary
    clock,
    lapsed          \* history: users who were not an active student with a name

lineVars == <<line, students, conversations, logs, summaries>>
vars == <<channelVars, pc, req, work, lineVars, clock, lapsed>>

NoStudent == [none |-> TRUE]
NoSummary == [none |-> TRUE]
Never == MaxTime + 1
Awaited(b) == line[b] \in Worker

-----------------------------------------------------------------------------
(* resolve_channel_and_verify *)

\* mutant (Served): channels that were deactivated are looked up as well.
ResolvedAny(b) == {c \in DOMAIN channels : channels[c].bot = Destination[b]}

\* The channels a body may be for.  Every organization may have one of a bot.
Resolved(b) ==
    {c \in DOMAIN channels : channels[c].is_active /\ channels[c].bot = Destination[b]}

\* get_secret finds one bundle.
HasSecret(c, kind) == Cardinality(bundles[c][kind].active) = 1

\* mutant (AckedIsRecorded): an error is answered with 200.
RejectedQuietly(w) ==
    /\ line' = [b \in Body |-> IF line[b] = w THEN "acked" ELSE line[b]]
    /\ Finish(w)

\* The response is an error, or none: LINE redelivers what it waited for.
Rejected(w) ==
    /\ line' = [b \in Body |-> IF line[b] = w THEN "lost" ELSE line[b]]
    /\ Finish(w)

Receive(w, b) ==
    /\ pc[w] = "idle" /\ line[b] \in {"unsent", "lost"}
    /\ IF \E c \in DOMAIN channels : Resolved(b) = {c} /\ HasSecret(c, "CHANNEL_SECRET")
       THEN LET c == CHOOSE c \in DOMAIN channels : Resolved(b) = {c} IN
            /\ line' = [line EXCEPT ![b] = w]
            /\ Goto(w, "event", [body |-> b, index |-> 1, channel |-> c, token |-> FALSE])
       ELSE line' = [line EXCEPT ![b] = "lost"] /\ UNCHANGED <<pc, req>>
    /\ UNCHANGED <<channelVars, work, students, conversations, logs, summaries,
                   clock, lapsed>>

-----------------------------------------------------------------------------
(* handle_event *)

Event(w) == Events[req[w].body][req[w].index]

\* The reply is sent (its failure is only logged), and the next event follows;
\* after the last one the body is acknowledged.
NextEvent(w) ==
    IF req[w].index < Len(Events[req[w].body])
    THEN /\ Goto(w, "event", [body |-> req[w].body, index |-> req[w].index + 1,
                              channel |-> req[w].channel, token |-> TRUE])
         /\ UNCHANGED line
    ELSE /\ line' = [b \in Body |-> IF line[b] = w THEN "acked" ELSE line[b]]
         /\ Finish(w)

\* Student.objects.get_or_create_user
GetOrCreateUser(u, org) ==
    IF students[u] # NoStudent THEN students[u]
    ELSE [organization |-> org, is_active |-> TRUE, named |-> FALSE]

\* mutant (TenantsKeepApart): the student's organization is not compared.
RefusedNameless(s, c) == ~s.is_active \/ ~s.named

\* A student of another organization, an inactive one, or one without a name,
\* who is sent a link instead.
Refused(s, c) == s.organization # c[1] \/ ~s.is_active \/ ~s.named

\* fetch_image_data and process_image may come back without a text.
MayHaveNoText(e) == e.type = "image"

\* The access token is decrypted once per body.  Text that is not the command
\* for e-mail registration is a question, and so is text found in an image, if
\* LINE still has it; the command's own reply is StudentAccounts'.
HandleEvent(w) ==
    /\ pc[w] = "event"
    /\ IF ~req[w].token /\ ~HasSecret(req[w].channel, "ACCESS_TOKEN")
       THEN Rejected(w) /\ UNCHANGED students
       ELSE LET e == Event(w)
                s == GetOrCreateUser(e.user, req[w].channel[1])
            IN  /\ students' = [students EXCEPT ![e.user] = s]
                /\ \/ /\ \/ Refused(s, req[w].channel)
                         \/ e.type \in {"command", "sticker"} \/ MayHaveNoText(e)
                      /\ NextEvent(w)
                   \/ /\ ~Refused(s, req[w].channel)
                      /\ e.type \in {"text", "image"}
                      /\ Goto(w, "find", req[w]) /\ UNCHANGED line
    /\ UNCHANGED <<channelVars, work, conversations, logs, summaries,
                   clock, lapsed>>

-----------------------------------------------------------------------------
(* handle_text_event, and the end of handle_image_event *)

Open(u) == {k \in DOMAIN conversations : conversations[k].student = u /\ ~conversations[k].ended}

\* Conversation.is_active
IsActive(row) == ~row.ended /\ (row.last_message_at = Never \/ clock - row.last_message_at < 1)

WithConversation(w, k, row) ==
    [body |-> req[w].body, index |-> req[w].index, channel |-> req[w].channel,
     token |-> TRUE, key |-> k, row |-> row]

NewConversation(u) == [student |-> u, ended |-> FALSE, last_message_at |-> Never]

\* get_active_conversation reads the last conversation that has not ended.
FindConversation(w) ==
    /\ pc[w] = "find"
    /\ LET u == Event(w).user IN
       \/ /\ Open(u) = {}
          /\ Goto(w, "open", WithConversation(w, 0, NewConversation(u)))
       \/ \E k \in Open(u) :
             /\ \A j \in Open(u) : j <= k
             /\ Goto(w, "open", WithConversation(w, k, conversations[k]))
    /\ UNCHANGED <<channelVars, work, lineVars, clock, lapsed>>

\* One that is no longer active is ended, its row saved whole, and a new one made.
OpenConversation(w) ==
    /\ pc[w] = "open"
    /\ LET k == req[w].key
           row == req[w].row
           u == Event(w).user
           new == Len(conversations) + 1
       IN  IF k # 0 /\ IsActive(row)
           THEN Goto(w, "ask", req[w]) /\ UNCHANGED conversations
           ELSE /\ conversations' =
                     Append(IF k = 0 THEN conversations
                            ELSE [conversations EXCEPT ![k] = [row EXCEPT !.ended = TRUE]],
                            NewConversation(u))
                /\ Goto(w, "ask", WithConversation(w, new, NewConversation(u)))
    /\ UNCHANGED <<channelVars, work, line, students, logs, summaries,
                   clock, lapsed>>

\* record_message: the message is stored ...
RecordMessage(w, is_sent_by_user) ==
    logs' = Append(logs, [ conversation |-> req[w].key, is_sent_by_user |-> is_sent_by_user,
                           event |-> <<req[w].body, req[w].index>>,
                           organization |-> req[w].channel[1] ])

Ask(w) ==
    /\ pc[w] = "ask"
    /\ RecordMessage(w, TRUE)
    /\ Goto(w, "asked", req[w])
    /\ UNCHANGED <<channelVars, work, line, students, conversations, summaries, clock, lapsed>>

\* The chat answers, or a fixed text stands for the answer it did not give.
Answer(w) ==
    /\ pc[w] = "answer"
    /\ RecordMessage(w, FALSE)
    /\ Goto(w, "answered", req[w])
    /\ UNCHANGED <<channelVars, work, line, students, conversations, summaries, clock, lapsed>>

\* ... and then the conversation saved whole, open as it was read.
SaveConversation(w) ==
    /\ pc[w] \in {"asked", "answered"}
    /\ conversations' =
         [conversations EXCEPT ![req[w].key] = [req[w].row EXCEPT !.last_message_at = clock]]
    /\ IF pc[w] = "asked" THEN Goto(w, "answer", req[w]) /\ UNCHANGED line ELSE NextEvent(w)
    /\ UNCHANGED <<channelVars, work, students, logs, summaries, clock, lapsed>>

-----------------------------------------------------------------------------
(* StudentSummaryView *)

Asker(log) == Events[log.event[1]][log.event[2]].user

\* The student's own messages, as places in logs.
Questions(u) == {k \in DOMAIN logs : logs[k].is_sent_by_user /\ Asker(logs[k]) = u}

Latest(u) == IF Questions(u) = {} THEN 0 ELSE Max(Questions(u))

\* StudentSummary.needs_update
NeedsUpdate(u) ==
    /\ Questions(u) # {}
    /\ \/ Cardinality(Questions(u)) # summaries[u].last_conversation_count
       \/ Latest(u) > summaries[u].last_message_timestamp

NewSummary == [last_conversation_count |-> 0, last_message_timestamp |-> 0, covers |-> 0]

\* The row is found or created; if it needs an update the recent questions are
\* read and sent to the service.
ViewSummary(w, u) ==
    /\ pc[w] = "idle" /\ students[u] # NoStudent
    /\ Work
    /\ IF summaries[u] # NoSummary /\ ~NeedsUpdate(u)
       THEN UNCHANGED <<summaries, pc, req>>
       ELSE /\ summaries' = [summaries EXCEPT ![u] = IF @ = NoSummary THEN NewSummary ELSE @]
            /\ Goto(w, "summary", [student |-> u, fetched |-> Latest(u)])
    /\ UNCHANGED <<channelVars, line, students, conversations, logs, clock, lapsed>>

\* What the text covers: the questions that were sent, or none of them if the
\* service failed, which a fixed text says.
Covered(w) == {req[w].fetched, 0}

\* The messages are counted once the text is there.
SaveSummary(w) ==
    /\ pc[w] = "summary"
    /\ LET u == req[w].student IN
       \E covers \in Covered(w) :
          summaries' = [summaries EXCEPT ![u] =
            [ last_conversation_count |-> Cardinality(Questions(u)),
              last_message_timestamp  |-> Latest(u),
              covers                  |-> covers ]]
    /\ Finish(w)
    /\ UNCHANGED <<channelVars, work, line, students, conversations, logs,
                   clock, lapsed>>

-----------------------------------------------------------------------------
(* The students, the staff and LINE *)

\* RegisterNameView.post, by way of a channel of the student's organization.
RegisterName(u) ==
    /\ students[u] # NoStudent /\ ~students[u].named
    /\ \E c \in DOMAIN channels : channels[c].is_active /\ c[1] = students[u].organization
    /\ students' = [students EXCEPT ![u].named = TRUE]
    /\ UNCHANGED <<channelVars, pc, req, work, line, conversations, logs, summaries,
                   clock, lapsed>>

\* StudentDeleteView and StudentReactivateView.
SetStudentActive(u, is_active) ==
    /\ students[u] # NoStudent /\ students[u].is_active # is_active
    /\ Work
    /\ students' = [students EXCEPT ![u].is_active = is_active]
    /\ lapsed' = lapsed \cup {u}
    /\ UNCHANGED <<channelVars, pc, req, line, conversations, logs, summaries,
                   clock>>

\* A request raises, or its process stops: what it committed stays.
Abort(w) ==
    /\ pc[w] # "idle"
    /\ Work
    /\ Rejected(w)
    /\ UNCHANGED <<channelVars, students, conversations, logs, summaries,
                   clock, lapsed>>

\* LINE no longer waits for a response; the request goes on.
LineTimesOut(b) ==
    /\ Awaited(b)
    /\ Work
    /\ line' = [line EXCEPT ![b] = "lost"]
    /\ UNCHANGED <<channelVars, pc, req, students, conversations, logs, summaries,
                   clock, lapsed>>

Tick ==
    /\ Work /\ clock < MaxTime /\ clock' = clock + 1
    /\ UNCHANGED <<channelVars, pc, req, lineVars, lapsed>>

-----------------------------------------------------------------------------

Init ==
    /\ InitChannels
    /\ line = [b \in Body |-> "unsent"]
    /\ students = [u \in User |->
                     IF u \in DOMAIN Known
                     THEN [organization |-> Known[u], is_active |-> TRUE, named |-> TRUE]
                     ELSE NoStudent]
    /\ conversations = <<>> /\ logs = <<>>
    /\ summaries = [u \in User |-> NoSummary]
    /\ clock = 0
    /\ lapsed = User \ DOMAIN Known

OtherVars == <<lineVars, clock, lapsed>>

Step(w) ==
    \/ StaffStep(w) /\ UNCHANGED OtherVars
    \/ HandleEvent(w)
    \/ FindConversation(w) \/ OpenConversation(w)
    \/ Ask(w) \/ Answer(w) \/ SaveConversation(w)
    \/ SaveSummary(w)

Deliver(b) == \E w \in Worker : Receive(w, b)

Next ==
    \/ StaffBegins /\ UNCHANGED OtherVars
    \/ \E w \in Worker : Step(w) \/ Abort(w)
    \/ \E b \in Body : Deliver(b) \/ LineTimesOut(b)
    \/ \E w \in Worker, u \in User : ViewSummary(w, u)
    \/ \E u \in User : RegisterName(u) \/ \E is_active \in BOOLEAN : SetStudentActive(u, is_active)
    \/ Tick

Spec == Init /\ [][Next]_vars

\* A thread goes on; LINE redelivers what was not acknowledged, however often
\* the threads were busy when it tried.
FairSpec == Spec /\ (\A w \in Worker : WF_vars(Step(w))) /\ (\A b \in Body : SF_vars(Deliver(b)))

-----------------------------------------------------------------------------
(* Properties *)

\* The i-th event of b is a question that stands: its student was active and
\* had a name all the time, and every channel that b may be for is the
\* student's organization's.
Stands(b, i) ==
    LET u == Events[b][i].user IN
    /\ Events[b][i].type = "text" /\ u \notin lapsed
    /\ \A c \in DOMAIN channels :
          channels[c].bot = Destination[b] => c[1] = students[u].organization

\* It was recorded, and later its answer, in one conversation.
Recorded(b, i) ==
    \E q, a \in DOMAIN logs :
        /\ q < a
        /\ logs[q].event = <<b, i>> /\ logs[q].is_sent_by_user
        /\ logs[a].event = <<b, i>> /\ ~logs[a].is_sent_by_user
        /\ logs[a].conversation = logs[q].conversation

\* Every question that stands in a body LINE got a 200 for is recorded, followed
\* by its answer in the same conversation, although requests stop and LINE gives
\* up waiting in between: the view answers 200 only after the last event.
AckedIsRecorded ==
    \A b \in Body : line[b] = "acked" =>
        \A i \in DOMAIN Events[b] : Stands(b, i) => Recorded(b, i)

\* What a student wrote to the channel of an organization is recorded only if it
\* is the student's own, although two organizations may have channels of one
\* bot and the first message to any of them decides where a student belongs.
TenantsKeepApart ==
    \A k \in DOMAIN logs :
        /\ students[Asker(logs[k])].organization = logs[k].organization
        /\ conversations[logs[k].conversation].student = Asker(logs[k])

ActiveFor(bot) == {c \in DOMAIN channels : channels[c].bot = bot /\ channels[c].is_active}

\* A body is acknowledged in the end, if LINE goes on redelivering it and from
\* some time on exactly one active channel has its bot.
Served ==
    \A b \in Body :
        (<>[](Cardinality(ActiveFor(Destination[b])) = 1)) => <>(line[b] = "acked")

-----------------------------------------------------------------------------
(* What the documentation says *)

\* get_active_conversation "gets the active conversation": a student has one.
OneOpenConversation == \A u \in User : Cardinality(Open(u)) <= 1

\* A summary that needs no update covers the last question.
SummaryFresh ==
    \A u \in User :
        summaries[u] # NoSummary /\ ~NeedsUpdate(u) => summaries[u].covers = Latest(u)

=============================================================================
