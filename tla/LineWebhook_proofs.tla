------------------------- MODULE LineWebhook_proofs -------------------------
(***************************************************************************)
(* The LINE channels and the webhook, for any number of threads,           *)
(* organizations, channels, users and bodies of events: a channel keeps    *)
(* exactly one active key of each kind, what is recorded about a student   *)
(* belongs to the student's organization, and a body is acknowledged only  *)
(* when all its questions that stand are recorded with their answers.      *)
(***************************************************************************)
EXTENDS LineWebhook, FiniteSetTheorems, TLAPS

(* The keys: the only statement that touches the bundles of a channel that *)
(* exists either leaves one active or is refused.                          *)

Keys == {k \in [active : SUBSET Nat, last : Nat] : \E n \in Nat : k.active = {n}}

KeysInv ==
    /\ DOMAIN channels \subseteq Channel
    /\ bundles \in [DOMAIN channels -> [KeyKind -> Keys]]

LEMMA NewKeysTyped == NewKeys \in [KeyKind -> Keys]
BY DEF NewKeys, Keys

LEMMA KeysInit == Init => KeysInv
BY NewKeysTyped, RegisteredAssumption DEF Init, InitChannels, KeysInv

LEMMA KeysInsert ==
    ASSUME KeysInv, NEW w \in Worker, Insert(w) PROVE KeysInv'
<1> DEFINE c == req[w].channel
           kind == req[w].kind
           n == bundles[c][kind].last + 1
           new == [active |-> {n}, last |-> n]
<1>1. channels' = channels
  BY DEF Insert
<1>2. CASE bundles' = bundles
  BY <1>1, <1>2 DEF KeysInv
<1>3. CASE bundles' = [bundles EXCEPT ![c][kind] = new]
  <2>1. CASE c \notin DOMAIN channels \/ kind \notin KeyKind
    BY <1>1, <1>3, <2>1 DEF KeysInv
  <2>2. CASE c \in DOMAIN channels /\ kind \in KeyKind
    <3>1. bundles[c][kind] \in Keys
      BY <2>2 DEF KeysInv
    <3>2. n \in Nat
      BY <3>1 DEF Keys
    <3>3. new \in Keys
      BY <3>2 DEF Keys
    <3> HIDE DEF new, c, kind
    <3>4. QED
      BY <1>1, <1>3, <2>2, <3>3 DEF KeysInv
  <2>3. QED
    BY <2>1, <2>2
<1>4. QED
  BY <1>2, <1>3 DEF Insert

LEMMA KeysCreate ==
    ASSUME KeysInv, NEW o \in Org, NEW id \in ChannelId, NEW bot \in Bot,
           CreateChannel(o, id, bot)
    PROVE  KeysInv'
<1>1. CASE UNCHANGED channelVars
  BY <1>1 DEF KeysInv, channelVars
<1>2. CASE ~UNCHANGED channelVars
  <2> DEFINE extended == DOMAIN channels \cup {<<o, id>>}
  <2>1. /\ channels' = [c \in extended |-> IF c = <<o, id>>
                          THEN [bot |-> bot, is_active |-> TRUE] ELSE channels[c]]
        /\ bundles' = [c \in extended |-> IF c = <<o, id>> THEN NewKeys ELSE bundles[c]]
    BY <1>2 DEF CreateChannel
  <2>2. extended \subseteq Channel
    BY DEF KeysInv, Channel
  <2>3. QED
    BY <2>1, <2>2, NewKeysTyped DEF KeysInv
<1>3. QED
  BY <1>1, <1>2

LEMMA KeysSetActive ==
    ASSUME KeysInv, NEW c \in Channel, NEW b \in BOOLEAN, SetActive(c, b)
    PROVE  KeysInv' /\ DOMAIN channels' = DOMAIN channels
BY DEF KeysInv, SetActive

LEMMA KeysNext == KeysInv /\ [Next]_vars => KeysInv'
<1> SUFFICES ASSUME KeysInv, [Next]_vars PROVE KeysInv'
  OBVIOUS
<1>1. CASE UNCHANGED channelVars
  BY <1>1 DEF KeysInv, channelVars
<1>2. ASSUME NEW w \in Worker, Insert(w) PROVE KeysInv'
  BY <1>2, KeysInsert
<1>3. ASSUME NEW o \in Org, NEW id \in ChannelId, NEW bot \in Bot, CreateChannel(o, id, bot)
      PROVE  KeysInv'
  BY <1>3, KeysCreate
<1>4. ASSUME NEW c \in Channel, NEW b \in BOOLEAN, SetActive(c, b) PROVE KeysInv'
  BY <1>4, KeysSetActive
<1>5. ASSUME StaffBegins PROVE KeysInv'
  <2>1. CASE UNCHANGED channelVars
    BY <2>1, <1>1
  <2>2. CASE ~UNCHANGED channelVars
    BY <2>2, <1>3, <1>4, <1>5
    DEF StaffBegins, ChannelSecretRotateView, ChannelAccessTokenRotateView, RotateBegin,
        LineChannelDeactivateView, LineChannelActivateView
  <2>3. QED
    BY <2>1, <2>2
<1>6. ASSUME NEW w \in Worker, Step(w) PROVE KeysInv'
  <2>1. CASE Insert(w)
    BY <2>1, <1>2
  <2>2. CASE ~Insert(w)
    <3>1. UNCHANGED channelVars
      BY <1>6, <2>2 DEF Step, StaffStep, Retire, HandleEvent, FindConversation,
         OpenConversation, Ask, Answer, SaveConversation, SaveSummary
    <3>2. QED
      BY <3>1, <1>1
  <2>3. QED
    BY <2>1, <2>2
<1>7. CASE UNCHANGED vars
  BY <1>7, <1>1 DEF vars
<1>8. CASE \/ \E w \in Worker : Abort(w)
           \/ \E b \in Body : Deliver(b) \/ LineTimesOut(b)
           \/ \E w \in Worker, u \in User : ViewSummary(w, u)
           \/ \E u \in User : RegisterName(u)
                              \/ \E is_active \in BOOLEAN : SetStudentActive(u, is_active)
           \/ Tick
  <2>1. UNCHANGED channelVars
    BY <1>8 DEF Abort, Deliver, Receive, LineTimesOut, ViewSummary, RegisterName,
                SetStudentActive, Tick
  <2>2. QED
    BY <2>1, <1>1
<1>9. QED
  BY <1>5, <1>6, <1>7, <1>8 DEF Next

\* Whatever rotations overlap, fail or stop half way, a channel has exactly one
\* active key bundle of each kind, for any number of channels and threads.
THEOREM OneActiveKeyAlways == Spec => []OneActiveKey
<1>1. KeysInv => OneActiveKey
  <2> SUFFICES ASSUME KeysInv, NEW c \in DOMAIN channels, NEW kind \in KeyKind
               PROVE  Cardinality(bundles[c][kind].active) = 1
    BY DEF OneActiveKey
  <2>1. bundles[c][kind] \in Keys
    BY DEF KeysInv
  <2>2. PICK n \in Nat : bundles[c][kind].active = {n}
    BY <2>1 DEF Keys
  <2>3. QED
    BY <2>2, FS_Singleton
<1>2. QED
  BY <1>1, KeysInit, KeysNext, PTL DEF Spec

-----------------------------------------------------------------------------
(* What is recorded.  A student's organization and a conversation's student *)
(* never change; so what a thread has compared or looked up still holds     *)
(* when it records the message, however long it took.                       *)

Student == [organization : Org, is_active : BOOLEAN, named : BOOLEAN]
Conversation == [student : User, ended : BOOLEAN, last_message_at : Nat]
Log == [conversation : Nat, is_sent_by_user : BOOLEAN, event : Body \X Nat, organization : Org]

Exists(u) == students[u] # NoStudent

Tables ==
    /\ clock \in Nat
    /\ students \in [User -> Student \cup {NoStudent}]
    /\ conversations \in Seq(Conversation)
    /\ logs \in Seq(Log)

\* A message belongs to the conversation of a student of the organization.
Belongs(u, org) == Exists(u) /\ students[u].organization = org

OwnConversation(k, u) == k \in DOMAIN conversations /\ conversations[k].student = u

LogSound(log) ==
    /\ log.event[2] \in DOMAIN Events[log.event[1]]
    /\ Belongs(Asker(log), log.organization)
    /\ OwnConversation(log.conversation, Asker(log))

Reading(r) == r.body \in Body /\ r.index \in DOMAIN Events[r.body] /\ r.channel \in Channel

UserOf(r) == Events[r.body][r.index].user

RowOf(r) == r.row \in Conversation /\ r.row.student = UserOf(r)

\* A thread at a place of handle_event, with these local variables.
Recording == {"ask", "asked", "answer", "answered"}

Local(place, r) ==
    /\ place \in {"event", "find", "open"} \cup Recording => Reading(r)
    /\ place \in {"find", "open"} \cup Recording => Belongs(UserOf(r), r.channel[1])
    /\ place = "open" => /\ RowOf(r)
                         /\ r.key # 0 => OwnConversation(r.key, UserOf(r))
    /\ place \in Recording => RowOf(r) /\ OwnConversation(r.key, UserOf(r))

Places == pc = [w \in Worker |-> pc[w]] /\ req = [w \in Worker |-> req[w]]

ApartInv ==
    /\ KeysInv /\ Tables /\ Places
    /\ \A k \in DOMAIN logs : LogSound(logs[k])
    /\ \A w \in Worker : Local(pc[w], req[w])

\* What a step leaves as it was.
Kept ==
    /\ \A u \in User : Exists(u) =>
          students'[u] # NoStudent /\ students'[u].organization = students[u].organization
    /\ \A k \in DOMAIN conversations :
          k \in DOMAIN conversations' /\ conversations'[k].student = conversations[k].student

LogsSound == \A k \in DOMAIN logs : LogSound(logs[k])

LEMMA ElementIn ==
    ASSUME NEW S, NEW s \in Seq(S), NEW i \in DOMAIN s PROVE s[i] \in S
OBVIOUS

LEMMA EventTyped ==
    ASSUME NEW b \in Body, NEW i \in DOMAIN Events[b]
    PROVE  Events[b][i].user \in User /\ Events[b][i].type \in EventType
<1>1. Events[b] \in Seq([user : User, type : EventType])
  BY EventsAssumption
<1>2. Events[b][i] \in [user : User, type : EventType]
  BY <1>1, ElementIn
<1>3. QED
  BY <1>2

LEMMA LocalKept ==
    ASSUME Tables, Kept, NEW place, NEW r, Local(place, r)
    PROVE  Local(place, r)'
<1>1. Reading(r) => UserOf(r) \in User
  BY EventTyped DEF Reading, UserOf
<1>2. ASSUME NEW org, UserOf(r) \in User, Belongs(UserOf(r), org)
      PROVE  Belongs(UserOf(r), org)'
  BY <1>2 DEF Belongs, Exists, Kept, UserOf
<1>3. ASSUME NEW k, NEW u, OwnConversation(k, u) PROVE OwnConversation(k, u)'
  BY <1>3 DEF OwnConversation, Kept
<1>4. RowOf(r) => RowOf(r)'
  BY DEF RowOf, UserOf
<1>5. Reading(r) => Reading(r)'
  BY DEF Reading
<1>6. UserOf(r)' = UserOf(r)
  BY DEF UserOf
<1>7. QED
  BY <1>1, <1>2, <1>3, <1>4, <1>5, <1>6 DEF Local

LEMMA LogKept ==
    ASSUME Tables, Kept, NEW log \in Log, LogSound(log)
    PROVE  LogSound(log)'
<1>1. Asker(log) \in User /\ Asker(log)' = Asker(log)
  BY EventTyped DEF LogSound, Asker, Log
<1>2. QED
  BY <1>1 DEF LogSound, Belongs, Exists, OwnConversation, Kept

LEMMA LogsKept ==
    ASSUME Tables, Kept, LogsSound, UNCHANGED logs
    PROVE  LogsSound'
<1> SUFFICES ASSUME NEW k \in DOMAIN logs PROVE LogSound(logs[k])'
  BY DEF LogsSound
<1> SUFFICES ASSUME NEW log, log = logs[k] PROVE LogSound(log)'
  BY DEF LogSound, Asker, Belongs, Exists, OwnConversation
<1>1. log \in Log /\ LogSound(log)
  BY DEF Tables, LogsSound
<1>2. QED
  BY <1>1, LogKept

LEMMA Moves ==
    ASSUME ApartInv, KeysInv', Tables', Kept, LogsSound',
           NEW w \in Worker, NEW place, NEW r, Goto(w, place, r), Local(place, r)'
    PROVE  ApartInv'
<1>1. Places'
  BY DEF ApartInv, Places, Goto
<1>2. ASSUME NEW v \in Worker PROVE Local(pc[v], req[v])'
  <2>1. CASE v = w
    <3>1. pc'[v] = place /\ req'[v] = r
      BY <2>1 DEF ApartInv, Places, Goto
    <3>2. QED
      BY <3>1
      DEF Local, Reading, UserOf, RowOf, Belongs, Exists, OwnConversation
  <2>2. CASE v # w
    <3>1. pc'[v] = pc[v] /\ req'[v] = req[v]
      BY <2>2 DEF ApartInv, Places, Goto
    <3> SUFFICES ASSUME NEW p, NEW x, p = pc[v], x = req[v] PROVE Local(p, x)'
      BY <3>1 DEF Local, Reading, UserOf, RowOf, Belongs, Exists, OwnConversation
    <3>2. Local(p, x)
      BY DEF ApartInv
    <3>3. QED
      BY <3>2, LocalKept DEF ApartInv
  <2>3. QED
    BY <2>1, <2>2
<1>3. QED
  BY <1>1, <1>2 DEF ApartInv, LogsSound

LEMMA QuietStep ==
    ASSUME ApartInv, KeysInv', Tables', Kept, LogsSound', UNCHANGED <<pc, req>>
    PROVE  ApartInv'
<1>1. Places'
  BY DEF ApartInv, Places
<1>2. ASSUME NEW v \in Worker PROVE Local(pc[v], req[v])'
  <2> SUFFICES ASSUME NEW p, NEW x, p = pc[v], x = req[v] PROVE Local(p, x)'
    BY DEF Local, Reading, UserOf, RowOf, Belongs, Exists, OwnConversation
  <2>1. Local(p, x)
    BY DEF ApartInv
  <2>2. QED
    BY <2>1, LocalKept DEF ApartInv
<1>3. QED
  BY <1>1, <1>2 DEF ApartInv, LogsSound

\* A step that leaves the tables alone.
LEMMA StillTables ==
    ASSUME ApartInv, UNCHANGED <<students, conversations, logs, clock>>
    PROVE  Tables' /\ Kept /\ LogsSound'
<1>1. Tables'
  BY DEF ApartInv, Tables
<1>2. Kept
  BY DEF Kept, Exists
<1>3. QED
  BY <1>1, <1>2, LogsKept DEF ApartInv, LogsSound

LEMMA ApartInit == Init => ApartInv
<1> SUFFICES ASSUME Init PROVE ApartInv
  OBVIOUS
<1>1. KeysInv
  BY KeysInit
<1>2. students \in [User -> Student \cup {NoStudent}]
  BY KnownAssumption DEF Init, Student
<1>3. Tables /\ LogsSound
  BY <1>2 DEF Init, Tables, LogsSound
<1>4. Places /\ \A w \in Worker : Local(pc[w], req[w])
  BY DEF Init, InitChannels, Places, Local, Recording
<1>5. QED
  BY <1>1, <1>3, <1>4 DEF ApartInv, LogsSound

\* A thread that leaves the tables alone and comes to another place.
LEMMA StillMoves ==
    ASSUME ApartInv, KeysInv', UNCHANGED <<students, conversations, logs, clock>>,
           NEW w \in Worker, NEW place, NEW r, Goto(w, place, r), Local(place, r)'
    PROVE  ApartInv'
BY StillTables, Moves

LEMMA Idles ==
    ASSUME ApartInv, KeysInv', UNCHANGED <<students, conversations, logs, clock>>,
           NEW w \in Worker, Finish(w)
    PROVE  ApartInv'
<1>1. Local("idle", NoRequest)'
  BY DEF Local, Recording
<1>2. QED
  BY <1>1, StillMoves DEF Finish

\* The staff's requests are at none of the places of handle_event.
LEMMA StaffMoves ==
    ASSUME ApartInv, KeysInv', UNCHANGED OtherVars, NEW w \in Worker,
           \/ Retire(w) \/ Insert(w)
           \/ \E c \in Channel : ChannelSecretRotateView(w, c) \/ ChannelAccessTokenRotateView(w, c)
    PROVE  ApartInv'
<1> DEFINE toRetire(c, kind) == [channel |-> c, kind |-> kind, seen |-> bundles[c][kind].active]
           toInsert == [ channel |-> req[w].channel, kind |-> req[w].kind,
                         retired |-> req[w].seen
                                       \cap bundles[req[w].channel][req[w].kind].active ]
<1>1. UNCHANGED <<students, conversations, logs, clock>>
  BY DEF OtherVars, lineVars
<1>2. ASSUME NEW place, NEW r, place \in {"retire", "insert"}, Goto(w, place, r)
      PROVE  ApartInv'
  <2>1. Local(place, r)'
    BY <1>2 DEF Local, Recording
  <2>2. QED
    BY <1>1, <1>2, <2>1, StillMoves
<1>3. CASE Retire(w)
  <2> SUFFICES ASSUME NEW r, r = toInsert PROVE ApartInv'
    OBVIOUS
  <2>1. Goto(w, "insert", r)
    BY <1>3 DEF Retire, Goto
  <2>2. QED
    BY <2>1, <1>2
<1>4. CASE Insert(w)
  BY <1>1, <1>4, Idles DEF Insert
<1>5. ASSUME NEW c \in Channel, NEW kind, RotateBegin(w, c, kind) PROVE ApartInv'
  <2> SUFFICES ASSUME NEW r, r = toRetire(c, kind) PROVE ApartInv'
    OBVIOUS
  <2>1. Goto(w, "retire", r)
    BY <1>5 DEF RotateBegin, Goto
  <2>2. QED
    BY <2>1, <1>2
<1>6. QED
  BY <1>3, <1>4, <1>5 DEF ChannelSecretRotateView, ChannelAccessTokenRotateView

LEMMA ReceiveStep ==
    ASSUME ApartInv, KeysInv', NEW w \in Worker, NEW b \in Body, Receive(w, b)
    PROVE  ApartInv'
<1>1. UNCHANGED <<students, conversations, logs, clock>>
  BY DEF Receive
<1>2. CASE UNCHANGED <<pc, req>>
  BY <1>1, <1>2, StillTables, QuietStep
<1>3. CASE ~UNCHANGED <<pc, req>>
  <2>1. PICK c \in DOMAIN channels :
          Resolved(b) = {c} /\ HasSecret(c, "CHANNEL_SECRET")
    BY <1>3 DEF Receive
  <2>2. (CHOOSE d \in DOMAIN channels : Resolved(b) = {d}) \in DOMAIN channels
    BY <2>1
  <2> DEFINE chosen == CHOOSE d \in DOMAIN channels : Resolved(b) = {d}
  <2> SUFFICES ASSUME NEW r, r = [body |-> b, index |-> 1, channel |-> chosen, token |-> FALSE]
               PROVE  ApartInv'
    OBVIOUS
  <2>3. Goto(w, "event", r)
    BY <1>3, <2>1 DEF Receive
  <2>4. chosen \in Channel
    BY <2>2 DEF ApartInv, KeysInv
  <2>5. 1 \in DOMAIN Events[b]
    BY EventsAssumption
  <2> HIDE DEF chosen
  <2>6. Local("event", r)'
    BY <2>4, <2>5 DEF Local, Recording, Reading
  <2>7. QED
    BY <1>1, <2>3, <2>6, StillMoves
<1>4. QED
  BY <1>2, <1>3

\* The next event of the body, once the tables are known to be in order.
LEMMA NextEventStep ==
    ASSUME ApartInv, KeysInv', Tables', Kept, LogsSound',
           NEW w \in Worker, Reading(req[w]), NextEvent(w)
    PROVE  ApartInv'
<1> DEFINE b == req[w].body
           i == req[w].index
<1>1. CASE i < Len(Events[b])
  <2> SUFFICES ASSUME NEW r, r = [ body |-> b, index |-> i + 1,
                                   channel |-> req[w].channel, token |-> TRUE ]
               PROVE  ApartInv'
    OBVIOUS
  <2>1. Goto(w, "event", r)
    BY <1>1 DEF NextEvent
  <2>2. b \in Body /\ i \in DOMAIN Events[b] /\ req[w].channel \in Channel
    BY DEF Reading
  <2>3. i + 1 \in DOMAIN Events[b]
    BY <1>1, <2>2, EventsAssumption
  <2>4. Local("event", r)'
    BY <2>2, <2>3 DEF Local, Recording, Reading
  <2>5. QED
    BY <2>1, <2>4, Moves
<1>2. CASE ~(i < Len(Events[b]))
  <2>1. Goto(w, "idle", NoRequest)
    BY <1>2 DEF NextEvent, Finish
  <2>2. Local("idle", NoRequest)'
    BY DEF Local, Recording
  <2>3. QED
    BY <2>1, <2>2, Moves
<1>3. QED
  BY <1>1, <1>2

-----------------------------------------------------------------------------
(* handle_event and its successors, one lemma per step *)

\* get_or_create_user: a student there is stays; one who is not gets the
\* organization of the channel.
LEMMA HandleStep ==
    ASSUME ApartInv, KeysInv', NEW w \in Worker, HandleEvent(w)
    PROVE  ApartInv'
<1> DEFINE u == UserOf(req[w])
           c == req[w].channel
           s == GetOrCreateUser(u, c[1])
<1>1. Reading(req[w]) /\ pc[w] = "event"
  BY DEF ApartInv, HandleEvent, Local
<1>2. u \in User /\ c \in Channel
  BY <1>1, EventTyped DEF Reading, UserOf
<1>3. UNCHANGED <<conversations, logs, clock>>
  BY DEF HandleEvent
<1>4. CASE Rejected(w) /\ UNCHANGED students
  BY <1>3, <1>4, Idles DEF Rejected
<1>5. CASE /\ students' = [students EXCEPT ![u] = s]
           /\ \/ NextEvent(w)
              \/ ~Refused(s, c) /\ Goto(w, "find", req[w])
  <2>1. s \in Student /\ (Exists(u) => s = students[u])
    BY <1>2 DEF GetOrCreateUser, ApartInv, Tables, Student, Channel, Exists
  <2>2. NoStudent \notin Student
    BY DEF NoStudent, Student
  <2> HIDE DEF s, u, c
  <2>3. Tables'
    BY <1>2, <1>3, <1>5, <2>1 DEF ApartInv, Tables
  <2>4. \A v \in User : v # u => students'[v] = students[v]
    BY <1>2, <1>5 DEF ApartInv, Tables
  <2>5. students'[u] = s
    BY <1>2, <1>5 DEF ApartInv, Tables
  <2>6. Kept
    BY <1>3, <2>1, <2>2, <2>4, <2>5 DEF Kept, Exists
  <2>7. LogsSound'
    BY <1>3, <2>6, LogsKept DEF ApartInv, LogsSound
  <2>8. CASE NextEvent(w)
    BY <1>1, <2>3, <2>6, <2>7, <2>8, NextEventStep
  <2>9. CASE ~Refused(s, c) /\ Goto(w, "find", req[w])
    <3> SUFFICES ASSUME NEW r, r = req[w] PROVE ApartInv'
      OBVIOUS
    <3>1. s.organization = c[1]
      BY <2>9 DEF Refused
    <3>2. students'[u] # NoStudent /\ students'[u].organization = c[1]
      BY <2>1, <2>2, <2>5, <3>1
    <3>3. (Belongs(UserOf(r), r.channel[1]))'
      BY <3>2 DEF Belongs, Exists, UserOf, u, c
    <3>4. Reading(r)'
      BY <1>1 DEF Reading
    <3>5. Local("find", r)'
      BY <3>3, <3>4 DEF Local, Recording
    <3>6. QED
      BY <2>3, <2>6, <2>7, <2>9, <3>5, Moves
  <2>10. QED
    BY <1>5, <2>8, <2>9
<1>6. QED
  BY <1>4, <1>5 DEF HandleEvent, Event, UserOf

LEMMA FindStep ==
    ASSUME ApartInv, KeysInv', NEW w \in Worker, FindConversation(w)
    PROVE  ApartInv'
<1> DEFINE u == UserOf(req[w])
<1>1. pc[w] = "find" /\ UNCHANGED <<students, conversations, logs, clock>>
  BY DEF FindConversation, lineVars
<1>2. Reading(req[w]) /\ Belongs(u, req[w].channel[1])
  BY <1>1 DEF ApartInv, Local
<1>3. u \in User /\ Event(w).user = u
  BY <1>2, EventTyped DEF Reading, UserOf, Event
<1>4. ASSUME NEW k, NEW row \in Conversation, row.student = u,
             k # 0 => OwnConversation(k, u), Goto(w, "open", WithConversation(w, k, row))
      PROVE  ApartInv'
  <2> SUFFICES ASSUME NEW r, r = WithConversation(w, k, row) PROVE ApartInv'
    OBVIOUS
  <2>1. /\ r.body = req[w].body /\ r.index = req[w].index /\ r.channel = req[w].channel
        /\ r.key = k /\ r.row = row
    BY DEF WithConversation
  <2>2. UserOf(r) = u
    BY <2>1 DEF UserOf
  <2>3. Local("open", r)
    BY <1>2, <1>4, <2>1, <2>2 DEF Local, Recording, Reading, RowOf
  <2>4. Local("open", r)'
    BY <1>1, <2>3, StillTables, LocalKept DEF ApartInv
  <2>5. QED
    BY <1>1, <1>4, <2>4, StillMoves
<1>5. CASE Goto(w, "open", WithConversation(w, 0, NewConversation(u)))
  <2>1. NewConversation(u) \in Conversation /\ NewConversation(u).student = u
    BY <1>3, TimeAssumption DEF NewConversation, Conversation, Never
  <2>2. QED
    BY <1>4, <1>5, <2>1
<1>6. ASSUME NEW k \in Open(u), Goto(w, "open", WithConversation(w, k, conversations[k]))
      PROVE  ApartInv'
  <2>1. k \in DOMAIN conversations /\ conversations[k].student = u
    BY DEF Open
  <2>2. conversations[k] \in Conversation
    BY <2>1, ElementIn DEF ApartInv, Tables
  <2>3. QED
    BY <1>4, <1>6, <2>1, <2>2 DEF OwnConversation
<1>7. QED
  BY <1>3, <1>5, <1>6 DEF FindConversation

LEMMA OpenStep ==
    ASSUME ApartInv, KeysInv', NEW w \in Worker, OpenConversation(w)
    PROVE  ApartInv'
<1> DEFINE u == UserOf(req[w])
           k == req[w].key
           row == req[w].row
           fresh == NewConversation(u)
           before == IF k = 0 THEN conversations
                     ELSE [conversations EXCEPT ![k] = [row EXCEPT !.ended = TRUE]]
<1>1. pc[w] = "open" /\ UNCHANGED <<students, logs, clock>>
  BY DEF OpenConversation
<1>2. Local("open", req[w])
  BY <1>1 DEF ApartInv
<1>3. /\ Reading(req[w]) /\ Belongs(u, req[w].channel[1])
      /\ row \in Conversation /\ row.student = u
      /\ k # 0 => OwnConversation(k, u)
  BY <1>2 DEF Local, RowOf
<1>4. u \in User /\ Event(w).user = u
  BY <1>3, EventTyped DEF Reading, UserOf, Event
<1>5. CASE k # 0 /\ Goto(w, "ask", req[w]) /\ UNCHANGED conversations
  <2> SUFFICES ASSUME NEW r, r = req[w] PROVE ApartInv'
    OBVIOUS
  <2>1. Local("ask", r)
    BY <1>2, <1>5 DEF Local
  <2>2. Local("ask", r)'
    BY <1>1, <1>5, <2>1, StillTables, LocalKept DEF ApartInv
  <2>3. QED
    BY <1>1, <1>5, <2>2, StillMoves
<1>6. CASE /\ conversations' = Append(before, fresh)
           /\ Goto(w, "ask", WithConversation(w, Len(conversations) + 1, fresh))
  <2>1. conversations \in Seq(Conversation)
    BY DEF ApartInv, Tables
  <2>2. fresh \in Conversation /\ fresh.student = u
    BY <1>4, TimeAssumption DEF NewConversation, Conversation, Never
  <2>3. [row EXCEPT !.ended = TRUE] \in Conversation
        /\ [row EXCEPT !.ended = TRUE].student = u
    BY <1>3 DEF Conversation
  <2>4. /\ before \in Seq(Conversation) /\ Len(before) = Len(conversations)
        /\ \A j \in DOMAIN conversations :
              j \in DOMAIN before /\ before[j].student = conversations[j].student
    <3>1. CASE k = 0
      BY <2>1, <3>1
    <3>2. CASE k # 0
      <4> DEFINE ended == [row EXCEPT !.ended = TRUE]
      <4>1. k \in DOMAIN conversations /\ conversations[k].student = u
        BY <1>3, <3>2 DEF OwnConversation
      <4>2. ended \in Conversation /\ ended.student = u
        BY <2>3
      <4>3. before = [conversations EXCEPT ![k] = ended]
        BY <3>2
      <4> HIDE DEF ended, before, k, u
      <4>4. QED
        BY <2>1, <4>1, <4>2, <4>3
    <3>3. QED
      BY <3>1, <3>2
  <2>5. before \in Seq(Conversation) /\ Len(before) \in Nat
    BY <2>4
  <2> DEFINE new == Len(conversations) + 1
  <2> HIDE DEF before, fresh, u, k, row
  <2>6. /\ conversations' \in Seq(Conversation)
        /\ new \in DOMAIN conversations' /\ conversations'[new] = fresh
        /\ \A j \in DOMAIN before : j \in DOMAIN conversations' /\ conversations'[j] = before[j]
    BY <1>6, <2>2, <2>4, <2>5
  <2>7. Kept
    BY <1>1, <2>4, <2>6 DEF Kept, Exists
  <2>8. Tables'
    BY <1>1, <2>6 DEF ApartInv, Tables
  <2>9. LogsSound'
    BY <1>1, <2>7, LogsKept DEF ApartInv, LogsSound
  <2> SUFFICES ASSUME NEW r, r = WithConversation(w, new, fresh) PROVE ApartInv'
    OBVIOUS
  <2>10. /\ r.body = req[w].body /\ r.index = req[w].index /\ r.channel = req[w].channel
         /\ r.key = new /\ r.row = fresh
    BY DEF WithConversation
  <2>11. UserOf(r) = u
    BY <2>10 DEF UserOf, u
  <2>12. Reading(r)' /\ RowOf(r)' /\ OwnConversation(r.key, UserOf(r))'
    BY <1>3, <2>2, <2>6, <2>10, <2>11 DEF Reading, RowOf, OwnConversation, UserOf
  <2>13. (Belongs(UserOf(r), r.channel[1]))'
    BY <1>1, <1>3, <2>10, <2>11 DEF Belongs, Exists, UserOf
  <2>14. Local("ask", r)'
    BY <2>12, <2>13 DEF Local
  <2>15. Goto(w, "ask", r)
    BY <1>6
  <2>16. QED
    BY <2>7, <2>8, <2>9, <2>14, <2>15, Moves
<1>7. QED
  BY <1>4, <1>5, <1>6 DEF OpenConversation

\* A message stored by a thread that holds the student's own conversation.
LEMMA RecordStep ==
    ASSUME ApartInv, NEW w \in Worker, NEW sent \in BOOLEAN, RecordMessage(w, sent),
           Local("ask", req[w]), UNCHANGED <<students, conversations, clock>>
    PROVE  Tables' /\ Kept /\ LogsSound'
<1> DEFINE r == req[w]
           u == UserOf(r)
           k == r.key
           log == [ conversation |-> k, is_sent_by_user |-> sent,
                    event |-> <<r.body, r.index>>, organization |-> r.channel[1] ]
<1>1. Reading(r) /\ Belongs(u, r.channel[1]) /\ OwnConversation(k, u)
  BY DEF Local, Recording
<1>2. conversations \in Seq(Conversation) /\ logs \in Seq(Log)
  BY DEF ApartInv, Tables
<1>3. r.body \in Body /\ r.index \in Nat /\ r.channel[1] \in Org
  <2>1. Events[r.body] \in Seq([user : User, type : EventType])
    BY <1>1, EventsAssumption DEF Reading
  <2>2. QED
    BY <1>1, <2>1 DEF Reading, Channel
<1>4. k \in DOMAIN conversations
  BY <1>1 DEF OwnConversation
<1>5. log \in Log
  BY <1>2, <1>3, <1>4 DEF Log
<1>6. /\ log.event[2] \in DOMAIN Events[log.event[1]]
      /\ Asker(log) = u /\ log.organization = r.channel[1] /\ log.conversation = k
  BY <1>1 DEF Reading, Asker, UserOf
<1>7. logs' = Append(logs, log)
  BY DEF RecordMessage
<1> HIDE DEF log, k, u
<1>8. Kept
  BY DEF Kept, Exists
<1>9. Tables'
  BY <1>2, <1>5, <1>7 DEF ApartInv, Tables
<1>10. LogSound(log)
  BY <1>1, <1>6 DEF LogSound
<1>11. LogsSound'
  <2> SUFFICES ASSUME NEW j \in DOMAIN logs' PROVE LogSound(logs[j])'
    BY DEF LogsSound
  <2> SUFFICES ASSUME NEW l, l = logs'[j] PROVE LogSound(l)'
    BY DEF LogSound, Asker, Belongs, Exists, OwnConversation
  <2>1. l = log \/ (j \in DOMAIN logs /\ l = logs[j])
    BY <1>2, <1>5, <1>7
  <2>2. l \in Log /\ LogSound(l)
    BY <1>2, <1>5, <1>10, <2>1, ElementIn DEF ApartInv, LogSound
  <2>3. QED
    BY <1>8, <2>2, LogKept DEF ApartInv
<1>12. QED
  BY <1>8, <1>9, <1>11

LEMMA AskStep ==
    ASSUME ApartInv, KeysInv', NEW w \in Worker, Ask(w)
    PROVE  ApartInv'
<1>1. Local("ask", req[w]) /\ Local("asked", req[w])
  BY DEF Ask, ApartInv, Local, Recording
<1>2. Tables' /\ Kept /\ LogsSound'
  BY <1>1, RecordStep DEF Ask
<1> SUFFICES ASSUME NEW r, r = req[w] PROVE ApartInv'
  OBVIOUS
<1>3. Local("asked", r)'
  BY <1>1, <1>2, LocalKept DEF ApartInv
<1>4. QED
  BY <1>2, <1>3, Moves DEF Ask

LEMMA AnswerStep ==
    ASSUME ApartInv, KeysInv', NEW w \in Worker, Answer(w)
    PROVE  ApartInv'
<1>1. Local("ask", req[w]) /\ Local("answered", req[w])
  BY DEF Answer, ApartInv, Local, Recording
<1>2. Tables' /\ Kept /\ LogsSound'
  BY <1>1, RecordStep DEF Answer
<1> SUFFICES ASSUME NEW r, r = req[w] PROVE ApartInv'
  OBVIOUS
<1>3. Local("answered", r)'
  BY <1>1, <1>2, LocalKept DEF ApartInv
<1>4. QED
  BY <1>2, <1>3, Moves DEF Answer

\* The student's own conversation is saved; it stays the student's.
LEMMA SaveConversationStep ==
    ASSUME ApartInv, KeysInv', NEW w \in Worker, SaveConversation(w)
    PROVE  ApartInv'
<1> DEFINE u == UserOf(req[w])
           k == req[w].key
           row == [req[w].row EXCEPT !.last_message_at = clock]
<1>1. UNCHANGED <<students, logs, clock>> /\ pc[w] \in {"asked", "answered"}
  BY DEF SaveConversation
<1>2. Local("answer", req[w])
  BY <1>1 DEF ApartInv, Local, Recording
<1>3. /\ Reading(req[w]) /\ req[w].row \in Conversation /\ req[w].row.student = u
      /\ k \in DOMAIN conversations /\ conversations[k].student = u
  BY <1>2 DEF Local, Recording, RowOf, OwnConversation
<1>4. conversations \in Seq(Conversation) /\ clock \in Nat
  BY DEF ApartInv, Tables
<1>5. row \in Conversation /\ row.student = u
  BY <1>3, <1>4 DEF Conversation
<1>6. conversations' = [conversations EXCEPT ![k] = row]
  BY DEF SaveConversation
<1> HIDE DEF row, k, u
<1>7. /\ conversations' \in Seq(Conversation) /\ DOMAIN conversations' = DOMAIN conversations
      /\ \A j \in DOMAIN conversations : conversations'[j].student = conversations[j].student
  BY <1>3, <1>4, <1>5, <1>6
<1>8. Kept
  BY <1>1, <1>7 DEF Kept, Exists
<1>9. Tables'
  BY <1>1, <1>7 DEF ApartInv, Tables
<1>10. LogsSound'
  BY <1>1, <1>8, LogsKept DEF ApartInv, LogsSound
<1>11. CASE Goto(w, "answer", req[w])
  <2> SUFFICES ASSUME NEW r, r = req[w] PROVE ApartInv'
    OBVIOUS
  <2>1. Local("answer", r)'
    BY <1>2, <1>8, LocalKept DEF ApartInv
  <2>2. QED
    BY <1>8, <1>9, <1>10, <1>11, <2>1, Moves
<1>12. CASE NextEvent(w)
  BY <1>3, <1>8, <1>9, <1>10, <1>12, NextEventStep
<1>13. QED
  BY <1>11, <1>12 DEF SaveConversation

\* The name and the activity of a student.
LEMMA StudentStep ==
    ASSUME ApartInv, KeysInv', NEW u \in User,
           RegisterName(u) \/ \E is_active \in BOOLEAN : SetStudentActive(u, is_active)
    PROVE  ApartInv'
<1>1. UNCHANGED <<pc, req, conversations, logs, clock>> /\ Exists(u)
  BY DEF RegisterName, SetStudentActive, Exists
<1>2. students \in [User -> Student \cup {NoStudent}] /\ students[u] \in Student
  BY <1>1 DEF ApartInv, Tables, Exists
<1>3. PICK s \in Student :
        s.organization = students[u].organization /\ students' = [students EXCEPT ![u] = s]
  <2>1. CASE RegisterName(u)
    BY <1>2, <2>1 DEF RegisterName, Student
  <2>2. ASSUME NEW a \in BOOLEAN, SetStudentActive(u, a)
        PROVE  \E s \in Student : /\ s.organization = students[u].organization
                                  /\ students' = [students EXCEPT ![u] = s]
    <3>1. [students[u] EXCEPT !.is_active = a] \in Student
      BY <1>2 DEF Student
    <3>2. [students[u] EXCEPT !.is_active = a].organization = students[u].organization
      BY <1>2 DEF Student
    <3>3. students' = [students EXCEPT ![u] = [students[u] EXCEPT !.is_active = a]]
      BY <2>2 DEF SetStudentActive
    <3>4. QED
      BY <3>1, <3>2, <3>3
  <2>3. QED
    BY <2>1, <2>2
<1>4. NoStudent \notin Student
  BY DEF NoStudent, Student
<1>5. Tables'
  BY <1>1, <1>2, <1>3 DEF ApartInv, Tables
<1>6. Kept
  BY <1>1, <1>2, <1>3, <1>4 DEF Kept, Exists
<1>7. LogsSound'
  BY <1>1, <1>6, LogsKept DEF ApartInv, LogsSound
<1>8. QED
  BY <1>1, <1>5, <1>6, <1>7, QuietStep

LEMMA SummaryStep ==
    ASSUME ApartInv, KeysInv', NEW w \in Worker,
           SaveSummary(w) \/ \E u \in User : ViewSummary(w, u)
    PROVE  ApartInv'
<1>1. UNCHANGED <<students, conversations, logs, clock>>
  BY DEF SaveSummary, ViewSummary
<1>2. CASE SaveSummary(w)
  BY <1>1, <1>2, Idles DEF SaveSummary
<1>3. ASSUME NEW u \in User, ViewSummary(w, u) PROVE ApartInv'
  <2>1. CASE UNCHANGED <<pc, req>>
    BY <1>1, <2>1, StillTables, QuietStep
  <2>2. CASE ~UNCHANGED <<pc, req>>
    <3> SUFFICES ASSUME NEW r, r = [student |-> u, fetched |-> Latest(u)] PROVE ApartInv'
      OBVIOUS
    <3>1. Goto(w, "summary", r)
      BY <1>3, <2>2 DEF ViewSummary
    <3>2. Local("summary", r)'
      BY DEF Local, Recording
    <3>3. QED
      BY <1>1, <3>1, <3>2, StillMoves
  <2>3. QED
    BY <2>1, <2>2
<1>4. QED
  BY <1>2, <1>3

LEMMA ApartNext == ApartInv /\ [Next]_vars => ApartInv'
<1> SUFFICES ASSUME ApartInv, [Next]_vars PROVE ApartInv'
  OBVIOUS
<1>1. KeysInv'
  BY KeysNext DEF ApartInv
<1>2. CASE UNCHANGED <<pc, req, students, conversations, logs, clock>>
  BY <1>1, <1>2, StillTables, QuietStep
<1>3. CASE UNCHANGED vars
  BY <1>2, <1>3 DEF vars, lineVars
<1>4. ASSUME StaffBegins, UNCHANGED OtherVars PROVE ApartInv'
  <2>1. ASSUME NEW w \in Worker, NEW c \in Channel,
               ChannelSecretRotateView(w, c) \/ ChannelAccessTokenRotateView(w, c)
        PROVE  ApartInv'
    BY <1>1, <1>4, <2>1, StaffMoves
  <2>2. CASE UNCHANGED <<pc, req>>
    BY <1>2, <1>4, <2>2 DEF OtherVars, lineVars
  <2>3. QED
    BY <1>4, <2>1, <2>2
    DEF StaffBegins, CreateChannel, LineChannelDeactivateView, LineChannelActivateView, SetActive
<1>5. ASSUME NEW w \in Worker, Step(w) PROVE ApartInv'
  BY <1>1, <1>5, StaffMoves, HandleStep, FindStep, OpenStep, AskStep, AnswerStep,
     SaveConversationStep, SummaryStep
  DEF Step, StaffStep
<1>6. ASSUME NEW w \in Worker, Abort(w) PROVE ApartInv'
  BY <1>1, <1>6, Idles DEF Abort, Rejected
<1>7. ASSUME NEW b \in Body, Deliver(b) PROVE ApartInv'
  BY <1>1, <1>7, ReceiveStep DEF Deliver
<1>8. ASSUME NEW b \in Body, LineTimesOut(b) PROVE ApartInv'
  BY <1>2, <1>8 DEF LineTimesOut
<1>9. ASSUME NEW w \in Worker, NEW u \in User, ViewSummary(w, u) PROVE ApartInv'
  BY <1>1, <1>9, SummaryStep
<1>10. ASSUME NEW u \in User,
              RegisterName(u) \/ \E is_active \in BOOLEAN : SetStudentActive(u, is_active)
       PROVE  ApartInv'
  BY <1>1, <1>10, StudentStep
<1>11. ASSUME Tick PROVE ApartInv'
  <2>1. UNCHANGED <<pc, req, students, conversations, logs>> /\ clock' = clock + 1
    BY <1>11 DEF Tick, lineVars
  <2>2. Tables'
    BY <2>1 DEF ApartInv, Tables
  <2>3. Kept
    BY <2>1 DEF Kept, Exists
  <2>4. LogsSound'
    BY <2>1, <2>3, LogsKept DEF ApartInv, LogsSound
  <2>5. QED
    BY <1>1, <2>1, <2>2, <2>3, <2>4, QuietStep
<1>12. QED
  BY <1>3, <1>4, <1>5, <1>6, <1>7, <1>8, <1>9, <1>10, <1>11 DEF Next

\* Whatever threads, redeliveries, aborted requests and concurrent work of the
\* staff do, a recorded message belongs to a conversation of the student who
\* wrote it, and that student to the organization whose channel received it.
THEOREM TenantsKeepApartAlways == Spec => []TenantsKeepApart
<1>1. ApartInv => TenantsKeepApart
  BY DEF ApartInv, TenantsKeepApart, LogSound, Belongs, OwnConversation
<1>2. QED
  BY <1>1, ApartInit, ApartNext, PTL DEF Spec

-----------------------------------------------------------------------------
(* What is acknowledged.  A thread that handles a body owes no question     *)
(* before the event it is at, and LINE awaits no thread but one that        *)
(* handles the body.  What is owed only shrinks: messages are never         *)
(* deleted, and a question that stands has stood all along, for students    *)
(* keep their organization, channels their bot, and nobody leaves lapsed.   *)

Handling == {"event", "find", "open", "ask", "asked", "answer", "answered"}

\* The questions that stand and are not recorded.
Owed == {e \in UNION {{b} \X DOMAIN Events[b] : b \in Body} :
            Stands(e[1], e[2]) /\ ~Recorded(e[1], e[2])}

\* The questions there are, each with its conversation.
Asked == {<<logs[q].event, logs[q].conversation>> :
            q \in {k \in DOMAIN logs : logs[k].is_sent_by_user}}

\* The thread answers for a channel of the body's bot; it owes nothing that it
\* has passed, the question that it is about to answer is there, and the one
\* that it has answered is not owed.
Passed(place, r) ==
    place \in Handling =>
        /\ r.channel \in DOMAIN channels /\ channels[r.channel].bot = Destination[r.body]
        /\ \A i \in 1 .. r.index - 1 : <<r.body, i>> \notin Owed
        /\ place \in {"asked", "answer"} => << <<r.body, r.index>>, r.key >> \in Asked
        /\ place = "answered" => <<r.body, r.index>> \notin Owed

Awaiting ==
    /\ line \in [Body -> {"unsent", "lost", "acked"} \cup Worker]
    /\ \A b \in Body : Awaited(b) => pc[line[b]] \in Handling /\ req[line[b]].body = b

\* Who has not lapsed is an active student with a name.
Settled ==
    \A u \in User \ lapsed : Exists(u) /\ students[u].is_active /\ students[u].named

NothingOwed == \A b \in Body : line[b] = "acked" => \A i \in DOMAIN Events[b] : <<b, i>> \notin Owed

AckInv ==
    /\ Awaiting /\ Settled /\ NothingOwed
    /\ \A w \in Worker : Passed(pc[w], req[w])

\* What every step leaves as it was, or only adds to.
Grows ==
    /\ \A k \in DOMAIN logs : k \in DOMAIN logs' /\ logs'[k] = logs[k]
    /\ \A c \in DOMAIN channels : c \in DOMAIN channels' /\ channels'[c].bot = channels[c].bot
    /\ lapsed \subseteq lapsed'
    /\ \A u \in User : Exists(u) => students'[u].organization = students[u].organization

LEMMA OwedMeans ==
    ASSUME NEW b \in Body, NEW i \in DOMAIN Events[b]
    PROVE  <<b, i>> \in Owed <=> Stands(b, i) /\ ~Recorded(b, i)
<1>1. <<b, i>> \in UNION {{x} \X DOMAIN Events[x] : x \in Body}
  OBVIOUS
<1>2. <<b, i>>[1] = b /\ <<b, i>>[2] = i
  OBVIOUS
<1> QED
  BY <1>1, <1>2 DEF Owed

LEMMA OwedShrinks ==
    ASSUME Settled, Grows
    PROVE  Owed' \subseteq Owed
<1> SUFFICES ASSUME NEW e \in Owed' PROVE e \in Owed
  OBVIOUS
<1>0. PICK b \in Body : e \in {b} \X DOMAIN Events[b]
  BY DEF Owed
<1>1. PICK i \in DOMAIN Events[b] : e = <<b, i>> /\ (Stands(b, i) /\ ~Recorded(b, i))'
  <2>1. PICK i \in DOMAIN Events[b] : e = <<b, i>>
    BY <1>0
  <2>2. <<b, i>>[1] = b /\ <<b, i>>[2] = i
    OBVIOUS
  <2>3. (Stands(e[1], e[2]) /\ ~Recorded(e[1], e[2]))'
    BY DEF Owed
  <2> QED
    BY <2>1, <2>2, <2>3 DEF Stands, Recorded
<1>2. Events[b][i].user \in User
  BY EventTyped
<1>3. Stands(b, i)
  BY <1>1, <1>2 DEF Stands, Grows, Settled
<1>4. ~Recorded(b, i)
  BY <1>1 DEF Recorded, Grows
<1> QED
  BY <1>1, <1>3, <1>4, OwedMeans

LEMMA AskedGrows ==
    ASSUME Grows
    PROVE  Asked \subseteq Asked'
<1> SUFFICES ASSUME NEW x \in Asked PROVE x \in Asked'
  OBVIOUS
<1>1. PICK q \in DOMAIN logs :
         logs[q].is_sent_by_user /\ x = <<logs[q].event, logs[q].conversation>>
  BY DEF Asked
<1>2. q \in DOMAIN logs' /\ logs'[q] = logs[q]
  BY DEF Grows
<1> QED
  BY <1>1, <1>2 DEF Asked

LEMMA PassedKept ==
    ASSUME Settled, Grows, NEW place, NEW r, Passed(place, r)
    PROVE  Passed(place, r)'
<1>1. Owed' \subseteq Owed /\ Asked \subseteq Asked'
  BY OwedShrinks, AskedGrows
<1> QED
  BY <1>1 DEF Passed, Grows

\* The bodies acknowledged before owe nothing; one may be acknowledged now.
LEMMA AckedKept ==
    ASSUME AckInv, Grows,
           \A b \in Body : line'[b] = "acked" /\ line[b] # "acked" =>
               \A i \in DOMAIN Events[b] : <<b, i>> \notin Owed'
    PROVE  NothingOwed'
<1>1. Owed' \subseteq Owed
  BY OwedShrinks DEF AckInv
<1> QED
  BY <1>1 DEF AckInv, NothingOwed

\* A thread that comes to another place.
LEMMA AckMoves ==
    ASSUME ApartInv, AckInv, Grows, Settled', NothingOwed', Awaiting',
           NEW w \in Worker, NEW place, NEW r, Goto(w, place, r), Passed(place, r)'
    PROVE  AckInv'
<1>1. ASSUME NEW v \in Worker PROVE Passed(pc[v], req[v])'
  <2>1. CASE v = w
    <3>1. pc'[v] = place /\ req'[v] = r
      BY <2>1 DEF ApartInv, Places, Goto
    <3> QED
      BY <3>1 DEF Passed
  <2>2. CASE v # w
    <3>1. pc'[v] = pc[v] /\ req'[v] = req[v]
      BY <2>2 DEF ApartInv, Places, Goto
    <3> SUFFICES ASSUME NEW p, NEW x, p = pc[v], x = req[v] PROVE Passed(p, x)'
      BY <3>1 DEF Passed
    <3>2. Passed(p, x)
      BY DEF AckInv
    <3> QED
      BY <3>2, PassedKept DEF AckInv
  <2> QED
    BY <2>1, <2>2
<1> QED
  BY <1>1 DEF AckInv

\* No thread moves.
LEMMA AckStays ==
    ASSUME ApartInv, AckInv, Grows, Settled', Awaiting', UNCHANGED <<pc, req>>,
           \A b \in Body : line'[b] = "acked" => line[b] = "acked"
    PROVE  AckInv'
<1>1. ASSUME NEW v \in Worker PROVE Passed(pc[v], req[v])'
  <2> SUFFICES ASSUME NEW p, NEW x, p = pc[v], x = req[v] PROVE Passed(p, x)'
    BY DEF Passed
  <2>1. Passed(p, x)
    BY DEF AckInv
  <2> QED
    BY <2>1, PassedKept DEF AckInv
<1>2. NothingOwed'
  BY AckedKept
<1> QED
  BY <1>1, <1>2 DEF AckInv

LEMMA AckInit == Init => AckInv
<1> SUFFICES ASSUME Init PROVE AckInv
  OBVIOUS
<1>1. Awaiting /\ NothingOwed
  BY ThreadsAssumption DEF Init, Awaiting, NothingOwed, Awaited
<1>2. Settled
  BY DEF Init, Settled, Exists, NoStudent
<1>3. \A w \in Worker : Passed(pc[w], req[w])
  BY DEF Init, InitChannels, Passed, Handling
<1> QED
  BY <1>1, <1>2, <1>3 DEF AckInv

LEMMA QuietGrows ==
    ASSUME AckInv, UNCHANGED <<logs, channels, lapsed, students>>
    PROVE  Grows /\ Settled'
BY DEF Grows, AckInv, Settled, Exists

\* A thread that LINE awaits goes on with its body.
LEMMA StillAwaiting ==
    ASSUME ApartInv, AckInv, line' = line, NEW w \in Worker, NEW place, NEW r, Goto(w, place, r),
           pc[w] \in Handling => place \in Handling /\ r.body = req[w].body
    PROVE  Awaiting'
<1>1. /\ pc'[w] = place /\ req'[w] = r
      /\ \A v \in Worker \ {w} : pc'[v] = pc[v] /\ req'[v] = req[v]
  BY DEF ApartInv, Places, Goto
<1> QED
  BY <1>1 DEF AckInv, Awaiting, Awaited

\* A thread is done, and LINE awaits it no longer.
LEMMA DoneAwaiting ==
    ASSUME ApartInv, AckInv, NEW w \in Worker, Finish(w), NEW x \in {"lost", "acked"},
           line' = [b \in Body |-> IF line[b] = w THEN x ELSE line[b]]
    PROVE  Awaiting'
<1>1. \A v \in Worker \ {w} : pc'[v] = pc[v] /\ req'[v] = req[v]
  BY DEF ApartInv, Places, Goto, Finish
<1>2. x \notin Worker
  BY ThreadsAssumption
<1> QED
  BY <1>1, <1>2 DEF AckInv, Awaiting, Awaited

\* Threads that do not handle a body.
LEMMA Elsewhere ==
    ASSUME ApartInv, AckInv, Grows, Settled', line' = line,
           NEW w \in Worker, NEW place, NEW r, Goto(w, place, r),
           pc[w] \notin Handling, place \notin Handling
    PROVE  AckInv'
<1>1. Awaiting'
  BY StillAwaiting
<1>2. NothingOwed'
  BY AckedKept
<1>3. Passed(place, r)'
  BY DEF Passed
<1> QED
  BY <1>1, <1>2, <1>3, AckMoves

LEMMA RejectedAck ==
    ASSUME ApartInv, AckInv, Grows, Settled', NEW w \in Worker, Rejected(w)
    PROVE  AckInv'
<1>1. Awaiting'
  BY DoneAwaiting DEF Rejected
<1>2. NothingOwed'
  BY AckedKept DEF Rejected, AckInv, Awaiting
<1>3. Passed("idle", NoRequest)'
  BY DEF Passed, Handling
<1> QED
  BY <1>1, <1>2, <1>3, AckMoves DEF Rejected, Finish

LEMMA ReceiveAck ==
    ASSUME ApartInv, AckInv, NEW w \in Worker, NEW b \in Body, Receive(w, b)
    PROVE  AckInv'
<1>1. Grows /\ Settled' /\ UNCHANGED channels /\ pc[w] = "idle"
  BY QuietGrows DEF Receive, channelVars
<1>2. CASE line' = [line EXCEPT ![b] = "lost"] /\ UNCHANGED <<pc, req>>
  <2>1. Awaiting'
    BY <1>2, ThreadsAssumption DEF AckInv, Awaiting, Awaited
  <2>2. \A x \in Body : line'[x] = "acked" => line[x] = "acked"
    BY <1>2 DEF AckInv, Awaiting
  <2> QED
    BY <1>1, <1>2, <2>1, <2>2, AckStays
<1>3. ASSUME NEW c \in DOMAIN channels, Resolved(b) = {c}, line' = [line EXCEPT ![b] = w],
             Goto(w, "event", [body |-> b, index |-> 1, channel |-> c, token |-> FALSE])
      PROVE  AckInv'
  <2> SUFFICES ASSUME NEW r, r = [body |-> b, index |-> 1, channel |-> c, token |-> FALSE],
                      Goto(w, "event", r)
               PROVE  AckInv'
    BY <1>3
  <2>1. /\ pc'[w] = "event" /\ req'[w] = r
        /\ \A v \in Worker \ {w} : pc'[v] = pc[v] /\ req'[v] = req[v]
    BY DEF ApartInv, Places, Goto
  <2>2. \A x \in Body : line[x] # w
    BY <1>1 DEF AckInv, Awaiting, Awaited, Handling
  <2>3. Awaiting'
    BY <1>3, <2>1, <2>2 DEF AckInv, Awaiting, Awaited, Handling
  <2>4. w # "acked"
    BY ThreadsAssumption
  <2>5. \A x \in Body : line'[x] = "acked" => line[x] = "acked"
    BY <1>3, <2>4 DEF AckInv, Awaiting
  <2>6. NothingOwed'
    BY <1>1, <2>5, AckedKept
  <2>7. channels[c].bot = Destination[b]
    BY <1>3 DEF Resolved
  <2>8. Passed("event", r)'
    BY <1>1, <2>7 DEF Passed
  <2> QED
    BY <1>1, <2>3, <2>6, <2>8, AckMoves
<1>4. CASE \E c \in DOMAIN channels : Resolved(b) = {c} /\ HasSecret(c, "CHANNEL_SECRET")
  <2> DEFINE chosen == CHOOSE c \in DOMAIN channels : Resolved(b) = {c}
  <2>1. chosen \in DOMAIN channels /\ Resolved(b) = {chosen}
    BY <1>4
  <2>2. /\ line' = [line EXCEPT ![b] = w]
        /\ Goto(w, "event", [body |-> b, index |-> 1, channel |-> chosen, token |-> FALSE])
    BY <1>4 DEF Receive
  <2> HIDE DEF chosen
  <2> QED
    BY <2>1, <2>2, <1>3
<1> QED
  BY <1>2, <1>4 DEF Receive

\* The next event, once what is passed is known to owe nothing.
LEMMA NextEventAck ==
    ASSUME ApartInv, AckInv, Grows, Settled', NEW w \in Worker, pc[w] \in Handling,
           Reading(req[w]), NextEvent(w), <<req[w].body, req[w].index>> \notin Owed'
    PROVE  AckInv'
<1> DEFINE b == req[w].body
           i == req[w].index
<1>1. /\ b \in Body /\ i \in DOMAIN Events[b] /\ Len(Events[b]) \in Nat
      /\ DOMAIN Events[b] = 1 .. Len(Events[b])
  <2>1. b \in Body /\ i \in DOMAIN Events[b]
    BY DEF Reading
  <2>2. Events[b] \in Seq([user : User, type : EventType])
    BY <2>1, EventsAssumption
  <2> QED
    BY <2>1, <2>2
<1>2. /\ req[w].channel \in DOMAIN channels' /\ channels'[req[w].channel].bot = Destination[b]
      /\ \A j \in 1 .. i : <<b, j>> \notin Owed'
  <2>1. Passed(pc[w], req[w])
    BY DEF AckInv
  <2>2. Owed' \subseteq Owed
    BY OwedShrinks DEF AckInv
  <2>3. \A j \in 1 .. i : j \in 1 .. i - 1 \/ j = i
    BY <1>1
  <2> QED
    BY <2>1, <2>2, <2>3 DEF Passed, Grows
<1> HIDE DEF b, i
<1>3. CASE i < Len(Events[b])
  <2> SUFFICES ASSUME NEW r, r = [ body |-> b, index |-> i + 1,
                                   channel |-> req[w].channel, token |-> TRUE ]
               PROVE  AckInv'
    OBVIOUS
  <2>1. Goto(w, "event", r) /\ line' = line
    BY <1>3 DEF NextEvent, b, i
  <2>2. Passed("event", r)'
    <3>1. r.index - 1 = i
      BY <1>1
    <3> QED
      BY <1>2, <3>1 DEF Passed
  <2>3. Awaiting'
    BY <2>1, StillAwaiting DEF Handling, b
  <2>4. NothingOwed'
    BY <2>1, AckedKept
  <2> QED
    BY <2>1, <2>2, <2>3, <2>4, AckMoves
<1>4. CASE ~(i < Len(Events[b]))
  <2>1. /\ Finish(w)
        /\ line' = [x \in Body |-> IF line[x] = w THEN "acked" ELSE line[x]]
    BY <1>4 DEF NextEvent, b, i
  <2>2. Awaiting'
    BY <2>1, DoneAwaiting
  <2>3. i = Len(Events[b])
    BY <1>1, <1>4
  <2>4. \A x \in Body : line'[x] = "acked" /\ line[x] # "acked" => x = b
    BY <2>1 DEF AckInv, Awaiting, Awaited, b
  <2>5. NothingOwed'
    BY <1>1, <1>2, <2>3, <2>4, AckedKept
  <2>6. Passed("idle", NoRequest)'
    BY DEF Passed, Handling
  <2> QED
    BY <2>1, <2>2, <2>5, <2>6, AckMoves DEF Finish
<1> QED
  BY <1>3, <1>4

\* A question that stands is not refused, and is no command: the thread goes on
\* to record it.  Whatever else the event is, nothing is owed for it.
LEMMA HandleAck ==
    ASSUME ApartInv, AckInv, NEW w \in Worker, HandleEvent(w)
    PROVE  AckInv'
<1> DEFINE u == UserOf(req[w])
           c == req[w].channel
           s == GetOrCreateUser(u, c[1])
           b == req[w].body
           i == req[w].index
<1>1. Reading(req[w]) /\ pc[w] = "event" /\ pc[w] \in Handling
  BY DEF ApartInv, HandleEvent, Local, Handling
<1>2. u \in User /\ b \in Body /\ i \in DOMAIN Events[b]
  BY <1>1, EventTyped DEF Reading, UserOf
<1>3. UNCHANGED <<channels, logs, lapsed>>
  BY DEF HandleEvent, channelVars
<1>4. CASE Rejected(w) /\ UNCHANGED students
  BY <1>3, <1>4, QuietGrows, RejectedAck
<1>5. CASE /\ students' = [students EXCEPT ![u] = s]
           /\ \/ /\ \/ Refused(s, c)
                    \/ Event(w).type \in {"command", "sticker"} \/ MayHaveNoText(Event(w))
                 /\ NextEvent(w)
              \/ ~Refused(s, c) /\ Goto(w, "find", req[w]) /\ UNCHANGED line
  <2>1. /\ Exists(u) => s = students[u]
        /\ students'[u] = s
        /\ \A v \in User : v # u => students'[v] = students[v]
    BY <1>2, <1>5 DEF GetOrCreateUser, Exists, ApartInv, Tables
  <2> HIDE DEF s
  <2>2. \A v \in User : Exists(v) => students'[v] = students[v]
    BY <2>1
  <2>3. Grows
    BY <1>3, <2>2 DEF Grows
  <2>4. Settled'
    BY <1>3, <2>2 DEF AckInv, Settled, Exists
  <2>5. CASE /\ \/ Refused(s, c)
                \/ Event(w).type \in {"command", "sticker"} \/ MayHaveNoText(Event(w))
             /\ NextEvent(w)
    <3>1. Events[b][i] = Event(w) /\ Event(w).user = u
      BY DEF Event, UserOf
    <3>2. ~ Stands(b, i)
      <4> SUFFICES ASSUME Stands(b, i) PROVE FALSE
        OBVIOUS
      <4>1. Event(w).type = "text" /\ u \notin lapsed
        BY <3>1 DEF Stands
      <4>2. Exists(u) /\ s.is_active /\ s.named /\ s = students[u]
        BY <1>2, <2>1, <4>1 DEF AckInv, Settled
      <4>3. c \in DOMAIN channels /\ channels[c].bot = Destination[b]
        BY <1>1 DEF AckInv, Passed
      <4>4. c[1] = students[u].organization
        BY <3>1, <4>3 DEF Stands
      <4>5. ~Refused(s, c)
        BY <4>2, <4>4 DEF Refused
      <4> QED
        BY <2>5, <4>1, <4>5 DEF MayHaveNoText
    <3>3. <<b, i>> \notin Owed
      BY <1>2, <3>2, OwedMeans
    <3>4. <<b, i>> \notin Owed'
      BY <2>3, <3>3, OwedShrinks DEF AckInv
    <3> QED
      BY <1>1, <2>3, <2>4, <2>5, <3>4, NextEventAck
  <2>6. CASE Goto(w, "find", req[w]) /\ UNCHANGED line
    <3> SUFFICES ASSUME NEW r, r = req[w] PROVE AckInv'
      OBVIOUS
    <3>1. Passed("event", r)
      BY <1>1 DEF AckInv
    <3>2. Passed("find", r)
      BY <3>1 DEF Passed, Handling
    <3>3. Passed("find", r)'
      BY <2>3, <3>2, PassedKept DEF AckInv
    <3>4. Awaiting'
      BY <2>6, StillAwaiting DEF Handling
    <3>5. NothingOwed'
      BY <2>3, <2>6, AckedKept
    <3> QED
      BY <2>3, <2>4, <2>6, <3>3, <3>4, <3>5, AckMoves
  <2> QED
    BY <1>5, <2>5, <2>6
<1> QED
  BY <1>4, <1>5 DEF HandleEvent, Event, UserOf

\* The conversation is found or made; the thread stays with its event.
LEMMA ConversationAck ==
    ASSUME ApartInv, AckInv, NEW w \in Worker, FindConversation(w) \/ OpenConversation(w)
    PROVE  AckInv'
<1>1. UNCHANGED <<logs, channels, lapsed, students, line>>
  BY DEF FindConversation, OpenConversation, channelVars, lineVars
<1>2. Grows /\ Settled'
  BY <1>1, QuietGrows
<1>3. pc[w] \in Handling
  BY DEF FindConversation, OpenConversation, Handling
<1>4. ASSUME NEW place \in {"open", "ask"}, NEW r, Goto(w, place, r),
             r.body = req[w].body, r.index = req[w].index, r.channel = req[w].channel
      PROVE  AckInv'
  <2>1. Passed(pc[w], req[w])
    BY DEF AckInv
  <2>2. Passed(place, r)
    BY <1>3, <1>4, <2>1 DEF Passed
  <2>3. Passed(place, r)'
    BY <1>2, <2>2, PassedKept DEF AckInv
  <2>4. Awaiting'
    BY <1>1, <1>4, StillAwaiting DEF Handling
  <2>5. NothingOwed'
    BY <1>1, <1>2, AckedKept
  <2> QED
    BY <1>2, <1>4, <2>3, <2>4, <2>5, AckMoves
<1>5. ASSUME NEW place \in {"open", "ask"}, NEW k, NEW row,
             Goto(w, place, WithConversation(w, k, row))
      PROVE  AckInv'
  <2> SUFFICES ASSUME NEW r, r = WithConversation(w, k, row) PROVE AckInv'
    OBVIOUS
  <2>1. r.body = req[w].body /\ r.index = req[w].index /\ r.channel = req[w].channel
    BY DEF WithConversation
  <2> QED
    BY <1>4, <1>5, <2>1
<1>6. CASE Goto(w, "ask", req[w])
  <2> SUFFICES ASSUME NEW r, r = req[w] PROVE AckInv'
    OBVIOUS
  <2> QED
    BY <1>4, <1>6
<1> QED
  BY <1>5, <1>6 DEF FindConversation, OpenConversation

\* A message recorded by the thread.
LEMMA RecordAck ==
    ASSUME ApartInv, AckInv, NEW w \in Worker, NEW sent \in BOOLEAN, RecordMessage(w, sent),
           UNCHANGED <<channels, lapsed, students>>
    PROVE  /\ Grows /\ Settled'
           /\ Len(logs) + 1 \in DOMAIN logs'
           /\ logs'[Len(logs) + 1].event = <<req[w].body, req[w].index>>
           /\ logs'[Len(logs) + 1].is_sent_by_user = sent
           /\ logs'[Len(logs) + 1].conversation = req[w].key
<1> DEFINE log == [ conversation |-> req[w].key, is_sent_by_user |-> sent,
                    event |-> <<req[w].body, req[w].index>>,
                    organization |-> req[w].channel[1] ]
<1>1. logs' = Append(logs, log)
  BY DEF RecordMessage
<1>2. /\ log.conversation = req[w].key /\ log.is_sent_by_user = sent
      /\ log.event = <<req[w].body, req[w].index>>
  OBVIOUS
<1>3. logs \in Seq(Log)
  BY DEF ApartInv, Tables
<1> HIDE DEF log
<1>4. /\ Len(logs) \in Nat /\ DOMAIN logs = 1 .. Len(logs)
      /\ DOMAIN logs' = 1 .. Len(logs) + 1
      /\ \A k \in 1 .. Len(logs) : logs'[k] = logs[k]
      /\ logs'[Len(logs) + 1] = log
  BY <1>1, <1>3
<1>5. Grows /\ Settled'
  BY <1>4 DEF Grows, AckInv, Settled, Exists
<1> QED
  BY <1>2, <1>4, <1>5

LEMMA AskAck ==
    ASSUME ApartInv, AckInv, NEW w \in Worker, Ask(w)
    PROVE  AckInv'
<1>1. /\ pc[w] = "ask" /\ pc[w] \in Handling /\ RecordMessage(w, TRUE)
      /\ Goto(w, "asked", req[w]) /\ UNCHANGED <<channels, lapsed, students, line>>
  BY DEF Ask, Handling, channelVars
<1>2. Grows /\ Settled'
  BY <1>1, RecordAck
<1>3. << <<req[w].body, req[w].index>>, req[w].key >> \in Asked'
  BY <1>1, RecordAck DEF Asked
<1> SUFFICES ASSUME NEW r, r = req[w] PROVE AckInv'
  OBVIOUS
<1>4. Passed("ask", r)
  BY <1>1 DEF AckInv
<1>5. Passed("ask", r)'
  BY <1>2, <1>4, PassedKept DEF AckInv
<1>6. Passed("asked", r)'
  BY <1>3, <1>5 DEF Passed, Handling
<1>7. Awaiting'
  BY <1>1, StillAwaiting DEF Handling
<1>8. NothingOwed'
  BY <1>1, <1>2, AckedKept
<1> QED
  BY <1>1, <1>2, <1>6, <1>7, <1>8, AckMoves

\* With the answer the event is recorded, in the conversation of the question.
LEMMA AnswerAck ==
    ASSUME ApartInv, AckInv, NEW w \in Worker, Answer(w)
    PROVE  AckInv'
<1> SUFFICES ASSUME NEW r, r = req[w], NEW b, NEW i, b = r.body, i = r.index PROVE AckInv'
  OBVIOUS
<1>1. /\ pc[w] = "answer" /\ pc[w] \in Handling /\ RecordMessage(w, FALSE)
      /\ Goto(w, "answered", r) /\ UNCHANGED <<channels, lapsed, students, line>>
  BY DEF Answer, Handling, channelVars
<1>2. Grows /\ Settled'
  BY <1>1, RecordAck
<1>3. Passed("answer", r)
  BY <1>1 DEF AckInv
<1>4. << <<b, i>>, r.key >> \in Asked
  BY <1>1, <1>3 DEF Passed
<1>5. PICK q \in DOMAIN logs : /\ logs[q].is_sent_by_user
                               /\ logs[q].event = <<b, i>> /\ logs[q].conversation = r.key
  BY <1>4 DEF Asked
<1>6. PICK a \in DOMAIN logs' : /\ a = Len(logs) + 1
                                /\ logs'[a].event = <<b, i>> /\ ~logs'[a].is_sent_by_user
                                /\ logs'[a].conversation = r.key
  BY <1>1, RecordAck
<1>7. q \in DOMAIN logs' /\ logs'[q] = logs[q] /\ q < a
  <2>1. logs \in Seq(Log)
    BY DEF ApartInv, Tables
  <2>2. q < Len(logs) + 1
    BY <2>1
  <2> QED
    BY <1>2, <1>6, <2>2 DEF Grows
<1>8. (Recorded(b, i))'
  BY <1>5, <1>6, <1>7 DEF Recorded
<1>9. <<b, i>> \notin Owed'
  <2>1. <<b, i>>[1] = b /\ <<b, i>>[2] = i
    OBVIOUS
  <2> QED
    BY <1>8, <2>1 DEF Owed, Recorded
<1>10. Passed("answer", r)'
  BY <1>2, <1>3, PassedKept DEF AckInv
<1>11. Passed("answered", r)'
  BY <1>9, <1>10 DEF Passed, Handling
<1>12. Awaiting'
  BY <1>1, StillAwaiting DEF Handling
<1>13. NothingOwed'
  BY <1>1, <1>2, AckedKept
<1> QED
  BY <1>1, <1>2, <1>11, <1>12, <1>13, AckMoves

\* After its question the thread goes on to the answer, after its answer to the
\* next event: what it has passed is no longer owed.
LEMMA SaveConversationAck ==
    ASSUME ApartInv, AckInv, NEW w \in Worker, SaveConversation(w)
    PROVE  AckInv'
<1> SUFFICES ASSUME NEW r, r = req[w] PROVE AckInv'
  OBVIOUS
<1>1. /\ pc[w] \in {"asked", "answered"} /\ pc[w] \in Handling
      /\ UNCHANGED <<logs, channels, lapsed, students>>
  BY DEF SaveConversation, Handling, channelVars
<1>2. Grows /\ Settled'
  BY <1>1, QuietGrows
<1>3. Passed(pc[w], r)
  BY DEF AckInv
<1>4. CASE pc[w] = "asked"
  <2>1. Goto(w, "answer", r) /\ line' = line
    BY <1>4 DEF SaveConversation
  <2>2. Passed("answer", r)
    BY <1>3, <1>4 DEF Passed, Handling
  <2>3. Passed("answer", r)'
    BY <1>2, <2>2, PassedKept DEF AckInv
  <2>4. Awaiting'
    BY <2>1, StillAwaiting DEF Handling
  <2>5. NothingOwed'
    BY <1>2, <2>1, AckedKept
  <2> QED
    BY <1>2, <2>1, <2>3, <2>4, <2>5, AckMoves
<1>5. CASE pc[w] = "answered"
  <2>1. NextEvent(w)
    BY <1>5 DEF SaveConversation
  <2>2. Reading(r)
    BY <1>5 DEF ApartInv, Local, Recording
  <2>3. <<r.body, r.index>> \notin Owed
    BY <1>3, <1>5 DEF Passed, Handling
  <2>4. <<r.body, r.index>> \notin Owed'
    BY <1>2, <2>3, OwedShrinks DEF AckInv
  <2> QED
    BY <1>1, <1>2, <2>1, <2>2, <2>4, NextEventAck
<1> QED
  BY <1>1, <1>4, <1>5

\* A row of the student is written: the organization stays, and who is set
\* inactive counts as lapsed from then on.
LEMMA StudentAck ==
    ASSUME ApartInv, AckInv, NEW u \in User,
           RegisterName(u) \/ \E is_active \in BOOLEAN : SetStudentActive(u, is_active)
    PROVE  AckInv'
<1>1. /\ UNCHANGED <<channels, pc, req, line, logs>> /\ Exists(u)
      /\ students \in [User -> Student \cup {NoStudent}]
  BY DEF RegisterName, SetStudentActive, channelVars, Exists, ApartInv, Tables
<1>2. students[u] \in Student
  BY <1>1 DEF Exists
<1>3. PICK s \in Student :
        /\ s.organization = students[u].organization /\ students' = [students EXCEPT ![u] = s]
        /\ lapsed \subseteq lapsed'
        /\ u \notin lapsed' => s.is_active = students[u].is_active /\ s.named
  <2>1. CASE RegisterName(u)
    <3>1. [students[u] EXCEPT !.named = TRUE] \in Student
      BY <1>2 DEF Student
    <3>2. /\ [students[u] EXCEPT !.named = TRUE].organization = students[u].organization
          /\ [students[u] EXCEPT !.named = TRUE].is_active = students[u].is_active
          /\ [students[u] EXCEPT !.named = TRUE].named = TRUE
      BY <1>2 DEF Student
    <3>3. /\ students' = [students EXCEPT ![u] = [students[u] EXCEPT !.named = TRUE]]
          /\ lapsed' = lapsed
      BY <2>1 DEF RegisterName
    <3> QED
      BY <3>1, <3>2, <3>3
  <2>2. ASSUME NEW a \in BOOLEAN, SetStudentActive(u, a)
        PROVE  \E s \in Student :
                  /\ s.organization = students[u].organization
                  /\ students' = [students EXCEPT ![u] = s]
                  /\ lapsed \subseteq lapsed'
                  /\ u \notin lapsed' => s.is_active = students[u].is_active /\ s.named
    <3>1. [students[u] EXCEPT !.is_active = a] \in Student
      BY <1>2 DEF Student
    <3>2. [students[u] EXCEPT !.is_active = a].organization = students[u].organization
      BY <1>2 DEF Student
    <3>3. /\ students' = [students EXCEPT ![u] = [students[u] EXCEPT !.is_active = a]]
          /\ lapsed \subseteq lapsed' /\ u \in lapsed'
      BY <2>2 DEF SetStudentActive
    <3> QED
      BY <3>1, <3>2, <3>3
  <2> QED
    BY <2>1, <2>2
<1>4. NoStudent \notin Student
  BY DEF NoStudent, Student
<1>5. students'[u] = s /\ \A v \in User : v # u => students'[v] = students[v]
  BY <1>1, <1>3
<1>6. Grows
  BY <1>1, <1>3, <1>5 DEF Grows
<1>7. Settled'
  <2> SUFFICES ASSUME NEW v \in User, v \notin lapsed'
               PROVE  students'[v] # NoStudent /\ students'[v].is_active /\ students'[v].named
    BY DEF Settled, Exists
  <2>1. v \notin lapsed
    BY <1>3
  <2>2. CASE v = u
    BY <1>3, <1>4, <1>5, <2>1, <2>2 DEF AckInv, Settled
  <2>3. CASE v # u
    BY <1>5, <2>1, <2>3 DEF AckInv, Settled, Exists
  <2> QED
    BY <2>2, <2>3
<1>8. Awaiting'
  BY <1>1 DEF AckInv, Awaiting, Awaited
<1> QED
  BY <1>1, <1>6, <1>7, <1>8, AckStays

\* The staff's requests, which handle no body.
LEMMA StaffAck ==
    ASSUME ApartInv, AckInv, UNCHANGED OtherVars,
           StaffBegins \/ \E w \in Worker : StaffStep(w)
    PROVE  AckInv'
<1>1. UNCHANGED <<line, logs, lapsed, students>>
  BY DEF OtherVars, lineVars
<1>2. \A c \in DOMAIN channels : c \in DOMAIN channels' /\ channels'[c].bot = channels[c].bot
  <2>1. CASE UNCHANGED channels
    BY <2>1
  <2>2. ASSUME NEW o \in Org, NEW id \in ChannelId, NEW bot \in Bot, CreateChannel(o, id, bot)
        PROVE  \A c \in DOMAIN channels :
                   c \in DOMAIN channels' /\ channels'[c].bot = channels[c].bot
    <3>1. CASE UNCHANGED channels
      BY <3>1
    <3>2. CASE ~ UNCHANGED channels
      <4>1. ~ \E c \in DOMAIN channels : c[1] = o /\ (c[2] = id \/ channels[c].bot = bot)
        BY <2>2, <3>2 DEF CreateChannel, channelVars
      <4>2. <<o, id>> \notin DOMAIN channels
        BY <4>1
      <4>3. channels' = [c \in DOMAIN channels \cup {<<o, id>>} |->
                           IF c = <<o, id>> THEN [bot |-> bot, is_active |-> TRUE]
                           ELSE channels[c]]
        BY <2>2, <4>1 DEF CreateChannel
      <4> QED
        BY <4>2, <4>3
    <3> QED
      BY <3>1, <3>2
  <2>3. ASSUME NEW c \in Channel, NEW a \in BOOLEAN, SetActive(c, a)
        PROVE  \A x \in DOMAIN channels :
                   x \in DOMAIN channels' /\ channels'[x].bot = channels[x].bot
    <3>1. channels' = [channels EXCEPT ![c] = [channels[c] EXCEPT !.is_active = a]]
      BY <2>3 DEF SetActive
    <3>2. [channels[c] EXCEPT !.is_active = a].bot = channels[c].bot
      BY <2>3 DEF SetActive
    <3> QED
      BY <3>1, <3>2
  <2> QED
    BY <2>1, <2>2, <2>3
    DEF StaffBegins, StaffStep, Retire, Insert, ChannelSecretRotateView,
        ChannelAccessTokenRotateView, RotateBegin, LineChannelDeactivateView,
        LineChannelActivateView, channelVars
<1>3. Grows /\ Settled'
  BY <1>1, <1>2 DEF Grows, AckInv, Settled, Exists
<1>4. CASE UNCHANGED <<pc, req>>
  <2>1. Awaiting'
    BY <1>1, <1>4 DEF AckInv, Awaiting, Awaited
  <2> QED
    BY <1>1, <1>3, <1>4, <2>1, AckStays
<1>5. ASSUME NEW w \in Worker, NEW place \in {"idle", "retire", "insert"}, NEW r,
             Goto(w, place, r), pc[w] \in {"idle", "retire", "insert"}
      PROVE  AckInv'
  <2>1. pc[w] \notin Handling /\ place \notin Handling
    BY <1>5 DEF Handling
  <2> QED
    BY <1>1, <1>3, <1>5, <2>1, Elsewhere
<1>6. ASSUME NEW w \in Worker, Retire(w) \/ Insert(w) PROVE AckInv'
  <2>1. CASE Retire(w)
    <3> SUFFICES ASSUME NEW r, r = [ channel |-> req[w].channel, kind |-> req[w].kind,
                                     retired |-> req[w].seen \cap
                                        bundles[req[w].channel][req[w].kind].active ]
                 PROVE  AckInv'
      OBVIOUS
    <3>1. Goto(w, "insert", r) /\ pc[w] = "retire"
      BY <2>1 DEF Retire, Goto
    <3> QED
      BY <3>1, <1>5
  <2>2. CASE Insert(w)
    BY <2>2, <1>5 DEF Insert, Finish
  <2> QED
    BY <1>6, <2>1, <2>2
<1>7. ASSUME NEW w \in Worker, NEW c \in Channel, NEW kind, RotateBegin(w, c, kind)
      PROVE  AckInv'
  <2> SUFFICES ASSUME NEW r, r = [channel |-> c, kind |-> kind, seen |-> bundles[c][kind].active]
               PROVE  AckInv'
    OBVIOUS
  <2>1. Goto(w, "retire", r) /\ pc[w] = "idle"
    BY <1>7 DEF RotateBegin, Goto
  <2> QED
    BY <2>1, <1>5
<1> QED
  BY <1>4, <1>6, <1>7
  DEF StaffBegins, StaffStep, ChannelSecretRotateView, ChannelAccessTokenRotateView,
      CreateChannel, LineChannelDeactivateView, LineChannelActivateView, SetActive

LEMMA SummaryAck ==
    ASSUME ApartInv, AckInv, NEW w \in Worker,
           SaveSummary(w) \/ \E u \in User : ViewSummary(w, u)
    PROVE  AckInv'
<1>1. UNCHANGED <<line, logs, channels, lapsed, students>>
  BY DEF SaveSummary, ViewSummary, channelVars
<1>2. Grows /\ Settled'
  BY <1>1, QuietGrows
<1>3. CASE SaveSummary(w)
  BY <1>1, <1>2, <1>3, Elsewhere DEF SaveSummary, Finish, Handling
<1>4. CASE UNCHANGED <<pc, req>>
  <2>1. Awaiting'
    BY <1>1, <1>4 DEF AckInv, Awaiting, Awaited
  <2> QED
    BY <1>1, <1>2, <1>4, <2>1, AckStays
<1>5. ASSUME NEW u \in User, ViewSummary(w, u), ~ UNCHANGED <<pc, req>> PROVE AckInv'
  <2> SUFFICES ASSUME NEW r, r = [student |-> u, fetched |-> Latest(u)] PROVE AckInv'
    OBVIOUS
  <2>1. Goto(w, "summary", r) /\ pc[w] = "idle"
    BY <1>5 DEF ViewSummary
  <2> QED
    BY <1>1, <1>2, <2>1, Elsewhere DEF Handling
<1> QED
  BY <1>3, <1>4, <1>5

LEMMA AckNext == ApartInv /\ AckInv /\ [Next]_vars => AckInv'
<1> SUFFICES ASSUME ApartInv, AckInv, [Next]_vars PROVE AckInv'
  OBVIOUS
<1>1. CASE UNCHANGED <<pc, req, line, logs, channels, lapsed, students>>
  <2>1. Awaiting'
    BY <1>1 DEF AckInv, Awaiting, Awaited
  <2>2. Grows /\ Settled'
    BY <1>1, QuietGrows
  <2> QED
    BY <1>1, <2>1, <2>2, AckStays
<1>2. CASE UNCHANGED vars \/ Tick
  BY <1>1, <1>2 DEF vars, lineVars, channelVars, Tick
<1>3. ASSUME StaffBegins, UNCHANGED OtherVars PROVE AckInv'
  BY <1>3, StaffAck
<1>4. ASSUME NEW w \in Worker, Step(w) PROVE AckInv'
  BY <1>4, StaffAck, HandleAck, ConversationAck, AskAck, AnswerAck,
     SaveConversationAck, SummaryAck DEF Step
<1>5. ASSUME NEW w \in Worker, Abort(w) PROVE AckInv'
  <2>1. UNCHANGED <<logs, channels, lapsed, students>> /\ Rejected(w)
    BY <1>5 DEF Abort, channelVars
  <2> QED
    BY <2>1, QuietGrows, RejectedAck
<1>6. ASSUME NEW b \in Body, Deliver(b) PROVE AckInv'
  BY <1>6, ReceiveAck DEF Deliver
<1>7. ASSUME NEW b \in Body, LineTimesOut(b) PROVE AckInv'
  <2>1. UNCHANGED <<pc, req, logs, channels, lapsed, students>>
        /\ line' = [line EXCEPT ![b] = "lost"]
    BY <1>7 DEF LineTimesOut, channelVars
  <2>2. Awaiting'
    BY <2>1, ThreadsAssumption DEF AckInv, Awaiting, Awaited
  <2>3. \A x \in Body : line'[x] = "acked" => line[x] = "acked"
    BY <2>1 DEF AckInv, Awaiting
  <2> QED
    BY <2>1, <2>2, <2>3, QuietGrows, AckStays
<1>8. ASSUME NEW w \in Worker, NEW u \in User, ViewSummary(w, u) PROVE AckInv'
  BY <1>8, SummaryAck
<1>9. ASSUME NEW u \in User,
             RegisterName(u) \/ \E is_active \in BOOLEAN : SetStudentActive(u, is_active)
      PROVE  AckInv'
  BY <1>9, StudentAck
<1> QED
  BY <1>2, <1>3, <1>4, <1>5, <1>6, <1>7, <1>8, <1>9 DEF Next

\* LINE gets a 200 for a body only when every question that stands in it has
\* been recorded with its answer, for any number of threads, bodies and events,
\* and however requests stop, time out and are delivered again.
THEOREM AckedIsRecordedAlways == Spec => []AckedIsRecorded
<1>1. AckInv => AckedIsRecorded
  <2> SUFFICES ASSUME AckInv, NEW b \in Body, line[b] = "acked",
                      NEW i \in DOMAIN Events[b], Stands(b, i)
               PROVE  Recorded(b, i)
    BY DEF AckedIsRecorded
  <2>1. <<b, i>> \notin Owed
    BY DEF AckInv, NothingOwed
  <2> QED
    BY <2>1, OwedMeans
<1> QED
  BY <1>1, ApartInit, ApartNext, AckInit, AckNext, PTL DEF Spec
=============================================================================
