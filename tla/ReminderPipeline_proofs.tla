----------------------- MODULE ReminderPipeline_proofs -----------------------
(***************************************************************************)
(* The reminder pipeline, for any number of requests, reminders and slots: *)
(* types, no day noted that nothing was published for, and one message a   *)
(* day, but for the copies that requests which overlap or die account for. *)
(***************************************************************************)
EXTENDS ReminderPipeline, FiniteSetTheorems, TLAPS

LEMMA DivMono ==
    ASSUME NEW a \in Nat, NEW b \in Nat, NEW s \in Nat \ {0}, a <= b
    PROVE  a \div s \in Nat /\ b \div s \in Nat /\ a \div s <= b \div s
<1>1. a \div s \in Nat /\ b \div s \in Nat
  OBVIOUS
<1>2. a = s * (a \div s) + (a % s) /\ b = s * (b \div s) + (b % s)
  OBVIOUS
<1>3. a % s \in 0 .. s - 1 /\ b % s \in 0 .. s - 1
  OBVIOUS
<1>4. SUFFICES ASSUME b \div s + 1 <= a \div s PROVE FALSE
  BY <1>1
<1>5. ASSUME NEW p \in Nat, NEW q \in Nat, q + 1 <= p PROVE s * q + s <= s * p
  <2>1. PICK k \in Nat : p = q + 1 + k
    BY <1>5
  <2>2. s * p = s * q + s + s * k
    BY <2>1
  <2>3. s * k >= 0 /\ s * k \in Int
    OBVIOUS
  <2>4. QED
    BY <2>2, <2>3
<1>6. QED
  BY <1>1, <1>2, <1>3, <1>4, <1>5

\* Days in order.
LEMMA DayOrder ==
    ASSUME NEW t \in 0 .. LastSlot
    PROVE  /\ DayOf(t) \in Day
           /\ \A u \in 0 .. LastSlot : t <= u => DayOf(t) <= DayOf(u)
<1>1. SLOTS_PER_DAY \in Nat \ {0} /\ LastSlot \in Nat
  BY TimeAssumption
<1>2. ASSUME NEW a \in Nat, NEW b \in Nat, a <= b
      PROVE  DayOf(a) \in Nat /\ DayOf(b) \in Nat /\ DayOf(a) <= DayOf(b)
  BY <1>1, <1>2, DivMono DEF DayOf
<1>3. t \in Nat /\ t <= LastSlot
  BY <1>1
<1>4. DayOf(t) \in Nat /\ DayOf(LastSlot) \in Nat /\ DayOf(t) <= DayOf(LastSlot)
  BY <1>1, <1>2, <1>3
<1>5. DayOf(t) \in Day
  BY <1>4 DEF Day
<1>6. QED
  BY <1>1, <1>2, <1>3, <1>5

-----------------------------------------------------------------------------
ReqTyped(w) ==
    /\ pc[w] \in {"idle", "loop", "mark", "edit"}
    /\ pc[w] = "idle" => req[w] = NoRequest
    /\ pc[w] = "loop" => req[w] \in LoopRequest
    /\ pc[w] = "mark" => req[w] \in MarkRequest
    /\ pc[w] = "edit" => req[w] \in EditRequest

Places == pc = [w \in Worker |-> pc[w]] /\ req = [w \in Worker |-> req[w]]

TableTyped ==
    /\ Rows \subseteq Reminder /\ reminder \in [Rows -> Row]
    /\ deleted \subseteq Reminder /\ active \subseteq Reminder

QueueTyped ==
    /\ published \in [Message -> 0 .. MaxCopies]
    /\ \A m \in Message : consumed[m] \in 0 .. published[m]
    /\ lineUp \in BOOLEAN

Typed ==
    /\ clock \in 0 .. LastSlot /\ excused \in [Message -> 0 .. MaxCopies - 1]
    /\ TableTyped /\ QueueTyped /\ Places
    /\ \A w \in Worker : ReqTyped(w)

\* A message was published for the day, if any.
Sent(r, day) == day # None => published[<<r, day>>] > 0

\* What a request is about to write into last_notified.
WritesSent(w) ==
    /\ pc[w] = "mark" => Sent(req[w].sent, req[w].day)
    /\ pc[w] = "edit" => Sent(req[w].id, req[w].read.last)

MarkedInv ==
    /\ \A r \in Rows : Sent(r, reminder[r].last)
    /\ \A w \in Worker : WritesSent(w)

-----------------------------------------------------------------------------
(* Types and what is noted.                                                 *)

LEMMA Moves ==
    ASSUME Places, NEW w \in Worker, NEW place, NEW r,
           Goto(w, place, r)
    PROVE  /\ pc'[w] = place /\ req'[w] = r /\ Places'
           /\ \A v \in Worker \ {w} : pc'[v] = pc[v] /\ req'[v] = req[v]
BY DEF Places, Goto

\* Excuses are counted.
ExcusedStep == UNCHANGED excused \/ \E messages \in SUBSET Message : Excuse(messages)

\* No message is taken back.
Grows == \A m \in Message : published'[m] >= published[m]

LEMMA GoKeeps ==
    ASSUME Typed, MarkedInv, NEW w \in Worker, NEW place, NEW r,
           Goto(w, place, r), ExcusedStep,
           clock' \in 0 .. LastSlot, TableTyped', QueueTyped', Grows,
           \A x \in Rows' : Sent(x, reminder[x].last)', ReqTyped(w)', WritesSent(w)'
    PROVE  Typed' /\ MarkedInv'
<1>1. Places' /\ \A v \in Worker \ {w} : pc'[v] = pc[v] /\ req'[v] = req[v]
  BY Moves DEF Typed
<1>2. excused' \in [Message -> 0 .. MaxCopies - 1]
  BY TimeAssumption DEF Typed, ExcusedStep, Excuse
<1>3. ASSUME NEW v \in Worker \ {w} PROVE ReqTyped(v)' /\ WritesSent(v)'
  <2>1. ReqTyped(v) /\ WritesSent(v)
    BY DEF Typed, MarkedInv
  <2>2. ReqTyped(v)'
    BY <1>1, <2>1 DEF ReqTyped
  <2>3. published \in [Message -> 0 .. MaxCopies] /\ published' \in [Message -> 0 .. MaxCopies]
    BY DEF Typed, QueueTyped
  <2>4. ASSUME NEW x \in Reminder, NEW d \in Day \cup {None}, Sent(x, d)
        PROVE  d # None => published'[<<x, d>>] > 0
    BY <2>3, <2>4, TimeAssumption DEF Sent, Grows, Message
  <2>5. CASE pc[v] = "mark"
    <3>1. req[v].sent \in Reminder /\ req[v].day \in Day
      BY <2>1, <2>5 DEF ReqTyped, MarkRequest
    <3>2. Sent(req[v].sent, req[v].day)
      BY <2>1, <2>5 DEF WritesSent
    <3>3. req[v].day # None => published'[<<req[v].sent, req[v].day>>] > 0
      BY <2>4, <3>1, <3>2
    <3>4. pc'[v] = "mark" /\ req'[v] = req[v]
      BY <1>1, <2>5
    <3>5. QED
      BY <2>2, <3>3, <3>4 DEF WritesSent, Sent
  <2>6. CASE pc[v] = "edit"
    <3>1. req[v].id \in Reminder /\ req[v].read.last \in Day \cup {None}
      BY <2>1, <2>6 DEF ReqTyped, EditRequest, Row
    <3>2. Sent(req[v].id, req[v].read.last)
      BY <2>1, <2>6 DEF WritesSent
    <3>3. req[v].read.last # None => published'[<<req[v].id, req[v].read.last>>] > 0
      BY <2>4, <3>1, <3>2
    <3>4. pc'[v] = "edit" /\ req'[v] = req[v]
      BY <1>1, <2>6
    <3>5. QED
      BY <2>2, <3>3, <3>4 DEF WritesSent, Sent
  <2>7. CASE pc[v] \notin {"mark", "edit"}
    BY <1>1, <2>2, <2>7 DEF WritesSent
  <2>8. QED
    BY <2>2, <2>5, <2>6, <2>7
<1>4. QED
  BY <1>1, <1>2, <1>3 DEF Typed, MarkedInv

\* A step of nobody's request.
LEMMA StillKeeps ==
    ASSUME Typed, MarkedInv, UNCHANGED <<published, excused, pc, req>>,
           clock' \in 0 .. LastSlot, TableTyped', QueueTyped',
           \A x \in Rows' : Sent(x, reminder[x].last)'
    PROVE  Typed' /\ MarkedInv'
<1>1. \A w \in Worker : ReqTyped(w)' /\ WritesSent(w)'
  BY DEF Typed, MarkedInv, ReqTyped, WritesSent, Sent
<1>2. QED
  BY <1>1 DEF Typed, MarkedInv, Places

LEMMA TablesStay ==
    ASSUME Typed, MarkedInv, UNCHANGED tableVars, Grows, QueueTyped'
    PROVE  TableTyped' /\ \A x \in Rows' : Sent(x, reminder[x].last)'
<1>1. UNCHANGED <<reminder, deleted, active, Rows>>
  BY DEF tableVars, Rows
<1>2. TableTyped'
  BY <1>1 DEF Typed, TableTyped
<1>3. ASSUME NEW x \in Rows, reminder[x].last # None PROVE published'[<<x, reminder[x].last>>] > 0
  <2>1. <<x, reminder[x].last>> \in Message
    BY <1>3 DEF Typed, TableTyped, Row, Message
  <2>2. published[<<x, reminder[x].last>>] > 0
    BY <1>3 DEF MarkedInv, Sent
  <2>3. QED
    BY <2>1, <2>2, TimeAssumption DEF Grows, Typed, QueueTyped
<1>4. QED
  BY <1>1, <1>2, <1>3 DEF Sent

LEMMA QueueStays ==
    ASSUME Typed, UNCHANGED queueVars
    PROVE  QueueTyped' /\ Grows
BY TimeAssumption DEF queueVars, Typed, QueueTyped, Grows

LEMMA Published ==
    ASSUME Typed, NEW m \in Message, published[m] < MaxCopies,
           published' = [published EXCEPT ![m] = @ + 1], UNCHANGED <<consumed, lineUp>>
    PROVE  QueueTyped' /\ Grows /\ published'[m] > 0
<1>1. published[m] \in 0 .. MaxCopies /\ published'[m] = published[m] + 1
  BY DEF Typed, QueueTyped
<1>2. \A x \in Message \ {m} : published'[x] = published[x] /\ published[x] \in 0 .. MaxCopies
  BY DEF Typed, QueueTyped
<1>3. published' \in [Message -> 0 .. MaxCopies]
  BY <1>1, TimeAssumption DEF Typed, QueueTyped
<1>4. \A x \in Message : consumed'[x] \in 0 .. published'[x]
  BY <1>1, <1>2, TimeAssumption DEF Typed, QueueTyped
<1>5. QED
  BY <1>1, <1>2, <1>3, <1>4, TimeAssumption DEF Typed, QueueTyped, Grows

Base == Typed /\ MarkedInv

LEMMA InitBase == Init => Base
<1> SUFFICES ASSUME Init PROVE Base
  OBVIOUS
<1>1. 0 \in 0 .. LastSlot /\ 0 \in 0 .. MaxCopies
  BY TimeAssumption
<1>2. TableTyped /\ Rows = {}
  BY DEF Init, TableTyped, Rows
<1>3. QueueTyped
  BY <1>1 DEF Init, QueueTyped
<1>4. Places /\ \A w \in Worker : ReqTyped(w) /\ WritesSent(w)
  BY DEF Init, Places, ReqTyped, WritesSent
<1>5. clock \in 0 .. LastSlot /\ excused \in [Message -> 0 .. MaxCopies - 1]
  BY <1>1, TimeAssumption DEF Init
<1>6. QED
  BY <1>2, <1>3, <1>4, <1>5 DEF Base, Typed, MarkedInv

\* A request that ends leaves nothing to type.
LEMMA EndTyped ==
    ASSUME Typed, NEW w \in Worker, Finish(w)
    PROVE  ReqTyped(w)' /\ WritesSent(w)'
<1>1. pc'[w] = "idle" /\ req'[w] = NoRequest
  BY Moves DEF Finish, Typed
<1>2. QED
  BY <1>1 DEF ReqTyped, WritesSent

\* Steps of requests that read only.
LEMMA ReadingStep ==
    ASSUME Base, NEW w \in Worker, NEW place, NEW r,
           Goto(w, place, r), ExcusedStep,
           UNCHANGED <<clock, tableVars, queueVars>>, ReqTyped(w)', WritesSent(w)'
    PROVE  Base'
<1>1. QueueTyped' /\ Grows
  BY QueueStays DEF Base
<1>2. TableTyped' /\ \A x \in Rows' : Sent(x, reminder[x].last)'
  BY <1>1, TablesStay DEF Base
<1>3. clock' \in 0 .. LastSlot
  BY DEF Base, Typed
<1>4. QED
  BY <1>1, <1>2, <1>3, GoKeeps DEF Base

LEMMA EndStep ==
    ASSUME Base, NEW w \in Worker, Finish(w), ExcusedStep, UNCHANGED <<clock, tableVars, queueVars>>
    PROVE  Base'
BY EndTyped, ReadingStep DEF Finish, Base

LEMMA LoopTyped ==
    ASSUME Typed, NEW w \in Worker, NEW r \in LoopRequest, Goto(w, "loop", r)
    PROVE  ReqTyped(w)' /\ WritesSent(w)'
<1>1. pc'[w] = "loop" /\ req'[w] = r
  BY Moves DEF Typed
<1>2. QED
  BY <1>1 DEF ReqTyped, WritesSent

LEMMA TriggerBase ==
    ASSUME Base, NEW w \in Worker, Trigger(w)
    PROVE  Base'
<1> DEFINE r == [day  |-> DayOf(clock),
                 todo |-> Notifiable(DayOf(clock), clock % SLOTS_PER_DAY,
                                     (clock + 1) % SLOTS_PER_DAY)]
<1>1. Goto(w, "loop", r) /\ UNCHANGED <<clock, tableVars, queueVars>>
  BY DEF Trigger
<1> DEFINE held == {m \in r.todo \X {r.day} : \E v \in Worker : Holds(v, m)}
<1>2. DayOf(clock) \in Day
  BY DayOrder DEF Base, Typed
<1>3. Notifiable(DayOf(clock), clock % SLOTS_PER_DAY, (clock + 1) % SLOTS_PER_DAY) \subseteq Reminder
  BY DEF Notifiable, Base, Typed, TableTyped
<1>4. r \in LoopRequest
  BY <1>2, <1>3 DEF LoopRequest
<1>5. held \in SUBSET Message /\ Excuse(held)
  BY <1>2, <1>3 DEF Message, Trigger
<1>6. ExcusedStep
  BY <1>5 DEF ExcusedStep
<1> HIDE DEF held
<1>7. QED
  BY <1>1, <1>4, <1>6, LoopTyped, ReadingStep DEF Base

LEMMA SkipBase ==
    ASSUME Base, NEW w \in Worker, NEW r \in Reminder, Skip(w, r)
    PROVE  Base'
<1> DEFINE q == [req[w] EXCEPT !.todo = @ \ {r}]
<1>1. pc[w] = "loop" /\ Goto(w, "loop", q) /\ UNCHANGED <<clock, tableVars, queueVars>>
  BY DEF Skip
<1>2. req[w] \in LoopRequest
  BY <1>1 DEF Base, Typed, ReqTyped
<1>3. q \in LoopRequest
  BY <1>2 DEF LoopRequest
<1>4. ExcusedStep
  BY DEF Skip, ExcusedStep
<1>5. QED
  BY <1>1, <1>3, <1>4, LoopTyped, ReadingStep DEF Base

LEMMA PublishBase ==
    ASSUME Base, NEW w \in Worker, NEW r \in Reminder, Publish(w, r) \/ PublishTimesOut(w, r)
    PROVE  Base'
<1> DEFINE m == <<r, req[w].day>>
           q == [day |-> req[w].day, todo |-> req[w].todo \ {r}, sent |-> r]
<1>1. /\ pc[w] = "loop" /\ published[m] < MaxCopies
      /\ published' = [published EXCEPT ![m] = @ + 1]
      /\ (Goto(w, "mark", q) /\ UNCHANGED excused) \/ (Finish(w) /\ Excuse({m}))
      /\ UNCHANGED <<clock, tableVars, consumed, lineUp>>
  BY DEF Publish, PublishTimesOut
<1>2. req[w].day \in Day /\ req[w].todo \subseteq Reminder
  BY <1>1 DEF Base, Typed, ReqTyped, LoopRequest
<1>3. m \in Message
  BY <1>2 DEF Message
<1>4. QueueTyped' /\ Grows /\ published'[m] > 0
  BY <1>1, <1>3, Published DEF Base
<1>5. TableTyped' /\ \A x \in Rows' : Sent(x, reminder[x].last)'
  BY <1>1, <1>4, TablesStay DEF Base
<1>6. clock' \in 0 .. LastSlot /\ ExcusedStep
  BY <1>1, <1>3 DEF Base, Typed, ExcusedStep
<1>7. CASE Goto(w, "mark", q)
  <2>1. pc'[w] = "mark" /\ req'[w] = q
    BY <1>7, Moves DEF Base, Typed
  <2>2. q \in MarkRequest
    BY <1>2 DEF MarkRequest
  <2>3. ReqTyped(w)' /\ WritesSent(w)'
    BY <1>4, <2>1, <2>2 DEF ReqTyped, WritesSent, Sent
  <2>4. QED
    BY <1>4, <1>5, <1>6, <1>7, <2>3, GoKeeps DEF Base
<1>8. CASE Finish(w)
  BY <1>4, <1>5, <1>6, <1>8, EndTyped, GoKeeps DEF Base, Finish
<1>9. QED
  BY <1>1, <1>7, <1>8

LEMMA MarkBase ==
    ASSUME Base, NEW w \in Worker, Mark(w)
    PROVE  Base'
<1> DEFINE r == req[w].sent
           q == [day |-> req[w].day, todo |-> req[w].todo]
<1>1. pc[w] = "mark" /\ UNCHANGED <<clock, deleted, active, queueVars>>
  BY DEF Mark
<1>2. req[w] \in MarkRequest /\ Sent(r, req[w].day) /\ ExcusedStep
  BY <1>1 DEF Base, Typed, ReqTyped, MarkedInv, WritesSent, Mark, Overwritten, ExcusedStep
<1>3. CASE /\ r \in Rows /\ reminder' = [reminder EXCEPT ![r].last = req[w].day]
           /\ Goto(w, "loop", q)
  <2>1. q \in LoopRequest
    BY <1>2 DEF MarkRequest, LoopRequest
  <2>2. ReqTyped(w)' /\ WritesSent(w)'
    BY <1>3, <2>1, LoopTyped DEF Base
  <2>3. reminder[r] \in Row /\ reminder \in [Rows -> Row] /\ Rows' = Rows
    BY <1>3 DEF Base, Typed, TableTyped, Rows
  <2>4. [reminder[r] EXCEPT !.last = req[w].day] \in Row
    BY <1>2, <2>3 DEF MarkRequest, Row
  <2>5. TableTyped'
    BY <1>1, <1>3, <2>3, <2>4 DEF Base, Typed, TableTyped
  <2>6. UNCHANGED published
    BY <1>1 DEF queueVars
  <2>7. reminder'[r].last = req[w].day /\ \A x \in Rows \ {r} : reminder'[x] = reminder[x]
    BY <1>3, <2>3 DEF Row
  <2>8. \A x \in Rows' : Sent(x, reminder[x].last)'
    BY <1>2, <2>3, <2>6, <2>7 DEF Base, MarkedInv, Sent
  <2>9. QED
    BY <1>1, <1>2, <1>3, <2>2, <2>5, <2>8, QueueStays, GoKeeps DEF Base, Typed
<1>4. CASE Finish(w) /\ UNCHANGED reminder
  BY <1>1, <1>2, <1>4, EndStep DEF tableVars
<1>5. QED
  BY <1>3, <1>4 DEF Mark

LEMMA EditBase ==
    ASSUME Base, NEW w \in Worker,
           \/ \E r \in Reminder : EditRead(w, r)
           \/ \E weekday \in Weekday, slot \in Slot : EditSave(w, weekday, slot)
    PROVE  Base'
<1>1. CASE \E r \in Reminder : EditRead(w, r)
  <2>1. PICK r \in Reminder : /\ r \in Rows /\ Goto(w, "edit", [id |-> r, read |-> reminder[r]])
                              /\ UNCHANGED <<clock, tableVars, queueVars>> /\ ExcusedStep
    BY <1>1 DEF EditRead, ExcusedStep
  <2>2. reminder[r] \in Row /\ Sent(r, reminder[r].last)
    BY <2>1 DEF Base, Typed, TableTyped, MarkedInv
  <2> DEFINE q == [id |-> r, read |-> reminder[r]]
  <2>3. pc'[w] = "edit" /\ req'[w] = q
    BY <2>1, Moves DEF Base, Typed
  <2>4. q \in EditRequest /\ q.id = r /\ q.read.last = reminder[r].last
    BY <2>2 DEF EditRequest
  <2>5. ReqTyped(w)'
    BY <2>3, <2>4 DEF ReqTyped
  <2>6. UNCHANGED published
    BY <2>1 DEF queueVars
  <2>7. WritesSent(w)'
    BY <2>2, <2>3, <2>4, <2>6 DEF WritesSent, Sent
  <2>8. QED
    BY <2>1, <2>5, <2>7, ReadingStep
<1>2. CASE \E weekday \in Weekday, slot \in Slot : EditSave(w, weekday, slot)
  <2>1. PICK weekday \in Weekday, slot \in Slot : EditSave(w, weekday, slot)
    BY <1>2
  <2> DEFINE r == req[w].id
             new == [req[w].read EXCEPT !.weekday = weekday, !.slot = slot]
  <2>2. /\ pc[w] = "edit" /\ Finish(w) /\ UNCHANGED <<clock, deleted, active, queueVars>>
        /\ ExcusedStep
        /\ reminder' = [x \in Rows \cup {r} |-> IF x = r THEN new ELSE reminder[x]]
    BY <2>1 DEF EditSave, ExcusedStep, Overwritten
  <2>3. r \in Reminder /\ req[w].read \in Row /\ Sent(r, req[w].read.last)
    BY <2>2 DEF Base, Typed, ReqTyped, EditRequest, MarkedInv, WritesSent
  <2>4. new \in Row /\ new.last = req[w].read.last
    BY <2>3 DEF Row
  <2>5. Rows' = Rows \cup {r} /\ reminder'[r] = new /\ \A x \in Rows \ {r} : reminder'[x] = reminder[x]
    BY <2>2 DEF Rows
  <2>6. TableTyped'
    BY <2>2, <2>3, <2>4, <2>5 DEF Base, Typed, TableTyped
  <2>7. UNCHANGED published
    BY <2>2 DEF queueVars
  <2>8. \A x \in Rows' : Sent(x, reminder[x].last)'
    BY <2>3, <2>4, <2>5, <2>7 DEF Base, MarkedInv, Sent
  <2>9. QED
    BY <2>2, <2>6, <2>8, EndTyped, QueueStays, GoKeeps DEF Finish, Base, Typed
<1>3. QED
  BY <1>1, <1>2

LEMMA StaffBase ==
    ASSUME Base,
           \/ \E r \in Reminder, weekday \in Weekday, slot \in Slot : Create(r, weekday, slot)
           \/ \E r \in Reminder : Delete(r) \/ SetStudentActive(r)
    PROVE  Base'
<1>1. CASE \E r \in Reminder, weekday \in Weekday, slot \in Slot : Create(r, weekday, slot)
  <2>1. PICK r \in Reminder, weekday \in Weekday, slot \in Slot : Create(r, weekday, slot)
    BY <1>1
  <2> DEFINE new == [weekday |-> weekday, slot |-> slot, last |-> None]
  <2>2. /\ UNCHANGED <<clock, deleted, active, queueVars, excused, pc, req>>
        /\ reminder' = [x \in Rows \cup {r} |-> IF x = r THEN new ELSE reminder[x]]
        /\ r \notin Rows
    BY <2>1 DEF Create
  <2>3. new \in Row /\ new.last = None
    BY DEF Row
  <2>4. Rows' = Rows \cup {r} /\ reminder'[r] = new /\ \A x \in Rows : reminder'[x] = reminder[x]
    BY <2>2 DEF Rows
  <2>5. TableTyped'
    BY <2>2, <2>3, <2>4 DEF Base, Typed, TableTyped
  <2>6. UNCHANGED published
    BY <2>2 DEF queueVars
  <2>7. \A x \in Rows' : Sent(x, reminder[x].last)'
    BY <2>3, <2>4, <2>6 DEF Base, MarkedInv, Sent
  <2>8. QED
    BY <2>2, <2>5, <2>6, <2>7, QueueStays, StillKeeps DEF Base, Typed
<1>2. CASE \E r \in Reminder : Delete(r)
  <2>1. PICK r \in Reminder :
            /\ UNCHANGED <<clock, active, queueVars, excused, pc, req>>
            /\ reminder' = [x \in Rows \ {r} |-> reminder[x]] /\ deleted' = deleted \cup {r}
    BY <1>2 DEF Delete
  <2>2. Rows' = Rows \ {r} /\ \A x \in Rows' : reminder'[x] = reminder[x]
    BY <2>1 DEF Rows
  <2>3. TableTyped'
    BY <2>1, <2>2 DEF Base, Typed, TableTyped
  <2>4. UNCHANGED published
    BY <2>1 DEF queueVars
  <2>5. \A x \in Rows' : Sent(x, reminder[x].last)'
    BY <2>2, <2>4 DEF Base, MarkedInv, Sent
  <2>6. QED
    BY <2>1, <2>3, <2>4, <2>5, QueueStays, StillKeeps DEF Base, Typed
<1>3. CASE \E r \in Reminder : SetStudentActive(r)
  <2>1. /\ UNCHANGED <<clock, reminder, deleted, queueVars, excused, pc, req>>
        /\ active' \subseteq Reminder
    BY <1>3 DEF SetStudentActive, Base, Typed, TableTyped
  <2>2. UNCHANGED <<published, Rows>>
    BY <2>1 DEF queueVars, Rows
  <2>3. TableTyped' /\ \A x \in Rows' : Sent(x, reminder[x].last)'
    BY <2>1, <2>2 DEF Base, Typed, TableTyped, MarkedInv, Sent
  <2>4. QED
    BY <2>1, <2>2, <2>3, QueueStays, StillKeeps DEF Base, Typed
<1>4. QED
  BY <1>1, <1>2, <1>3

LEMMA WorldBase ==
    ASSUME Base, Tick \/ LineChanges \/ \E m \in Message : Consume(m) \/ ListenerCallback(m)
    PROVE  Base'
<1>1. UNCHANGED <<tableVars, published, excused, pc, req>>
  BY DEF Tick, LineChanges, Consume, Deliver, DeliverFails, ListenerCallback, queueVars
<1>2. clock' \in 0 .. LastSlot
  BY TimeAssumption DEF Base, Typed, Tick, LineChanges, Consume, Deliver, DeliverFails, ListenerCallback
<1>3. QueueTyped'
  <2>1. CASE Tick
    BY <2>1, QueueStays DEF Tick, Base
  <2>2. CASE LineChanges
    BY <1>1, <2>2 DEF LineChanges, Base, Typed, QueueTyped
  <2>3. CASE \E m \in Message : Consume(m) \/ ListenerCallback(m)
    <3>1. PICK m \in Message : /\ consumed[m] < published[m]
                               /\ consumed' = [consumed EXCEPT ![m] = @ + 1] /\ UNCHANGED lineUp
      BY <2>3 DEF Consume, Deliver, DeliverFails, ListenerCallback, Pending
    <3>2. consumed[m] \in 0 .. published[m] /\ published[m] \in 0 .. MaxCopies
      BY DEF Base, Typed, QueueTyped
    <3>3. consumed[m] + 1 \in 0 .. published[m]
      BY <3>1, <3>2, TimeAssumption
    <3>4. \A x \in Message : consumed'[x] \in 0 .. published[x]
      BY <3>1, <3>3 DEF Base, Typed, QueueTyped
    <3>5. QED
      BY <1>1, <3>1, <3>4 DEF Base, Typed, QueueTyped
  <2>4. QED
    BY <2>1, <2>2, <2>3
<1>4. Grows
  BY <1>1, TimeAssumption DEF Grows, Base, Typed, QueueTyped
<1>5. QED
  BY <1>1, <1>2, <1>3, <1>4, TablesStay, StillKeeps DEF Base

LEMMA StepBase == Base /\ [Next]_vars => Base'
<1> SUFFICES ASSUME Base, [Next]_vars PROVE Base'
  OBVIOUS
<1>1. CASE UNCHANGED vars
  <2>1. UNCHANGED <<clock, tableVars, queueVars, published, excused, pc, req>>
    BY <1>1 DEF vars, queueVars
  <2>2. clock' \in 0 .. LastSlot
    BY <2>1 DEF Base, Typed
  <2>3. QED
    BY <2>1, <2>2, QueueStays, TablesStay, StillKeeps DEF Base
<1>2. ASSUME NEW w \in Worker, PublishRaises(w) \/ Respond(w) \/ Crash(w) PROVE Base'
  BY <1>2, EndStep DEF PublishRaises, Respond, Crash, ExcusedStep
<1>3. CASE Next
  BY <1>2, <1>3, TriggerBase, SkipBase, PublishBase, MarkBase, EditBase, StaffBase, WorldBase
     DEF Next
<1>4. QED
  BY <1>1, <1>3

THEOREM BaseAlways == Spec => []Base
<1>1. QED
  BY InitBase, StepBase, PTL DEF Spec

\* StudyReminder.last_notified: a day that is noted is one the topic took a
\* message for, whatever requests overlap, die, time out or race an edit.
THEOREM MarkedWasPublishedAlways == Spec => []MarkedWasPublished
<1>1. Base => MarkedWasPublished
  BY DEF Base, MarkedInv, Sent, MarkedWasPublished
<1>2. QED
  BY <1>1, BaseAlways, PTL

\* Rows, messages and the local variables of every request keep their types.
THEOREM TypeCorrect == Spec => []TypeOK
<1>1. Base => TypeOK
  BY DEF Base, Typed, TableTyped, QueueTyped, Places, ReqTyped, TypeOK
<1>2. QED
  BY <1>1, BaseAlways, PTL

-----------------------------------------------------------------------------
(* Once a day.  The copies there are and those that requests may still add  *)
(* are counted together; a row that nobody holds and whose note is missing  *)
(* has been excused for it.                                                 *)

\* The requests that may still send the message.
Senders(m) == {w \in Worker : Fetched(w, m)}

Free(m) == \A w \in Worker : ~Holds(w, m)

\* The next request to fetch the reminder will find no note of what was sent.
Open(m) ==
    /\ published[m] > 0 /\ Free(m)
    /\ m[1] \in Rows /\ reminder[m[1]].last < m[2]

Counted(m) ==
    excused[m] < MaxCopies - 1 =>
        /\ published[m] + Cardinality(Senders(m)) <= 1 + excused[m]
        /\ Open(m) => published[m] <= excused[m]

\* An id that was never used is that of no message, sent or to be sent.
Known(m) == published[m] > 0 \/ (\E w \in Worker : Holds(w, m)) => m[1] \in Rows \cup deleted

Once == \A m \in Message : Counted(m) /\ Known(m)

LEMMA Numbers ==
    ASSUME Typed, NEW m \in Message
    PROVE  /\ published[m] \in Nat /\ published[m] <= MaxCopies
           /\ excused[m] \in Nat /\ excused[m] <= MaxCopies - 1 /\ MaxCopies \in Nat \ {0}
           /\ m = <<m[1], m[2]>> /\ m[1] \in Reminder /\ m[2] \in Day /\ m[2] \in Nat
           /\ m[1] \in Rows => reminder[m[1]].last \in Day \cup {None}
                               /\ reminder[m[1]].last \in Int
<1>1. published[m] \in 0 .. MaxCopies /\ excused[m] \in 0 .. MaxCopies - 1
  BY DEF Typed, QueueTyped
<1>2. m = <<m[1], m[2]>> /\ m[1] \in Reminder /\ m[2] \in Day
  BY DEF Message
<1>3. m[1] \in Rows => reminder[m[1]].last \in Day \cup {None}
  BY DEF Typed, TableTyped, Row
<1>4. QED
  BY <1>1, <1>2, <1>3, TimeAssumption DEF Day, None

\* Senders are counted.
LEMMA Few ==
    ASSUME NEW m
    PROVE  /\ Cardinality(Senders(m)) \in Nat
           /\ Senders(m) = {} => Cardinality(Senders(m)) = 0
           /\ Senders(m) # {} => Cardinality(Senders(m)) >= 1
           /\ \A S \in SUBSET Senders(m) :
                 Cardinality(S) \in Nat /\ Cardinality(S) <= Cardinality(Senders(m))
           /\ \A w \in Worker : /\ Cardinality(Senders(m) \cup {w}) \in Nat
                                 /\ Cardinality(Senders(m) \cup {w}) <= Cardinality(Senders(m)) + 1
           /\ \A w \in Senders(m) : \A S \in SUBSET (Senders(m) \ {w}) :
                 Cardinality(S) \in Nat /\ Cardinality(S) <= Cardinality(Senders(m)) - 1
<1>1. IsFiniteSet(Senders(m))
  BY WorkersAssumption, FS_Subset DEF Senders
<1> DEFINE all == Senders(m)
<1> HIDE DEF all
<1>2. IsFiniteSet(all)
  BY <1>1 DEF all
<1>3. Cardinality(all) \in Nat /\ (all = {} <=> Cardinality(all) = 0)
  BY <1>2, FS_CardinalityType, FS_EmptySet
<1>4. \A S \in SUBSET all : Cardinality(S) \in Nat /\ Cardinality(S) <= Cardinality(all)
  BY <1>2, FS_Subset, FS_CardinalityType
<1>5. ASSUME NEW w
      PROVE  Cardinality(all \cup {w}) \in Nat /\ Cardinality(all \cup {w}) <= Cardinality(all) + 1
  <2>1. Cardinality(all \cup {w}) = IF w \in all THEN Cardinality(all) ELSE Cardinality(all) + 1
    BY <1>2, FS_AddElement
  <2>2. QED
    BY <1>3, <2>1
<1>6. ASSUME NEW w \in all, NEW S \in SUBSET (all \ {w})
      PROVE  Cardinality(S) \in Nat /\ Cardinality(S) <= Cardinality(all) - 1
  <2>1. IsFiniteSet(all \ {w}) /\ Cardinality(all \ {w}) = Cardinality(all) - 1
    BY <1>2, FS_RemoveElement
  <2>2. QED
    BY <2>1, FS_Subset, FS_CardinalityType
<1>7. QED
  BY <1>3, <1>4, <1>5, <1>6 DEF all

\* A message that nobody sends in this step: its senders only leave, and a note
\* that goes missing is excused, or was to be written by one of them.
LEMMA CountKept ==
    ASSUME Typed, Typed', NEW m \in Message, Counted(m),
           published'[m] = published[m], Senders(m)' \subseteq Senders(m),
           \/ excused'[m] = MaxCopies - 1
           \/ excused'[m] = excused[m] + 1
           \/ excused'[m] = excused[m] /\ (Open(m)' => Open(m) \/ Senders(m) # {})
    PROVE  Counted(m)'
<1> DEFINE n == Cardinality(Senders(m))
           k == Cardinality(Senders(m)')
<1>1. SUFFICES ASSUME excused'[m] < MaxCopies - 1
               PROVE  /\ published'[m] + k <= 1 + excused'[m]
                      /\ Open(m)' => published'[m] <= excused'[m]
  BY DEF Counted
<1>2. /\ published[m] \in Nat /\ excused[m] \in Nat /\ MaxCopies \in Nat \ {0}
      /\ excused'[m] \in Nat
  BY Numbers, Typed'  DEF Typed
<1>3. n \in Nat /\ k \in Nat /\ k <= n /\ (Senders(m) # {} => n >= 1)
  BY Few
<1> HIDE DEF n, k
<1>4. excused[m] < MaxCopies - 1
  BY <1>1, <1>2
<1>5. published[m] + n <= 1 + excused[m] /\ (Open(m) => published[m] <= excused[m])
  BY <1>4 DEF Counted, n
<1>6. CASE excused'[m] = excused[m] + 1
  BY <1>2, <1>3, <1>5, <1>6
<1>7. CASE excused'[m] = excused[m] /\ (Open(m)' => Open(m) \/ Senders(m) # {})
  <2>1. published'[m] + k <= 1 + excused'[m]
    BY <1>2, <1>3, <1>5, <1>7
  <2>2. ASSUME Open(m)' PROVE published'[m] <= excused'[m]
    <3>1. CASE Open(m)
      BY <1>5, <1>7, <3>1
    <3>2. CASE Senders(m) # {}
      BY <1>2, <1>3, <1>5, <1>7, <3>2
    <3>3. QED
      BY <1>7, <2>2, <3>1, <3>2
  <2>3. QED
    BY <2>1, <2>2
<1>8. QED
  BY <1>1, <1>2, <1>6, <1>7

\* What Excuse does to one message.
LEMMA Excused ==
    ASSUME Typed, NEW messages, Excuse(messages), NEW m \in Message
    PROVE  /\ m \notin messages => excused'[m] = excused[m]
           /\ m \in messages => excused'[m] \in {MaxCopies - 1, excused[m] + 1}
<1>1. excused[m] \in 0 .. MaxCopies - 1
  BY DEF Typed
<1>2. QED
  BY <1>1, TimeAssumption DEF Excuse

\* What other requests hold does not change with a step of w.
LEMMA OthersHold ==
    ASSUME Typed, NEW w \in Worker, NEW place, NEW q, Goto(w, place, q), NEW m
    PROVE  \A v \in Worker \ {w} :
              Fetched(v, m)' = Fetched(v, m) /\ Unnoted(v, m)' = Unnoted(v, m)
<1>1. \A v \in Worker \ {w} : pc'[v] = pc[v] /\ req'[v] = req[v]
  BY Moves DEF Typed
<1>2. QED
  BY <1>1 DEF Fetched, Unnoted

LEMMA HoldsNothing ==
    ASSUME Typed, NEW w \in Worker, NEW m, pc[w] \notin {"loop", "mark"}
    PROVE  ~Fetched(w, m) /\ ~Unnoted(w, m)
BY DEF Fetched, Unnoted

\* A step of w that sends nothing and leaves the tables alone; w fetches nothing
\* new, and an unsaved note it gives up is excused.
LEMMA GivesUp ==
    ASSUME Typed, Typed', Once, NEW w \in Worker, NEW place, NEW q, Goto(w, place, q),
           UNCHANGED <<published, tableVars>>, place # "mark",
           \A m \in Message : Fetched(w, m)' => Fetched(w, m),
           \A m \in Message : excused'[m] = excused[m]
                              \/ excused'[m] \in {MaxCopies - 1, excused[m] + 1},
           \A m \in Message : Unnoted(w, m) => excused'[m] \in {MaxCopies - 1, excused[m] + 1}
    PROVE  Once'
<1> SUFFICES ASSUME NEW m \in Message PROVE (Counted(m) /\ Known(m))'
  BY DEF Once
<1>1. UNCHANGED <<reminder, deleted, Rows>>
  BY DEF tableVars, Rows
<1>2. \A v \in Worker \ {w} : Fetched(v, m)' = Fetched(v, m) /\ Unnoted(v, m)' = Unnoted(v, m)
  BY OthersHold
<1>3. ~Unnoted(w, m)'
  BY Moves DEF Unnoted, Typed
<1>4. Senders(m)' \subseteq Senders(m)
  BY <1>2 DEF Senders
<1>5. (Open(m)' => Open(m) \/ Senders(m) # {}) \/ Unnoted(w, m)
  BY <1>1, <1>2 DEF Open, Free, Holds, Senders
<1>6. Counted(m)'
  BY <1>4, <1>5, CountKept DEF Once
<1>7. Known(m)'
  BY <1>1, <1>2, <1>3 DEF Once, Known, Holds
<1>8. QED
  BY <1>6, <1>7

LEMMA QuietOnce ==
    ASSUME Base, Base', Once, NEW w \in Worker,
           \/ \E r \in Reminder : Skip(w, r) \/ EditRead(w, r)
           \/ PublishRaises(w) \/ Respond(w) \/ Crash(w)
    PROVE  Once'
<1>1. Typed /\ Typed'
  BY DEF Base
<1>2. CASE \E r \in Reminder : Skip(w, r)
  <2>1. PICK r \in Reminder : Skip(w, r)
    BY <1>2
  <2> DEFINE q == [req[w] EXCEPT !.todo = @ \ {r}]
  <2>2. /\ pc[w] = "loop" /\ Goto(w, "loop", q)
        /\ UNCHANGED <<published, tableVars, excused>> /\ req[w] \in LoopRequest
    BY <1>1, <2>1 DEF Skip, queueVars, Typed, ReqTyped
  <2>3. q.day = req[w].day /\ q.todo \subseteq req[w].todo
    BY <2>2 DEF LoopRequest
  <2> HIDE DEF q
  <2>4. pc'[w] = "loop" /\ req'[w] = q
    BY <1>1, <2>2, Moves DEF Typed
  <2>5. \A m \in Message : ~Unnoted(w, m) /\ (Fetched(w, m)' => Fetched(w, m))
    BY <2>2, <2>3, <2>4 DEF Unnoted, Fetched
  <2>6. QED
    BY <1>1, <2>2, <2>5, GivesUp
<1>3. CASE \E r \in Reminder : EditRead(w, r)
  <2>1. PICK q : /\ pc[w] = "idle" /\ Goto(w, "edit", q)
                 /\ UNCHANGED <<published, tableVars, excused>>
    BY <1>3 DEF EditRead, queueVars
  <2>2. pc'[w] = "edit"
    BY <1>1, <2>1, Moves DEF Typed
  <2>3. \A m \in Message : ~Unnoted(w, m) /\ ~Fetched(w, m)'
    BY <2>1, <2>2 DEF Unnoted, Fetched
  <2>4. QED
    BY <1>1, <2>1, <2>3, GivesUp
<1>4. CASE PublishRaises(w) \/ Respond(w) \/ Crash(w)
  <2>1. Goto(w, "idle", NoRequest) /\ UNCHANGED <<published, tableVars>>
    BY <1>4 DEF PublishRaises, Respond, Crash, Finish, queueVars
  <2>2. \A m \in Message : ~Fetched(w, m)'
    BY <1>1, <2>1, Moves DEF Fetched, Typed
  <2>3. CASE PublishRaises(w) \/ Respond(w)
    <3>1. UNCHANGED excused /\ \A m \in Message : ~Unnoted(w, m)
      BY <2>3 DEF PublishRaises, Respond, Unnoted
    <3>2. QED
      BY <1>1, <2>1, <2>2, <3>1, GivesUp
  <2>4. CASE Crash(w)
    <3>1. Excuse({m \in Message : Unnoted(w, m)})
      BY <2>4 DEF Crash
    <3>2. \A m \in Message :
             /\ excused'[m] = excused[m] \/ excused'[m] \in {MaxCopies - 1, excused[m] + 1}
             /\ Unnoted(w, m) => excused'[m] \in {MaxCopies - 1, excused[m] + 1}
      BY <1>1, <3>1, Excused
    <3>3. QED
      BY <1>1, <2>1, <2>2, <3>2, GivesUp
  <2>5. QED
    BY <1>4, <2>3, <2>4
<1>5. QED
  BY <1>2, <1>3, <1>4

\* A request that fetches a reminder nobody holds finds the note, or an excuse.
LEMMA TriggerOnce ==
    ASSUME Base, Base', Once, NEW w \in Worker, Trigger(w)
    PROVE  Once'
<1> DEFINE day == DayOf(clock)
           todo == Notifiable(day, clock % SLOTS_PER_DAY, (clock + 1) % SLOTS_PER_DAY)
           q == [day |-> day, todo |-> todo]
           held == {m \in todo \X {day} : \E v \in Worker : Holds(v, m)}
<1>1. /\ pc[w] = "idle" /\ Goto(w, "loop", q) /\ Excuse(held)
      /\ UNCHANGED <<published, reminder, deleted, Rows>>
  BY DEF Trigger, tableVars, queueVars, Rows
<1>2. \A r \in todo : r \in Rows /\ (reminder[r].last = None \/ reminder[r].last < day)
  BY DEF Notifiable
<1>3. Typed /\ Typed' /\ day \in Nat
  BY DayOrder DEF Base, Typed, Day
<1>4. q.day = day /\ q.todo = todo
  OBVIOUS
<1> SUFFICES ASSUME NEW m \in Message PROVE (Counted(m) /\ Known(m))'
  BY DEF Once
<1>5. m \in held <=> m \in todo \X {day} /\ \E v \in Worker : Holds(v, m)
  OBVIOUS
<1> HIDE DEF day, todo, q, held
<1>6. pc'[w] = "loop" /\ req'[w] = q
  BY <1>1, <1>3, Moves DEF Typed
<1>7. Fetched(w, m)' <=> m \in todo \X {day}
  BY <1>4, <1>6 DEF Fetched
<1>8. /\ ~Unnoted(w, m)' /\ ~Fetched(w, m) /\ ~Unnoted(w, m)
      /\ \A v \in Worker \ {w} : Fetched(v, m)' = Fetched(v, m) /\ Unnoted(v, m)' = Unnoted(v, m)
  BY <1>1, <1>3, <1>6, OthersHold DEF Unnoted, Fetched
<1>9. Counted(m) /\ Known(m)
  BY DEF Once
<1>10. CASE m \notin todo \X {day}
  <2>1. Senders(m)' = Senders(m) /\ (Open(m)' => Open(m)) /\ excused'[m] = excused[m]
    BY <1>1, <1>3, <1>5, <1>7, <1>8, <1>10, Excused DEF Senders, Open, Free, Holds
  <2>2. Counted(m)'
    BY <1>1, <1>3, <1>9, <2>1, CountKept
  <2>3. Known(m)'
    BY <1>1, <1>7, <1>8, <1>9, <1>10 DEF Known, Holds
  <2>4. QED
    BY <2>2, <2>3
<1>11. CASE m \in todo \X {day}
  <2>1. m[1] \in Rows /\ m[1] \in todo /\ m[2] = day
    BY <1>2, <1>11
  <2>2. Known(m)'
    BY <1>1, <2>1 DEF Known
  <2>3. ~Open(m)'
    BY <1>7, <1>11 DEF Open, Free, Holds
  <2>4. Senders(m)' = Senders(m) \cup {w}
    BY <1>7, <1>8, <1>11 DEF Senders
  <2> DEFINE n == Cardinality(Senders(m))
             k == Cardinality(Senders(m)')
  <2>5. n \in Nat /\ k \in Nat /\ k <= n + 1
    BY <2>4, Few
  <2>6. /\ published[m] \in Nat /\ excused[m] \in Nat /\ MaxCopies \in Nat \ {0}
        /\ m[1] \in Rows => reminder[m[1]].last \in Int
    BY <1>3, Numbers
  <2>7. SUFFICES ASSUME excused'[m] < MaxCopies - 1 PROVE published[m] + k <= 1 + excused'[m]
    BY <1>1, <2>2, <2>3 DEF Counted
  <2>8. CASE \E v \in Worker : Holds(v, m)
    <3>1. excused'[m] = excused[m] + 1
      BY <1>1, <1>3, <1>5, <1>11, <2>6, <2>7, <2>8, Excused
    <3>2. published[m] + n <= 1 + excused[m]
      BY <1>9, <2>6, <2>7, <3>1 DEF Counted
    <3> HIDE DEF n, k
    <3>3. QED
      BY <2>5, <2>6, <3>1, <3>2
  <2>9. CASE \A v \in Worker : ~Holds(v, m)
    <3>1. Senders(m) = {} /\ n = 0
      BY <2>9, Few DEF Senders, Holds
    <3>2. excused'[m] = excused[m]
      BY <1>1, <1>3, <1>5, <2>9, Excused
    <3>3. reminder[m[1]].last < m[2]
      BY <1>2, <1>3, <2>1 DEF None
    <3>4. published[m] <= excused[m]
      BY <1>9, <2>1, <2>6, <2>7, <2>9, <3>2, <3>3 DEF Counted, Open, Free
    <3> HIDE DEF n, k
    <3>5. QED
      BY <2>5, <2>6, <3>1, <3>2, <3>4
  <2>10. QED
    BY <2>8, <2>9
<1>12. QED
  BY <1>10, <1>11

\* One sender less and one copy more: until the day is noted the request holds
\* the message, and if it gives up before, the copy is excused.
LEMMA PublishOnce ==
    ASSUME Base, Base', Once, NEW w \in Worker, NEW r \in Reminder,
           Publish(w, r) \/ PublishTimesOut(w, r)
    PROVE  Once'
<1> DEFINE day == req[w].day
           q == [day |-> req[w].day, todo |-> req[w].todo \ {r}, sent |-> r]
           sent == <<r, day>>
<1>1. /\ pc[w] = "loop" /\ r \in req[w].todo
      /\ published' = [published EXCEPT ![sent] = @ + 1]
      /\ UNCHANGED <<reminder, deleted, Rows>>
  BY DEF Publish, PublishTimesOut, tableVars, Rows
<1>2. Typed /\ Typed' /\ req[w] \in LoopRequest
  BY <1>1 DEF Base, Typed, ReqTyped
<1>3. sent \in Message
  BY <1>2 DEF Message, LoopRequest
<1>4. q.day = day /\ q.sent = r /\ q.todo = req[w].todo \ {r}
  OBVIOUS
<1>5. \/ Goto(w, "mark", q) /\ UNCHANGED excused
      \/ Goto(w, "idle", NoRequest) /\ Excuse({sent})
  BY DEF Publish, PublishTimesOut, Finish
<1> HIDE DEF q
<1>6. \/ pc'[w] = "mark" /\ req'[w] = q /\ UNCHANGED excused
      \/ pc'[w] = "idle" /\ Excuse({sent})
  BY <1>2, <1>5, Moves DEF Typed
<1> SUFFICES ASSUME NEW m \in Message PROVE (Counted(m) /\ Known(m))'
  BY DEF Once
<1>7. \A v \in Worker \ {w} : Fetched(v, m)' = Fetched(v, m) /\ Unnoted(v, m)' = Unnoted(v, m)
  BY <1>2, <1>5, OthersHold
<1>8. Counted(m) /\ Known(m)
  BY DEF Once
<1>9. ~Unnoted(w, m) /\ (Fetched(w, m)' => Fetched(w, m) /\ m # sent)
  BY <1>1, <1>4, <1>6 DEF Unnoted, Fetched
<1>10. Senders(m)' \subseteq Senders(m)
  BY <1>7, <1>9 DEF Senders
<1>11. CASE m # sent
  <2>1. published'[m] = published[m] /\ excused'[m] = excused[m]
    BY <1>1, <1>2, <1>3, <1>6, <1>11, Excused DEF Typed, QueueTyped
  <2>2. ~Unnoted(w, m)'
    BY <1>4, <1>6, <1>11 DEF Unnoted
  <2>3. Open(m)' => Open(m) \/ Senders(m) # {}
    BY <1>1, <1>7, <1>9, <2>1 DEF Open, Free, Holds, Senders
  <2>4. Counted(m)'
    BY <1>2, <1>8, <1>10, <2>1, <2>3, CountKept
  <2>5. Known(m)'
    BY <1>1, <1>7, <1>8, <1>9, <2>1, <2>2 DEF Known, Holds
  <2>6. QED
    BY <2>4, <2>5
<1>12. CASE m = sent
  <2>1. Fetched(w, m)
    BY <1>1, <1>2, <1>12 DEF Fetched, LoopRequest
  <2>2. Known(m)'
    BY <1>1, <1>8, <2>1 DEF Known, Holds
  <2> DEFINE n == Cardinality(Senders(m))
             k == Cardinality(Senders(m)')
  <2>3. w \in Senders(m) /\ Senders(m)' \in SUBSET (Senders(m) \ {w})
    BY <1>9, <1>10, <1>12, <2>1 DEF Senders
  <2>4. n \in Nat /\ k \in Nat /\ k <= n - 1 /\ n >= 1
    BY <2>3, Few
  <2>5. /\ published[m] \in Nat /\ excused[m] \in Nat /\ MaxCopies \in Nat \ {0}
        /\ published'[m] = published[m] + 1
    BY <1>1, <1>2, <1>3, <1>12, Numbers DEF Typed, QueueTyped
  <2>6. SUFFICES ASSUME excused'[m] < MaxCopies - 1
                 PROVE  /\ published[m] + 1 + k <= 1 + excused'[m]
                        /\ Open(m)' => published[m] + 1 <= excused'[m]
    BY <2>2, <2>5 DEF Counted
  <2>7. excused'[m] = excused[m] \/ excused'[m] = excused[m] + 1
    <3>1. CASE UNCHANGED excused
      BY <3>1
    <3>2. CASE Excuse({sent})
      BY <1>2, <1>12, <2>5, <2>6, <3>2, Excused
    <3>3. QED
      BY <1>6, <3>1, <3>2
  <2>8. published[m] + n <= 1 + excused[m]
    BY <1>8, <2>5, <2>6, <2>7 DEF Counted
  <2>9. Open(m)' => excused'[m] = excused[m] + 1
    <3>1. CASE pc'[w] = "mark" /\ req'[w] = q
      <4>1. Unnoted(w, m)'
        BY <1>4, <1>12, <3>1 DEF Unnoted
      <4>2. QED
        BY <4>1 DEF Open, Free, Holds
    <3>2. CASE Excuse({sent})
      BY <1>2, <1>12, <2>5, <2>6, <3>2, Excused
    <3>3. QED
      BY <1>6, <3>1, <3>2
  <2> HIDE DEF n, k
  <2>10. QED
    BY <2>4, <2>5, <2>7, <2>8, <2>9
<1>13. QED
  BY <1>11, <1>12

\* A row of r is written with this day; what it no longer notes is excused.
LEMMA Noted ==
    ASSUME Typed, Typed', NEW r \in Reminder, NEW last \in Day \cup {None},
           UNCHANGED published, r \in Rows', reminder'[r].last = last,
           Excuse(Overwritten(r, last)),
           NEW m \in Message, m[1] = r, Counted(m), Senders(m)' \subseteq Senders(m),
           m[2] > last => (Free(m)' => Free(m))
    PROVE  Counted(m)'
<1>1. /\ published[m] \in Nat /\ m[2] \in Nat /\ last \in Int
      /\ r \in Rows => reminder[r].last \in Int
  BY Numbers DEF Day, None
<1>2. CASE m \in Overwritten(r, last)
  BY <1>2, CountKept, Excused
<1>3. CASE m \notin Overwritten(r, last)
  <2>1. excused'[m] = excused[m]
    BY <1>3, Excused
  <2>2. ASSUME Open(m)' PROVE Open(m)
    <3>1. last < m[2] /\ published[m] > 0 /\ Free(m)
      BY <1>1, <2>2 DEF Open
    <3>2. r \in Rows /\ ~(m[2] <= reminder[r].last)
      BY <1>3, <3>1 DEF Overwritten
    <3>3. QED
      BY <1>1, <3>1, <3>2 DEF Open
  <2>3. QED
    BY <2>1, <2>2, CountKept
<1>4. QED
  BY <1>2, <1>3

LEMMA MarkOnce ==
    ASSUME Base, Base', Once, NEW w \in Worker, Mark(w)
    PROVE  Once'
<1> DEFINE r == req[w].sent
           day == req[w].day
           q == [day |-> req[w].day, todo |-> req[w].todo]
<1>1. pc[w] = "mark" /\ UNCHANGED <<deleted, published>>
  BY DEF Mark, queueVars
<1>2. Typed /\ Typed' /\ req[w] \in MarkRequest
  BY <1>1 DEF Base, Typed, ReqTyped
<1>3. r \in Reminder /\ day \in Day /\ day \in Nat
  BY <1>2 DEF MarkRequest, Day
<1>4. q.day = day /\ q.todo = req[w].todo
  OBVIOUS
<1>5. \/ /\ r \in Rows /\ reminder' = [reminder EXCEPT ![r].last = day]
         /\ Excuse(Overwritten(r, day)) /\ Goto(w, "loop", q)
      \/ r \notin Rows /\ UNCHANGED <<reminder, excused>> /\ Goto(w, "idle", NoRequest)
  BY DEF Mark, Finish
<1> HIDE DEF q
<1>6. /\ pc'[w] \in {"loop", "idle"} /\ (pc'[w] = "loop" => req'[w] = q)
      /\ r \in Rows => pc'[w] = "loop"
  BY <1>2, <1>5, Moves DEF Typed
<1>7. /\ Rows' = Rows /\ (\A x \in Rows \ {r} : reminder'[x] = reminder[x])
      /\ r \in Rows => reminder'[r].last = day
  <2>1. reminder \in [Rows -> Row]
    BY <1>2 DEF Typed, TableTyped
  <2>2. r \in Rows => reminder[r] \in Row
    BY <2>1
  <2>3. r \in Rows => [reminder[r] EXCEPT !.last = day].last = day
    BY <2>2 DEF Row
  <2>4. QED
    BY <1>5, <2>1, <2>3 DEF Rows
<1> SUFFICES ASSUME NEW m \in Message PROVE (Counted(m) /\ Known(m))'
  BY DEF Once
<1>8. /\ \A v \in Worker \ {w} : Fetched(v, m)' = Fetched(v, m) /\ Unnoted(v, m)' = Unnoted(v, m)
      /\ Counted(m) /\ Known(m)
  BY <1>2, <1>5, OthersHold DEF Once
<1>9. ~Unnoted(w, m)' /\ (Fetched(w, m)' => Fetched(w, m))
  BY <1>1, <1>4, <1>6 DEF Unnoted, Fetched
<1>10. Senders(m)' \subseteq Senders(m)
  BY <1>8, <1>9 DEF Senders
<1>11. Known(m)'
  BY <1>1, <1>7, <1>8, <1>9 DEF Known, Holds
<1>12. m[1] # r \/ m[2] # day => ~Unnoted(w, m)
  BY DEF Unnoted
<1>13. CASE m[1] # r
  <2>1. excused'[m] = excused[m]
    BY <1>2, <1>5, <1>13, Excused DEF Overwritten
  <2>2. Open(m)' => Open(m) \/ Senders(m) # {}
    BY <1>1, <1>7, <1>8, <1>12, <1>13 DEF Open, Free, Holds, Senders
  <2>3. QED
    BY <1>1, <1>2, <1>8, <1>10, <1>11, <2>1, <2>2, CountKept
<1>14. CASE m[1] = r /\ r \notin Rows
  <2>1. ~Open(m)' /\ excused'[m] = excused[m]
    BY <1>5, <1>7, <1>14 DEF Open
  <2>2. QED
    BY <1>1, <1>2, <1>8, <1>10, <1>11, <2>1, CountKept
<1>15. CASE m[1] = r /\ r \in Rows
  <2>1. Excuse(Overwritten(r, day)) /\ pc'[w] = "loop" /\ req'[w] = q
    BY <1>5, <1>6, <1>15
  <2>2. Fetched(w, m)' = Fetched(w, m)
    BY <1>1, <1>4, <2>1 DEF Fetched
  <2>3. m[2] > day => (Free(m)' => Free(m))
    <3>1. ASSUME m[2] > day PROVE ~Unnoted(w, m)
      BY <1>3, <1>12, <3>1
    <3>2. QED
      BY <1>8, <2>2, <3>1 DEF Free, Holds
  <2>4. Counted(m)'
    BY <1>1, <1>2, <1>3, <1>7, <1>8, <1>10, <1>15, <2>1, <2>3, Noted
  <2>5. QED
    BY <1>11, <2>4
<1>16. QED
  BY <1>13, <1>14, <1>15

LEMMA EditSaveOnce ==
    ASSUME Base, Base', Once, NEW w \in Worker, NEW weekday \in Weekday, NEW slot \in Slot,
           EditSave(w, weekday, slot)
    PROVE  Once'
<1> DEFINE r == req[w].id
           last == req[w].read.last
           new == [req[w].read EXCEPT !.weekday = weekday, !.slot = slot]
<1>1. /\ pc[w] = "edit" /\ Goto(w, "idle", NoRequest) /\ UNCHANGED <<deleted, published>>
      /\ reminder' = [x \in Rows \cup {r} |-> IF x = r THEN new ELSE reminder[x]]
      /\ Excuse(Overwritten(r, last))
  BY DEF EditSave, Finish, queueVars
<1>2. Typed /\ Typed' /\ req[w] \in EditRequest
  BY <1>1 DEF Base, Typed, ReqTyped
<1>3. r \in Reminder /\ req[w].read \in Row /\ last \in Day \cup {None}
  BY <1>2 DEF EditRequest, Row
<1>4. new.last = last
  BY <1>3 DEF Row
<1>5. /\ Rows' = Rows \cup {r} /\ reminder'[r].last = last
      /\ \A x \in Rows \ {r} : reminder'[x] = reminder[x]
  BY <1>1, <1>4 DEF Rows
<1>6. pc'[w] = "idle"
  BY <1>1, <1>2, Moves DEF Typed
<1> HIDE DEF new
<1> SUFFICES ASSUME NEW m \in Message PROVE (Counted(m) /\ Known(m))'
  BY DEF Once
<1>7. \A v \in Worker : Fetched(v, m)' = Fetched(v, m) /\ Unnoted(v, m)' = Unnoted(v, m)
  <2>1. ~Fetched(w, m) /\ ~Unnoted(w, m) /\ ~Fetched(w, m)' /\ ~Unnoted(w, m)'
    BY <1>1, <1>6 DEF Fetched, Unnoted
  <2>2. \A v \in Worker \ {w} :
           Fetched(v, m)' = Fetched(v, m) /\ Unnoted(v, m)' = Unnoted(v, m)
    BY <1>1, <1>2, OthersHold
  <2>3. Fetched(w, m)' = Fetched(w, m) /\ Unnoted(w, m)' = Unnoted(w, m)
    BY <2>1 DEF Fetched, Unnoted
  <2>4. QED
    BY <2>2, <2>3
<1>8. Senders(m)' = Senders(m) /\ (Free(m)' <=> Free(m)) /\ Counted(m) /\ Known(m)
  BY <1>7 DEF Senders, Free, Holds, Once
<1>9. Known(m)'
  BY <1>1, <1>5, <1>7, <1>8 DEF Known, Holds
<1>10. CASE m[1] = r
  BY <1>1, <1>2, <1>3, <1>5, <1>8, <1>9, <1>10, Noted
<1>11. CASE m[1] # r
  <2>1. excused'[m] = excused[m]
    BY <1>1, <1>2, <1>11, Excused DEF Overwritten
  <2>2. Open(m)' => Open(m)
    BY <1>1, <1>5, <1>8, <1>11 DEF Open
  <2>3. QED
    BY <1>1, <1>2, <1>8, <1>9, <2>1, <2>2, CountKept
<1>12. QED
  BY <1>10, <1>11

LEMMA OutsideOnce ==
    ASSUME Base, Base', Once,
           \/ \E r \in Reminder, weekday \in Weekday, slot \in Slot : Create(r, weekday, slot)
           \/ \E r \in Reminder : Delete(r) \/ SetStudentActive(r)
           \/ Tick \/ LineChanges \/ UNCHANGED vars
           \/ \E m \in Message : Consume(m) \/ ListenerCallback(m)
    PROVE  Once'
<1>1. /\ UNCHANGED <<published, excused, pc, req>>
      /\ Rows \cup deleted \subseteq Rows' \cup deleted'
      /\ \A x \in Rows' : (x \in Rows /\ reminder'[x] = reminder[x]) \/ x \notin Rows \cup deleted
  <2>1. CASE \E r \in Reminder, weekday \in Weekday, slot \in Slot : Create(r, weekday, slot)
    BY <2>1 DEF Create, queueVars, Rows
  <2>2. CASE \E r \in Reminder : Delete(r)
    BY <2>2 DEF Delete, queueVars, Rows
  <2>3. CASE \E r \in Reminder : SetStudentActive(r)
    BY <2>3 DEF SetStudentActive, queueVars, Rows
  <2>4. CASE \/ Tick \/ LineChanges \/ UNCHANGED vars
             \/ \E m \in Message : Consume(m) \/ ListenerCallback(m)
    BY <2>4 DEF Tick, LineChanges, Consume, Deliver, DeliverFails, ListenerCallback, vars,
       tableVars, queueVars, Rows
  <2>5. QED
    BY <2>1, <2>2, <2>3, <2>4
<1> SUFFICES ASSUME NEW m \in Message PROVE (Counted(m) /\ Known(m))'
  BY DEF Once
<1>2. \A v \in Worker : Fetched(v, m)' = Fetched(v, m) /\ Unnoted(v, m)' = Unnoted(v, m)
  BY <1>1 DEF Fetched, Unnoted
<1>3. Senders(m)' = Senders(m) /\ (Free(m)' <=> Free(m)) /\ Counted(m) /\ Known(m)
  BY <1>2 DEF Senders, Free, Holds, Once
<1>4. Known(m)'
  BY <1>1, <1>2, <1>3 DEF Known, Holds
<1>5. Open(m)' => Open(m)
  BY <1>1, <1>3 DEF Open, Known
<1>6. QED
  BY <1>1, <1>3, <1>4, <1>5, CountKept DEF Base

LEMMA StepOnce == Base /\ Once /\ [Next]_vars => Once'
<1> SUFFICES ASSUME Base, Once, [Next]_vars PROVE Once'
  OBVIOUS
<1>1. Base'
  BY StepBase
<1>2. CASE Next
  BY <1>1, <1>2, QuietOnce, TriggerOnce, PublishOnce, MarkOnce, EditSaveOnce, OutsideOnce DEF Next
<1>3. QED
  BY <1>1, <1>2, OutsideOnce

LEMMA InitOnce == Init => Once
<1> SUFFICES ASSUME Init, NEW m \in Message PROVE Counted(m) /\ Known(m)
  BY DEF Once
<1>1. published[m] = 0 /\ excused[m] = 0 /\ \A w \in Worker : pc[w] = "idle"
  BY DEF Init
<1>2. \A w \in Worker : ~Fetched(w, m) /\ ~Unnoted(w, m)
  BY <1>1 DEF Fetched, Unnoted
<1>3. Cardinality(Senders(m)) = 0
  BY <1>2, Few DEF Senders
<1>4. QED
  BY <1>1, <1>2, <1>3 DEF Counted, Known, Open, Holds

\* process_reminders: a reminder is published once a day, whatever edits move it
\* to another slot of the day, delete it or bring it back, and at most once more
\* for every request that fetched it before another had noted the day, and for
\* every note that was lost.
THEOREM OncePerDayAlways == Spec => []OncePerDay
<1>1. Base /\ Once => OncePerDay
  <2> SUFFICES ASSUME Base, Once, NEW m \in Message PROVE published[m] <= 1 + excused[m]
    BY DEF OncePerDay
  <2>1. /\ published[m] \in Nat /\ published[m] <= MaxCopies /\ MaxCopies \in Nat \ {0}
        /\ excused[m] \in Nat /\ excused[m] <= MaxCopies - 1
    BY Numbers DEF Base
  <2>2. Cardinality(Senders(m)) \in Nat
    BY Few
  <2>3. excused[m] < MaxCopies - 1 => published[m] + Cardinality(Senders(m)) <= 1 + excused[m]
    BY DEF Once, Counted
  <2>4. QED
    BY <2>1, <2>2, <2>3
<1>2. QED
  BY <1>1, InitOnce, StepOnce, BaseAlways, PTL DEF Spec
=============================================================================
