----------------------------- MODULE StudyLogs -----------------------------
(***************************************************************************)
(* Posting study logs of one material and keeping the SM-2 progress of its *)
(* units (text_scheduler/views/study_log.py, services/progress.py), while  *)
(* the material is edited or deleted.                                      *)
(*                                                                         *)
(* A post is one transaction: each of its forms, in turn, adds a log and   *)
(* updates the progress of its unit under a row lock that is held to the   *)
(* end.  Posts lock their units in the order of their forms, so PostgreSQL *)
(* may have to break a deadlock.  What a transaction wrote is in its       *)
(* request until it commits.                                               *)
(*                                                                         *)
(* The ease factor is in hundredths (Sm2).  Dates and minutes are left out:      *)
(* next_due_at is interval_days from now, total_spent_minutes is summed    *)
(* the way sum_quality is.                                                 *)
(***************************************************************************)
EXTENDS WebServer, Sm2, Sequences, FiniteSets

CONSTANTS
    LastNumber, \* bound: numbers of units are 1 .. LastNumber
    Quality,    \* bound: the ratings given in this instance
    Required,   \* bound: the values of required_reviews in this instance
    MaxForms,   \* the forms of one post; 20 in the code
    MaxLogs     \* bound: so many logs are posted

Unrated == -1   \* no rating given, SQL NULL

ASSUME QualityAssumption == Quality \subseteq (0 .. 5) \cup {Unrated}
ASSUME NumberAssumption ==
    /\ LastNumber \in Nat \ {0} /\ MaxForms \in Nat \ {0} /\ MaxLogs \in Nat
    /\ Required \subseteq 1 .. 25

VARIABLES
    material,  \* the LearningMaterial row, or Deleted
    progress,  \* StudentUnitProgress: a function on the numbers that have a row
    logs,      \* StudyLog, in the order of the commits
    pc,        \* where each worker is
    req        \* the local variables of its request

tableVars == <<material, progress, logs>>
vars      == <<tableVars, pc, req>>

Number == 1 .. LastNumber

Deleted  == [start |-> 0, end |-> 0, required |-> 0]
Valid(m) == m.start <= m.end
Material == {m \in [start : Number, end : Number, required : Required] : Valid(m)}
InRange(n, m) == n >= m.start /\ n <= m.end

Form == [number : Number, quality : Quality]

\* A log, and (for the properties) the required_reviews its post went by.
Log == [number : Number, quality : Quality, required : Required]

UnitProgress == [ ease_factor      : {ef \in Nat : ef >= MIN_EF},
                  interval_days    : Nat,
                  repetition_count : Nat,
                  last_quality     : (0 .. 5) \cup {Unrated},
                  total_reviews    : Nat,
                  sum_quality      : Nat,
                  status           : {"new", "learning", "reviewing", "mastered"} ]

NewProgress == [ ease_factor |-> 250, interval_days |-> 0, repetition_count |-> 0,
                 last_quality |-> Unrated, total_reviews |-> 0, sum_quality |-> 0,
                 status |-> "new" ]

-----------------------------------------------------------------------------
(* A unit's row *)

Rated(quality) == IF quality = Unrated THEN 3 ELSE quality

Status(repetition, required) ==
    CASE repetition <= 1 -> "learning"
      [] repetition > 1 /\ repetition >= required -> "mastered"
      [] OTHER -> "reviewing"

\* The row after apply_study_log, given the row before.
Applied(p, log) ==
    LET q    == Rated(log.quality)
        next == Sm2Next(p, q)
    IN  [ ease_factor      |-> next.ef,
          interval_days    |-> next.interval,
          repetition_count |-> next.repetition,
          last_quality     |-> q,
          total_reviews    |-> p.total_reviews + 1,
          sum_quality      |-> p.sum_quality + q,
          status           |-> Status(next.repetition, log.required) ]

-----------------------------------------------------------------------------
NoRequest == [idle |-> TRUE]

Goto(w, where, r) ==
    /\ pc' = [pc EXCEPT ![w] = where]
    /\ req' = [req EXCEPT ![w] = r]

Finish(w) == Goto(w, "idle", NoRequest)

Busy(w) == pc[w] # "idle"

\* The units whose rows w has locked or inserted.
Held(w) == IF Busy(w) THEN DOMAIN req[w].mine ELSE {}

Next1(w) == Head(req[w].todo)     \* the form w is at

WaitsFor(w, v) ==
    /\ v # w /\ Busy(w) /\ req[w].todo # <<>>
    /\ Next1(w).number \in Held(v) \ Held(w)

Waits(w) == \E v \in Worker : WaitsFor(w, v)

Init ==
    /\ material \in {m \in Material : m.start = 1 /\ m.end = LastNumber}
    /\ progress = [n \in {} |-> NewProgress]
    /\ logs = <<>>
    /\ pc = [w \in Worker |-> "idle"]
    /\ req = [w \in Worker |-> NoRequest]

\* StudyLogCreateView (one form) or StudyLogBulkCreateView: the material is
\* read in dispatch, and the forms are valid by it.  Invalid ones change nothing.
Post(w, forms) ==
    /\ ~Busy(w)
    /\ material # Deleted
    /\ \A k \in DOMAIN forms : InRange(forms[k].number, material)
    /\ Len(logs) + Len(forms) <= MaxLogs
    /\ Goto(w, "apply", [material |-> material, todo |-> forms, logs |-> <<>>,
                         mine |-> [n \in {} |-> NewProgress]])
    /\ UNCHANGED tableVars

\* The form's log is saved and its unit's row, which was p, rewritten.
Apply(w, p) ==
    LET r   == req[w]
        n   == Next1(w).number
        log == [number   |-> n,
                quality  |-> Next1(w).quality,
                required |-> r.material.required]
        row == Applied(p, log)
    IN  Goto(w, "apply",
             [r EXCEPT !.todo = Tail(r.todo),
                       !.logs = Append(r.logs, log),
                       !.mine = [x \in DOMAIN r.mine \cup {n} |->
                                   IF x = n THEN row ELSE r.mine[x]]])

\* mutant (CacheOfLogs): get_or_create without select_for_update.
UpdateUnitUnlocked(w) ==
    /\ Busy(w) /\ req[w].todo # <<>>
    /\ LET n == Next1(w).number IN
       /\ n \in DOMAIN progress \cup Held(w)
       /\ InRange(n, material)
       /\ Apply(w, IF n \in Held(w) THEN req[w].mine[n] ELSE progress[n])
    /\ UNCHANGED tableVars

\* The unit has a row: it is locked and read.  full_clean reads the material
\* again, through the row, and goes by its present range.
UpdateUnit(w) ==
    /\ Busy(w) /\ req[w].todo # <<>> /\ ~Waits(w)
    /\ LET n == Next1(w).number IN
       /\ n \in DOMAIN progress \cup Held(w)
       /\ InRange(n, material)
       /\ Apply(w, IF n \in Held(w) THEN req[w].mine[n] ELSE progress[n])
    /\ UNCHANGED tableVars

\* The unit has none: it is inserted, once no other transaction is inserting
\* it, and full_clean goes by the material that was read in dispatch.
CreateUnit(w) ==
    /\ Busy(w) /\ req[w].todo # <<>> /\ ~Waits(w)
    /\ Next1(w).number \notin DOMAIN progress \cup Held(w)
    /\ Apply(w, NewProgress)
    /\ UNCHANGED tableVars

\* mutant (RequestsEnd): a refused post is tried again.
RefusedRetry(w) ==
    /\ Busy(w) /\ req[w].todo # <<>> /\ ~Waits(w)
    /\ Next1(w).number \in DOMAIN progress \cup Held(w)
    /\ ~InRange(Next1(w).number, material)
    /\ Goto(w, "apply", [req[w] EXCEPT !.todo = <<Next1(w)>>])
    /\ UNCHANGED tableVars

\* full_clean raises: the range was moved, or the material deleted, after
\* dispatch.  The whole post is rolled back.
Refused(w) ==
    /\ Busy(w) /\ req[w].todo # <<>> /\ ~Waits(w)
    /\ Next1(w).number \in DOMAIN progress \cup Held(w)
    /\ ~InRange(Next1(w).number, material)
    /\ Finish(w)
    /\ UNCHANGED tableVars

\* The foreign keys are checked when the transaction commits.
Commit(w) ==
    /\ Busy(w) /\ req[w].todo = <<>>
    /\ IF material # Deleted
       THEN /\ logs' = logs \o req[w].logs
            /\ progress' = [n \in DOMAIN progress \cup Held(w) |->
                              IF n \in Held(w) THEN req[w].mine[n] ELSE progress[n]]
       ELSE UNCHANGED <<logs, progress>>
    /\ Finish(w)
    /\ UNCHANGED material

\* Every worker of a set waits for another one of it; one is rolled back.
BreakDeadlock(w) ==
    /\ \E cycle \in SUBSET Worker :
          w \in cycle /\ \A u \in cycle : \E v \in cycle : WaitsFor(u, v)
    /\ Finish(w)
    /\ UNCHANGED tableVars

Crash(w) ==
    /\ Busy(w)
    /\ Finish(w)
    /\ UNCHANGED tableVars

\* LearningMaterialUpdateView: any range and number of reviews, whatever was
\* learned before.  The columns of the form are all that matters here.
EditMaterial(m) ==
    /\ material # Deleted
    /\ material' = m
    /\ UNCHANGED <<progress, logs, pc, req>>

\* LearningMaterialDeleteView: waits for locked rows, then everything goes.
DeleteMaterial ==
    /\ material # Deleted
    /\ \A w \in Worker : Held(w) \cap DOMAIN progress = {}
    /\ material' = Deleted
    /\ progress' = [n \in {} |-> NewProgress]
    /\ logs' = <<>>
    /\ UNCHANGED <<pc, req>>

Step(w) ==
    \/ UpdateUnit(w)
    \/ CreateUnit(w)
    \/ Refused(w)
    \/ Commit(w)
    \/ BreakDeadlock(w)

Next ==
    \/ \E w \in Worker :
          \/ \E k \in 1 .. MaxForms : \E forms \in [1 .. k -> Form] : Post(w, forms)
          \/ Step(w)
          \/ Crash(w)
    \/ \E m \in Material : EditMaterial(m)
    \/ DeleteMaterial

Spec == Init /\ [][Next]_vars

\* A post is executed; PostgreSQL queues whoever waits for a row.
FairSpec == Spec /\ \A w \in Worker : SF_vars(Step(w))

-----------------------------------------------------------------------------
(* Properties *)

\* The row of unit n, which was p, after the logs s.
Replay(p, s, n) ==
    LET row[k \in 0 .. Len(s)] ==
          IF k = 0 THEN p
          ELSE IF s[k].number = n THEN Applied(row[k - 1], s[k]) ELSE row[k - 1]
    IN  row[Len(s)]

TypeOK ==
    /\ material \in Material \cup {Deleted}
    /\ DOMAIN progress \subseteq Number
    /\ progress \in [DOMAIN progress -> UnitProgress]
    /\ logs \in Seq(Log)
    /\ pc \in [Worker -> {"idle", "apply"}]
    /\ DOMAIN req = Worker
    /\ \A w \in Worker :
          IF Busy(w)
          THEN /\ DOMAIN req[w] = {"material", "todo", "logs", "mine"}
               /\ req[w].material \in Material
               /\ req[w].todo \in Seq(Form) /\ req[w].logs \in Seq(Log)
               /\ DOMAIN req[w].mine \subseteq Number
               /\ req[w].mine \in [DOMAIN req[w].mine -> UnitProgress]
          ELSE req[w] = NoRequest

\* The progress of a unit is what its logs, replayed from nothing, come to: no
\* log is lost, counted twice or kept without its effect, whatever posts
\* overlap, deadlock or are refused half way ("the progress is a derived
\* cache", "can be recomputed from the logs").
CacheOfLogs ==
    \A n \in Number :
        IF \E k \in DOMAIN logs : logs[k].number = n
        THEN n \in DOMAIN progress /\ progress[n] = Replay(NewProgress, logs, n)
        ELSE n \notin DOMAIN progress

\* The logs of unit n after which none is a failure: the last failure, which
\* counts as a first repetition, and all that follow; all if none failed.
LastRun(n) ==
    {k \in DOMAIN logs :
        /\ logs[k].number = n
        /\ \A j \in k + 1 .. Len(logs) : logs[j].number = n => Rated(logs[j].quality) >= 3}

\* The repetition count is the length of the last run of logs without a
\* failure after its first, so "mastered" takes required_reviews of them.
StreakCounted ==
    \A n \in DOMAIN progress : progress[n].repetition_count = Cardinality(LastRun(n))

\* Every post is answered, whatever order its forms lock the units in.
RequestsEnd == \A w \in Worker : Busy(w) ~> ~Busy(w)
=============================================================================
