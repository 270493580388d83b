----------------------- MODULE PracticeRecords_proofs -----------------------
(***************************************************************************)
(* Proofs about what a student's practice leaves in the tables, for any    *)
(* number of workers, students and items: the study logs (StudyLogs), the  *)
(* answers to vocabulary and chemistry quizzes (TrainerQuizzes) and the    *)
(* marks of mathematics (MathSessions).  They share no table; each has a   *)
(* part of its own, about what two workers do to the same rows.            *)
(***************************************************************************)
EXTENDS StudyLogs, TrainerQuizzes, MathSessions, FiniteSetTheorems, TLAPS

-----------------------------------------------------------------------------
(* Study logs: the types, that the progress rows are what the logs replayed *)
(* come to, and that the repetition count is the length of the last run of  *)
(* logs without a failure.  Replay is a recursive function; that it exists  *)
(* and is unique is shown with the least number at which either would fail. *)

Below == {ss \in Nat \X Nat : ss[1] < ss[2]}

\* A set of numbers that is not empty has a least one.
LEMMA Least ==
    ASSUME NEW S \in SUBSET Nat, S # {}
    PROVE  \E m \in S : \A k \in S : m <= k
<1>1. IsWellFoundedOn(Below, Nat)
  BY NatLessThanWellFounded DEF OpToRel, Below
<1>2. \E m \in S : \A k \in S : ~ (<<k, m>> \in Below)
  BY <1>1, WFMin
<1>3. PICK m \in S : \A k \in S : ~ (<<k, m>> \in Below)
  BY <1>2
<1>4. ASSUME NEW k \in S PROVE m <= k
  <2>1. k \in Nat /\ m \in Nat /\ ~ (<<k, m>> \in Below)
    BY <1>3
  <2>2. ~ (k < m)
    BY <2>1 DEF Below
  <2>3. QED
    BY <2>1, <2>2
<1>5. QED
  BY <1>4

-----------------------------------------------------------------------------
(* Replay                                                                   *)

\* The row after one more log of the material, which may be another unit's.
Advanced(p, log, n) == IF log.number = n THEN Applied(p, log) ELSE p

\* g holds unit n's rows after each of the first k logs of s.
RowsOf(g, k, p, s, n) ==
    /\ g[0] = p
    /\ \A j \in 1 .. k : g[j] = Advanced(g[j - 1], s[j], n)

\* There is one way only to continue from a row.
LEMMA RowsAgree ==
    ASSUME NEW K \in Nat, NEW p, NEW s, NEW n, NEW g, NEW h,
           RowsOf(g, K, p, s, n), RowsOf(h, K, p, s, n)
    PROVE  \A k \in 0 .. K : g[k] = h[k]
<1> DEFINE T == {k \in 0 .. K : g[k] # h[k]}
<1> SUFFICES ASSUME T # {} PROVE FALSE
  OBVIOUS
<1>0. T \in SUBSET Nat
  OBVIOUS
<1>1. PICK m \in T : \A k \in T : m <= k
  <2> HIDE DEF T
  <2> QED
    BY <1>0, Least
<1>2. m # 0
  BY DEF RowsOf
<1>3. m \in 1 .. K /\ m - 1 \in 0 .. K /\ m - 1 \notin T
  BY <1>1, <1>2
<1>4. g[m - 1] = h[m - 1]
  BY <1>3
<1>5. g[m] = Advanced(g[m - 1], s[m], n) /\ h[m] = Advanced(h[m - 1], s[m], n)
  BY <1>3 DEF RowsOf
<1> QED
  BY <1>4, <1>5

\* The function that Replay computes with, at every prefix of the logs.
Table(f, k, p, s, n) ==
    f = [j \in 0 .. k |-> IF j = 0 THEN p
                          ELSE IF s[j].number = n THEN Applied(f[j - 1], s[j]) ELSE f[j - 1]]

LEMMA TableExists ==
    ASSUME NEW K \in Nat, NEW p, NEW s, NEW n
    PROVE  \E f : Table(f, K, p, s, n)
<1> DEFINE T == {k \in Nat : ~ \E f : Table(f, k, p, s, n)}
<1> SUFFICES ASSUME T # {} PROVE FALSE
  OBVIOUS
<1>1. PICK m \in T : \A k \in T : m <= k
  BY Least
<1>2. ASSUME m = 0 PROVE FALSE
  <2>1. Table([j \in 0 .. 0 |-> p], 0, p, s, n)
    BY DEF Table
  <2> QED
    BY <1>2, <2>1
<1>3. m - 1 \in Nat /\ m - 1 \notin T
  BY <1>1, <1>2
<1>4. PICK f : Table(f, m - 1, p, s, n)
  BY <1>3
<1> DEFINE g == [j \in 0 .. m |-> IF j = m THEN Advanced(f[m - 1], s[m], n) ELSE f[j]]
<1>5. Table(g, m, p, s, n)
  <2>1. \A j \in 0 .. m - 1 : g[j] = f[j]
    BY <1>3
  <2>2. g[m] = Advanced(f[m - 1], s[m], n)
    OBVIOUS
  <2>3. \A j \in 0 .. m - 1 :
           f[j] = IF j = 0 THEN p
                  ELSE IF s[j].number = n THEN Applied(f[j - 1], s[j]) ELSE f[j - 1]
    BY <1>4 DEF Table
  <2>4. ASSUME NEW j \in 0 .. m
        PROVE  g[j] = IF j = 0 THEN p
                      ELSE IF s[j].number = n THEN Applied(g[j - 1], s[j]) ELSE g[j - 1]
    <3>1. CASE j = m
      BY <3>1, <1>2, <1>3, <2>1, <2>2 DEF Advanced
    <3>2. CASE j # m
      <4>1. j \in 0 .. m - 1 /\ (j # 0 => j - 1 \in 0 .. m - 1)
        BY <3>2, <1>3
      <4> HIDE DEF g
      <4> QED
        BY <4>1, <2>1, <2>3
    <3> QED
      BY <3>1, <3>2
  <2>5. g = [j \in 0 .. m |-> g[j]]
    OBVIOUS
  <2> HIDE DEF g
  <2> QED
    BY <2>4, <2>5 DEF Table
<1> QED
  BY <1>5

\* Replay is the last of the rows.
LEMMA ReplayIsLast ==
    ASSUME NEW p, NEW s, Len(s) \in Nat, NEW n
    PROVE  \E g : RowsOf(g, Len(s), p, s, n) /\ Replay(p, s, n) = g[Len(s)]
<1> DEFINE row == CHOOSE f : Table(f, Len(s), p, s, n)
<1>1. Table(row, Len(s), p, s, n)
  BY TableExists
<1>2. Replay(p, s, n) = row[Len(s)]
  BY DEF Replay, Table
<1>3. RowsOf(row, Len(s), p, s, n)
  <2> HIDE DEF row
  <2>1. \A j \in 0 .. Len(s) :
           row[j] = IF j = 0 THEN p
                    ELSE IF s[j].number = n THEN Applied(row[j - 1], s[j]) ELSE row[j - 1]
    BY <1>1 DEF Table
  <2> QED
    BY <2>1 DEF RowsOf, Advanced
<1> QED
  BY <1>2, <1>3

\* One more log is one more row.
LEMMA ReplayAppend ==
    ASSUME NEW S, NEW s \in Seq(S), NEW log \in S, NEW p, NEW n
    PROVE  Replay(p, Append(s, log), n) = Advanced(Replay(p, s, n), log, n)
<1> DEFINE t == Append(s, log)
<1>1. /\ Len(s) \in Nat /\ Len(t) = Len(s) + 1
      /\ \A j \in 1 .. Len(s) : t[j] = s[j]
      /\ t[Len(s) + 1] = log
  OBVIOUS
<1> HIDE DEF t
<1>2. PICK g : RowsOf(g, Len(t), p, t, n) /\ Replay(p, t, n) = g[Len(t)]
  <2>1. Len(t) \in Nat
    BY <1>1
  <2> QED
    BY <2>1, ReplayIsLast
<1>3. PICK h : RowsOf(h, Len(s), p, s, n) /\ Replay(p, s, n) = h[Len(s)]
  BY <1>1, ReplayIsLast
<1>4. RowsOf(g, Len(s), p, s, n)
  BY <1>1, <1>2 DEF RowsOf
<1>5. g[Len(s)] = h[Len(s)]
  <2>1. \A k \in 0 .. Len(s) : g[k] = h[k]
    BY <1>1, <1>3, <1>4, RowsAgree
  <2> QED
    BY <2>1, <1>1
<1>6. g[Len(s) + 1] = Advanced(g[Len(s)], t[Len(s) + 1], n)
  <2>1. Len(s) + 1 \in 1 .. Len(t) /\ Len(s) + 1 - 1 = Len(s)
    BY <1>1
  <2> QED
    BY <2>1, <1>2 DEF RowsOf
<1> QED
  BY <1>1, <1>2, <1>3, <1>5, <1>6 DEF t

\* The logs of another transaction are replayed from where the first ones end.
LEMMA ReplayConcat ==
    ASSUME NEW S, NEW s \in Seq(S), NEW t \in Seq(S), NEW p, NEW n
    PROVE  Replay(p, s \o t, n) = Replay(Replay(p, s, n), t, n)
<1> DEFINE u == s \o t
           a == Len(s)
           b == Len(t)
<1>1. /\ a \in Nat /\ b \in Nat /\ Len(u) = a + b
      /\ \A j \in 1 .. a : u[j] = s[j]
      /\ \A j \in 1 .. b : u[a + j] = t[j]
  OBVIOUS
<1> HIDE DEF u, a, b
<1>2. PICK g : RowsOf(g, a + b, p, u, n) /\ Replay(p, u, n) = g[a + b]
  <2>1. Len(u) = a + b /\ Len(u) \in Nat
    BY <1>1
  <2>2. \E g : RowsOf(g, Len(u), p, u, n) /\ Replay(p, u, n) = g[Len(u)]
    BY ONLY <2>1, ReplayIsLast
  <2> QED
    BY ONLY <2>1, <2>2
<1>3. PICK h : RowsOf(h, a, p, s, n) /\ Replay(p, s, n) = h[a]
  BY <1>1, ReplayIsLast DEF a
<1>4. g[a] = h[a]
  <2>1. RowsOf(g, a, p, s, n)
    BY <1>1, <1>2 DEF RowsOf
  <2>2. \A k \in 0 .. a : g[k] = h[k]
    BY <1>1, <1>3, <2>1, RowsAgree
  <2> QED
    BY <2>2, <1>1
<1>5. PICK f : RowsOf(f, b, h[a], t, n) /\ Replay(h[a], t, n) = f[b]
  BY <1>1, ReplayIsLast DEF b
<1> DEFINE c == [j \in 0 .. b |-> g[a + j]]
<1>6. RowsOf(c, b, h[a], t, n)
  <2>1. c[0] = h[a]
    BY <1>1, <1>4
  <2>2. ASSUME NEW j \in 1 .. b PROVE c[j] = Advanced(c[j - 1], t[j], n)
    <3>1. PICK i \in 1 .. a + b : i = a + j /\ i - 1 = a + (j - 1)
      BY <1>1
    <3>2. g[i] = Advanced(g[i - 1], u[i], n)
      BY <1>2 DEF RowsOf
    <3>3. u[i] = t[j]
      BY <1>1, <3>1
    <3>4. c[j] = g[i] /\ c[j - 1] = g[i - 1]
      BY <3>1, <1>1
    <3> HIDE DEF c
    <3> QED
      BY <3>2, <3>3, <3>4
  <2> QED
    BY <2>1, <2>2 DEF RowsOf
<1>7. c[b] = f[b]
  <2> HIDE DEF c
  <2>1. \A k \in 0 .. b : c[k] = f[k]
    BY <1>1, <1>5, <1>6, RowsAgree
  <2> QED
    BY <2>1, <1>1
<1>8. c[b] = g[a + b]
  BY <1>1
<1> HIDE DEF c
<1> QED
  BY <1>2, <1>3, <1>5, <1>7, <1>8 DEF u

\* The logs of other units change nothing.
LEMMA ReplayOfOthers ==
    ASSUME NEW s, Len(s) \in Nat, NEW p, NEW n,
           \A k \in 1 .. Len(s) : s[k].number # n
    PROVE  Replay(p, s, n) = p
<1>1. PICK g : RowsOf(g, Len(s), p, s, n) /\ Replay(p, s, n) = g[Len(s)]
  BY ReplayIsLast
<1> DEFINE h == [j \in 0 .. Len(s) |-> p]
<1>2. RowsOf(h, Len(s), p, s, n)
  BY DEF RowsOf, Advanced
<1>3. h[Len(s)] = p
  OBVIOUS
<1> HIDE DEF h
<1>4. \A k \in 0 .. Len(s) : g[k] = h[k]
  BY <1>1, <1>2, RowsAgree
<1> QED
  BY <1>1, <1>3, <1>4

-----------------------------------------------------------------------------
(* Types                                                                    *)

LEMMA RoundType == ASSUME NEW x \in Nat PROVE Round(x) \in Nat
<1>1. x \div 100 \in Nat /\ x % 100 \in Nat
  OBVIOUS
<1> QED
  BY <1>1 DEF Round

LEMMA AppliedType ==
    ASSUME NEW p \in UnitProgress, NEW log \in Log
    PROVE  Applied(p, log) \in UnitProgress
<1> DEFINE q == Rated(log.quality)
           ef == AtLeastMin(EasedBy(p.ease_factor, q))
           next == Sm2Next(p, q)
<1>1. q \in 0 .. 5
  <2>1. log.quality \in Quality
    BY DEF Log
  <2>2. log.quality \in 0 .. 5 \/ log.quality = Unrated
    BY <2>1, QualityAssumption
  <2> QED
    BY <2>2 DEF Rated
<1>2. ef \in Nat /\ ef >= MIN_EF
  BY <1>1 DEF UnitProgress, AtLeastMin, EasedBy, MIN_EF
<1>3. p.interval_days * ef \in Nat
  BY <1>2 DEF UnitProgress
<1>4. next.ef = ef /\ next.interval \in Nat /\ next.repetition \in Nat
  <2>1. p.repetition_count \in Nat
    BY DEF UnitProgress
  <2>2. CASE q < 3
    BY <2>2, <1>2 DEF Sm2Next
  <2>3. CASE ~ (q < 3)
    <3> HIDE DEF q
    <3>1. Round(p.interval_days * AtLeastMin(EasedBy(p.ease_factor, q))) \in Nat
      BY <1>3, RoundType
    <3> QED
      BY <2>1, <2>3, <3>1 DEF Sm2Next
  <2> QED
    BY <2>2, <2>3
<1>5. Status(next.repetition, log.required) \in {"new", "learning", "reviewing", "mastered"}
  BY DEF Status
<1>6. p.total_reviews + 1 \in Nat /\ p.sum_quality + q \in Nat
  BY <1>1 DEF UnitProgress
<1> HIDE DEF q, ef
<1> QED
  BY <1>1, <1>2, <1>4, <1>5, <1>6 DEF Applied, UnitProgress, q

LEMMA NewType == NewProgress \in UnitProgress
BY DEF NewProgress, UnitProgress, MIN_EF, Unrated

-----------------------------------------------------------------------------
(* The steps of a request                                                   *)

\* A request's local variables.
RequestOK(r) ==
    /\ DOMAIN r = {"material", "todo", "logs", "mine"}
    /\ r.material \in Material
    /\ r.todo \in Seq(Form) /\ r.logs \in Seq(Log)
    /\ DOMAIN r.mine \subseteq Number
    /\ r.mine \in [DOMAIN r.mine -> UnitProgress]

\* The row that the form w is at starts from.
Before(n) == IF n \in DOMAIN progress THEN progress[n] ELSE NewProgress

RowNow(w, n) == IF n \in Held(w) THEN req[w].mine[n] ELSE Before(n)

LEMMA RowNowType ==
    ASSUME TypeOK, NEW w \in Worker, NEW n
    PROVE  RowNow(w, n) \in UnitProgress
BY NewType DEF TypeOK, RowNow, Before, Held

LEMMA UpdateApplies ==
    ASSUME NEW w \in Worker, UpdateUnit(w) \/ CreateUnit(w)
    PROVE  Apply(w, RowNow(w, Next1(w).number))
BY DEF UpdateUnit, CreateUnit, RowNow, Before

\* What Apply writes: a log at the end and the row of its unit.
LEMMA ApplyWrites ==
    ASSUME TypeOK, NEW w \in Worker, Busy(w), req[w].todo # <<>>,
           NEW p \in UnitProgress, Apply(w, p)
    PROVE  /\ pc' = pc
           /\ \A v \in Worker \ {w} : req'[v] = req[v]
           /\ RequestOK(req'[w])
           /\ \E log \in Log :
                 /\ log.number = Next1(w).number
                 /\ req'[w].logs = Append(req[w].logs, log)
                 /\ req'[w].mine = [x \in DOMAIN req[w].mine \cup {log.number} |->
                                      IF x = log.number THEN Applied(p, log)
                                      ELSE req[w].mine[x]]
<1> DEFINE form == Next1(w)
<1>1. form \in Form /\ Tail(req[w].todo) \in Seq(Form)
  BY DEF TypeOK, Next1
<1>2. RequestOK(req[w])
  BY DEF TypeOK, RequestOK
<1> DEFINE log == [number |-> form.number, quality |-> form.quality,
                   required |-> req[w].material.required]
<1>3. log \in Log
  BY <1>1, <1>2 DEF RequestOK, Material, Form, Log
<1>4. Applied(p, log) \in UnitProgress
  BY <1>3, AppliedType
<1>5. Append(req[w].logs, log) \in Seq(Log)
  BY <1>2, <1>3 DEF RequestOK
<1> DEFINE mine == [x \in DOMAIN req[w].mine \cup {form.number} |->
                      IF x = form.number THEN Applied(p, log) ELSE req[w].mine[x]]
<1>6. DOMAIN mine \subseteq Number /\ mine \in [DOMAIN mine -> UnitProgress]
  <2> HIDE DEF log
  <2>1. DOMAIN mine = DOMAIN req[w].mine \cup {form.number}
    OBVIOUS
  <2>2. form.number \in Number
    BY <1>1 DEF Form
  <2> QED
    BY <1>2, <1>4, <2>1, <2>2 DEF RequestOK
<1>7. Goto(w, "apply", [req[w] EXCEPT !.todo = Tail(req[w].todo),
                                      !.logs = Append(req[w].logs, log),
                                      !.mine = mine])
  BY DEF Apply
<1> HIDE DEF log, mine
<1>8. /\ pc' = [pc EXCEPT ![w] = "apply"]
      /\ req' = [req EXCEPT ![w] = [req[w] EXCEPT !.todo = Tail(req[w].todo),
                                                  !.logs = Append(req[w].logs, log),
                                                  !.mine = mine]]
  BY <1>7 DEF Goto
<1>9. w \in DOMAIN req /\ w \in DOMAIN pc /\ pc[w] = "apply"
  BY DEF TypeOK, Busy
<1>10. pc' = pc
  BY <1>8, <1>9 DEF TypeOK
<1>11. req'[w] = [req[w] EXCEPT !.todo = Tail(req[w].todo),
                               !.logs = Append(req[w].logs, log),
                               !.mine = mine]
  BY <1>8, <1>9
<1>12. /\ DOMAIN req'[w] = {"material", "todo", "logs", "mine"}
       /\ req'[w].material = req[w].material
       /\ req'[w].todo = Tail(req[w].todo)
       /\ req'[w].logs = Append(req[w].logs, log)
       /\ req'[w].mine = mine
  BY <1>11, <1>2 DEF RequestOK
<1>13. RequestOK(req'[w])
  BY <1>1, <1>2, <1>5, <1>6, <1>12 DEF RequestOK
<1>14. log.number = form.number
  BY DEF log
<1>15. mine = [x \in DOMAIN req[w].mine \cup {log.number} |->
                 IF x = log.number THEN Applied(p, log) ELSE req[w].mine[x]]
  BY <1>14 DEF mine
<1>16. \A v \in Worker \ {w} : req'[v] = req[v]
  BY <1>8 DEF TypeOK
<1> QED
  BY <1>3, <1>10, <1>12, <1>13, <1>14, <1>15, <1>16

\* What any step that ends a request leaves of it.
LEMMA FinishWrites ==
    ASSUME TypeOK, NEW w \in Worker, Finish(w)
    PROVE  /\ ~Busy(w)' /\ req'[w] = NoRequest
           /\ pc' \in [Worker -> {"idle", "apply"}] /\ DOMAIN req' = Worker
           /\ \A v \in Worker \ {w} : pc'[v] = pc[v] /\ req'[v] = req[v]
BY DEF TypeOK, Finish, Goto, Busy

LEMMA TypeInit == Init => TypeOK
<1> SUFFICES ASSUME Init PROVE TypeOK
  OBVIOUS
<1> QED
  BY DEF Init, TypeOK, Busy

LEMMA TypeNext == TypeOK /\ [Next]_vars => TypeOK'
<1> SUFFICES ASSUME TypeOK, [Next]_vars PROVE TypeOK'
  OBVIOUS
<1>1. CASE UNCHANGED vars
  BY <1>1 DEF vars, tableVars, TypeOK, Busy
<1>2. ASSUME NEW w \in Worker, NEW k \in 1 .. MaxForms, NEW forms \in [1 .. k -> Form],
             Post(w, forms)
      PROVE  TypeOK'
  <2> DEFINE r == [material |-> material, todo |-> forms, logs |-> <<>>,
                   mine |-> [n \in {} |-> NewProgress]]
  <2>1. pc' = [pc EXCEPT ![w] = "apply"] /\ req' = [req EXCEPT ![w] = r] /\ UNCHANGED tableVars
    BY <1>2 DEF Post, Goto
  <2>2. RequestOK(r)
    <3>1. k \in Nat /\ forms \in Seq(Form)
      BY NumberAssumption
    <3>2. material \in Material
      BY <1>2 DEF Post, TypeOK
    <3> QED
      BY <3>1, <3>2 DEF RequestOK
  <2> HIDE DEF r
  <2> QED
    BY <2>1, <2>2 DEF TypeOK, RequestOK, tableVars, Busy
<1>3. ASSUME NEW w \in Worker, UpdateUnit(w) \/ CreateUnit(w)
      PROVE  TypeOK'
  <2>1. Busy(w) /\ req[w].todo # <<>> /\ UNCHANGED tableVars
    BY <1>3 DEF UpdateUnit, CreateUnit
  <2>2. RowNow(w, Next1(w).number) \in UnitProgress
    BY RowNowType
  <2>3. Apply(w, RowNow(w, Next1(w).number))
    BY <1>3, UpdateApplies
  <2>4. /\ pc' = pc
        /\ \A v \in Worker \ {w} : req'[v] = req[v]
        /\ RequestOK(req'[w])
    BY <2>1, <2>2, <2>3, ApplyWrites
  <2>5. DOMAIN req' = Worker
    BY <2>3 DEF Apply, Goto, TypeOK
  <2> QED
    BY <2>1, <2>4, <2>5 DEF TypeOK, RequestOK, tableVars, Busy
<1>4. ASSUME NEW w \in Worker, Finish(w), UNCHANGED tableVars
      PROVE  TypeOK'
  BY <1>4, FinishWrites DEF TypeOK, tableVars, Busy
<1>5. ASSUME NEW w \in Worker, Commit(w)
      PROVE  TypeOK'
  <2>1. Finish(w) /\ UNCHANGED material
    BY <1>5 DEF Commit
  <2>2. logs' \in Seq(Log)
    <3>1. logs \in Seq(Log) /\ req[w].logs \in Seq(Log)
      BY <1>5 DEF Commit, TypeOK
    <3>2. logs \o req[w].logs \in Seq(Log)
      BY <3>1
    <3> QED
      BY <1>5, <3>1, <3>2 DEF Commit
  <2>3. DOMAIN progress' \subseteq Number /\ progress' \in [DOMAIN progress' -> UnitProgress]
    <3>1. CASE material = Deleted
      BY <1>5, <3>1 DEF Commit, TypeOK
    <3>2. CASE material # Deleted
      <4>1. Held(w) \subseteq Number /\ \A n \in Held(w) : req[w].mine[n] \in UnitProgress
        BY <1>5 DEF Commit, TypeOK, Held
      <4>2. progress' = [n \in DOMAIN progress \cup Held(w) |->
                           IF n \in Held(w) THEN req[w].mine[n] ELSE progress[n]]
        BY <1>5, <3>2 DEF Commit
      <4> QED
        BY <4>1, <4>2 DEF TypeOK
    <3> QED
      BY <3>1, <3>2
  <2> QED
    BY <2>1, <2>2, <2>3, FinishWrites DEF TypeOK, Busy
<1>6. ASSUME NEW m \in Material, EditMaterial(m)
      PROVE  TypeOK'
  BY <1>6 DEF EditMaterial, TypeOK, Busy
<1>7. CASE DeleteMaterial
  BY <1>7 DEF DeleteMaterial, TypeOK, Busy
<1> QED
  BY <1>1, <1>2, <1>3, <1>4, <1>5, <1>6, <1>7
  DEF Next, Step, Refused, BreakDeadlock, Crash

\* All tables and requests of the study logs have their types.
THEOREM LogTypes == Spec => []TypeOK
BY TypeInit, TypeNext, PTL DEF Spec

-----------------------------------------------------------------------------
(* The inductive invariant: no two requests hold a row, and what a request  *)
(* holds is its own logs replayed on the rows as they are, since nobody     *)
(* else can write, insert or delete those.                                  *)

HeldApart == \A v, w \in Worker : v # w => Held(v) \cap Held(w) = {}

MineOfLogs ==
    \A w \in Worker : Busy(w) =>
        \A n \in Number :
            IF \E k \in DOMAIN req[w].logs : req[w].logs[k].number = n
            THEN /\ n \in DOMAIN req[w].mine
                 /\ req[w].mine[n] = Replay(Before(n), req[w].logs, n)
            ELSE n \notin DOMAIN req[w].mine

CacheInv == HeldApart /\ MineOfLogs /\ CacheOfLogs

LEMMA CacheInit == Init => CacheInv
<1> SUFFICES ASSUME Init PROVE CacheInv
  OBVIOUS
<1> QED
  BY DEF Init, CacheInv, HeldApart, MineOfLogs, CacheOfLogs, Held, Busy

\* A form applied: its log and its row go together.
LEMMA ApplyCache ==
    ASSUME TypeOK, CacheInv, NEW w \in Worker, UpdateUnit(w) \/ CreateUnit(w)
    PROVE  CacheInv'
<1>1. /\ Busy(w) /\ req[w].todo # <<>> /\ ~Waits(w)
      /\ material' = material /\ progress' = progress /\ logs' = logs
  BY DEF UpdateUnit, CreateUnit, tableVars
<1> DEFINE n == Next1(w).number
<1>2. RowNow(w, n) \in UnitProgress
  BY RowNowType
<1>3. Apply(w, RowNow(w, n))
  BY UpdateApplies
<1>4. /\ pc' = pc
      /\ \A v \in Worker \ {w} : req'[v] = req[v]
  BY <1>1, <1>2, <1>3, ApplyWrites
<1>5. PICK log \in Log :
         /\ log.number = n
         /\ req'[w].logs = Append(req[w].logs, log)
         /\ req'[w].mine = [x \in DOMAIN req[w].mine \cup {log.number} |->
                              IF x = log.number THEN Applied(RowNow(w, n), log)
                              ELSE req[w].mine[x]]
  BY <1>1, <1>2, <1>3, ApplyWrites
<1>6. \A v \in Worker \ {w} : Held(v)' = Held(v)
  BY <1>4 DEF Held, Busy
<1>7. Held(w) = DOMAIN req[w].mine /\ Held(w)' = Held(w) \cup {n}
  BY <1>1, <1>4, <1>5 DEF Held, Busy
<1>8. HeldApart'
  <2>1. \A v \in Worker \ {w} : n \notin Held(v) \ Held(w)
    BY <1>1 DEF Waits, WaitsFor
  <2> HIDE DEF n
  <2> QED
    BY <1>6, <1>7, <2>1 DEF CacheInv, HeldApart
<1>9. \A x \in Number : Before(x)' = Before(x)
  BY <1>1 DEF Before
<1>10. ASSUME NEW x \in Number
       PROVE  IF \E k \in DOMAIN req'[w].logs : req'[w].logs[k].number = x
              THEN /\ x \in DOMAIN req'[w].mine
                   /\ req'[w].mine[x] = Replay(Before(x), req'[w].logs, x)
              ELSE x \notin DOMAIN req'[w].mine
  <2>1. req[w].logs \in Seq(Log)
    BY <1>1 DEF TypeOK
  <2> DEFINE s == req[w].logs
  <2>2. /\ Len(s) \in Nat /\ DOMAIN s = 1 .. Len(s)
        /\ DOMAIN req'[w].logs = 1 .. Len(s) + 1
        /\ \A k \in 1 .. Len(s) : req'[w].logs[k] = s[k]
        /\ req'[w].logs[Len(s) + 1] = log
    BY <1>5, <2>1
  <2>3. Replay(Before(x), req'[w].logs, x) = Advanced(Replay(Before(x), s, x), log, x)
    BY <1>5, <2>1, ReplayAppend
  <2>4. IF \E k \in DOMAIN s : s[k].number = x
        THEN /\ x \in DOMAIN req[w].mine
             /\ req[w].mine[x] = Replay(Before(x), s, x)
        ELSE x \notin DOMAIN req[w].mine
    BY <1>1 DEF CacheInv, MineOfLogs
  <2> HIDE DEF s, n
  <2>5. CASE x = n
    <3>1. RowNow(w, n) = Replay(Before(x), s, x)
      <4>1. CASE x \in DOMAIN req[w].mine
        BY <4>1, <2>4, <2>5, <1>7 DEF RowNow
      <4>2. CASE x \notin DOMAIN req[w].mine
        <5>1. \A k \in 1 .. Len(s) : s[k].number # x
          BY <4>2, <2>2, <2>4
        <5>2. Replay(Before(x), s, x) = Before(x)
          BY <5>1, <2>2, ReplayOfOthers
        <5> QED
          BY <4>2, <5>2, <2>5, <1>7 DEF RowNow
      <4> QED
        BY <4>1, <4>2
    <3>2. \E k \in DOMAIN req'[w].logs : req'[w].logs[k].number = x
      <4>1. Len(s) + 1 \in DOMAIN req'[w].logs
        BY <2>2
      <4> QED
        BY <4>1, <2>2, <2>5, <1>5
    <3>3. x \in DOMAIN req'[w].mine /\ req'[w].mine[x] = Applied(RowNow(w, n), log)
      BY <1>5, <2>5
    <3> QED
      BY <3>1, <3>2, <3>3, <2>3, <2>5, <1>5 DEF Advanced
  <2>6. CASE x # n
    <3>1. (\E k \in DOMAIN req'[w].logs : req'[w].logs[k].number = x)
             <=> (\E k \in DOMAIN s : s[k].number = x)
      <4>1. \A k \in DOMAIN req'[w].logs : k \in DOMAIN s \/ k = Len(s) + 1
        BY <2>2
      <4>2. DOMAIN s \subseteq DOMAIN req'[w].logs
        BY <2>2
      <4> QED
        BY <4>1, <4>2, <2>2, <2>6, <1>5
    <3>2. /\ x \in DOMAIN req'[w].mine <=> x \in DOMAIN req[w].mine
          /\ x \in DOMAIN req[w].mine => req'[w].mine[x] = req[w].mine[x]
      BY <1>5, <2>6
    <3>3. Replay(Before(x), req'[w].logs, x) = Replay(Before(x), s, x)
      BY <2>3, <2>6, <1>5 DEF Advanced
    <3> QED
      BY <3>1, <3>2, <3>3, <2>4
  <2> QED
    BY <2>5, <2>6
<1>11. MineOfLogs'
  BY <1>4, <1>9, <1>10 DEF CacheInv, MineOfLogs, Busy
<1>12. CacheOfLogs'
  BY <1>1 DEF CacheInv, CacheOfLogs
<1> QED
  BY <1>8, <1>11, <1>12 DEF CacheInv

\* A request that ends without writing leaves the others as they were.
LEMMA FinishCache ==
    ASSUME TypeOK, CacheInv, NEW w \in Worker, Finish(w), UNCHANGED tableVars
    PROVE  CacheInv'
<1>1. /\ ~Busy(w)'
      /\ \A v \in Worker \ {w} : pc'[v] = pc[v] /\ req'[v] = req[v]
  BY FinishWrites
<1>2. Held(w)' = {} /\ \A v \in Worker \ {w} : Held(v)' = Held(v)
  BY <1>1 DEF Held, Busy
<1>3. HeldApart'
  BY <1>2 DEF CacheInv, HeldApart
<1>4. MineOfLogs'
  BY <1>1 DEF CacheInv, MineOfLogs, Busy, Before, tableVars
<1>5. CacheOfLogs'
  BY DEF CacheInv, CacheOfLogs, tableVars
<1> QED
  BY <1>3, <1>4, <1>5 DEF CacheInv

\* A commit appends the request's logs and puts its rows in place at once.
LEMMA CommitCache ==
    ASSUME TypeOK, CacheInv, NEW w \in Worker, Commit(w)
    PROVE  CacheInv'
<1>1. Busy(w) /\ Finish(w) /\ UNCHANGED material
  BY DEF Commit
<1>2. CASE material = Deleted
  BY <1>1, <1>2, FinishCache DEF Commit, tableVars
<1>3. CASE material # Deleted
  <2> DEFINE r == req[w]
  <2>1. /\ logs' = logs \o r.logs
        /\ progress' = [n \in DOMAIN progress \cup Held(w) |->
                          IF n \in Held(w) THEN r.mine[n] ELSE progress[n]]
        /\ Held(w) = DOMAIN r.mine
    BY <1>1, <1>3 DEF Commit, Held
  <2>2. /\ ~Busy(w)'
        /\ \A v \in Worker \ {w} : pc'[v] = pc[v] /\ req'[v] = req[v]
    BY <1>1, FinishWrites
  <2>3. Held(w)' = {} /\ \A v \in Worker \ {w} : Held(v)' = Held(v)
    BY <2>2 DEF Held, Busy
  <2>4. HeldApart'
    BY <2>3 DEF CacheInv, HeldApart
  <2>5. \A v \in Worker \ {w} : \A n \in Held(v) : Before(n)' = Before(n)
    <3>1. \A v \in Worker \ {w} : \A n \in Held(v) : n \notin Held(w)
      BY DEF CacheInv, HeldApart
    <3> QED
      BY <2>1, <3>1 DEF Before
  <2>6. MineOfLogs'
    <3> SUFFICES ASSUME NEW v \in Worker, Busy(v)', NEW n \in Number
                 PROVE  (IF \E k \in DOMAIN req[v].logs : req[v].logs[k].number = n
                         THEN /\ n \in DOMAIN req[v].mine
                              /\ req[v].mine[n] = Replay(Before(n), req[v].logs, n)
                         ELSE n \notin DOMAIN req[v].mine)'
      BY DEF MineOfLogs
    <3>1. v # w /\ Busy(v) /\ req'[v] = req[v]
      BY <2>2 DEF Busy
    <3>2. n \in DOMAIN req[v].mine => Before(n)' = Before(n)
      BY <2>5, <3>1 DEF Held
    <3>3. IF \E k \in DOMAIN req[v].logs : req[v].logs[k].number = n
          THEN /\ n \in DOMAIN req[v].mine
               /\ req[v].mine[n] = Replay(Before(n), req[v].logs, n)
          ELSE n \notin DOMAIN req[v].mine
      BY <3>1 DEF CacheInv, MineOfLogs
    <3> QED
      BY <3>1, <3>2, <3>3
  <2>7. ASSUME NEW n \in Number
        PROVE  IF \E k \in DOMAIN logs' : logs'[k].number = n
               THEN n \in DOMAIN progress' /\ progress'[n] = Replay(NewProgress, logs', n)
               ELSE n \notin DOMAIN progress'
    <3>1. logs \in Seq(Log) /\ r.logs \in Seq(Log)
      BY <1>1 DEF TypeOK
    <3> DEFINE s == r.logs
    <3>2. /\ Len(logs) \in Nat /\ DOMAIN logs = 1 .. Len(logs)
          /\ Len(s) \in Nat /\ DOMAIN s = 1 .. Len(s)
          /\ DOMAIN logs' = 1 .. Len(logs) + Len(s)
          /\ \A k \in 1 .. Len(logs) : logs'[k] = logs[k]
          /\ \A k \in 1 .. Len(s) : logs'[Len(logs) + k] = s[k]
      BY <2>1, <3>1
    <3>3. Replay(NewProgress, logs', n) = Replay(Replay(NewProgress, logs, n), s, n)
      BY <2>1, <3>1, ReplayConcat
    <3>4. IF \E k \in DOMAIN logs : logs[k].number = n
          THEN n \in DOMAIN progress /\ progress[n] = Replay(NewProgress, logs, n)
          ELSE n \notin DOMAIN progress
      BY DEF CacheInv, CacheOfLogs
    <3>5. Before(n) = Replay(NewProgress, logs, n)
      <4>1. CASE n \in DOMAIN progress
        BY <3>4, <4>1 DEF Before
      <4>2. CASE n \notin DOMAIN progress
        <5>1. \A k \in 1 .. Len(logs) : logs[k].number # n
          BY <3>2, <3>4, <4>2
        <5>2. Replay(NewProgress, logs, n) = NewProgress
          BY <5>1, <3>2, ReplayOfOthers
        <5> QED
          BY <4>2, <5>2 DEF Before
      <4> QED
        BY <4>1, <4>2
    <3>6. (\E k \in DOMAIN logs' : logs'[k].number = n)
             <=> \/ \E k \in DOMAIN logs : logs[k].number = n
                 \/ \E k \in DOMAIN s : s[k].number = n
      <4> HIDE DEF s
      <4>1. ASSUME NEW k \in DOMAIN logs', k \notin DOMAIN logs
            PROVE  \E j \in DOMAIN s : logs'[k] = s[j]
        <5>1. k - Len(logs) \in 1 .. Len(s) /\ k = Len(logs) + (k - Len(logs))
          BY <4>1, <3>2
        <5> QED
          BY <5>1, <3>2
      <4>2. \A k \in DOMAIN s : \E j \in DOMAIN logs' : logs'[j] = s[k]
        <5>1. \A k \in DOMAIN s : Len(logs) + k \in DOMAIN logs'
          BY <3>2
        <5> QED
          BY <5>1, <3>2
      <4>3. \A k \in DOMAIN logs : k \in DOMAIN logs' /\ logs'[k] = logs[k]
        BY <3>2
      <4> QED
        BY <4>1, <4>2, <4>3
    <3>7. IF \E k \in DOMAIN s : s[k].number = n
          THEN n \in DOMAIN r.mine /\ r.mine[n] = Replay(Before(n), s, n)
          ELSE n \notin DOMAIN r.mine
      BY <1>1 DEF CacheInv, MineOfLogs
    <3>8. CASE \E k \in DOMAIN s : s[k].number = n
      <4>1. n \in DOMAIN progress' /\ progress'[n] = r.mine[n]
        BY <2>1, <3>7, <3>8
      <4> QED
        BY <4>1, <3>3, <3>5, <3>6, <3>7, <3>8
    <3>9. CASE ~ \E k \in DOMAIN s : s[k].number = n
      <4>1. /\ n \in DOMAIN progress' <=> n \in DOMAIN progress
            /\ n \in DOMAIN progress => progress'[n] = progress[n]
        BY <2>1, <3>7, <3>9
      <4>2. Replay(Before(n), s, n) = Before(n)
        <5>1. \A k \in 1 .. Len(s) : s[k].number # n
          BY <3>2, <3>9
        <5> HIDE DEF s
        <5> QED
          BY <5>1, <3>2, ReplayOfOthers
      <4> QED
        BY <4>1, <4>2, <3>3, <3>4, <3>5, <3>6, <3>9
    <3> QED
      BY <3>8, <3>9
  <2>8. CacheOfLogs'
    BY <2>7 DEF CacheOfLogs
  <2> QED
    BY <2>4, <2>6, <2>8 DEF CacheInv
<1> QED
  BY <1>2, <1>3

LEMMA CacheNext == TypeOK /\ CacheInv /\ [Next]_vars => CacheInv'
<1> SUFFICES ASSUME TypeOK, CacheInv, [Next]_vars PROVE CacheInv'
  OBVIOUS
<1>1. CASE UNCHANGED vars
  BY <1>1 DEF vars, tableVars, CacheInv, HeldApart, MineOfLogs, CacheOfLogs, Held, Busy, Before
<1>2. ASSUME NEW w \in Worker, NEW k \in 1 .. MaxForms, NEW forms \in [1 .. k -> Form],
             Post(w, forms)
      PROVE  CacheInv'
  <2>1. /\ UNCHANGED tableVars
        /\ \A v \in Worker \ {w} : pc'[v] = pc[v] /\ req'[v] = req[v]
        /\ req'[w].logs = <<>> /\ DOMAIN req'[w].mine = {}
    BY <1>2 DEF Post, Goto, TypeOK
  <2>2. Held(w)' = {} /\ \A v \in Worker \ {w} : Held(v)' = Held(v)
    BY <2>1 DEF Held, Busy
  <2>3. HeldApart'
    BY <2>2 DEF CacheInv, HeldApart
  <2>4. MineOfLogs'
    BY <2>1 DEF CacheInv, MineOfLogs, Busy, Before, tableVars
  <2> QED
    BY <2>1, <2>3, <2>4 DEF CacheInv, CacheOfLogs, tableVars
<1>3. ASSUME NEW w \in Worker, UpdateUnit(w) \/ CreateUnit(w) PROVE CacheInv'
  BY <1>3, ApplyCache
<1>4. ASSUME NEW w \in Worker, Commit(w) PROVE CacheInv'
  BY <1>4, CommitCache
<1>5. ASSUME NEW w \in Worker, Refused(w) \/ BreakDeadlock(w) \/ Crash(w) PROVE CacheInv'
  BY <1>5, FinishCache DEF Refused, BreakDeadlock, Crash
<1>6. ASSUME NEW m \in Material, EditMaterial(m) PROVE CacheInv'
  BY <1>6 DEF EditMaterial, CacheInv, HeldApart, MineOfLogs, CacheOfLogs, Held, Busy, Before
<1>7. CASE DeleteMaterial
  <2>1. /\ \A w \in Worker : Held(w) \cap DOMAIN progress = {}
        /\ DOMAIN progress' = {} /\ logs' = <<>> /\ UNCHANGED <<pc, req>>
    BY <1>7 DEF DeleteMaterial
  <2>2. HeldApart'
    BY <2>1 DEF CacheInv, HeldApart, Held, Busy
  <2>3. \A w \in Worker : \A n \in Held(w) : Before(n) = NewProgress /\ Before(n)' = NewProgress
    BY <2>1 DEF Before
  <2>4. MineOfLogs'
    BY <2>1, <2>3 DEF CacheInv, MineOfLogs, Held, Busy
  <2>5. CacheOfLogs'
    BY <2>1 DEF CacheOfLogs
  <2> QED
    BY <2>2, <2>4, <2>5 DEF CacheInv
<1> QED
  BY <1>1, <1>2, <1>3, <1>4, <1>5, <1>6, <1>7 DEF Next, Step

\* The progress of every unit is its logs replayed, whatever posts overlap,
\* deadlock, are refused half way or lose their process, and however often the
\* material is edited or deleted meanwhile.
THEOREM CacheIsReplay == Spec => []CacheOfLogs
<1>1. CacheInv => CacheOfLogs
  BY DEF CacheInv
<1> QED
  BY <1>1, TypeInit, TypeNext, CacheInit, CacheNext, PTL DEF Spec

-----------------------------------------------------------------------------
(* The repetition count                                                     *)

\* The last run within the first k logs of s: see LastRun.
RunTo(s, n, k) ==
    {i \in 1 .. k :
        /\ s[i].number = n
        /\ \A j \in i + 1 .. k : s[j].number = n => Rated(s[j].quality) >= 3}

LEMMA AppliedRepetition ==
    ASSUME NEW p, NEW log \in Log
    PROVE  /\ Rated(log.quality) >= 3
                 => Applied(p, log).repetition_count = p.repetition_count + 1
           /\ ~ (Rated(log.quality) >= 3) => Applied(p, log).repetition_count = 1
<1>1. Rated(log.quality) \in Int
  <2>1. log.quality \in Quality
    BY DEF Log
  <2>2. log.quality \in 0 .. 5 \/ log.quality = Unrated
    BY <2>1, QualityAssumption
  <2> QED
    BY <2>2 DEF Rated
<1> QED
  BY <1>1 DEF Applied, Sm2Next

\* One more log: another unit's leaves the run alone, a pass extends it, a
\* failure starts it again.
LEMMA RunStep ==
    ASSUME NEW s, NEW n, NEW k \in Nat, NEW m, m = k + 1
    PROVE  /\ s[m].number # n => RunTo(s, n, m) = RunTo(s, n, k)
           /\ s[m].number = n /\ Rated(s[m].quality) >= 3
                 => RunTo(s, n, m) = RunTo(s, n, k) \cup {m}
           /\ s[m].number = n /\ ~ (Rated(s[m].quality) >= 3) => RunTo(s, n, m) = {m}
<1>1. m \in 1 .. m /\ 1 .. m = (1 .. k) \cup {m} /\ m \notin 1 .. k
  OBVIOUS
<1>2. \A i \in 1 .. k : i + 1 .. m = (i + 1 .. k) \cup {m}
  OBVIOUS
<1>3. m + 1 .. m = {}
  OBVIOUS
<1> DEFINE Passed(j) == s[j].number = n => Rated(s[j].quality) >= 3
<1>4. ASSUME NEW i \in 1 .. k
      PROVE  i \in RunTo(s, n, m) <=> i \in RunTo(s, n, k) /\ Passed(m)
  <2>1. i \in RunTo(s, n, m) <=> s[i].number = n /\ \A j \in i + 1 .. m : Passed(j)
    BY <1>1 DEF RunTo
  <2>2. i \in RunTo(s, n, k) <=> s[i].number = n /\ \A j \in i + 1 .. k : Passed(j)
    BY DEF RunTo
  <2>3. (\A j \in i + 1 .. m : Passed(j)) <=> (\A j \in i + 1 .. k : Passed(j)) /\ Passed(m)
    <3> HIDE DEF Passed
    <3> QED
      BY <1>2
  <2> HIDE DEF Passed
  <2> QED
    BY <2>1, <2>2, <2>3
<1>5. m \in RunTo(s, n, m) <=> s[m].number = n
  BY <1>1, <1>3 DEF RunTo
<1>6. RunTo(s, n, m) \subseteq (1 .. k) \cup {m} /\ RunTo(s, n, k) \subseteq 1 .. k
  BY <1>1 DEF RunTo
<1> QED
  BY <1>4, <1>5, <1>6

LEMMA RunFinite ==
    ASSUME NEW s, NEW n, NEW k \in Nat
    PROVE  IsFiniteSet(RunTo(s, n, k)) /\ Cardinality(RunTo(s, n, k)) \in Nat
<1>1. RunTo(s, n, k) \subseteq 1 .. k
  BY DEF RunTo
<1>2. IsFiniteSet(1 .. k)
  BY FS_Interval
<1> QED
  BY <1>1, <1>2, FS_Subset, FS_CardinalityType

\* The count of every row on the way is the length of the run so far.
LEMMA ReplayCounts ==
    ASSUME NEW s \in Seq(Log), NEW n
    PROVE  Replay(NewProgress, s, n).repetition_count = Cardinality(RunTo(s, n, Len(s)))
<1>1. Len(s) \in Nat /\ DOMAIN s = 1 .. Len(s)
  OBVIOUS
<1>2. PICK g : RowsOf(g, Len(s), NewProgress, s, n) /\ Replay(NewProgress, s, n) = g[Len(s)]
  BY <1>1, ReplayIsLast
<1> DEFINE T == {k \in 0 .. Len(s) : g[k].repetition_count # Cardinality(RunTo(s, n, k))}
<1>3. T = {}
  <2> SUFFICES ASSUME T # {} PROVE FALSE
    OBVIOUS
  <2>1. T \in SUBSET Nat
    BY <1>1
  <2>2. PICK m \in T : \A k \in T : m <= k
    <3> HIDE DEF T
    <3> QED
      BY <2>1, Least
  <2>3. m # 0
    <3>1. RunTo(s, n, 0) = {}
      BY DEF RunTo
    <3>2. Cardinality(RunTo(s, n, 0)) = 0
      BY <3>1, FS_EmptySet
    <3>3. g[0].repetition_count = 0
      BY <1>2 DEF RowsOf, NewProgress
    <3> QED
      BY <3>2, <3>3
  <2>4. PICK k \in 0 .. Len(s) : m = k + 1 /\ k \notin T
    <3>1. m - 1 \in 0 .. Len(s) /\ m = m - 1 + 1 /\ m - 1 \notin T
      BY <1>1, <2>2, <2>3
    <3> QED
      BY <3>1
  <2>5. /\ k \in Nat /\ m \in 1 .. Len(s) /\ k + 1 <= Len(s)
        /\ m - 1 = k
    BY <1>1, <2>2, <2>4
  <2>6. g[k].repetition_count = Cardinality(RunTo(s, n, k))
    BY <2>4
  <2>7. g[m] = Advanced(g[k], s[m], n) /\ s[m] \in Log
    BY <1>1, <1>2, <2>5 DEF RowsOf
  <2>8. /\ s[m].number # n => RunTo(s, n, m) = RunTo(s, n, k)
        /\ s[m].number = n /\ Rated(s[m].quality) >= 3
              => RunTo(s, n, m) = RunTo(s, n, k) \cup {m}
        /\ s[m].number = n /\ ~ (Rated(s[m].quality) >= 3) => RunTo(s, n, m) = {m}
    BY <2>4, <2>5, RunStep
  <2>9. IsFiniteSet(RunTo(s, n, k)) /\ Cardinality(RunTo(s, n, k)) \in Nat
    BY <2>5, RunFinite
  <2>10. CASE s[m].number # n
    <3>1. g[m] = g[k] /\ RunTo(s, n, m) = RunTo(s, n, k)
      BY <2>7, <2>8, <2>10 DEF Advanced
    <3> QED
      BY <2>2, <2>6, <3>1
  <2>11. CASE s[m].number = n /\ Rated(s[m].quality) >= 3
    <3>1. m \notin RunTo(s, n, k)
      BY <2>4, <2>5 DEF RunTo
    <3>2. Cardinality(RunTo(s, n, k) \cup {m}) = Cardinality(RunTo(s, n, k)) + 1
      BY <2>9, <3>1, FS_AddElement
    <3>3. g[m].repetition_count = g[k].repetition_count + 1
      BY <2>7, <2>11, AppliedRepetition DEF Advanced
    <3>4. RunTo(s, n, m) = RunTo(s, n, k) \cup {m}
      BY <2>8, <2>11
    <3> QED
      BY <2>2, <2>6, <3>2, <3>3, <3>4
  <2>12. CASE s[m].number = n /\ ~ (Rated(s[m].quality) >= 3)
    <3>1. g[m].repetition_count = 1
      BY <2>7, <2>12, AppliedRepetition DEF Advanced
    <3>2. RunTo(s, n, m) = {m}
      BY <2>8, <2>12
    <3>3. Cardinality(RunTo(s, n, m)) = 1
      BY <3>2, FS_Singleton
    <3> QED
      BY <2>2, <3>1, <3>3
  <2> QED
    BY <2>10, <2>11, <2>12
<1>4. g[Len(s)].repetition_count = Cardinality(RunTo(s, n, Len(s)))
  BY <1>1, <1>3
<1> QED
  BY <1>2, <1>4

\* The repetition count of every unit is the length of its last run of logs
\* without a failure after the first, whatever posts overlap or end early.
THEOREM StreakCountedAlways == Spec => []StreakCounted
<1>1. TypeOK /\ CacheOfLogs => StreakCounted
  <2> SUFFICES ASSUME TypeOK, CacheOfLogs, NEW n \in DOMAIN progress
               PROVE  progress[n].repetition_count = Cardinality(LastRun(n))
    BY DEF StreakCounted
  <2>1. n \in Number /\ logs \in Seq(Log)
    BY DEF TypeOK
  <2>2. progress[n] = Replay(NewProgress, logs, n)
    BY <2>1 DEF CacheOfLogs
  <2>3. LastRun(n) = RunTo(logs, n, Len(logs))
    BY <2>1 DEF LastRun, RunTo
  <2> QED
    BY <2>1, <2>2, <2>3, ReplayCounts
<1> QED
  BY <1>1, LogTypes, CacheIsReplay, PTL

-----------------------------------------------------------------------------
(* Vocabulary.  Nothing makes the progress of a student and a context       *)
(* unique: what keeps it so is that a worker that has updated the counters  *)
(* of a word holds their row until it commits, and reads the progress then. *)

Key == Student \X Context
Of(q) == <<q.student, q.context>>
RelOf(q) == RelationOf[q.context]
Asked(q) == q.student \in Student /\ q.context \in Context /\ q.is_correct \in BOOLEAN

\* How many right and wrong answers were committed of a word.
Right(r) == Cardinality(AnswersTo(r, TRUE))
Wrong(r) == Cardinality(AnswersTo(r, FALSE))

One(b) == IF b THEN 1 ELSE 0

\* Counters of so many right and wrong answers but for some that are missing.
Fits(d, right, wrong, missing) ==
    /\ d \in [correct : Nat, total : Nat] /\ d.correct <= d.total
    /\ d.correct <= right /\ d.total - d.correct <= wrong /\ right + wrong - d.total <= missing

\* The row counts the answers.
CountsOf(row, given) ==
    /\ row.total = Len(given)
    /\ row.correct = Cardinality({i \in DOMAIN given : given[i]})
    /\ row.last = (IF given[Len(given)] THEN "right" ELSE "wrong")
    /\ row.repetition = Streak(given)

\* What worker w knows at a place: from the update of the counters on it holds
\* the word, so that the progress row it has read is the one it will save over.
Known(w, place, q) ==
    /\ place \in {"select", "insert", "update", "progress", "commit"} => Asked(q)
    /\ place = "update" => Fits(q.read, Right(RelOf(q)), Wrong(RelOf(q)), missed[RelOf(q)])
    /\ place \in {"progress", "commit"} =>
          /\ holder[RelOf(q)] = w
          /\ Fits(q.difficulty, Right(RelOf(q)) + One(q.is_correct),
                  Wrong(RelOf(q)) + One(~q.is_correct), missed[RelOf(q)])
    /\ place = "commit" =>
          IF contextProgress[Of(q)] = <<>>
          THEN q.new = TRUE /\ q.row = NewRow
          ELSE q.new = FALSE /\ (q.row = contextProgress[Of(q)][1] \/ Of(q) \in savedOver)
    /\ place = "card" => Of(q) \in Key /\ contextProgress[Of(q)] # <<>>

ProgressOK ==
    /\ contextProgress = [k \in Key |-> contextProgress[k]]
    /\ results \in [Key -> Seq(BOOLEAN)]
    /\ \A k \in Key :
          /\ contextProgress[k] = <<>> \/ contextProgress[k] = <<contextProgress[k][1]>>
          /\ contextProgress[k] = <<>> <=> results[k] = <<>>
          /\ results[k] # <<>> /\ k \notin savedOver => CountsOf(contextProgress[k][1], results[k])

CountersOK ==
    /\ missed \in [Relation -> Nat]
    /\ \A r \in Relation, b \in BOOLEAN : IsFiniteSet(AnswersTo(r, b))
    /\ \A r \in Relation : Fits(Counters(r), Right(r), Wrong(r), missed[r])

WorkersOK ==
    /\ holder = [r \in Relation |-> holder[r]]
    /\ vocabPc = [w \in Worker |-> vocabPc[w]] /\ vocabReq = [w \in Worker |-> vocabReq[w]]
    /\ \A w \in Worker : Known(w, vocabPc[w], vocabReq[w])

\* The inductive invariant.
VocabInv == ProgressOK /\ CountersOK /\ WorkersOK

LEMMA StreakType ==
    ASSUME NEW s \in Seq(BOOLEAN), NEW b \in BOOLEAN
    PROVE  /\ Streak(s) \in Nat
           /\ Streak(Append(s, b)) = IF b THEN Streak(s) + 1 ELSE 0
           /\ s # <<>> /\ ~s[Len(s)] => Streak(s) = 0
           /\ s = <<>> => Streak(s) = 0
<1> DEFINE n == Len(s)
           t == Append(s, b)
           S == {i \in 1 .. n : \A j \in i .. n : s[j]}
           T == {i \in 1 .. n + 1 : \A j \in i .. n + 1 : t[j]}
<1>1. n \in Nat /\ Len(t) = n + 1 /\ t[n + 1] = b /\ \A j \in 1 .. n : t[j] = s[j]
  OBVIOUS
<1>2. Streak(s) = Cardinality(S) /\ Streak(t) = Cardinality(T)
  BY <1>1 DEF Streak
<1>3. b => T = S \cup {n + 1}
  <2> SUFFICES ASSUME b PROVE T = S \cup {n + 1}
    OBVIOUS
  <2>1. ASSUME NEW i \in T PROVE i \in S \cup {n + 1}
    <3>1. i \in 1 .. n + 1 /\ \A j \in i .. n + 1 : t[j]
      BY <2>1
    <3>2. CASE i # n + 1
      <4>1. i \in 1 .. n
        BY <1>1, <3>1, <3>2
      <4>2. ASSUME NEW j \in i .. n PROVE s[j]
        <5>1. j \in i .. n + 1 /\ j \in 1 .. n
          BY <1>1, <4>1
        <5> QED
          BY <1>1, <3>1, <5>1
      <4> QED
        BY <4>1, <4>2
    <3> QED
      BY <3>2
  <2>2. ASSUME NEW i \in S \cup {n + 1} PROVE i \in T
    <3>1. i \in 1 .. n + 1
      BY <1>1
    <3>2. ASSUME NEW j \in i .. n + 1 PROVE t[j]
      <4>1. j = n + 1 \/ (j \in 1 .. n /\ i \in S /\ j \in i .. n)
        BY <1>1, <3>1
      <4> QED
        BY <1>1, <4>1
    <3> QED
      BY <3>1, <3>2
  <2> QED
    BY <2>1, <2>2
<1>4. ~b => T = {}
  <2> SUFFICES ASSUME ~b, NEW i \in T PROVE FALSE
    OBVIOUS
  <2>1. n + 1 \in i .. n + 1
    BY <1>1
  <2> QED
    BY <1>1, <2>1
<1>5. s # <<>> /\ ~s[n] => S = {}
  <2> SUFFICES ASSUME s # <<>>, ~s[n], NEW i \in S PROVE FALSE
    OBVIOUS
  <2>1. n \in i .. n
    BY <1>1
  <2> QED
    BY <2>1
<1>6. s = <<>> => S = {}
  BY <1>1
<1>7. IsFiniteSet(1 .. n) /\ S \in SUBSET (1 .. n) /\ n + 1 \notin S
  <2>1. S \subseteq 1 .. n /\ n + 1 \notin 1 .. n
    BY <1>1
  <2>2. IsFiniteSet(1 .. n)
    <3>1. 1 \in Int /\ n \in Int
      BY <1>1
    <3> QED
      BY ONLY <3>1, FS_Interval
  <2> QED
    BY ONLY <2>1, <2>2
<1> HIDE DEF S, T, n, t
<1>8. IsFiniteSet(S)
  BY ONLY <1>7, FS_Subset
<1>9. Cardinality(S) \in Nat /\ Cardinality(S \cup {n + 1}) = Cardinality(S) + 1
      /\ Cardinality({}) = 0
  BY ONLY <1>7, <1>8, FS_AddElement, FS_CardinalityType, FS_EmptySet
<1> QED
  BY <1>2, <1>3, <1>4, <1>5, <1>6, <1>9 DEF n, t

\* update_progress counts one more answer.
LEMMA OneMoreAnswer ==
    ASSUME NEW given \in Seq(BOOLEAN), NEW b \in BOOLEAN, NEW row, NEW today,
           IF given = <<>> THEN row = NewRow ELSE CountsOf(row, given)
    PROVE  CountsOf(Updated(row, b, today), Append(given, b))
<1> DEFINE n == Len(given)
           t == Append(given, b)
           S == {i \in DOMAIN given : given[i]}
<1>1. n \in Nat /\ Len(t) = n + 1 /\ t[n + 1] = b /\ DOMAIN given = 1 .. n /\ DOMAIN t = 1 .. n + 1
      /\ \A j \in 1 .. n : t[j] = given[j]
  OBVIOUS
<1>2. {i \in DOMAIN t : t[i]} = IF b THEN S \cup {n + 1} ELSE S
  <2>1. S = {i \in 1 .. n : t[i]}
    BY <1>1
  <2>2. {i \in 1 .. n + 1 : t[i]} = IF b THEN {i \in 1 .. n : t[i]} \cup {n + 1}
                                        ELSE {i \in 1 .. n : t[i]}
    <3>1. 1 .. n + 1 = (1 .. n) \cup {n + 1}
      BY <1>1
    <3> QED
      BY ONLY <1>1, <3>1
  <2> QED
    BY ONLY <1>1, <2>1, <2>2
<1>3. IsFiniteSet(1 .. n) /\ S \in SUBSET (1 .. n) /\ n + 1 \notin S
  <2>1. S \subseteq 1 .. n
    BY <1>1
  <2>2. n + 1 \notin 1 .. n
    BY <1>1
  <2>3. IsFiniteSet(1 .. n)
    <3>1. n \in Nat /\ 1 \in Int /\ n \in Int
      BY <1>1
    <3> QED
      BY ONLY <3>1, FS_Interval
  <2> QED
    BY ONLY <2>1, <2>2, <2>3
<1>4. given = <<>> => S = {}
  BY <1>1
<1> HIDE DEF S, n
<1>5. IsFiniteSet(S)
  BY ONLY <1>3, FS_Subset
<1>6. /\ Cardinality(S) \in Nat /\ Cardinality(S \cup {n + 1}) = Cardinality(S) + 1
      /\ Cardinality({}) = 0
  BY ONLY <1>3, <1>5, FS_AddElement, FS_CardinalityType, FS_EmptySet
<1>7. /\ row.total = n /\ row.correct = Cardinality(S)
      /\ row.repetition = Streak(given)
      /\ row.last = "right" => given # <<>>
      /\ row.last # "right" => Streak(given) = 0
  <2>1. CASE given = <<>>
    <3>1. row.total = 0 /\ row.correct = 0 /\ row.repetition = 0 /\ row.last = "none"
      BY <2>1 DEF NewRow
    <3>2. n = 0
      BY <2>1 DEF n
    <3> QED
      BY <1>4, <1>6, <2>1, <3>1, <3>2, StreakType
  <2>2. CASE given # <<>>
    <3>1. CountsOf(row, given)
      BY <2>2
    <3>2. row.last # "right" => ~given[n]
      BY <3>1 DEF CountsOf, n
    <3> QED
      BY <2>2, <3>1, <3>2, StreakType DEF CountsOf, n, S
  <2> QED
    BY <2>1, <2>2
<1> DEFINE u == Updated(row, b, today)
<1>8. /\ u.total = row.total + 1
      /\ u.correct = IF b THEN row.correct + 1 ELSE row.correct
      /\ u.repetition = IF ~b THEN 0 ELSE IF row.last = "right" THEN row.repetition + 1 ELSE 1
      /\ u.last = IF b THEN "right" ELSE "wrong"
  BY DEF Updated
<1> HIDE DEF u
<1>9. Streak(given) \in Nat /\ Streak(t) = IF b THEN Streak(given) + 1 ELSE 0
  BY StreakType
<1>10. u.repetition = Streak(t)
  BY <1>7, <1>8, <1>9
<1> HIDE DEF t
<1>11. CountsOf(u, t)
  BY <1>1, <1>2, <1>6, <1>7, <1>8, <1>10 DEF CountsOf
<1> QED
  BY <1>11 DEF u, t

LEMMA VocabStart == InitVocab => VocabInv
<1> SUFFICES ASSUME InitVocab PROVE VocabInv
  OBVIOUS
<1>1. ProgressOK
  BY DEF InitVocab, ProgressOK, Key
<1>2. ASSUME NEW r \in Relation, NEW b \in BOOLEAN PROVE AnswersTo(r, b) = {}
  <2>1. \A k \in Student \X Context : {j \in DOMAIN results[k] : results[k][j] = b} = {}
    BY DEF InitVocab
  <2> QED
    BY <2>1 DEF AnswersTo
<1>3. CountersOK
  <2>1. IsFiniteSet({}) /\ Cardinality({}) = 0
    BY FS_EmptySet
  <2>2. ASSUME NEW r \in Relation PROVE Fits(Counters(r), Right(r), Wrong(r), missed[r])
    <3>1. Right(r) = 0 /\ Wrong(r) = 0 /\ missed[r] = 0
      BY <1>2, <2>1 DEF Right, Wrong, InitVocab
    <3>2. Counters(r) = [correct |-> 0, total |-> 0]
      BY DEF Counters, InitVocab
    <3> QED
      BY <3>1, <3>2 DEF Fits
  <2>3. missed \in [Relation -> Nat]
    BY DEF InitVocab
  <2> QED
    BY <1>2, <2>1, <2>2, <2>3 DEF CountersOK
<1>4. WorkersOK
  BY DEF InitVocab, WorkersOK, Known
<1> QED
  BY <1>1, <1>3, <1>4 DEF VocabInv

\* What a step of w leaves to the others.
Spared(w) ==
    /\ \A r \in Relation, v \in Worker \ {w} : holder[r] = v => holder'[r] = v
    /\ \A r \in Relation :
          /\ {Right(r), Wrong(r), missed[r]} \subseteq Nat
          /\ \/ Right(r)' = Right(r) /\ Wrong(r)' = Wrong(r) /\ missed'[r] = missed[r]
             \/ /\ holder[r] = w
                /\ {Right(r)', Wrong(r)'} \subseteq Nat
                /\ Right(r) <= Right(r)' /\ Wrong(r) <= Wrong(r)'
                /\ Right(r)' + Wrong(r)' = Right(r) + Wrong(r) + 1
                /\ \A v \in Worker \ {w} :
                      vocabPc[v] = "update" /\ RelOf(vocabReq[v]) = r => missed'[r] = missed[r] + 1
    /\ savedOver \subseteq savedOver'
    /\ \A k \in Key :
          /\ contextProgress[k] # <<>> => contextProgress'[k] # <<>>
          /\ \/ holder[RelationOf[k[2]]] = w
             \/ contextProgress'[k] = contextProgress[k]
             \/ k \in savedOver' /\ contextProgress[k] # <<>>

\* An answer that is committed beside them and noted leaves what was read fit.
LEMMA FitsBeside ==
    ASSUME NEW d, NEW right \in Nat, NEW wrong \in Nat, NEW missing \in Nat,
           NEW rightAfter \in Nat, NEW wrongAfter \in Nat, Fits(d, right, wrong, missing),
           right <= rightAfter, wrong <= wrongAfter, rightAfter + wrongAfter = right + wrong + 1
    PROVE  Fits(d, rightAfter, wrongAfter, missing + 1)
BY DEF Fits

\* The counters with one answer more fit one answer more.
LEMMA FitsCounted ==
    ASSUME NEW d, NEW right \in Nat, NEW wrong \in Nat, NEW missing \in Nat, NEW b \in BOOLEAN,
           Fits(d, right, wrong, missing)
    PROVE  Fits(Counted(d, b), right + One(b), wrong + One(~b), missing)
BY DEF Fits, Counted, One

LEMMA TalliesType ==
    ASSUME CountersOK, NEW r \in Relation
    PROVE  {Right(r), Wrong(r), missed[r]} \subseteq Nat
<1>1. IsFiniteSet(AnswersTo(r, TRUE)) /\ IsFiniteSet(AnswersTo(r, FALSE)) /\ missed[r] \in Nat
  BY DEF CountersOK
<1> QED
  BY <1>1, FS_CardinalityType DEF Right, Wrong

LEMMA RelOfType ==
    ASSUME NEW q, Asked(q) PROVE RelOf(q) \in Relation /\ Of(q) \in Key /\ RelationOf[Of(q)[2]] = RelOf(q)
BY DEF Asked, RelOf, Of, Key, Relation

LEMMA OthersKnow ==
    ASSUME NEW w \in Worker, Spared(w), NEW v \in Worker \ {w}, NEW place, NEW q, Known(v, place, q),
           place = vocabPc[v], q = vocabReq[v]
    PROVE  Known(v, place, q)'
<1>1. place \in {"select", "insert", "update", "progress", "commit"} => Asked(q) /\ Asked(q)'
  BY DEF Known, Asked
<1>2. ASSUME place = "update"
      PROVE  Fits(q.read, Right(RelOf(q))', Wrong(RelOf(q))', missed'[RelOf(q)])
  <2> SUFFICES ASSUME NEW r, r = RelOf(q) PROVE Fits(q.read, Right(r)', Wrong(r)', missed'[r])
    BY DEF Right, Wrong, RelOf, AnswersTo
  <2>1. r \in Relation /\ Fits(q.read, Right(r), Wrong(r), missed[r])
    BY <1>1, <1>2, RelOfType DEF Known
  <2>2. \/ Right(r)' = Right(r) /\ Wrong(r)' = Wrong(r) /\ missed'[r] = missed[r]
        \/ /\ {Right(r)', Wrong(r)'} \subseteq Nat
           /\ Right(r) <= Right(r)' /\ Wrong(r) <= Wrong(r)'
           /\ Right(r)' + Wrong(r)' = Right(r) + Wrong(r) + 1
           /\ missed'[r] = missed[r] + 1
    BY <1>2, <2>1 DEF Spared
  <2>3. {Right(r), Wrong(r), missed[r]} \subseteq Nat
    BY <2>1 DEF Spared
  <2> QED
    BY <2>1, <2>2, <2>3, FitsBeside
<1>3. ASSUME place \in {"progress", "commit"}
      PROVE  /\ holder'[RelOf(q)] = v
             /\ Fits(q.difficulty, Right(RelOf(q))' + One(q.is_correct),
                     Wrong(RelOf(q))' + One(~q.is_correct), missed'[RelOf(q)])
  <2> SUFFICES ASSUME NEW r, r = RelOf(q)
               PROVE  /\ holder'[r] = v
                      /\ Fits(q.difficulty, Right(r)' + One(q.is_correct),
                              Wrong(r)' + One(~q.is_correct), missed'[r])
    BY DEF Right, Wrong, RelOf, AnswersTo
  <2>1. /\ r \in Relation /\ holder[r] = v
        /\ Fits(q.difficulty, Right(r) + One(q.is_correct), Wrong(r) + One(~q.is_correct), missed[r])
    BY <1>1, <1>3, RelOfType DEF Known
  <2>2. /\ Right(r)' = Right(r) /\ Wrong(r)' = Wrong(r) /\ missed'[r] = missed[r]
        /\ holder'[r] = v
    BY <2>1 DEF Spared
  <2> QED
    BY <2>1, <2>2
<1>4. ASSUME place = "commit"
      PROVE  (IF contextProgress[Of(q)] = <<>>
              THEN q.new = TRUE /\ q.row = NewRow
              ELSE q.new = FALSE /\ (q.row = contextProgress[Of(q)][1] \/ Of(q) \in savedOver))'
  <2>1. /\ Of(q) \in Key /\ RelationOf[Of(q)[2]] = RelOf(q) /\ holder[RelOf(q)] = v
    BY <1>1, <1>4, RelOfType DEF Known
  <2>2. \/ contextProgress'[Of(q)] = contextProgress[Of(q)]
        \/ Of(q) \in savedOver' /\ contextProgress[Of(q)] # <<>>
    BY <2>1 DEF Spared
  <2>3. /\ contextProgress[Of(q)] # <<>> => contextProgress'[Of(q)] # <<>>
        /\ savedOver \subseteq savedOver'
    BY <2>1 DEF Spared
  <2>4. IF contextProgress[Of(q)] = <<>>
        THEN q.new = TRUE /\ q.row = NewRow
        ELSE q.new = FALSE /\ (q.row = contextProgress[Of(q)][1] \/ Of(q) \in savedOver)
    BY <1>4 DEF Known
  <2> QED
    BY <2>2, <2>3, <2>4 DEF Of, NewRow
<1>5. ASSUME place = "card" PROVE (Of(q) \in Key /\ contextProgress[Of(q)] # <<>>)'
  BY <1>5 DEF Known, Spared, Of, Key
<1> QED
  BY <1>1, <1>2, <1>3, <1>4, <1>5 DEF Known, RelOf, Right, Wrong, AnswersTo

LEMMA WorkersMove ==
    ASSUME VocabInv, NEW w \in Worker, NEW place, NEW q, VocabGoto(w, place, q), Spared(w),
           Known(w, place, q)', (holder = [r \in Relation |-> holder[r]])'
    PROVE  WorkersOK'
<1>1. /\ vocabPc = [v \in Worker |-> vocabPc[v]] /\ vocabReq = [v \in Worker |-> vocabReq[v]]
      /\ \A v \in Worker : Known(v, vocabPc[v], vocabReq[v])
  BY DEF VocabInv, WorkersOK
<1>2. /\ vocabPc' = [v \in Worker |-> vocabPc'[v]] /\ vocabReq' = [v \in Worker |-> vocabReq'[v]]
      /\ vocabPc'[w] = place /\ vocabReq'[w] = q
      /\ \A v \in Worker \ {w} : vocabPc'[v] = vocabPc[v] /\ vocabReq'[v] = vocabReq[v]
  BY <1>1 DEF VocabGoto
<1>3. ASSUME NEW v \in Worker PROVE Known(v, vocabPc[v], vocabReq[v])'
  <2>1. ASSUME NEW p, NEW r, p = vocabPc[v]', r = vocabReq[v]' PROVE Known(v, p, r)'
    <3>1. CASE v = w
      BY <1>2, <2>1, <3>1
    <3>2. CASE v # w
      <4>1. Known(v, p, r) /\ p = vocabPc[v] /\ r = vocabReq[v]
        BY <1>1, <1>2, <2>1, <3>2
      <4> QED
        BY ONLY Spared(w), <2>1, <3>2, <4>1, OthersKnow
    <3> QED
      BY <3>1, <3>2
  <2> QED
    BY <2>1 DEF Known, Asked, Of, RelOf, Right, Wrong, AnswersTo
<1> QED
  BY <1>2, <1>3 DEF WorkersOK

\* Steps that store nothing but, perhaps, take a free word or let one's own go.
LEMMA NothingStored ==
    ASSUME VocabInv, NEW w \in Worker, UNCHANGED <<contextProgress, difficulty, results, savedOver, missed>>,
           \A r \in Relation, v \in Worker \ {w} : holder[r] = v => holder'[r] = v
    PROVE  /\ ProgressOK' /\ CountersOK' /\ Spared(w)
           /\ \A r : Right(r)' = Right(r) /\ Wrong(r)' = Wrong(r)
           /\ \A place, q : place \notin {"progress", "commit"} /\ Known(w, place, q) => Known(w, place, q)'
<1>1. /\ \A r, b : AnswersTo(r, b)' = AnswersTo(r, b)
      /\ \A r : Right(r)' = Right(r) /\ Wrong(r)' = Wrong(r)
  BY DEF AnswersTo, Right, Wrong
<1>2. ProgressOK'
  <2>1. /\ ProgressOK /\ results' = results
        /\ contextProgress' = contextProgress /\ savedOver' = savedOver
    BY DEF VocabInv
  <2> QED
    BY ONLY <2>1 DEF ProgressOK, Key, CountsOf, Streak
<1>3. CountersOK'
  <2>1. \A r : Counters(r)' = Counters(r)
    BY DEF Counters
  <2> QED
    BY <1>1, <2>1 DEF VocabInv, CountersOK, Fits, Relation
<1>4. Spared(w)
  <2>1. \A r \in Relation : {Right(r), Wrong(r), missed[r]} \subseteq Nat
    BY TalliesType DEF VocabInv
  <2> QED
    BY <1>1, <2>1 DEF Spared
<1>5. ASSUME NEW place, NEW q, place \notin {"progress", "commit"}, Known(w, place, q)
      PROVE  Known(w, place, q)'
  <2>1. place = "update" => Fits(q.read, Right(RelOf(q))', Wrong(RelOf(q))', missed'[RelOf(q)])
    BY <1>1, <1>5 DEF Known
  <2> QED
    BY <1>5, <2>1 DEF Known, Asked, Of, RelOf, Key, Right, Wrong, AnswersTo
<1> QED
  BY <1>1, <1>2, <1>3, <1>4, <1>5

LEMMA QuietStep ==
    ASSUME VocabInv, NEW w \in Worker, NEW place, NEW q, VocabGoto(w, place, q),
           UNCHANGED <<contextProgress, difficulty, results, savedOver, missed>>,
           \A r \in Relation, v \in Worker \ {w} : holder[r] = v => holder'[r] = v,
           (holder = [r \in Relation |-> holder[r]])', Known(w, place, q)'
    PROVE  VocabInv'
BY NothingStored, WorkersMove DEF VocabInv

LEMMA Released ==
    ASSUME NEW w \in Worker, Release(w)
    PROVE  /\ (holder = [r \in Relation |-> holder[r]])'
           /\ \A r \in Relation, v \in Worker \ {w} : holder[r] = v => holder'[r] = v
BY DEF Release

LEMMA OneIsSome == ASSUME NEW rows, Len(rows) = 1 PROVE rows # <<>>
OBVIOUS

LEMMA VocabQuiet ==
    ASSUME VocabInv, NEW w \in Worker,
           \/ \E s \in Student, c \in Context, b \in BOOLEAN : PostAnswer(w, s, c, b)
           \/ SelectDifficulty(w) \/ InsertDifficulty(w) \/ UpdateDifficulty(w) \/ SelectProgress(w)
           \/ Abort(w)
           \/ \E s \in Student, c \in Context : CardRead(w, s, c)
    PROVE  VocabInv'
<1> SUFFICES ASSUME NEW q, q = vocabReq[w] PROVE VocabInv'
  OBVIOUS
<1>1. Known(w, vocabPc[w], q) /\ (holder = [r \in Relation |-> holder[r]])
  BY DEF VocabInv, WorkersOK
<1>2. ASSUME UNCHANGED holder
      PROVE  /\ (holder = [r \in Relation |-> holder[r]])'
             /\ \A r \in Relation, v \in Worker \ {w} : holder[r] = v => holder'[r] = v
  BY <1>1, <1>2 DEF Relation
<1>3. ASSUME NEW s \in Student, NEW c \in Context, NEW b \in BOOLEAN, PostAnswer(w, s, c, b)
      PROVE  VocabInv'
  <2> DEFINE p == [student |-> s, context |-> c, is_correct |-> b]
  <2>1. /\ VocabGoto(w, "select", p) /\ UNCHANGED holder
        /\ UNCHANGED <<contextProgress, difficulty, results, savedOver, missed>>
    BY <1>3 DEF PostAnswer
  <2>2. Known(w, "select", p)'
    BY DEF Known, Asked
  <2> QED
    BY <1>2, <2>1, <2>2, QuietStep
<1>4. ASSUME Asked(q)
      PROVE  /\ Rel(w) = RelOf(q) /\ Rel(w) \in Relation /\ Of(q) \in Key
             /\ {Right(Rel(w)), Wrong(Rel(w)), missed[Rel(w)]} \subseteq Nat
             /\ Fits(Counters(Rel(w)), Right(Rel(w)), Wrong(Rel(w)), missed[Rel(w)])
  <2>1. Rel(w) = RelOf(q) /\ Rel(w) \in Relation /\ Of(q) \in Key
    BY <1>4, RelOfType DEF Rel, RelOf
  <2> QED
    BY <2>1, TalliesType DEF VocabInv, CountersOK
<1>5. ASSUME SelectDifficulty(w) PROVE VocabInv'
  <2>1. /\ vocabPc[w] = "select" /\ UNCHANGED holder
        /\ UNCHANGED <<contextProgress, difficulty, results, savedOver, missed>>
    BY <1>5 DEF SelectDifficulty
  <2>2. Asked(q)
    BY <1>1, <2>1 DEF Known
  <2>3. CASE Rel(w) \in DOMAIN difficulty
    <3> SUFFICES ASSUME NEW p, p = Reading(q, difficulty[Rel(w)]) PROVE VocabInv'
      OBVIOUS
    <3>1. VocabGoto(w, "update", p)
      BY <1>5, <2>3 DEF SelectDifficulty
    <3>2. Fits(difficulty[Rel(w)], Right(Rel(w)), Wrong(Rel(w)), missed[Rel(w)])
      BY <1>4, <2>2, <2>3 DEF Counters
    <3>3. Asked(p) /\ RelOf(p) = Rel(w) /\ p.read = difficulty[Rel(w)]
      BY <2>2 DEF Asked, RelOf, Rel, Reading
    <3>4. Known(w, "update", p)
      BY <3>2, <3>3 DEF Known
    <3>5. Known(w, "update", p)'
      BY <1>2, <2>1, <3>4, NothingStored
    <3> QED
      BY <1>2, <2>1, <3>1, <3>5, QuietStep
  <2>4. CASE Rel(w) \notin DOMAIN difficulty
    <3>1. VocabGoto(w, "insert", q)
      BY <1>5, <2>4 DEF SelectDifficulty
    <3>2. Known(w, "insert", q)'
      BY <2>2 DEF Known, Asked
    <3> QED
      BY <1>2, <2>1, <3>1, <3>2, QuietStep
  <2> QED
    BY <2>3, <2>4
<1>6. ASSUME InsertDifficulty(w) PROVE VocabInv'
  <2> DEFINE counters == Counters(Rel(w))
  <2> SUFFICES ASSUME NEW p, p = Reading(q, counters) PROVE VocabInv'
    OBVIOUS
  <2>1. /\ vocabPc[w] = "insert" /\ VocabGoto(w, "update", p)
        /\ UNCHANGED <<contextProgress, difficulty, results, savedOver, missed>>
        /\ holder[Rel(w)] = None
        /\ holder' = IF Rel(w) \in DOMAIN difficulty THEN holder ELSE [holder EXCEPT ![Rel(w)] = w]
    BY <1>6 DEF InsertDifficulty
  <2>2. Asked(q)
    BY <1>1, <2>1 DEF Known
  <2>3. /\ (holder = [r \in Relation |-> holder[r]])'
        /\ \A r \in Relation, v \in Worker \ {w} : holder[r] = v => holder'[r] = v
    BY <1>1, <2>1, NoneAssumption DEF Relation
  <2>4. Fits(counters, Right(Rel(w)), Wrong(Rel(w)), missed[Rel(w)])
    BY <1>4, <2>2
  <2>5. Asked(p) /\ RelOf(p) = Rel(w) /\ p.read = counters
    BY <2>2 DEF Asked, RelOf, Rel, Reading
  <2>6. Known(w, "update", p)
    BY <2>4, <2>5 DEF Known
  <2>7. Known(w, "update", p)'
    BY <2>1, <2>3, <2>6, NothingStored
  <2> QED
    BY <2>1, <2>3, <2>7, QuietStep
<1>7. ASSUME UpdateDifficulty(w) PROVE VocabInv'
  <2> DEFINE counters == Counted(q.read, q.is_correct)
  <2> SUFFICES ASSUME NEW p, p = Rating(q, counters) PROVE VocabInv'
    OBVIOUS
  <2>1. /\ vocabPc[w] = "update" /\ VocabGoto(w, "progress", p)
        /\ UNCHANGED <<contextProgress, difficulty, results, savedOver, missed>>
        /\ holder[Rel(w)] \in {None, w} /\ holder' = [holder EXCEPT ![Rel(w)] = w]
    BY <1>7 DEF UpdateDifficulty
  <2>2. /\ Asked(q) /\ Rel(w) = RelOf(q)
        /\ Fits(q.read, Right(RelOf(q)), Wrong(RelOf(q)), missed[RelOf(q)])
    BY <1>1, <1>4, <2>1 DEF Known
  <2>3. /\ (holder = [r \in Relation |-> holder[r]])' /\ holder'[Rel(w)] = w
        /\ \A r \in Relation, v \in Worker \ {w} : holder[r] = v => holder'[r] = v
    BY <1>1, <1>4, <2>1, <2>2, NoneAssumption DEF Relation
  <2>4. Fits(counters, Right(RelOf(q)) + One(q.is_correct), Wrong(RelOf(q)) + One(~q.is_correct),
             missed[RelOf(q)])
    <3>1. /\ {Right(RelOf(q)), Wrong(RelOf(q)), missed[RelOf(q)]} \subseteq Nat
          /\ q.is_correct \in BOOLEAN
      BY <1>4, <2>2 DEF Asked
    <3> QED
      BY <2>2, <3>1, FitsCounted
  <2>5. Asked(p) /\ RelOf(p) = RelOf(q) /\ p.difficulty = counters /\ p.is_correct = q.is_correct
    BY <2>2 DEF Asked, RelOf, Rating
  <2>6. (\A r : Right(r)' = Right(r) /\ Wrong(r)' = Wrong(r)) /\ missed' = missed
    BY <2>1, <2>3, NothingStored
  <2>7. Known(w, "progress", p)'
    <3>1. Asked(p)' /\ holder'[RelOf(p)] = w
      BY <2>2, <2>3, <2>5 DEF Asked
    <3>2. Fits(p.difficulty, Right(RelOf(p))' + One(p.is_correct),
               Wrong(RelOf(p))' + One(~p.is_correct), missed'[RelOf(p)])
      BY <2>4, <2>5, <2>6
    <3> QED
      BY <3>1, <3>2 DEF Known, RelOf, Right, Wrong, AnswersTo
  <2>8. VocabGoto(w, "progress", p) /\ UNCHANGED <<contextProgress, difficulty, results, savedOver, missed>>
    BY <2>1
  <2> QED
    BY <2>3, <2>7, <2>8, QuietStep
<1>8. ASSUME SelectProgress(w) PROVE VocabInv'
  <2> DEFINE rows == contextProgress[q.student, q.context]
  <2>1. vocabPc[w] = "progress" /\ UNCHANGED <<contextProgress, difficulty, results, savedOver, missed>>
    BY <1>8 DEF SelectProgress
  <2>2. /\ Asked(q) /\ holder[RelOf(q)] = w
        /\ Fits(q.difficulty, Right(RelOf(q)) + One(q.is_correct),
                Wrong(RelOf(q)) + One(~q.is_correct), missed[RelOf(q)])
    BY <1>1, <2>1 DEF Known
  <2>3. rows = contextProgress[Of(q)]
    BY DEF Of
  <2>4. CASE Len(rows) <= 1
    <3> SUFFICES ASSUME NEW p,
                        p = [student |-> q.student, context |-> q.context, is_correct |-> q.is_correct,
                             difficulty |-> q.difficulty, new |-> rows = <<>>,
                             row |-> IF rows = <<>> THEN NewRow ELSE rows[1]]
                 PROVE  VocabInv'
      OBVIOUS
    <3>1. VocabGoto(w, "commit", p) /\ UNCHANGED holder
      BY <1>8, <2>4 DEF SelectProgress
    <3>2. /\ Asked(p) /\ RelOf(p) = RelOf(q) /\ Of(p) = Of(q) /\ p.difficulty = q.difficulty
          /\ p.is_correct = q.is_correct
          /\ p.new = (rows = <<>>) /\ p.row = IF rows = <<>> THEN NewRow ELSE rows[1]
      BY <2>2 DEF Asked, RelOf, Of
    <3>3. Known(w, "commit", p)
      BY <2>2, <2>3, <3>2 DEF Known
    <3>4. /\ \A r : Right(r)' = Right(r) /\ Wrong(r)' = Wrong(r)
          /\ missed' = missed /\ holder' = holder
      BY <1>2, <2>1, <3>1, NothingStored
    <3>5. Known(w, "commit", p)'
      <4>1. /\ Asked(p)' /\ holder'[RelOf(p)] = w
            /\ Fits(p.difficulty, Right(RelOf(p))' + One(p.is_correct),
                    Wrong(RelOf(p))' + One(~p.is_correct), missed'[RelOf(p)])
        BY <3>3, <3>4 DEF Known, Asked
      <4>2. (IF contextProgress[Of(p)] = <<>>
             THEN p.new = TRUE /\ p.row = NewRow
             ELSE p.new = FALSE /\ (p.row = contextProgress[Of(p)][1] \/ Of(p) \in savedOver))'
        <5>1. IF contextProgress[Of(p)] = <<>>
              THEN p.new = TRUE /\ p.row = NewRow
              ELSE p.new = FALSE /\ (p.row = contextProgress[Of(p)][1] \/ Of(p) \in savedOver)
          BY <3>3 DEF Known
        <5>2. contextProgress' = contextProgress /\ savedOver' = savedOver
          BY <2>1
        <5> QED
          BY ONLY <5>1, <5>2 DEF Of
      <4> QED
        BY <4>1, <4>2 DEF Known, RelOf, Right, Wrong, AnswersTo
    <3> QED
      BY <1>2, <2>1, <3>1, <3>5, QuietStep
  <2>5. CASE ~(Len(rows) <= 1)
    <3>1. VocabGoto(w, "idle", NoPost) /\ Release(w)
      BY <1>8, <2>5 DEF SelectProgress, VocabFinish
    <3>2. Known(w, "idle", NoPost)'
      BY DEF Known
    <3> QED
      BY <2>1, <3>1, <3>2, Released, QuietStep
  <2> QED
    BY <2>4, <2>5
<1>9. ASSUME NEW s \in Student, NEW c \in Context, CardRead(w, s, c) PROVE VocabInv'
  <2> SUFFICES ASSUME NEW p, p = [student |-> s, context |-> c, row |-> contextProgress[s, c][1]]
               PROVE  VocabInv'
    OBVIOUS
  <2>1. /\ VocabGoto(w, "card", p) /\ UNCHANGED holder /\ Len(contextProgress[s, c]) = 1
        /\ UNCHANGED <<contextProgress, difficulty, results, savedOver, missed>>
    BY <1>9 DEF CardRead
  <2>2. Of(p) = <<s, c>> /\ <<s, c>> \in Key /\ contextProgress[<<s, c>>] # <<>>
    <3>1. Of(p) = <<s, c>> /\ <<s, c>> \in Key
      BY DEF Of, Key
    <3>2. Len(contextProgress[<<s, c>>]) = 1
      BY <2>1
    <3>3. contextProgress[<<s, c>>] # <<>>
      BY ONLY <3>2, OneIsSome
    <3> QED
      BY <3>1, <3>3
  <2>3. Known(w, "card", p)
    BY <2>2 DEF Known
  <2>4. Known(w, "card", p)'
    <3>1. \A v \in Worker \ {w}, r \in Relation : holder[r] = v => holder'[r] = v
      BY <2>1
    <3>2. \A place, r : place \notin {"progress", "commit"} /\ Known(w, place, r) => Known(w, place, r)'
      BY <1>2, <2>1, <3>1, NothingStored
    <3> QED
      BY <2>3, <3>2
  <2> QED
    BY <1>2, <2>1, <2>4, QuietStep
<1>10. ASSUME Abort(w) PROVE VocabInv'
  <2>1. VocabGoto(w, "idle", NoPost) /\ UNCHANGED <<contextProgress, difficulty, results, savedOver, missed>>
        /\ Release(w)
    BY <1>10 DEF Abort, VocabFinish
  <2>2. Known(w, "idle", NoPost)'
    BY DEF Known
  <2> QED
    BY <2>1, <2>2, Released, QuietStep
<1> QED
  BY <1>3, <1>5, <1>6, <1>7, <1>8, <1>9, <1>10

\* One more answer of a word, and of no other.
LEMMA AnswersGrow ==
    ASSUME results \in [Key -> Seq(BOOLEAN)], NEW k \in Key, NEW b \in BOOLEAN,
           results' = [results EXCEPT ![k] = Append(@, b)],
           NEW r, NEW c \in BOOLEAN, IsFiniteSet(AnswersTo(r, c))
    PROVE  /\ IsFiniteSet(AnswersTo(r, c)') /\ Cardinality(AnswersTo(r, c)) \in Nat
           /\ Cardinality(AnswersTo(r, c)') =
                 Cardinality(AnswersTo(r, c)) + (IF RelationOf[k[2]] = r /\ b = c THEN 1 ELSE 0)
<1> DEFINE n == Len(results[k])
           x == <<k, n + 1>>
           mine == RelationOf[k[2]] = r /\ b = c
<1>1. /\ n \in Nat /\ DOMAIN results[k] = 1 .. n /\ DOMAIN results'[k] = 1 .. n + 1
      /\ results'[k][n + 1] = b /\ \A i \in 1 .. n : results'[k][i] = results[k][i]
      /\ \A j \in Key : j # k => results'[j] = results[j]
  OBVIOUS
<1>2. \A y : y \in AnswersTo(r, c) <=>
            \E j \in Key : RelationOf[j[2]] = r /\ \E i \in DOMAIN results[j] : results[j][i] = c /\ y = <<j, i>>
  BY DEF AnswersTo, Key
<1>3. \A y : y \in AnswersTo(r, c)' <=>
            \E j \in Key : RelationOf[j[2]] = r /\ \E i \in DOMAIN results'[j] : results'[j][i] = c /\ y = <<j, i>>
  BY DEF AnswersTo, Key
<1>4. AnswersTo(r, c) \subseteq AnswersTo(r, c)'
  <2> SUFFICES ASSUME NEW y \in AnswersTo(r, c) PROVE y \in AnswersTo(r, c)'
    OBVIOUS
  <2>1. PICK j \in Key : RelationOf[j[2]] = r /\ \E i \in DOMAIN results[j] : results[j][i] = c /\ y = <<j, i>>
    BY <1>2
  <2>2. PICK i \in DOMAIN results[j] : results[j][i] = c /\ y = <<j, i>>
    BY <2>1
  <2>3. i \in DOMAIN results'[j] /\ results'[j][i] = results[j][i]
    BY <1>1
  <2> QED
    BY <1>3, <2>1, <2>2, <2>3
<1>5. ASSUME NEW y \in AnswersTo(r, c)' PROVE y \in AnswersTo(r, c) \/ (mine /\ y = x)
  <2>1. PICK j \in Key : RelationOf[j[2]] = r /\ \E i \in DOMAIN results'[j] : results'[j][i] = c /\ y = <<j, i>>
    BY <1>3, <1>5
  <2>2. PICK i \in DOMAIN results'[j] : results'[j][i] = c /\ y = <<j, i>>
    BY <2>1
  <2>3. CASE j = k /\ i = n + 1
    BY <1>1, <2>1, <2>2, <2>3
  <2>4. CASE ~(j = k /\ i = n + 1)
    <3>1. i \in DOMAIN results[j] /\ results'[j][i] = results[j][i]
      BY <1>1, <2>2, <2>4
    <3> QED
      BY <1>2, <2>1, <2>2, <3>1
  <2> QED
    BY <2>3, <2>4
<1>6. mine => x \in AnswersTo(r, c)'
  <2>1. n + 1 \in DOMAIN results'[k]
    BY <1>1
  <2> QED
    BY <1>1, <1>3, <2>1
<1>7. x \notin AnswersTo(r, c)
  <2> SUFFICES ASSUME x \in AnswersTo(r, c) PROVE FALSE
    OBVIOUS
  <2>1. PICK j \in Key : \E i \in DOMAIN results[j] : x = <<j, i>>
    BY <1>2
  <2> QED
    BY <1>1, <2>1
<1>8. AnswersTo(r, c)' = IF mine THEN AnswersTo(r, c) \cup {x} ELSE AnswersTo(r, c)
  <2> HIDE DEF x, mine
  <2> QED
    BY <1>4, <1>5, <1>6
<1> HIDE DEF x, mine
<1>9. /\ IsFiniteSet(AnswersTo(r, c) \cup {x}) /\ Cardinality(AnswersTo(r, c)) \in Nat
      /\ Cardinality(AnswersTo(r, c) \cup {x}) = Cardinality(AnswersTo(r, c)) + 1
  BY ONLY <1>7, IsFiniteSet(AnswersTo(r, c)), FS_AddElement, FS_CardinalityType
<1>10. /\ IsFiniteSet(AnswersTo(r, c)')
       /\ Cardinality(AnswersTo(r, c)') = Cardinality(AnswersTo(r, c)) + (IF mine THEN 1 ELSE 0)
  <2>1. CASE mine
    <3>1. AnswersTo(r, c)' = AnswersTo(r, c) \cup {x}
      BY <1>8, <2>1
    <3> QED
      BY <1>9, <2>1, <3>1
  <2>2. CASE ~mine
    <3>1. AnswersTo(r, c)' = AnswersTo(r, c)
      BY <1>8, <2>2
    <3> QED
      BY <1>9, <2>2, <3>1
  <2> QED
    BY <2>1, <2>2
<1> QED
  BY <1>9, <1>10 DEF mine

LEMMA OnlyRow == ASSUME NEW row PROVE <<row>> # <<>> /\ <<row>>[1] = row /\ Append(<<>>, row) = <<row>>
OBVIOUS

\* The only row of a student and a context is saved over.
LEMMA RowReplaced == ASSUME NEW old, NEW row PROVE [<<old>> EXCEPT ![1] = row] = <<row>>
OBVIOUS

LEMMA CommitKeeps == ASSUME VocabInv, NEW w \in Worker, CommitAnswer(w) PROVE VocabInv'
<1> SUFFICES ASSUME NEW q, q = vocabReq[w], NEW k, k = Of(q), NEW r, r = RelOf(q),
                    NEW row, row = Updated(q.row, q.is_correct, day)
             PROVE  VocabInv'
  OBVIOUS
<1>1. /\ vocabPc[w] = "commit" /\ UNCHANGED savedOver
      /\ difficulty' = [s \in DOMAIN difficulty \cup {r} |->
                          IF s = r THEN q.difficulty ELSE difficulty[s]]
      /\ contextProgress' =
           [contextProgress EXCEPT ![k] = IF q.new THEN Append(@, row) ELSE [@ EXCEPT ![1] = row]]
      /\ results' = [results EXCEPT ![k] = Append(@, q.is_correct)]
      /\ missed' = IF \E v \in Worker \ {w} : vocabPc[v] = "update" /\ RelOf(vocabReq[v]) = r
                   THEN [missed EXCEPT ![r] = @ + 1] ELSE missed
      /\ Release(w) /\ VocabGoto(w, "idle", NoPost)
  BY DEF CommitAnswer, VocabFinish, Rel, RelOf, Of
<1>2. /\ Asked(q) /\ holder[r] = w
      /\ Fits(q.difficulty, Right(r) + One(q.is_correct), Wrong(r) + One(~q.is_correct), missed[r])
      /\ IF contextProgress[k] = <<>>
         THEN q.new = TRUE /\ q.row = NewRow
         ELSE q.new = FALSE /\ (q.row = contextProgress[k][1] \/ k \in savedOver)
  BY <1>1 DEF VocabInv, WorkersOK, Known
<1>3. r \in Relation /\ k \in Key /\ RelationOf[k[2]] = r /\ q.is_correct \in BOOLEAN
  BY <1>2, RelOfType DEF Asked
<1>4. /\ contextProgress = [j \in Key |-> contextProgress[j]] /\ results \in [Key -> Seq(BOOLEAN)]
      /\ contextProgress[k] = <<>> \/ contextProgress[k] = <<contextProgress[k][1]>>
      /\ contextProgress[k] = <<>> <=> results[k] = <<>>
      /\ results[k] # <<>> /\ k \notin savedOver => CountsOf(contextProgress[k][1], results[k])
  BY <1>3 DEF VocabInv, ProgressOK
<1>5. contextProgress' = [contextProgress EXCEPT ![k] = <<row>>]
  <2>1. (IF q.new THEN Append(contextProgress[k], row) ELSE [contextProgress[k] EXCEPT ![1] = row]) = <<row>>
    <3>1. CASE contextProgress[k] = <<>>
      <4>1. q.new = TRUE
        BY <1>2, <3>1
      <4> QED
        BY <3>1, <4>1, OnlyRow
    <3>2. CASE contextProgress[k] # <<>>
      <4>1. q.new = FALSE
        BY <1>2, <3>2
      <4>2. PICK old : contextProgress[k] = <<old>>
        BY <1>4, <3>2
      <4>3. [contextProgress[k] EXCEPT ![1] = row] = <<row>>
        BY ONLY <4>2, RowReplaced
      <4> QED
        BY <4>1, <4>3
    <3> QED
      BY <3>1, <3>2
  <2>2. contextProgress' =
           [contextProgress EXCEPT ![k] = IF q.new THEN Append(contextProgress[k], row)
                                                   ELSE [contextProgress[k] EXCEPT ![1] = row]]
    BY <1>1
  <2> QED
    BY ONLY <2>1, <2>2
<1>6. k \notin savedOver => CountsOf(row, Append(results[k], q.is_correct))
  <2> SUFFICES ASSUME k \notin savedOver PROVE CountsOf(row, Append(results[k], q.is_correct))
    OBVIOUS
  <2>1. IF results[k] = <<>> THEN q.row = NewRow ELSE CountsOf(q.row, results[k])
    BY <1>2, <1>4
  <2>2. results[k] \in Seq(BOOLEAN)
    BY <1>3, <1>4
  <2> QED
    BY <1>3, <2>1, <2>2, OneMoreAnswer
<1>7. /\ contextProgress' = [j \in Key |-> contextProgress'[j]] /\ contextProgress'[k] = <<row>>
      /\ results' \in [Key -> Seq(BOOLEAN)] /\ results'[k] = Append(results[k], q.is_correct)
      /\ results'[k] # <<>>
      /\ \A j \in Key : j # k => contextProgress'[j] = contextProgress[j] /\ results'[j] = results[j]
  <2>1. /\ contextProgress' = [j \in Key |-> contextProgress'[j]] /\ contextProgress'[k] = <<row>>
        /\ \A j \in Key : j # k => contextProgress'[j] = contextProgress[j]
    BY <1>3, <1>4, <1>5
  <2> HIDE DEF Key
  <2>2. results[k] \in Seq(BOOLEAN) /\ Append(results[k], q.is_correct) \in Seq(BOOLEAN)
    BY <1>3, <1>4
  <2>3. Append(results[k], q.is_correct) # <<>>
    BY <1>3, <2>2
  <2>4. /\ results' \in [Key -> Seq(BOOLEAN)] /\ results'[k] = Append(results[k], q.is_correct)
        /\ \A j \in Key : j # k => results'[j] = results[j]
    <3>1. results' = [results EXCEPT ![k] = Append(results[k], q.is_correct)]
      BY <1>1
    <3> QED
      BY ONLY <3>1, <1>3, <1>4, <2>2
  <2> QED
    BY <2>1, <2>3, <2>4
<1>8. ProgressOK'
  <2>0. contextProgress' = [j \in Key |-> contextProgress'[j]]
    BY ONLY <1>4, <1>5
  <2>1. ASSUME NEW j \in Key
        PROVE  /\ contextProgress'[j] = <<>> \/ contextProgress'[j] = <<contextProgress'[j][1]>>
               /\ contextProgress'[j] = <<>> <=> results'[j] = <<>>
               /\ results'[j] # <<>> /\ j \notin savedOver => CountsOf(contextProgress'[j][1], results'[j])
    <3>1. CASE j = k
      <4>1. <<row>> # <<>> /\ <<row>>[1] = row
        OBVIOUS
      <4> QED
        BY <1>6, <1>7, <3>1, <4>1
    <3>2. CASE j # k
      BY <1>7, <3>2 DEF VocabInv, ProgressOK
    <3> QED
      BY <3>1, <3>2
  <2> QED
    <3>1. (\A j \in Key : /\ contextProgress[j] = <<>> \/ contextProgress[j] = <<contextProgress[j][1]>>
                          /\ contextProgress[j] = <<>> <=> results[j] = <<>>)'
      BY ONLY <2>1 DEF Key
    <3>2. (\A j \in Key : results[j] # <<>> /\ j \notin savedOver
                          => CountsOf(contextProgress[j][1], results[j]))'
      <4>1. \A j \in Key : results'[j] # <<>> /\ j \notin savedOver'
                          => CountsOf(contextProgress'[j][1], results'[j])
        BY ONLY <1>1, <2>1
      <4> QED
        BY ONLY <4>1 DEF Key, CountsOf, Streak
    <3>3. (contextProgress = [j \in Key |-> contextProgress[j]] /\ results \in [Key -> Seq(BOOLEAN)])'
      BY ONLY <1>7, <2>0 DEF Key
    <3> QED
      BY ONLY <3>1, <3>2, <3>3 DEF ProgressOK
<1>9. ASSUME NEW s \in Relation
      PROVE  /\ IsFiniteSet(AnswersTo(s, TRUE)') /\ IsFiniteSet(AnswersTo(s, FALSE)')
             /\ {Right(s), Wrong(s), missed[s], Right(s)', Wrong(s)'} \subseteq Nat
             /\ Right(s)' = IF s = r THEN Right(s) + One(q.is_correct) ELSE Right(s)
             /\ Wrong(s)' = IF s = r THEN Wrong(s) + One(~q.is_correct) ELSE Wrong(s)
  <2>1. IsFiniteSet(AnswersTo(s, TRUE)) /\ IsFiniteSet(AnswersTo(s, FALSE)) /\ missed[s] \in Nat
    BY DEF VocabInv, CountersOK
  <2>2. results' = [results EXCEPT ![k] = Append(@, q.is_correct)]
    BY <1>1
  <2>3. /\ IsFiniteSet(AnswersTo(s, TRUE)') /\ Cardinality(AnswersTo(s, TRUE)) \in Nat
        /\ Cardinality(AnswersTo(s, TRUE)') =
              Cardinality(AnswersTo(s, TRUE)) + (IF RelationOf[k[2]] = s /\ q.is_correct = TRUE THEN 1 ELSE 0)
    BY ONLY <1>3, <1>4, <2>1, <2>2, AnswersGrow
  <2>4. /\ IsFiniteSet(AnswersTo(s, FALSE)') /\ Cardinality(AnswersTo(s, FALSE)) \in Nat
        /\ Cardinality(AnswersTo(s, FALSE)') =
              Cardinality(AnswersTo(s, FALSE)) + (IF RelationOf[k[2]] = s /\ q.is_correct = FALSE THEN 1 ELSE 0)
    BY ONLY <1>3, <1>4, <2>1, <2>2, AnswersGrow
  <2>5. /\ Right(s)' = Right(s) + (IF s = r /\ q.is_correct THEN 1 ELSE 0)
        /\ Wrong(s)' = Wrong(s) + (IF s = r /\ ~q.is_correct THEN 1 ELSE 0)
        /\ Right(s) \in Nat /\ Wrong(s) \in Nat
    BY <1>3, <2>3, <2>4 DEF Right, Wrong
  <2>6. IsFiniteSet(AnswersTo(s, TRUE)') /\ IsFiniteSet(AnswersTo(s, FALSE)') /\ missed[s] \in Nat
    BY <2>1, <2>3, <2>4
  <2>7. /\ {Right(s)', Wrong(s)'} \subseteq Nat
        /\ Right(s)' = IF s = r THEN Right(s) + One(q.is_correct) ELSE Right(s)
        /\ Wrong(s)' = IF s = r THEN Wrong(s) + One(~q.is_correct) ELSE Wrong(s)
    <3> SUFFICES ASSUME NEW x, NEW x1, NEW y, NEW y1, x \in Nat, y \in Nat,
                        x1 = x + (IF s = r /\ q.is_correct THEN 1 ELSE 0),
                        y1 = y + (IF s = r /\ ~q.is_correct THEN 1 ELSE 0)
                 PROVE  /\ {x1, y1} \subseteq Nat
                        /\ x1 = IF s = r THEN x + One(q.is_correct) ELSE x
                        /\ y1 = IF s = r THEN y + One(~q.is_correct) ELSE y
      BY <2>5
    <3> QED
      BY DEF One
  <2> QED
    BY <2>5, <2>6, <2>7
<1>10. /\ missed' \in [Relation -> Nat] /\ missed[r] \in Nat
       /\ \A s \in Relation : s # r => missed'[s] = missed[s]
       /\ missed'[r] \in {missed[r], missed[r] + 1}
       /\ (\E v \in Worker \ {w} : vocabPc[v] = "update" /\ RelOf(vocabReq[v]) = r)
             => missed'[r] = missed[r] + 1
  <2>1. missed \in [Relation -> Nat]
    BY DEF VocabInv, CountersOK
  <2> HIDE DEF Relation
  <2>2. CASE \E v \in Worker \ {w} : vocabPc[v] = "update" /\ RelOf(vocabReq[v]) = r
    <3>1. missed' = [missed EXCEPT ![r] = missed[r] + 1]
      BY <1>1, <2>2
    <3> QED
      BY ONLY <1>3, <2>1, <3>1
  <2>3. CASE ~ \E v \in Worker \ {w} : vocabPc[v] = "update" /\ RelOf(vocabReq[v]) = r
    <3>1. missed' = missed
      BY <1>1, <2>3
    <3> QED
      BY <1>3, <2>1, <2>3, <3>1
  <2> QED
    BY <2>2, <2>3
<1>11. CountersOK'
  <2>1. ASSUME NEW s \in Relation PROVE Fits(Counters(s)', Right(s)', Wrong(s)', missed'[s])
    <3>1. CASE s = r
      <4>1. Counters(s)' = q.difficulty
        BY <1>1, <3>1 DEF Counters
      <4>2. Fits(q.difficulty, Right(s)', Wrong(s)', missed[s])
        BY <1>2, <1>9, <3>1
      <4>3. missed'[s] \in {missed[s], missed[s] + 1} /\ {Right(s)', Wrong(s)', missed[s]} \subseteq Nat
        BY <1>9, <1>10, <3>1
      <4> QED
        BY <4>1, <4>2, <4>3 DEF Fits
    <3>2. CASE s # r
      <4>1. Counters(s)' = Counters(s)
        BY <1>1, <3>2 DEF Counters
      <4>2. Fits(Counters(s), Right(s), Wrong(s), missed[s])
        BY DEF VocabInv, CountersOK
      <4> QED
        BY <1>9, <1>10, <3>2, <4>1, <4>2
    <3> QED
      BY <3>1, <3>2
  <2>2. \A s \in Relation, b \in BOOLEAN : IsFiniteSet(AnswersTo(s, b)')
    BY <1>9
  <2>3. Relation' = Relation
    BY DEF Relation
  <2> HIDE DEF Relation
  <2> QED
    BY <1>10, <2>1, <2>2, <2>3 DEF CountersOK, Right, Wrong, Counters, AnswersTo
<1>12. Spared(w)
  <2>1. \A s \in Relation, v \in Worker \ {w} : holder[s] = v => holder'[s] = v
    BY <1>1, Released
  <2>2. ASSUME NEW s \in Relation
        PROVE  /\ {Right(s), Wrong(s), missed[s]} \subseteq Nat
               /\ \/ Right(s)' = Right(s) /\ Wrong(s)' = Wrong(s) /\ missed'[s] = missed[s]
                  \/ /\ holder[s] = w
                     /\ {Right(s)', Wrong(s)'} \subseteq Nat
                     /\ Right(s) <= Right(s)' /\ Wrong(s) <= Wrong(s)'
                     /\ Right(s)' + Wrong(s)' = Right(s) + Wrong(s) + 1
                     /\ \A v \in Worker \ {w} :
                           vocabPc[v] = "update" /\ RelOf(vocabReq[v]) = s => missed'[s] = missed[s] + 1
    <3>1. CASE s = r
      <4>1. /\ One(q.is_correct) + One(~q.is_correct) = 1
            /\ One(q.is_correct) \in Nat /\ One(~q.is_correct) \in Nat
        BY <1>3 DEF One
      <4> QED
        <5>1. /\ Right(s)' = Right(s) + One(q.is_correct) /\ Wrong(s)' = Wrong(s) + One(~q.is_correct)
              /\ {Right(s), Wrong(s), missed[s], Right(s)', Wrong(s)'} \subseteq Nat
          BY <1>9, <3>1
        <5>2. /\ Right(s) <= Right(s)' /\ Wrong(s) <= Wrong(s)'
              /\ Right(s)' + Wrong(s)' = Right(s) + Wrong(s) + 1
          BY ONLY <4>1, <5>1
        <5>3. \A v \in Worker \ {w} :
                 vocabPc[v] = "update" /\ RelOf(vocabReq[v]) = s => missed'[s] = missed[s] + 1
          BY <1>10, <3>1
        <5> QED
          BY <1>2, <3>1, <5>1, <5>2, <5>3
    <3>2. CASE s # r
      BY <1>9, <1>10, <3>2
    <3> QED
      BY <3>1, <3>2
  <2>3. ASSUME NEW j \in Key
        PROVE  /\ contextProgress[j] # <<>> => contextProgress'[j] # <<>>
               /\ holder[RelationOf[j[2]]] = w \/ contextProgress'[j] = contextProgress[j]
    BY <1>2, <1>3, <1>7, OnlyRow
  <2> QED
    BY <1>1, <2>1, <2>2, <2>3 DEF Spared
<1>13. WorkersOK'
  <2>1. Known(w, "idle", NoPost)'
    BY DEF Known
  <2>2. (holder = [s \in Relation |-> holder[s]])'
    BY <1>1, Released
  <2> QED
    BY <1>1, <1>12, <2>1, <2>2, WorkersMove
<1> QED
  BY <1>8, <1>11, <1>13 DEF VocabInv

LEMMA CardKeeps == ASSUME VocabInv, NEW w \in Worker, CardSave(w) PROVE VocabInv'
<1> SUFFICES ASSUME NEW q, q = vocabReq[w], NEW k, k = Of(q) PROVE VocabInv'
  OBVIOUS
<1>1. /\ vocabPc[w] = "card" /\ UNCHANGED <<difficulty, results, holder, missed>>
      /\ contextProgress' = [contextProgress EXCEPT ![k] = [@ EXCEPT ![1] = q.row]]
      /\ savedOver' = IF contextProgress[k][1] = q.row THEN savedOver ELSE savedOver \cup {k}
      /\ VocabGoto(w, "idle", NoPost)
  BY DEF CardSave, VocabFinish, Of
<1>2. k \in Key /\ contextProgress[k] # <<>>
  BY <1>1 DEF VocabInv, WorkersOK, Known
<1>3. /\ contextProgress = [j \in Key |-> contextProgress[j]]
      /\ contextProgress[k] = <<contextProgress[k][1]>> /\ results[k] # <<>>
  BY <1>2 DEF VocabInv, ProgressOK
<1>4. /\ contextProgress' = [j \in Key |-> contextProgress'[j]] /\ contextProgress'[k] = <<q.row>>
      /\ \A j \in Key : j # k => contextProgress'[j] = contextProgress[j]
      /\ contextProgress'[k] # contextProgress[k] => k \in savedOver'
  <2>0. PICK old : contextProgress[k] = <<old>>
    BY <1>3
  <2>1. [contextProgress[k] EXCEPT ![1] = q.row] = <<q.row>>
    BY ONLY <2>0, RowReplaced
  <2> QED
    BY <1>1, <1>2, <1>3, <2>1
<1>5. ProgressOK'
  <2>1. ASSUME NEW j \in Key
        PROVE  /\ contextProgress'[j] = <<>> \/ contextProgress'[j] = <<contextProgress'[j][1]>>
               /\ contextProgress'[j] = <<>> <=> results[j] = <<>>
               /\ results[j] # <<>> /\ j \notin savedOver' => CountsOf(contextProgress'[j][1], results[j])
    <3>1. CASE contextProgress'[j] = contextProgress[j]
      BY <1>1, <3>1 DEF VocabInv, ProgressOK
    <3>2. CASE contextProgress'[j] # contextProgress[j]
      <4>1. j = k /\ <<q.row>> # <<>> /\ <<q.row>>[1] = q.row
        BY <1>4, <3>2
      <4> QED
        BY <1>3, <1>4, <3>2, <4>1
    <3> QED
      BY <3>1, <3>2
  <2>2. results' = results /\ results \in [Key -> Seq(BOOLEAN)]
    BY <1>1 DEF VocabInv, ProgressOK
  <2>3. \A j \in Key :
          /\ contextProgress'[j] = <<>> \/ contextProgress'[j] = <<contextProgress'[j][1]>>
          /\ contextProgress'[j] = <<>> <=> results'[j] = <<>>
          /\ results'[j] # <<>> /\ j \notin savedOver' => CountsOf(contextProgress'[j][1], results'[j])
    BY <2>1, <2>2
  <2> QED
    BY <1>4, <2>2, <2>3 DEF ProgressOK, Key, CountsOf, Streak
<1>6. /\ \A r, b : AnswersTo(r, b)' = AnswersTo(r, b)
      /\ \A r : Right(r)' = Right(r) /\ Wrong(r)' = Wrong(r) /\ Counters(r)' = Counters(r)
  BY <1>1 DEF AnswersTo, Right, Wrong, Counters
<1>7. \A r \in Relation : {Right(r), Wrong(r), missed[r]} \subseteq Nat
  BY TalliesType DEF VocabInv
<1>8. CountersOK'
  BY <1>1, <1>6 DEF VocabInv, CountersOK, Fits, Relation
<1>9. Spared(w)
  <2>1. <<q.row>> # <<>>
    OBVIOUS
  <2> QED
    BY <1>1, <1>2, <1>4, <1>6, <1>7, <2>1 DEF Spared
<1>10. WorkersOK'
  <2>1. Known(w, "idle", NoPost)'
    BY DEF Known
  <2>2. (holder = [s \in Relation |-> holder[s]])'
    BY <1>1 DEF VocabInv, WorkersOK, Relation
  <2> QED
    BY <1>1, <1>9, <2>1, <2>2, WorkersMove
<1> QED
  BY <1>5, <1>8, <1>10 DEF VocabInv

LEMMA VocabNext == VocabInv /\ [NextVocab]_vocabVars => VocabInv'
<1> SUFFICES ASSUME VocabInv, [NextVocab]_vocabVars PROVE VocabInv'
  OBVIOUS
<1>1. ASSUME UNCHANGED <<contextProgress, difficulty, results, holder, savedOver, missed, vocabPc, vocabReq>>
      PROVE  VocabInv'
  <2>1. ProgressOK'
    BY <1>1 DEF VocabInv, ProgressOK, Key, CountsOf, Streak
  <2>2. /\ \A r, b : AnswersTo(r, b)' = AnswersTo(r, b)
        /\ \A r : Right(r)' = Right(r) /\ Wrong(r)' = Wrong(r) /\ Counters(r)' = Counters(r)
    BY <1>1 DEF AnswersTo, Right, Wrong, Counters
  <2>3. CountersOK'
    BY <1>1, <2>2 DEF VocabInv, CountersOK, Fits, Relation
  <2>4. ASSUME NEW w \in Worker, Known(w, vocabPc[w], vocabReq[w]) PROVE Known(w, vocabPc[w], vocabReq[w])'
    BY <1>1, <2>2, <2>4 DEF Known, Asked, Of, RelOf, Right, Wrong, AnswersTo, Key
  <2>5. WorkersOK'
    BY <1>1, <2>4 DEF VocabInv, WorkersOK, Relation
  <2> QED
    BY <2>1, <2>3, <2>5 DEF VocabInv
<1>2. ASSUME NEW s \in Student, NEW c \in Context, Show(s, c) PROVE VocabInv'
  BY <1>1, <1>2 DEF Show
<1>3. ASSUME NEW s \in Student, NEW c \in Context,
             \/ AskAll(s, c) \/ AskAllWithAdmin(s, c) \/ AskReview(s, c) \/ AskReviewWithAdmin(s, c)
             \/ \E chapters \in SUBSET Chapter \ {{}} :
                   AskChapter(s, chapters, c) \/ AskChapterWithAdmin(s, chapters, c)
      PROVE  VocabInv'
  BY <1>2, <1>3 DEF AskAll, AskAllWithAdmin, AskReview, AskReviewWithAdmin, AskChapter, AskChapterWithAdmin
<1>4. ASSUME NEW w \in Worker,
             \/ \E s \in Student, c \in Context :
                   \/ CardRead(w, s, c)
                   \/ \E is_correct \in BOOLEAN :
                         PostAnswer(w, s, c, is_correct) \/ PostAnswerWithAdmin(w, s, c, is_correct)
             \/ AnswerStep(w) \/ CardSave(w) \/ Abort(w)
      PROVE  VocabInv'
  BY <1>4, VocabQuiet, CommitKeeps, CardKeeps DEF AnswerStep, PostAnswerWithAdmin
<1>5. ASSUME NEW s \in Student, NEW b \in Book \cup {None}, ChangeBook(s, b) PROVE VocabInv'
  BY <1>1, <1>5 DEF ChangeBook
<1>6. CASE Tick
  BY <1>1, <1>6 DEF Tick
<1>7. CASE UNCHANGED vocabVars
  BY <1>1, <1>7 DEF vocabVars
<1> QED
  BY <1>3, <1>4, <1>5, <1>6, <1>7 DEF NextVocab

LEMMA VocabHonest == VocabInv => AnswersCounted /\ VocabRates
<1> SUFFICES ASSUME VocabInv PROVE AnswersCounted /\ VocabRates
  OBVIOUS
<1>1. AnswersCounted
  <2> SUFFICES ASSUME NEW k \in Key, k \notin savedOver
               PROVE  IF results[k] = <<>> THEN contextProgress[k] = <<>>
                      ELSE Len(contextProgress[k]) = 1 /\ CountsOf(contextProgress[k][1], results[k])
    BY DEF AnswersCounted, CountsOf, Key
  <2>1. /\ contextProgress[k] = <<>> \/ contextProgress[k] = <<contextProgress[k][1]>>
        /\ contextProgress[k] = <<>> <=> results[k] = <<>>
        /\ results[k] # <<>> => CountsOf(contextProgress[k][1], results[k])
    BY DEF VocabInv, ProgressOK
  <2>2. contextProgress[k] # <<>> => Len(contextProgress[k]) = 1
    <3>1. SUFFICES ASSUME NEW row, contextProgress[k] = <<row>> PROVE Len(contextProgress[k]) = 1
      BY <2>1
    <3> QED
      BY ONLY <3>1
  <2> QED
    BY <2>1, <2>2
<1>2. VocabRates
  <2>1. ASSUME NEW r \in Relation
        PROVE  /\ Counters(r).correct \in 0 .. Right(r)
               /\ Counters(r).total - Counters(r).correct \in 0 .. Wrong(r)
               /\ Right(r) + Wrong(r) - Counters(r).total <= missed[r]
    <3>1. {Right(r), Wrong(r), missed[r]} \subseteq Nat
      BY TalliesType DEF VocabInv
    <3>2. Fits(Counters(r), Right(r), Wrong(r), missed[r])
      BY DEF VocabInv, CountersOK
    <3> QED
      BY <3>1, <3>2 DEF Fits
  <2> QED
    BY <2>1 DEF VocabRates, Right, Wrong
<1> QED
  BY <1>1, <1>2

\* A step of either app is a step, or none, of the vocabulary quizzes.
LEMMA VocabOfQuizzes ==
    /\ InitQuizzes => VocabInv
    /\ VocabInv /\ [NextQuizzes]_quizVars => VocabInv'
<1>1. InitQuizzes => VocabInv
  BY VocabStart DEF InitQuizzes
<1>2. [NextQuizzes]_quizVars => [NextVocab]_vocabVars
  BY DEF NextQuizzes, quizVars
<1> QED
  BY <1>1, <1>2, VocabNext

\* vocab_trainer's check_answer (vocab_trainer/views.py) loses no answer and
\* creates no second progress row, with any number of students, words, workers and
\* answers: whoever has updated the difficulty of a word holds its row, so that the
\* progress read then is the progress saved over.
THEOREM NoAnswerLost == SpecQuizzes => []AnswersCounted
<1>1. VocabInv => AnswersCounted
  BY VocabHonest
<1> QED
  BY <1>1, VocabOfQuizzes, PTL DEF SpecQuizzes

-----------------------------------------------------------------------------
(* The spacing of the reviews of words, whichever rows are saved over. *)

SpacedRow(row) ==
    /\ row.total \in Nat /\ row.correct \in Nat
    /\ row.ease \in Int /\ row.ease >= 780
    /\ row.interval \in Int /\ row.interval >= 1

LEMMA IntervalGrows ==
    ASSUME NEW interval \in Int, NEW ease \in Int, interval >= 1, ease >= 780
    PROVE  (interval * ease) \div 600 \in Int /\ (interval * ease) \div 600 >= 1
<1>1. interval * ease \in Int /\ interval * ease >= 780
  <2>1. (interval - 1) * ease >= 0
    OBVIOUS
  <2> QED
    BY <2>1
<1> QED
  BY <1>1

LEMMA UpdatedSpaced ==
    ASSUME NEW row, SpacedRow(row), NEW is_correct \in BOOLEAN, NEW today
    PROVE  SpacedRow(Updated(row, is_correct, today))
<1> SUFFICES ASSUME NEW u, u = Updated(row, is_correct, today),
                    NEW total, total = row.total + 1,
                    NEW correct, correct = IF is_correct THEN row.correct + 1 ELSE row.correct,
                    NEW ease, ease = Ease(row, is_correct, total, correct),
                    NEW interval, interval = IF is_correct THEN (row.interval * ease) \div SCALE ELSE 1
             PROVE  SpacedRow(u)
  OBVIOUS
<1>1. u.total = total /\ u.correct = correct /\ u.ease = ease /\ u.interval = interval
  BY DEF Updated
<1>2. total \in Nat \ {0} /\ correct \in Nat
  BY DEF SpacedRow
<1>3. (300 * correct) \div total \in Int
  BY <1>2
<1>4. ease \in Int /\ ease >= 780
  <2>1. \A x \in Int : AtLeast(MIN_EASE, x) \in Int /\ AtLeast(MIN_EASE, x) >= 780
    BY DEF AtLeast, MIN_EASE
  <2>2. row.ease - 120 \in Int /\ row.ease - 120 + (300 * correct) \div total \in Int
    BY <1>3 DEF SpacedRow
  <2> QED
    BY <2>1, <2>2 DEF Ease
<1>5. interval \in Int /\ interval >= 1
  BY <1>4, IntervalGrows DEF SpacedRow, SCALE
<1> QED
  BY <1>1, <1>2, <1>4, <1>5 DEF SpacedRow

RowsSpaced == \A k \in Key : contextProgress[k] # <<>> => SpacedRow(contextProgress[k][1])

ReadSpaced == \A w \in Worker : vocabPc[w] \in {"commit", "card"} => SpacedRow(vocabReq[w].row)

LEMMA SpacedMoves ==
    ASSUME VocabInv, ReadSpaced, NEW w \in Worker, NEW place, NEW q, VocabGoto(w, place, q),
           place \in {"commit", "card"} => SpacedRow(q.row)
    PROVE  ReadSpaced'
<1>1. /\ vocabPc'[w] = place /\ vocabReq'[w] = q
      /\ \A v \in Worker \ {w} : vocabPc'[v] = vocabPc[v] /\ vocabReq'[v] = vocabReq[v]
  BY DEF VocabInv, WorkersOK, VocabGoto
<1>2. ASSUME NEW v \in Worker, vocabPc'[v] \in {"commit", "card"} PROVE SpacedRow(vocabReq'[v].row)
  <2>1. CASE v = w
    BY <1>1, <1>2, <2>1
  <2>2. CASE v # w
    BY <1>1, <1>2, <2>2 DEF ReadSpaced
  <2> QED
    BY <2>1, <2>2
<1> QED
  BY <1>2 DEF ReadSpaced, SpacedRow

\* A step of w that saves another first row.
LEMMA SpacedStored ==
    ASSUME VocabInv, RowsSpaced, NEW k \in Key, NEW row, SpacedRow(row), NEW rows, rows[1] = row,
           contextProgress' = [contextProgress EXCEPT ![k] = rows]
    PROVE  RowsSpaced'
<1>1. /\ contextProgress'[k] = rows
      /\ \A j \in Key : j # k => contextProgress'[j] = contextProgress[j]
  BY DEF VocabInv, ProgressOK
<1>2. ASSUME NEW j \in Key, contextProgress'[j] # <<>> PROVE SpacedRow(contextProgress'[j][1])
  BY <1>1, <1>2 DEF RowsSpaced
<1> QED
  BY <1>2 DEF RowsSpaced, SpacedRow, Key

LEMMA FirstRow ==
    ASSUME NEW rows, NEW row, rows = <<>> \/ (\E old : rows = <<old>>)
    PROVE  /\ rows = <<>> => Append(rows, row)[1] = row
           /\ rows # <<>> => [rows EXCEPT ![1] = row][1] = row
           /\ \A i \in DOMAIN rows : i = 1 /\ rows # <<>>
<1>1. CASE rows = <<>>
  BY <1>1
<1>2. CASE \E old : rows = <<old>>
  BY <1>2
<1> QED
  BY <1>1, <1>2

LEMMA SpacedAnswer ==
    ASSUME VocabInv, RowsSpaced, ReadSpaced, NEW w \in Worker, AnswerStep(w) \/ CardSave(w) \/ Abort(w)
    PROVE  RowsSpaced' /\ ReadSpaced'
<1> SUFFICES ASSUME NEW q, q = vocabReq[w], NEW k, k = Of(q) PROVE RowsSpaced' /\ ReadSpaced'
  OBVIOUS
<1>1. UNCHANGED contextProgress => RowsSpaced'
  BY DEF RowsSpaced, SpacedRow, Key
<1>2. \A place, r : VocabGoto(w, place, r) /\ place \notin {"commit", "card"} => ReadSpaced'
  BY SpacedMoves
<1>3. Known(w, vocabPc[w], q)
  BY DEF VocabInv, WorkersOK
<1>4. ASSUME k \in Key PROVE contextProgress[k] = <<>> \/ (\E old : contextProgress[k] = <<old>>)
  BY <1>4 DEF VocabInv, ProgressOK
<1>5. CASE SelectDifficulty(w)
  BY <1>1, <1>2, <1>5 DEF SelectDifficulty
<1>6. CASE InsertDifficulty(w)
  BY <1>1, <1>2, <1>6 DEF InsertDifficulty
<1>7. CASE UpdateDifficulty(w)
  BY <1>1, <1>2, <1>7 DEF UpdateDifficulty
<1>8. CASE Abort(w)
  BY <1>1, <1>2, <1>8 DEF Abort, VocabFinish
<1>9. CASE SelectProgress(w)
  <2> SUFFICES ASSUME NEW rows, rows = contextProgress[k],
                      NEW r, r = [student    |-> q.student,
                                  context    |-> q.context,
                                  is_correct |-> q.is_correct,
                                  difficulty |-> q.difficulty,
                                  new        |-> rows = <<>>,
                                  row        |-> IF rows = <<>> THEN NewRow ELSE rows[1]]
               PROVE  RowsSpaced' /\ ReadSpaced'
    OBVIOUS
  <2>1. /\ vocabPc[w] = "progress" /\ UNCHANGED contextProgress
        /\ VocabGoto(w, "commit", r) \/ VocabGoto(w, "idle", NoPost)
    BY <1>9 DEF SelectProgress, VocabFinish, Of
  <2>2. k \in Key
    BY <1>3, <2>1, RelOfType DEF Known
  <2>3. SpacedRow(NewRow)
    BY DEF SpacedRow, NewRow
  <2>4. rows # <<>> => SpacedRow(rows[1])
    BY <2>2 DEF RowsSpaced
  <2>5. SpacedRow(r.row)
    BY <2>3, <2>4
  <2> QED
    BY <1>1, <1>2, <2>1, <2>5, SpacedMoves
<1>10. CASE CommitAnswer(w)
  <2> SUFFICES ASSUME NEW row, row = Updated(q.row, q.is_correct, day),
                      NEW rows, rows = IF q.new THEN Append(contextProgress[k], row)
                                       ELSE [contextProgress[k] EXCEPT ![1] = row]
               PROVE  RowsSpaced' /\ ReadSpaced'
    OBVIOUS
  <2>1. /\ vocabPc[w] = "commit" /\ VocabGoto(w, "idle", NoPost)
        /\ contextProgress' = [contextProgress EXCEPT ![k] = rows]
    BY <1>10 DEF CommitAnswer, VocabFinish, Of
  <2>2. /\ Asked(q) /\ k \in Key
        /\ IF contextProgress[k] = <<>> THEN q.new = TRUE ELSE q.new = FALSE
    BY <1>3, <2>1, RelOfType DEF Known
  <2>3. SpacedRow(q.row)
    BY <2>1 DEF ReadSpaced
  <2>4. SpacedRow(row)
    BY <2>2, <2>3, UpdatedSpaced DEF Asked
  <2>5. rows[1] = row
    <3>1. CASE contextProgress[k] = <<>>
      <4>1. rows = Append(contextProgress[k], row)
        BY <2>2, <3>1
      <4> QED
        BY <3>1, <4>1, FirstRow
    <3>2. CASE contextProgress[k] # <<>>
      <4>1. rows = [contextProgress[k] EXCEPT ![1] = row]
        BY <2>2, <3>2
      <4> QED
        BY <1>4, <2>2, <3>2, <4>1, FirstRow
    <3> QED
      BY <3>1, <3>2
  <2> QED
    BY <1>2, <2>1, <2>2, <2>4, <2>5, SpacedStored
<1>11. CASE CardSave(w)
  <2> SUFFICES ASSUME NEW rows, rows = [contextProgress[k] EXCEPT ![1] = q.row]
               PROVE  RowsSpaced' /\ ReadSpaced'
    OBVIOUS
  <2>1. /\ vocabPc[w] = "card" /\ VocabGoto(w, "idle", NoPost)
        /\ contextProgress' = [contextProgress EXCEPT ![k] = rows]
    BY <1>11 DEF CardSave, VocabFinish, Of
  <2>2. k \in Key /\ contextProgress[k] # <<>>
    BY <1>3, <2>1 DEF Known
  <2>3. SpacedRow(q.row)
    BY <2>1 DEF ReadSpaced
  <2>4. rows[1] = q.row
    BY <1>4, <2>2, FirstRow
  <2> QED
    BY <1>2, <2>1, <2>2, <2>3, <2>4, SpacedStored
<1> QED
  BY <1>5, <1>6, <1>7, <1>8, <1>9, <1>10, <1>11 DEF AnswerStep

LEMMA SpacedNext ==
    ASSUME VocabInv, RowsSpaced, ReadSpaced, [NextVocab]_vocabVars
    PROVE  RowsSpaced' /\ ReadSpaced'
<1>1. ASSUME UNCHANGED <<contextProgress, vocabPc, vocabReq>> PROVE RowsSpaced' /\ ReadSpaced'
  BY <1>1 DEF RowsSpaced, ReadSpaced, SpacedRow, Key
<1>2. ASSUME NEW s \in Student, NEW c \in Context, Show(s, c) PROVE RowsSpaced' /\ ReadSpaced'
  BY <1>1, <1>2 DEF Show
<1>3. ASSUME NEW s \in Student, NEW c \in Context,
             \/ AskAll(s, c) \/ AskAllWithAdmin(s, c) \/ AskReview(s, c) \/ AskReviewWithAdmin(s, c)
             \/ \E chapters \in SUBSET Chapter \ {{}} :
                   AskChapter(s, chapters, c) \/ AskChapterWithAdmin(s, chapters, c)
      PROVE  RowsSpaced' /\ ReadSpaced'
  BY <1>2, <1>3 DEF AskAll, AskAllWithAdmin, AskReview, AskReviewWithAdmin, AskChapter, AskChapterWithAdmin
<1>4. UNCHANGED contextProgress => RowsSpaced'
  BY DEF RowsSpaced, SpacedRow, Key
<1>5. ASSUME NEW w \in Worker, NEW s \in Student, NEW c \in Context, CardRead(w, s, c)
      PROVE  RowsSpaced' /\ ReadSpaced'
  <2> SUFFICES ASSUME NEW k, k = <<s, c>>,
                      NEW r, r = [student |-> s, context |-> c, row |-> contextProgress[k][1]]
               PROVE  RowsSpaced' /\ ReadSpaced'
    OBVIOUS
  <2>1. VocabGoto(w, "card", r) /\ Len(contextProgress[k]) = 1 /\ UNCHANGED contextProgress
    BY <1>5 DEF CardRead
  <2>2. contextProgress[k] # <<>>
    BY <2>1, OneIsSome
  <2>3. SpacedRow(r.row)
    BY <2>2 DEF RowsSpaced, Key
  <2> QED
    BY <1>4, <2>1, <2>3, SpacedMoves
<1>6. ASSUME NEW w \in Worker, NEW s \in Student, NEW c \in Context, NEW b \in BOOLEAN,
             PostAnswer(w, s, c, b) \/ PostAnswerWithAdmin(w, s, c, b)
      PROVE  RowsSpaced' /\ ReadSpaced'
  BY <1>4, <1>6, SpacedMoves DEF PostAnswer, PostAnswerWithAdmin
<1>7. ASSUME NEW w \in Worker, AnswerStep(w) \/ CardSave(w) \/ Abort(w) PROVE RowsSpaced' /\ ReadSpaced'
  BY <1>7, SpacedAnswer
<1>8. ASSUME NEW s \in Student, NEW b \in Book \cup {None}, ChangeBook(s, b)
      PROVE  RowsSpaced' /\ ReadSpaced'
  BY <1>1, <1>8 DEF ChangeBook
<1>9. CASE Tick
  BY <1>1, <1>9 DEF Tick
<1>10. CASE UNCHANGED vocabVars
  BY <1>1, <1>10 DEF vocabVars
<1> QED
  BY <1>3, <1>5, <1>6, <1>7, <1>8, <1>9, <1>10 DEF NextVocab

\* ease_factor never falls below 1.3 and the interval never to zero, however many
\* answers a student gives, so that the review priority of vocab_trainer, which
\* divides by their product, always exists.
THEOREM EaseBoundedAlways == SpecQuizzes => []EaseBounded
<1> DEFINE Inv == VocabInv /\ RowsSpaced /\ ReadSpaced
<1>1. InitQuizzes => Inv
  BY VocabOfQuizzes DEF InitQuizzes, InitVocab, RowsSpaced, ReadSpaced, Key
<1>2. [NextQuizzes]_quizVars => [NextVocab]_vocabVars
  BY DEF NextQuizzes, quizVars
<1>3. Inv /\ [NextQuizzes]_quizVars => Inv'
  BY <1>2, VocabOfQuizzes, SpacedNext
<1>4. Inv => EaseBounded
  <2> SUFFICES ASSUME Inv, NEW k \in Key, NEW i \in DOMAIN contextProgress[k]
               PROVE  contextProgress[k][i].ease >= 780 /\ contextProgress[k][i].interval >= 1
    BY DEF EaseBounded, Key
  <2>1. contextProgress[k] = <<>> \/ (\E old : contextProgress[k] = <<old>>)
    BY DEF VocabInv, ProgressOK
  <2>2. i = 1 /\ contextProgress[k] # <<>>
    BY <2>1, FirstRow
  <2> QED
    BY <2>2 DEF RowsSpaced, SpacedRow
<1> QED
  BY <1>1, <1>3, <1>4, PTL DEF SpecQuizzes

-----------------------------------------------------------------------------
(* Chemistry.  Nothing is locked, and a row counts no more answers than were *)
(* posted, because a worker saves its answer once: what counts is the number *)
(* of answers no worker has still to save.                                   *)

ChemKey == Student \X Item

\* A rate of at most n answers.
RateOf(d, n) == d \in [correct : Nat, total : Nat] /\ d.correct <= d.total /\ d.total <= n

LEMMA RateGrows ==
    ASSUME NEW d, NEW m \in Nat, NEW n \in Nat, m <= n, RateOf(d, m) PROVE RateOf(d, n)
BY DEF RateOf

Posted(q) == q.student \in Student /\ q.item \in Item /\ q.is_correct \in BOOLEAN

KeyOf(q) == <<q.student, q.item>>

\* The worker at this place has an answer to k to save.
Answering(place, q, k) ==
    \/ place \in {"get", "create"} /\ KeyOf(q) = k
    \/ place = "save" /\ KeyOf(q.answer) = k

Pending(k) == {w \in Worker : Answering(chemPc[w], chemReq[w], k)}

Done(k) == chemPosted[k] - Cardinality(Pending(k))

LevelOK(row) ==
    /\ row.correct \in Nat /\ row.total \in Nat /\ row.correct <= row.total
    /\ row.level \in 1 .. 5

\* What a worker knows at a place.
ChemKnown(place, q) ==
    /\ place \in {"get", "create", "difficulty"} => Posted(q)
    /\ place \in {"save", "level"} => Posted(q.answer)
    /\ place = "save" => /\ RateOf(q.row, Done(KeyOf(q.answer)))
                         /\ q.id \in DOMAIN chemProgress[KeyOf(q.answer)]
    /\ place = "level" => q.answer.item \in DOMAIN chemDifficulty /\ LevelOK(q.row)
    /\ place = "card" => /\ KeyOf(q) \in ChemKey /\ RateOf(q.row, Done(KeyOf(q)))
                         /\ 1 \in DOMAIN chemProgress[KeyOf(q)]

ChemRowsOK ==
    /\ chemProgress \in [ChemKey -> Seq([correct : Nat, total : Nat])]
    /\ \A k \in ChemKey : \A n \in DOMAIN chemProgress[k] : RateOf(chemProgress[k][n], Done(k))

ChemPostedOK ==
    /\ chemPosted \in [ChemKey -> Nat]
    /\ \A k \in ChemKey : IsFiniteSet(Pending(k)) /\ Done(k) \in Nat

ChemLevelsOK ==
    /\ chemDifficulty = [i \in DOMAIN chemDifficulty |-> chemDifficulty[i]]
    /\ \A i \in DOMAIN chemDifficulty : LevelOK(chemDifficulty[i])

ChemWorkersOK ==
    /\ chemPc = [w \in Worker |-> chemPc[w]] /\ chemReq = [w \in Worker |-> chemReq[w]]
    /\ \A w \in Worker : ChemKnown(chemPc[w], chemReq[w])

\* The inductive invariant.
ChemInv == ChemRowsOK /\ ChemPostedOK /\ ChemLevelsOK /\ ChemWorkersOK

LEMMA ChemStart == InitChem => ChemInv
<1> SUFFICES ASSUME InitChem PROVE ChemInv
  OBVIOUS
<1>1. /\ chemProgress \in [ChemKey -> Seq([correct : Nat, total : Nat])]
      /\ \A k \in ChemKey : DOMAIN chemProgress[k] = {}
  BY DEF InitChem, ChemKey
<1>2. ASSUME NEW k \in ChemKey PROVE IsFiniteSet(Pending(k)) /\ Done(k) \in Nat
  <2>1. Pending(k) = {} /\ chemPosted[k] = 0
    BY DEF Pending, Answering, InitChem, ChemKey
  <2>2. IsFiniteSet({}) /\ Cardinality({}) = 0
    BY FS_EmptySet
  <2> QED
    BY <2>1, <2>2 DEF Done
<1>3. ChemPostedOK
  BY <1>2 DEF ChemPostedOK, InitChem, ChemKey
<1>4. ChemLevelsOK
  BY DEF ChemLevelsOK, InitChem
<1>5. ChemWorkersOK
  BY DEF ChemWorkersOK, ChemKnown, InitChem
<1> QED
  BY <1>1, <1>3, <1>4, <1>5 DEF ChemInv, ChemRowsOK

\* A worker that moves leaves the answers of the others as they are.
LEMMA PendingMoves ==
    ASSUME ChemWorkersOK, NEW w \in Worker, NEW place, NEW q, ChemGoto(w, place, q),
           NEW k, IsFiniteSet(Pending(k))
    PROVE  /\ IsFiniteSet(Pending(k)') /\ Cardinality(Pending(k)) \in Nat
           /\ (Answering(chemPc[w], chemReq[w], k) <=> Answering(place, q, k)) =>
                 Cardinality(Pending(k)') = Cardinality(Pending(k))
           /\ ~Answering(chemPc[w], chemReq[w], k) /\ Answering(place, q, k) =>
                 Cardinality(Pending(k)') = Cardinality(Pending(k)) + 1
           /\ Answering(chemPc[w], chemReq[w], k) /\ ~Answering(place, q, k) =>
                 Cardinality(Pending(k)') = Cardinality(Pending(k)) - 1
<1>1. /\ chemPc'[w] = place /\ chemReq'[w] = q
      /\ \A v \in Worker \ {w} : chemPc'[v] = chemPc[v] /\ chemReq'[v] = chemReq[v]
  BY DEF ChemGoto, ChemWorkersOK
<1>2. \A v : v \in Pending(k) <=> v \in Worker /\ Answering(chemPc[v], chemReq[v], k)
  BY DEF Pending
<1>3. \A v : v \in Pending(k)' <=> v \in Worker /\ Answering(chemPc'[v], chemReq'[v], k)
  BY DEF Pending, Answering, KeyOf
<1>4. \A v : v # w => (v \in Pending(k)' <=> v \in Pending(k))
  BY <1>1, <1>2, <1>3
<1>5. /\ w \in Pending(k) <=> Answering(chemPc[w], chemReq[w], k)
      /\ w \in Pending(k)' <=> Answering(place, q, k)
  BY <1>1, <1>2, <1>3
<1> SUFFICES ASSUME NEW S, S = Pending(k), NEW T, T = Pending(k)'
             PROVE  /\ IsFiniteSet(T) /\ Cardinality(S) \in Nat
                    /\ (w \in S <=> w \in T) => Cardinality(T) = Cardinality(S)
                    /\ w \notin S /\ w \in T => Cardinality(T) = Cardinality(S) + 1
                    /\ w \in S /\ w \notin T => Cardinality(T) = Cardinality(S) - 1
  BY <1>5
<1>6. IsFiniteSet(S) /\ Cardinality(S) \in Nat
  BY FS_CardinalityType
<1>7. CASE w \in S <=> w \in T
  <2>1. T = S
    BY <1>4, <1>7
  <2> QED
    BY <1>6, <1>7, <2>1
<1>8. CASE w \notin S /\ w \in T
  <2>1. T = S \cup {w}
    BY <1>4, <1>8
  <2>2. IsFiniteSet(S \cup {w}) /\ Cardinality(S \cup {w}) = Cardinality(S) + 1
    BY ONLY <1>6, <1>8, FS_AddElement
  <2> QED
    BY <1>6, <1>8, <2>1, <2>2
<1>9. CASE w \in S /\ w \notin T
  <2>1. T = S \ {w}
    BY <1>4, <1>9
  <2>2. IsFiniteSet(S \ {w}) /\ Cardinality(S \ {w}) = Cardinality(S) - 1
    BY ONLY <1>6, <1>9, FS_RemoveElement
  <2> QED
    BY <1>6, <1>9, <2>1, <2>2
<1> QED
  BY <1>7, <1>8, <1>9

\* The answers done only grow.
Settled(k) ==
    /\ IsFiniteSet(Pending(k)') /\ Done(k) \in Nat /\ Done(k)' \in Nat
    /\ Done(k) <= Done(k)'

LEMMA AnswerSettled ==
    ASSUME ChemInv, NEW w \in Worker, NEW place, NEW q, ChemGoto(w, place, q), UNCHANGED chemPosted,
           \A k : Answering(place, q, k) => Answering(chemPc[w], chemReq[w], k),
           NEW k \in ChemKey
    PROVE  /\ Settled(k)
           /\ Answering(chemPc[w], chemReq[w], k) /\ ~Answering(place, q, k) => Done(k)' = Done(k) + 1
<1>1. /\ IsFiniteSet(Pending(k)) /\ Done(k) \in Nat /\ chemPosted[k] \in Nat /\ ChemWorkersOK
  BY DEF ChemInv, ChemPostedOK
<1>2. /\ IsFiniteSet(Pending(k)') /\ Cardinality(Pending(k)) \in Nat
      /\ \/ Cardinality(Pending(k)') = Cardinality(Pending(k)) /\ (Answering(chemPc[w], chemReq[w], k) => Answering(place, q, k))
         \/ Cardinality(Pending(k)') = Cardinality(Pending(k)) - 1
  BY <1>1, PendingMoves
<1>3. Done(k) = chemPosted[k] - Cardinality(Pending(k)) /\ Done(k)' = chemPosted[k] - Cardinality(Pending(k)')
  BY DEF Done
<1> QED
  BY <1>1, <1>2, <1>3 DEF Settled

\* What a step leaves to the other workers.
ChemSpared ==
    /\ \A k \in ChemKey : Settled(k) /\ DOMAIN chemProgress[k] \subseteq DOMAIN chemProgress'[k]
    /\ DOMAIN chemDifficulty \subseteq DOMAIN chemDifficulty'

LEMMA OthersStillKnow ==
    ASSUME ChemSpared, NEW place, NEW q, ChemKnown(place, q) PROVE ChemKnown(place, q)'
<1>1. /\ place \in {"get", "create", "difficulty"} => Posted(q)
      /\ place \in {"save", "level"} => Posted(q.answer)
  BY DEF ChemKnown
<1>2. \A p : Posted(p) => KeyOf(p) \in ChemKey
  BY DEF Posted, KeyOf, ChemKey
<1>3. ASSUME NEW k \in ChemKey, NEW row, RateOf(row, Done(k)) PROVE RateOf(row, Done(k)')
  BY <1>3, RateGrows DEF ChemSpared, Settled
<1>4. ASSUME place = "save"
      PROVE  RateOf(q.row, Done(KeyOf(q.answer))') /\ q.id \in DOMAIN chemProgress'[KeyOf(q.answer)]
  <2>1. KeyOf(q.answer) \in ChemKey
    BY <1>1, <1>2, <1>4
  <2>2. RateOf(q.row, Done(KeyOf(q.answer))) /\ q.id \in DOMAIN chemProgress[KeyOf(q.answer)]
    BY <1>4 DEF ChemKnown
  <2> QED
    BY <1>3, <2>1, <2>2 DEF ChemSpared
<1>5. ASSUME place = "card"
      PROVE  /\ KeyOf(q) \in ChemKey /\ RateOf(q.row, Done(KeyOf(q))')
             /\ 1 \in DOMAIN chemProgress'[KeyOf(q)]
  BY <1>3, <1>5 DEF ChemKnown, ChemSpared
<1>6. place = "level" => q.answer.item \in DOMAIN chemDifficulty' /\ LevelOK(q.row)
  BY DEF ChemKnown, ChemSpared
<1> QED
  BY <1>1, <1>4, <1>5, <1>6 DEF ChemKnown, Posted, KeyOf, ChemKey, RateOf, LevelOK

LEMMA ChemMoves ==
    ASSUME ChemInv, NEW w \in Worker, NEW place, NEW q, ChemGoto(w, place, q), ChemSpared,
           ChemKnown(place, q)'
    PROVE  ChemWorkersOK'
<1>1. /\ chemPc = [v \in Worker |-> chemPc[v]] /\ chemReq = [v \in Worker |-> chemReq[v]]
      /\ \A v \in Worker : ChemKnown(chemPc[v], chemReq[v])
  BY DEF ChemInv, ChemWorkersOK
<1>2. /\ chemPc' = [v \in Worker |-> chemPc'[v]] /\ chemReq' = [v \in Worker |-> chemReq'[v]]
      /\ chemPc'[w] = place /\ chemReq'[w] = q
      /\ \A v \in Worker \ {w} : chemPc'[v] = chemPc[v] /\ chemReq'[v] = chemReq[v]
  BY <1>1 DEF ChemGoto
<1>3. ASSUME NEW v \in Worker PROVE ChemKnown(chemPc[v], chemReq[v])'
  <2>1. ASSUME NEW p, NEW r, p = chemPc[v]', r = chemReq[v]' PROVE ChemKnown(p, r)'
    <3>1. CASE v = w
      BY <1>2, <2>1, <3>1
    <3>2. CASE v # w
      <4>1. ChemKnown(p, r)
        BY <1>1, <1>2, <2>1, <3>2
      <4> QED
        BY <4>1, OthersStillKnow
    <3> QED
      BY <3>1, <3>2
  <2> QED
    BY <2>1 DEF ChemKnown, Posted, KeyOf, RateOf, LevelOK
<1> QED
  BY <1>2, <1>3 DEF ChemWorkersOK

\* A step of w that leaves the rows alone.
LEMMA ChemQuietStep ==
    ASSUME ChemInv, NEW w \in Worker, NEW place, NEW q, ChemGoto(w, place, q), UNCHANGED chemProgress,
           \A k \in ChemKey : Settled(k), (chemPosted \in [ChemKey -> Nat])',
           ChemLevelsOK', DOMAIN chemDifficulty \subseteq DOMAIN chemDifficulty', ChemKnown(place, q)'
    PROVE  ChemInv'
<1>1. ChemSpared
  BY DEF ChemSpared
<1>2. ChemRowsOK'
  <2>1. ASSUME NEW k \in ChemKey, NEW n \in DOMAIN chemProgress[k]
        PROVE  RateOf(chemProgress[k][n], Done(k)')
    BY RateGrows DEF ChemInv, ChemRowsOK, Settled
  <2> QED
    BY <2>1 DEF ChemInv, ChemRowsOK, ChemKey, RateOf
<1>3. ChemPostedOK'
  BY DEF ChemPostedOK, Settled, ChemKey
<1> QED
  BY <1>1, <1>2, <1>3, ChemMoves DEF ChemInv

\* Any other step of w than a post: it has no answer to save that it had not before.
LEMMA ChemAnswerStep ==
    ASSUME ChemInv, NEW w \in Worker, NEW place, NEW q, ChemGoto(w, place, q),
           UNCHANGED <<chemProgress, chemPosted>>,
           \A k : Answering(place, q, k) => Answering(chemPc[w], chemReq[w], k),
           ChemLevelsOK', DOMAIN chemDifficulty \subseteq DOMAIN chemDifficulty', ChemKnown(place, q)'
    PROVE  ChemInv'
<1>1. \A k \in ChemKey : Settled(k)
  BY AnswerSettled
<1>2. (chemPosted \in [ChemKey -> Nat])'
  BY DEF ChemInv, ChemPostedOK, ChemKey
<1> QED
  BY <1>1, <1>2, ChemQuietStep

\* A step of w that stores other rows for a student and an item.
LEMMA ChemStore ==
    ASSUME ChemInv, NEW w \in Worker, NEW place, NEW q, ChemGoto(w, place, q),
           UNCHANGED <<chemDifficulty, chemPosted>>,
           \A j : Answering(place, q, j) => Answering(chemPc[w], chemReq[w], j),
           NEW k \in ChemKey, NEW rows \in Seq([correct : Nat, total : Nat]),
           chemProgress' = [chemProgress EXCEPT ![k] = rows],
           DOMAIN chemProgress[k] \subseteq DOMAIN rows,
           \A n \in DOMAIN rows : RateOf(rows[n], Done(k)'), ChemKnown(place, q)'
    PROVE  ChemInv'
<1>1. \A j \in ChemKey : Settled(j)
  BY AnswerSettled
<1>2. /\ chemProgress' \in [ChemKey -> Seq([correct : Nat, total : Nat])] /\ chemProgress'[k] = rows
      /\ \A j \in ChemKey : j # k => chemProgress'[j] = chemProgress[j]
  BY DEF ChemInv, ChemRowsOK
<1>3. ChemSpared
  <2>1. ASSUME NEW j \in ChemKey PROVE DOMAIN chemProgress[j] \subseteq DOMAIN chemProgress'[j]
    BY <1>2
  <2> QED
    BY <1>1, <2>1 DEF ChemSpared
<1>4. ASSUME NEW j \in ChemKey, NEW n \in DOMAIN chemProgress'[j]
      PROVE  RateOf(chemProgress'[j][n], Done(j)')
  <2>1. CASE j = k
    BY <1>2, <2>1
  <2>2. CASE j # k
    <3>1. RateOf(chemProgress'[j][n], Done(j))
      BY <1>2, <2>2 DEF ChemInv, ChemRowsOK
    <3> QED
      BY <1>1, <3>1, RateGrows DEF Settled
  <2> QED
    BY <2>1, <2>2
<1>5. ChemRowsOK'
  BY <1>2, <1>4 DEF ChemRowsOK, ChemKey, RateOf
<1>6. ChemPostedOK'
  BY <1>1 DEF ChemInv, ChemPostedOK, Settled, ChemKey
<1>7. ChemLevelsOK'
  BY DEF ChemInv, ChemLevelsOK, LevelOK
<1> QED
  BY <1>3, <1>5, <1>6, <1>7, ChemMoves DEF ChemInv

LEMMA ChemPostKeeps ==
    ASSUME ChemInv, NEW w \in Worker, NEW s \in Student, NEW i \in Item, NEW b \in BOOLEAN,
           ChemPost(w, s, i, b)
    PROVE  ChemInv'
<1> DEFINE p == [student |-> s, item |-> i, is_correct |-> b]
<1>1. /\ chemPc[w] = "idle" /\ chemPosted' = [chemPosted EXCEPT ![<<s, i>>] = @ + 1]
      /\ ChemGoto(w, "get", p) /\ UNCHANGED <<chemProgress, chemDifficulty>>
  BY DEF ChemPost
<1>2. /\ KeyOf(p) = <<s, i>> /\ Posted(p) /\ <<s, i>> \in ChemKey
  BY DEF KeyOf, Posted, ChemKey
<1> HIDE DEF p
<1>3. \A k : /\ ~Answering(chemPc[w], chemReq[w], k)
             /\ Answering("get", p, k) <=> k = <<s, i>>
  BY <1>1, <1>2 DEF Answering
<1>4. chemPosted \in [ChemKey -> Nat] /\ ChemWorkersOK
  BY DEF ChemInv, ChemPostedOK
<1>5. /\ chemPosted' \in [ChemKey -> Nat]
      /\ \A k \in ChemKey : chemPosted'[k] = IF k = <<s, i>> THEN chemPosted[k] + 1 ELSE chemPosted[k]
  BY <1>1, <1>2, <1>4
<1>6. ASSUME NEW k \in ChemKey PROVE Settled(k)
  <2>1. IsFiniteSet(Pending(k)) /\ Done(k) \in Nat /\ chemPosted[k] \in Nat
    BY <1>4 DEF ChemInv, ChemPostedOK
  <2>2. /\ IsFiniteSet(Pending(k)') /\ Cardinality(Pending(k)) \in Nat
        /\ Cardinality(Pending(k)') =
              IF k = <<s, i>> THEN Cardinality(Pending(k)) + 1 ELSE Cardinality(Pending(k))
    BY <1>1, <1>3, <1>4, <2>1, PendingMoves
  <2>3. /\ Done(k) = chemPosted[k] - Cardinality(Pending(k))
        /\ Done(k)' = chemPosted'[k] - Cardinality(Pending(k)')
    BY DEF Done
  <2> QED
    BY <1>5, <2>1, <2>2, <2>3 DEF Settled
<1>7. ChemKnown("get", p)'
  BY <1>2 DEF ChemKnown, Posted
<1>8. ChemLevelsOK'
  BY <1>1 DEF ChemInv, ChemLevelsOK, LevelOK
<1> QED
  BY <1>1, <1>5, <1>6, <1>7, <1>8, ChemQuietStep DEF ChemKey

\* The level is one of five, whatever the counters.
LEMMA LevelType ==
    ASSUME NEW level \in 1 .. 5, NEW correct \in Nat, NEW total \in Nat
    PROVE  Level(level, correct, total) \in 1 .. 5
BY DEF Level

LEMMA ChemQuiet ==
    ASSUME ChemInv, NEW w \in Worker,
           \/ GetProgress(w) \/ GetDifficulty(w) \/ SaveDifficulty(w) \/ ChemAbort(w)
           \/ \E s \in Student, i \in Item : ChemCardRead(w, s, i)
    PROVE  ChemInv'
<1> SUFFICES ASSUME NEW q, q = chemReq[w] PROVE ChemInv'
  OBVIOUS
<1>1. ChemKnown(chemPc[w], q)
  BY DEF ChemInv, ChemWorkersOK
<1>2. UNCHANGED chemDifficulty => ChemLevelsOK'
  BY DEF ChemInv, ChemLevelsOK, LevelOK
<1>3. /\ ChemKnown("idle", NoAnswer)' /\ \A k : ~Answering("idle", NoAnswer, k)
  BY DEF ChemKnown, Answering
<1>4. \A k \in ChemKey : \A n \in DOMAIN chemProgress[k] : RateOf(chemProgress[k][n], Done(k))
  BY DEF ChemInv, ChemRowsOK
<1>5. \A k \in ChemKey : Len(chemProgress[k]) = 1 => 1 \in DOMAIN chemProgress[k]
  BY DEF ChemInv, ChemRowsOK
<1>6. CASE GetProgress(w)
  <2> SUFFICES ASSUME NEW k, k = KeyOf(q) PROVE ChemInv'
    OBVIOUS
  <2>1. /\ chemPc[w] = "get" /\ UNCHANGED <<chemProgress, chemPosted, chemDifficulty>>
        /\ CASE Len(chemProgress[k]) = 0 -> ChemGoto(w, "create", q)
             [] Len(chemProgress[k]) = 1 ->
                  ChemGoto(w, "save", [answer |-> q, id |-> 1, row |-> chemProgress[k][1]])
             [] OTHER -> ChemFinish(w)
    BY <1>6 DEF GetProgress, KeyOf
  <2>2. Posted(q) /\ k \in ChemKey
    BY <1>1, <2>1 DEF ChemKnown, Posted, KeyOf, ChemKey
  <2>3. CASE ChemGoto(w, "create", q)
    <3>1. ChemKnown("create", q)' /\ \A j : Answering("create", q, j) => Answering(chemPc[w], q, j)
      BY <2>1, <2>2 DEF ChemKnown, Posted, Answering
    <3> QED
      BY <1>2, <2>1, <2>3, <3>1, ChemAnswerStep
  <2>4. ASSUME NEW r, r = [answer |-> q, id |-> 1, row |-> chemProgress[k][1]],
               Len(chemProgress[k]) = 1, ChemGoto(w, "save", r)
        PROVE  ChemInv'
    <3>1. r.answer = q /\ r.id = 1 /\ r.row = chemProgress[k][1]
      BY <2>4
    <3>2. \A j : Answering("save", r, j) => Answering(chemPc[w], q, j)
      BY <2>1, <3>1 DEF Answering
    <3>3. 1 \in DOMAIN chemProgress[k] /\ RateOf(chemProgress[k][1], Done(k))
      BY <1>4, <1>5, <2>2, <2>4
    <3>4. Settled(k)
      BY <2>1, <2>2, <2>4, <3>2, AnswerSettled
    <3>5. RateOf(r.row, Done(k)')
      BY <3>1, <3>3, <3>4, RateGrows DEF Settled
    <3>6. ChemKnown("save", r)'
      BY <2>1, <2>2, <3>1, <3>3, <3>5 DEF ChemKnown, Posted, RateOf, KeyOf
    <3> QED
      BY <1>2, <2>1, <2>4, <3>2, <3>6, ChemAnswerStep
  <2>5. CASE ChemFinish(w)
    BY <1>2, <1>3, <2>1, <2>5, ChemAnswerStep DEF ChemFinish
  <2> QED
    BY <2>1, <2>3, <2>4, <2>5
<1>7. CASE GetDifficulty(w)
  <2>1. /\ chemPc[w] = "difficulty" /\ UNCHANGED <<chemProgress, chemPosted>>
        /\ chemDifficulty' =
              IF q.item \in DOMAIN chemDifficulty THEN chemDifficulty
              ELSE [j \in DOMAIN chemDifficulty \cup {q.item} |->
                      IF j = q.item THEN [correct |-> 0, total |-> 0, level |-> 1] ELSE chemDifficulty[j]]
        /\ ChemGoto(w, "level", [answer |-> q, row |-> chemDifficulty'[q.item]])
    BY <1>7 DEF GetDifficulty
  <2>2. Posted(q)
    BY <1>1, <2>1 DEF ChemKnown
  <2>3. /\ chemDifficulty' = [i \in DOMAIN chemDifficulty' |-> chemDifficulty'[i]]
        /\ \A i \in DOMAIN chemDifficulty' : LevelOK(chemDifficulty'[i])
        /\ DOMAIN chemDifficulty \subseteq DOMAIN chemDifficulty'
        /\ q.item \in DOMAIN chemDifficulty'
    <3>1. LevelOK([correct |-> 0, total |-> 0, level |-> 1])
      BY DEF LevelOK
    <3>2. /\ chemDifficulty = [i \in DOMAIN chemDifficulty |-> chemDifficulty[i]]
          /\ \A i \in DOMAIN chemDifficulty : LevelOK(chemDifficulty[i])
      BY DEF ChemInv, ChemLevelsOK
    <3>3. CASE q.item \in DOMAIN chemDifficulty
      BY <2>1, <3>2, <3>3
    <3>4. CASE q.item \notin DOMAIN chemDifficulty
      BY <2>1, <3>1, <3>2, <3>4
    <3> QED
      BY <3>3, <3>4
  <2>4. ASSUME NEW r, r = [answer |-> q, row |-> chemDifficulty'[q.item]] PROVE ChemInv'
    <3>1. r.answer = q /\ r.row = chemDifficulty'[q.item]
      BY <2>4
    <3>2. ChemKnown("level", r)'
      BY <2>2, <2>3, <3>1 DEF ChemKnown, Posted, LevelOK
    <3>3. \A k : ~Answering("level", r, k)
      BY DEF Answering
    <3>4. ChemLevelsOK'
      BY <2>3 DEF ChemLevelsOK, LevelOK
    <3> QED
      BY <2>1, <2>3, <2>4, <3>2, <3>3, <3>4, ChemAnswerStep
  <2> QED
    BY <2>4
<1>8. CASE SaveDifficulty(w)
  <2> SUFFICES ASSUME NEW correct, correct = IF q.answer.is_correct THEN q.row.correct + 1 ELSE q.row.correct,
                      NEW total, total = q.row.total + 1,
                      NEW row, row = [correct |-> correct, total |-> total,
                                      level |-> Level(q.row.level, correct, total)]
               PROVE  ChemInv'
    OBVIOUS
  <2>1. /\ chemPc[w] = "level" /\ UNCHANGED <<chemProgress, chemPosted>>
        /\ chemDifficulty' = [chemDifficulty EXCEPT ![q.answer.item] = row]
        /\ ChemGoto(w, "idle", NoAnswer)
    BY <1>8 DEF SaveDifficulty, ChemFinish
  <2>2. LevelOK(q.row) /\ Posted(q.answer)
    BY <1>1, <2>1 DEF ChemKnown
  <2>3. correct \in Nat /\ total \in Nat /\ correct <= total /\ q.row.level \in 1 .. 5
    BY <2>2 DEF LevelOK, Posted
  <2>4. LevelOK(row)
    BY <2>3, LevelType DEF LevelOK
  <2>5. ChemLevelsOK' /\ DOMAIN chemDifficulty' = DOMAIN chemDifficulty
    <3>1. /\ chemDifficulty = [i \in DOMAIN chemDifficulty |-> chemDifficulty[i]]
          /\ \A i \in DOMAIN chemDifficulty : LevelOK(chemDifficulty[i])
      BY DEF ChemInv, ChemLevelsOK
    <3>2. /\ chemDifficulty' = [i \in DOMAIN chemDifficulty' |-> chemDifficulty'[i]]
          /\ DOMAIN chemDifficulty' = DOMAIN chemDifficulty
          /\ \A i \in DOMAIN chemDifficulty : chemDifficulty'[i] = row \/ chemDifficulty'[i] = chemDifficulty[i]
      BY <2>1, <3>1
    <3>3. \A i \in DOMAIN chemDifficulty' : LevelOK(chemDifficulty'[i])
      BY <2>4, <3>1, <3>2
    <3> QED
      BY <3>2, <3>3 DEF ChemLevelsOK, LevelOK
  <2> QED
    BY <1>3, <2>1, <2>5, ChemAnswerStep
<1>9. CASE ChemAbort(w)
  BY <1>2, <1>3, <1>9, ChemAnswerStep DEF ChemAbort, ChemFinish
<1>10. ASSUME NEW s \in Student, NEW i \in Item, ChemCardRead(w, s, i) PROVE ChemInv'
  <2> SUFFICES ASSUME NEW k, k = <<s, i>>,
                      NEW r, r = [student |-> s, item |-> i, row |-> chemProgress[k][1]]
               PROVE  ChemInv'
    OBVIOUS
  <2>1. /\ ChemGoto(w, "card", r) /\ Len(chemProgress[k]) = 1
        /\ UNCHANGED <<chemProgress, chemDifficulty, chemPosted>>
    BY <1>10 DEF ChemCardRead
  <2>2. k \in ChemKey /\ KeyOf(r) = k /\ r.row = chemProgress[k][1]
    BY DEF ChemKey, KeyOf
  <2>3. 1 \in DOMAIN chemProgress[k] /\ RateOf(chemProgress[k][1], Done(k))
    BY <1>4, <1>5, <2>1, <2>2
  <2>4. \A j : ~Answering("card", r, j)
    BY DEF Answering
  <2>5. Settled(k)
    BY <2>1, <2>2, <2>4, AnswerSettled
  <2>6. RateOf(r.row, Done(k)')
    BY <2>2, <2>3, <2>5, RateGrows DEF Settled
  <2>7. ChemKnown("card", r)'
    BY <2>1, <2>2, <2>3, <2>6 DEF ChemKnown, KeyOf, ChemKey, RateOf
  <2> QED
    BY <1>2, <2>1, <2>4, <2>7, ChemAnswerStep
<1> QED
  BY <1>6, <1>7, <1>8, <1>9, <1>10

\* A row added, and a row saved over.
LEMMA RowsAfter ==
    ASSUME NEW Row, NEW rows \in Seq(Row), NEW row \in Row
    PROVE  /\ Append(rows, row) \in Seq(Row)
           /\ DOMAIN Append(rows, row) = 1 .. (Len(rows) + 1) /\ DOMAIN rows = 1 .. Len(rows)
           /\ Len(rows) \in Nat
           /\ \A n \in DOMAIN Append(rows, row) :
                 Append(rows, row)[n] = IF n = Len(rows) + 1 THEN row ELSE rows[n]
           /\ \A i : /\ [rows EXCEPT ![i] = row] \in Seq(Row)
                     /\ DOMAIN [rows EXCEPT ![i] = row] = DOMAIN rows
                     /\ \A n \in DOMAIN rows : [rows EXCEPT ![i] = row][n] = IF n = i THEN row ELSE rows[n]
<1>1. ASSUME NEW i PROVE [rows EXCEPT ![i] = row] \in Seq(Row)
  <2>1. PICK n \in Nat : rows \in [1 .. n -> Row]
    <3>1. Len(rows) \in Nat /\ rows \in [1 .. Len(rows) -> Row]
      OBVIOUS
    <3> QED
      BY <3>1
  <2>2. [rows EXCEPT ![i] = row] \in [1 .. n -> Row]
    BY <2>1
  <2> QED
    BY <2>1, <2>2
<1> QED
  BY <1>1

LEMMA ChemStores ==
    ASSUME ChemInv, NEW w \in Worker, CreateProgress(w) \/ SaveProgress(w) \/ ChemCardSave(w)
    PROVE  ChemInv'
<1> DEFINE Row == [correct : Nat, total : Nat]
<1> SUFFICES ASSUME NEW q, q = chemReq[w] PROVE ChemInv'
  OBVIOUS
<1>1. ChemKnown(chemPc[w], q)
  BY DEF ChemInv, ChemWorkersOK
<1>2. ASSUME NEW k \in ChemKey
      PROVE  /\ chemProgress[k] \in Seq(Row)
             /\ \A n \in DOMAIN chemProgress[k] : RateOf(chemProgress[k][n], Done(k))
             /\ \A row, n : RateOf(row, n) => row \in Row
  BY DEF ChemInv, ChemRowsOK, RateOf
<1>3. ASSUME NEW k \in ChemKey, Settled(k), NEW row, RateOf(row, Done(k)) PROVE RateOf(row, Done(k)')
  BY <1>3, RateGrows DEF Settled
<1>4. CASE CreateProgress(w)
  <2> SUFFICES ASSUME NEW k, k = KeyOf(q), NEW row, row = [correct |-> 0, total |-> 0],
                      NEW r, r = [answer |-> q, id |-> Len(chemProgress[k]) + 1, row |-> row],
                      NEW rows, rows = Append(chemProgress[k], row)
               PROVE  ChemInv'
    OBVIOUS
  <2>1. /\ chemPc[w] = "create" /\ chemProgress' = [chemProgress EXCEPT ![k] = rows]
        /\ ChemGoto(w, "save", r) /\ UNCHANGED <<chemDifficulty, chemPosted>>
    BY <1>4 DEF CreateProgress, KeyOf
  <2>2. Posted(q) /\ k \in ChemKey
    BY <1>1, <2>1 DEF ChemKnown, Posted, KeyOf, ChemKey
  <2>3. r.answer = q /\ r.id = Len(chemProgress[k]) + 1 /\ r.row = row
    OBVIOUS
  <2>4. \A j : Answering("save", r, j) => Answering(chemPc[w], q, j)
    BY <2>1, <2>3 DEF Answering
  <2>5. Settled(k)
    BY <2>1, <2>2, <2>4, AnswerSettled
  <2>6. row \in Row /\ RateOf(row, Done(k)')
    BY <2>5 DEF RateOf, Settled
  <2>7. /\ rows \in Seq(Row) /\ DOMAIN chemProgress[k] \subseteq DOMAIN rows /\ r.id \in DOMAIN rows
        /\ \A n \in DOMAIN rows : rows[n] = row \/ (n \in DOMAIN chemProgress[k] /\ rows[n] = chemProgress[k][n])
    <3> HIDE DEF Row
    <3>1. /\ rows \in Seq(Row) /\ Len(chemProgress[k]) \in Nat
          /\ DOMAIN rows = 1 .. (Len(chemProgress[k]) + 1) /\ DOMAIN chemProgress[k] = 1 .. Len(chemProgress[k])
          /\ \A n \in DOMAIN rows : rows[n] = IF n = Len(chemProgress[k]) + 1 THEN row ELSE chemProgress[k][n]
      BY <1>2, <2>2, <2>6, RowsAfter
    <3> QED
      BY <2>3, <3>1
  <2>8. \A n \in DOMAIN rows : RateOf(rows[n], Done(k)')
    BY <1>2, <1>3, <2>2, <2>5, <2>6, <2>7
  <2>9. ChemKnown("save", r)'
    <3>1. chemProgress'[k] = rows
      BY <2>1, <2>2 DEF ChemInv, ChemRowsOK
    <3>2. r.id \in DOMAIN chemProgress'[k]
      BY <2>7, <3>1
    <3> QED
      BY <2>2, <2>3, <2>6, <3>2 DEF ChemKnown, Posted, KeyOf, RateOf
  <2> QED
    BY <2>1, <2>2, <2>4, <2>7, <2>8, <2>9, ChemStore
<1>5. CASE SaveProgress(w)
  <2> SUFFICES ASSUME NEW a, a = q.answer, NEW k, k = KeyOf(a),
                      NEW row, row = [correct |-> IF a.is_correct THEN q.row.correct + 1 ELSE q.row.correct,
                                      total |-> q.row.total + 1],
                      NEW rows, rows = [chemProgress[k] EXCEPT ![q.id] = row]
               PROVE  ChemInv'
    OBVIOUS
  <2>1. /\ chemPc[w] = "save" /\ chemProgress' = [chemProgress EXCEPT ![k] = rows]
        /\ ChemGoto(w, "difficulty", a) /\ UNCHANGED <<chemDifficulty, chemPosted>>
    BY <1>5 DEF SaveProgress, KeyOf
  <2>2. Posted(a) /\ k \in ChemKey /\ RateOf(q.row, Done(k))
    BY <1>1, <2>1 DEF ChemKnown, Posted, KeyOf, ChemKey
  <2>3. \A j : /\ ~Answering("difficulty", a, j)
               /\ Answering("difficulty", a, j) => Answering(chemPc[w], chemReq[w], j)
    BY DEF Answering
  <2>4. Answering(chemPc[w], chemReq[w], k)
    BY <2>1 DEF Answering
  <2>5. Settled(k) /\ Done(k)' = Done(k) + 1
    BY <2>1, <2>2, <2>3, <2>4, AnswerSettled
  <2>6. row \in Row /\ RateOf(row, Done(k)')
    BY <2>2, <2>5 DEF RateOf, Settled, Posted
  <2>7. /\ rows \in Seq(Row) /\ DOMAIN chemProgress[k] \subseteq DOMAIN rows
        /\ \A n \in DOMAIN rows : rows[n] = row \/ (n \in DOMAIN chemProgress[k] /\ rows[n] = chemProgress[k][n])
    <3> HIDE DEF Row
    <3>1. /\ rows \in Seq(Row) /\ DOMAIN rows = DOMAIN chemProgress[k]
          /\ \A n \in DOMAIN rows : rows[n] = IF n = q.id THEN row ELSE chemProgress[k][n]
      BY <1>2, <2>2, <2>6, RowsAfter
    <3> QED
      BY <3>1
  <2>8. \A n \in DOMAIN rows : RateOf(rows[n], Done(k)')
    BY <1>2, <1>3, <2>2, <2>5, <2>6, <2>7
  <2>9. ChemKnown("difficulty", a)'
    BY <2>2 DEF ChemKnown, Posted
  <2> QED
    BY ONLY ChemInv, <2>1, <2>2, <2>3, <2>7, <2>8, <2>9, ChemStore
<1>6. CASE ChemCardSave(w)
  <2> SUFFICES ASSUME NEW k, k = KeyOf(q), NEW rows, rows = [chemProgress[k] EXCEPT ![1] = q.row]
               PROVE  ChemInv'
    OBVIOUS
  <2>1. /\ chemPc[w] = "card" /\ chemProgress' = [chemProgress EXCEPT ![k] = rows]
        /\ ChemGoto(w, "idle", NoAnswer) /\ UNCHANGED <<chemDifficulty, chemPosted>>
    BY <1>6 DEF ChemCardSave, ChemFinish, KeyOf
  <2>2. k \in ChemKey /\ RateOf(q.row, Done(k))
    BY <1>1, <2>1 DEF ChemKnown
  <2>3. \A j : Answering("idle", NoAnswer, j) => Answering(chemPc[w], chemReq[w], j)
    BY DEF Answering
  <2>4. Settled(k)
    BY <2>1, <2>2, <2>3, AnswerSettled
  <2>5. q.row \in Row /\ RateOf(q.row, Done(k)')
    BY <1>2, <1>3, <2>2, <2>4
  <2>6. /\ rows \in Seq(Row) /\ DOMAIN chemProgress[k] \subseteq DOMAIN rows
        /\ \A n \in DOMAIN rows : rows[n] = q.row \/ (n \in DOMAIN chemProgress[k] /\ rows[n] = chemProgress[k][n])
    <3> HIDE DEF Row
    <3>1. /\ rows \in Seq(Row) /\ DOMAIN rows = DOMAIN chemProgress[k]
          /\ \A n \in DOMAIN rows : rows[n] = IF n = 1 THEN q.row ELSE chemProgress[k][n]
      BY <1>2, <2>2, <2>5, RowsAfter
    <3> QED
      BY <3>1
  <2>7. \A n \in DOMAIN rows : RateOf(rows[n], Done(k)')
    BY <1>2, <1>3, <2>2, <2>4, <2>5, <2>6
  <2>8. ChemKnown("idle", NoAnswer)'
    BY DEF ChemKnown
  <2> QED
    BY ONLY ChemInv, <2>1, <2>2, <2>3, <2>6, <2>7, <2>8, ChemStore
<1> QED
  BY <1>4, <1>5, <1>6

LEMMA ChemNext == ChemInv /\ [NextChem]_chemVars => ChemInv'
<1> SUFFICES ASSUME ChemInv, [NextChem]_chemVars PROVE ChemInv'
  OBVIOUS
<1>1. ASSUME UNCHANGED <<chemProgress, chemDifficulty, chemPosted, chemPc, chemReq>> PROVE ChemInv'
  <2>1. \A k : Pending(k)' = Pending(k)
    BY <1>1 DEF Pending, Answering, KeyOf
  <2>2. \A k : Done(k)' = Done(k)
    BY <1>1, <2>1 DEF Done
  <2>3. ChemRowsOK' /\ ChemPostedOK'
    BY <1>1, <2>1, <2>2 DEF ChemInv, ChemRowsOK, ChemPostedOK, ChemKey, RateOf
  <2>4. ChemLevelsOK'
    BY <1>1 DEF ChemInv, ChemLevelsOK, LevelOK
  <2>5. \A w \in Worker : ChemKnown(chemPc[w], chemReq[w]) => ChemKnown(chemPc[w], chemReq[w])'
    BY <1>1, <2>2 DEF ChemKnown, Posted, KeyOf, ChemKey, RateOf, LevelOK
  <2>6. ChemWorkersOK'
    BY <1>1, <2>5 DEF ChemInv, ChemWorkersOK
  <2> QED
    BY <2>3, <2>4, <2>6 DEF ChemInv
<1>2. ASSUME NEW s \in Student, NEW i \in Item, ChemShow(s, i) PROVE ChemInv'
  BY <1>1, <1>2 DEF ChemShow
<1>3. ASSUME NEW s \in Student, NEW i \in Item,
             \/ ElementalQuiz(s, i) \/ SubstanceQuiz(s, i) \/ CompoundQuiz(s, i)
             \/ EquationQuiz(s, i) \/ ReviewQuiz(s, i)
             \/ \E w \in Worker :
                   ChemCardRead(w, s, i) \/ (\E b \in BOOLEAN : ChemPost(w, s, i, b))
      PROVE  ChemInv'
  BY <1>2, <1>3, ChemQuiet, ChemPostKeeps
     DEF ElementalQuiz, SubstanceQuiz, CompoundQuiz, EquationQuiz, ReviewQuiz
<1>4. ASSUME NEW w \in Worker,
             \/ GetProgress(w) \/ CreateProgress(w) \/ SaveProgress(w)
             \/ GetDifficulty(w) \/ SaveDifficulty(w) \/ ChemCardSave(w) \/ ChemAbort(w)
      PROVE  ChemInv'
  BY <1>4, ChemQuiet, ChemStores
<1>5. CASE UNCHANGED chemVars
  BY <1>1, <1>5 DEF chemVars
<1> QED
  BY <1>3, <1>4, <1>5 DEF NextChem

-----------------------------------------------------------------------------
(* Of a student and an item whose requests did not overlap, at most one     *)
(* request has read the row, and what it has read is the row.               *)

Zero == [correct |-> 0, total |-> 0]

\* HasRead of a worker at this place.
Reads(place, q, k) ==
    \/ place \in {"create", "card"} /\ KeyOf(q) = k
    \/ place = "save" /\ KeyOf(q.answer) = k

\* What it has read is stored still.
StillRead(place, q, k) ==
    /\ place = "create" /\ KeyOf(q) = k => chemProgress[k] = <<>>
    /\ place = "save" /\ KeyOf(q.answer) = k => chemProgress[k] = <<q.row>> /\ q.id = 1
    /\ place = "card" /\ KeyOf(q) = k => chemProgress[k] = <<q.row>>

ExactRows(k) == chemProgress[k] = <<>> \/ chemProgress[k] = <<chemSaved[k]>>

ExactOK ==
    /\ chemSaved \in [ChemKey -> [correct : Nat, total : Nat]]
    /\ \A k \in ChemKey \ chemRaced :
          /\ ExactRows(k)
          /\ chemProgress[k] = <<>> => chemSaved[k] = Zero
          /\ \A v, u \in Worker : Reads(chemPc[v], chemReq[v], k) /\ Reads(chemPc[u], chemReq[u], k) => v = u
          /\ \A v \in Worker : StillRead(chemPc[v], chemReq[v], k)

LEMMA ExactStart == InitChem => ExactOK
<1> SUFFICES ASSUME InitChem PROVE ExactOK
  OBVIOUS
<1>1. chemSaved \in [ChemKey -> [correct : Nat, total : Nat]]
  BY DEF InitChem, ChemKey
<1>2. ASSUME NEW k \in ChemKey PROVE chemProgress[k] = <<>> /\ chemSaved[k] = Zero
  BY DEF InitChem, ChemKey, Zero
<1>3. ASSUME NEW v \in Worker PROVE chemPc[v] = "idle"
  BY DEF InitChem
<1> QED
  BY <1>1, <1>2, <1>3 DEF ExactOK, ExactRows, Reads, StillRead

\* A step of w: what it reads no other has read, and it stores only what it has read.
LEMMA ExactMoves ==
    ASSUME ChemWorkersOK, ExactOK, NEW w \in Worker, NEW place, NEW q, ChemGoto(w, place, q),
           chemRaced \subseteq chemRaced', (chemSaved \in [ChemKey -> [correct : Nat, total : Nat]])',
           \A k \in ChemKey \ chemRaced' :
              /\ \/ chemProgress'[k] = chemProgress[k] /\ chemSaved'[k] = chemSaved[k]
                 \/ Reads(chemPc[w], chemReq[w], k) /\ chemProgress'[k] = <<chemSaved'[k]>>
              /\ Reads(place, q, k) =>
                    \/ Reads(chemPc[w], chemReq[w], k)
                    \/ \A v \in Worker \ {w} : ~Reads(chemPc[v], chemReq[v], k)
              /\ StillRead(place, q, k)'
    PROVE  ExactOK'
<1>1. /\ chemPc'[w] = place /\ chemReq'[w] = q
      /\ \A v \in Worker \ {w} : chemPc'[v] = chemPc[v] /\ chemReq'[v] = chemReq[v]
  BY DEF ChemGoto, ChemWorkersOK
<1>2. ASSUME NEW k \in ChemKey \ chemRaced'
      PROVE  /\ chemProgress'[k] = <<>> \/ chemProgress'[k] = <<chemSaved'[k]>>
             /\ chemProgress'[k] = <<>> => chemSaved'[k] = Zero
  <2>1. /\ chemProgress[k] = <<>> \/ chemProgress[k] = <<chemSaved[k]>>
        /\ chemProgress[k] = <<>> => chemSaved[k] = Zero
    BY DEF ExactOK, ExactRows
  <2>2. <<chemSaved'[k]>> # <<>>
    OBVIOUS
  <2> QED
    BY <2>1, <2>2
<1>3. ASSUME NEW k \in ChemKey \ chemRaced', NEW v \in Worker, NEW u \in Worker,
             Reads(chemPc'[v], chemReq'[v], k), Reads(chemPc'[u], chemReq'[u], k)
      PROVE  v = u
  <2>1. \A x, y \in Worker : Reads(chemPc[x], chemReq[x], k) /\ Reads(chemPc[y], chemReq[y], k) => x = y
    BY DEF ExactOK
  <2>2. Reads(place, q, k) =>
           Reads(chemPc[w], chemReq[w], k) \/ \A x \in Worker \ {w} : ~Reads(chemPc[x], chemReq[x], k)
    OBVIOUS
  <2> HIDE DEF Reads
  <2> QED
    BY ONLY <1>1, <1>3, <2>1, <2>2
<1>4. ASSUME NEW k \in ChemKey \ chemRaced', NEW v \in Worker PROVE StillRead(chemPc[v], chemReq[v], k)'
  <2>1. CASE v = w
    BY <1>1, <2>1 DEF StillRead, KeyOf
  <2>2. CASE v # w
    <3>1. StillRead(chemPc[v], chemReq[v], k) /\ chemPc'[v] = chemPc[v] /\ chemReq'[v] = chemReq[v]
      BY <1>1, <2>2 DEF ExactOK
    <3>2. CASE chemProgress'[k] = chemProgress[k]
      BY <3>1, <3>2 DEF StillRead, KeyOf
    <3>3. CASE chemProgress'[k] # chemProgress[k]
      <4>1. ~Reads(chemPc[v], chemReq[v], k)
        BY <2>2, <3>3 DEF ExactOK
      <4> QED
        BY <3>1, <4>1 DEF StillRead, Reads, KeyOf
    <3> QED
      BY <3>2, <3>3
  <2> QED
    BY <2>1, <2>2
<1> QED
  BY <1>2, <1>3, <1>4 DEF ExactOK, ExactRows, Reads, KeyOf, ChemKey, Zero

LEMMA ExactNext == ChemInv /\ ExactOK /\ [NextChem]_chemVars => ExactOK'
<1> SUFFICES ASSUME ChemInv, ExactOK, [NextChem]_chemVars PROVE ExactOK'
  OBVIOUS
<1>1. ASSUME UNCHANGED <<chemProgress, chemSaved, chemRaced, chemPc, chemReq>> PROVE ExactOK'
  BY <1>1 DEF ExactOK, ExactRows, Reads, StillRead, KeyOf, ChemKey
<1>2. ASSUME NEW s \in Student, NEW i \in Item, ChemShow(s, i) PROVE ExactOK'
  BY <1>1, <1>2 DEF ChemShow
<1>3. ChemWorkersOK /\ chemSaved \in [ChemKey -> [correct : Nat, total : Nat]]
  BY DEF ChemInv, ExactOK
<1>4. UNCHANGED chemSaved => (chemSaved \in [ChemKey -> [correct : Nat, total : Nat]])'
  BY <1>3 DEF ChemKey
<1>5. ASSUME NEW w \in Worker, NEW place, NEW q, ChemGoto(w, place, q),
             place \notin {"create", "save", "card"},
             UNCHANGED <<chemProgress, chemSaved>>, chemRaced \subseteq chemRaced'
      PROVE  ExactOK'
  <2>1. \A k : ~Reads(place, q, k) /\ StillRead(place, q, k)'
    BY <1>5 DEF Reads, StillRead
  <2> QED
    BY <1>3, <1>4, <1>5, <2>1, ExactMoves
<1>6. ASSUME NEW w \in Worker, NEW k, NoteRead(w, k)
      PROVE  /\ chemRaced \subseteq chemRaced'
             /\ k \notin chemRaced' => \A v \in Worker \ {w} : ~Reads(chemPc[v], chemReq[v], k)
  BY <1>6 DEF NoteRead, HasRead, Reads, KeyOf
<1>7. /\ \A k \in ChemKey : chemProgress[k] \in Seq([correct : Nat, total : Nat])
      /\ \A k \in ChemKey \ chemRaced : chemProgress[k] # <<>> => chemProgress[k] = <<chemSaved[k]>>
      /\ \A k \in ChemKey \ chemRaced : chemProgress[k] = <<>> => chemSaved[k] = Zero
  BY DEF ChemInv, ChemRowsOK, ExactOK, ExactRows
<1>8. ASSUME NEW w \in Worker, GetProgress(w) PROVE ExactOK'
  <2> SUFFICES ASSUME NEW q, q = chemReq[w], NEW k, k = KeyOf(q) PROVE ExactOK'
    OBVIOUS
  <2>1. /\ chemPc[w] = "get" /\ UNCHANGED <<chemProgress, chemSaved>> /\ NoteRead(w, k)
        /\ CASE Len(chemProgress[k]) = 0 -> ChemGoto(w, "create", q)
             [] Len(chemProgress[k]) = 1 ->
                  ChemGoto(w, "save", [answer |-> q, id |-> 1, row |-> chemProgress[k][1]])
             [] OTHER -> ChemFinish(w)
    BY <1>8 DEF GetProgress, KeyOf
  <2>2. Posted(q) /\ k \in ChemKey
    BY <2>1 DEF ChemInv, ChemWorkersOK, ChemKnown, Posted, KeyOf, ChemKey
  <2>3. /\ chemRaced \subseteq chemRaced'
        /\ k \notin chemRaced' => \A v \in Worker \ {w} : ~Reads(chemPc[v], chemReq[v], k)
    BY <1>6, <2>1
  <2>4. CASE Len(chemProgress[k]) = 0 /\ ChemGoto(w, "create", q)
    <3>1. chemProgress[k] = <<>>
      BY <1>7, <2>2, <2>4
    <3>2. \A j : /\ Reads("create", q, j) => j = k
                 /\ StillRead("create", q, j)'
      BY <2>1, <3>1 DEF Reads, StillRead, KeyOf
    <3> QED
      BY <1>3, <1>4, <2>1, <2>3, <2>4, <3>2, ExactMoves
  <2>5. ASSUME NEW r, r = [answer |-> q, id |-> 1, row |-> chemProgress[k][1]],
               Len(chemProgress[k]) = 1, ChemGoto(w, "save", r)
        PROVE  ExactOK'
    <3>1. r.answer = q /\ r.id = 1 /\ r.row = chemProgress[k][1]
      BY <2>5
    <3>2. chemProgress[k] = <<r.row>>
      <4>0. chemProgress[k] \in Seq([correct : Nat, total : Nat])
        BY ONLY <1>7, <2>2
      <4>1. PICK rows \in Seq([correct : Nat, total : Nat]) : rows = chemProgress[k]
        BY ONLY <4>0
      <4>2. Len(rows) = 1
        BY <2>5, <4>1
      <4>3. rows = <<rows[1]>>
        BY ONLY <4>2
      <4> QED
        BY <3>1, <4>1, <4>3
    <3>3. \A j : /\ Reads("save", r, j) => j = k
                 /\ StillRead("save", r, j)'
      BY <2>1, <3>1, <3>2 DEF Reads, StillRead, KeyOf
    <3> QED
      BY <1>3, <1>4, <2>1, <2>3, <2>5, <3>3, ExactMoves
  <2>6. CASE ChemFinish(w)
    BY <1>5, <2>1, <2>3, <2>6 DEF ChemFinish
  <2> QED
    BY <2>1, <2>4, <2>5, <2>6
<1>9. ASSUME NEW s \in Student, NEW i \in Item, NEW w \in Worker, ChemCardRead(w, s, i) PROVE ExactOK'
  <2> SUFFICES ASSUME NEW k, k = <<s, i>>,
                      NEW r, r = [student |-> s, item |-> i, row |-> chemProgress[k][1]]
               PROVE  ExactOK'
    OBVIOUS
  <2>1. /\ ChemGoto(w, "card", r) /\ Len(chemProgress[k]) = 1 /\ NoteRead(w, k)
        /\ UNCHANGED <<chemProgress, chemSaved>>
    BY <1>9 DEF ChemCardRead
  <2>2. k \in ChemKey /\ KeyOf(r) = k /\ r.row = chemProgress[k][1]
    BY DEF ChemKey, KeyOf
  <2>3. chemProgress[k] = <<r.row>>
    <3>0. chemProgress[k] \in Seq([correct : Nat, total : Nat])
      BY ONLY <1>7, <2>2
    <3>1. PICK rows \in Seq([correct : Nat, total : Nat]) : rows = chemProgress[k]
      BY ONLY <3>0
    <3>2. Len(rows) = 1
      BY <2>1, <3>1
    <3>3. rows = <<rows[1]>>
      BY ONLY <3>2
    <3> QED
      BY <2>2, <3>1, <3>3
  <2>4. \A j : /\ Reads("card", r, j) => j = k
               /\ StillRead("card", r, j)'
    BY <2>1, <2>2, <2>3 DEF Reads, StillRead, KeyOf
  <2> QED
    BY <1>3, <1>4, <1>6, <2>1, <2>4, ExactMoves
<1>10. ASSUME NEW w \in Worker, CreateProgress(w) PROVE ExactOK'
  <2> SUFFICES ASSUME NEW q, q = chemReq[w], NEW k, k = KeyOf(q),
                      NEW r, r = [answer |-> q, id |-> Len(chemProgress[k]) + 1, row |-> Zero]
               PROVE  ExactOK'
    OBVIOUS
  <2>1. /\ chemPc[w] = "create" /\ UNCHANGED <<chemSaved, chemRaced>> /\ ChemGoto(w, "save", r)
        /\ chemProgress' = [chemProgress EXCEPT ![k] = Append(@, Zero)]
    BY <1>10 DEF CreateProgress, KeyOf, Zero
  <2>2. k \in ChemKey
    BY <2>1 DEF ChemInv, ChemWorkersOK, ChemKnown, Posted, KeyOf, ChemKey
  <2>3. /\ chemProgress'[k] = Append(chemProgress[k], Zero)
        /\ \A j \in ChemKey : j # k => chemProgress'[j] = chemProgress[j]
    BY <2>1, <2>2 DEF ChemInv, ChemRowsOK
  <2>4. r.answer = q /\ r.id = Len(chemProgress[k]) + 1 /\ r.row = Zero
    OBVIOUS
  <2>5. k \notin chemRaced => chemProgress'[k] = <<Zero>> /\ chemSaved[k] = Zero /\ r.id = 1
    <3>1. k \notin chemRaced => chemProgress[k] = <<>>
      BY <2>1, <2>2 DEF ExactOK, StillRead
    <3>2. Len(<<>>) = 0
      OBVIOUS
    <3> SUFFICES ASSUME k \notin chemRaced
                 PROVE  chemProgress'[k] = <<Zero>> /\ chemSaved[k] = Zero /\ r.id = 1
      OBVIOUS
    <3>3. chemProgress[k] = <<>>
      BY <3>1
    <3>4. chemSaved[k] = Zero
      BY ONLY <1>7, <2>2, <3>3, k \notin chemRaced
    <3>5. Append(<<>>, Zero) = <<Zero>>
      BY ONLY OnlyRow
    <3> QED
      BY ONLY <2>3, <2>4, <3>2, <3>3, <3>4, <3>5
  <2>6. Reads(chemPc[w], chemReq[w], k) /\ \A j : Reads("save", r, j) => j = k
    BY <2>1, <2>4 DEF Reads
  <2>7. ASSUME NEW j \in ChemKey \ chemRaced PROVE StillRead("save", r, j)'
    BY <2>4, <2>5 DEF StillRead, KeyOf
  <2> QED
    BY <1>3, <1>4, <2>1, <2>3, <2>5, <2>6, <2>7, ExactMoves
<1>11. ASSUME NEW w \in Worker, SaveProgress(w) PROVE ExactOK'
  <2> SUFFICES ASSUME NEW q, q = chemReq[w], NEW a, a = q.answer, NEW k, k = KeyOf(a),
                      NEW row, row = [correct |-> IF a.is_correct THEN q.row.correct + 1 ELSE q.row.correct,
                                      total |-> q.row.total + 1],
                      NEW counts, counts = [correct |-> IF a.is_correct THEN chemSaved[k].correct + 1
                                                                         ELSE chemSaved[k].correct,
                                            total |-> chemSaved[k].total + 1]
               PROVE  ExactOK'
    OBVIOUS
  <2>1. /\ chemPc[w] = "save" /\ UNCHANGED chemRaced /\ ChemGoto(w, "difficulty", a)
        /\ chemProgress' = [chemProgress EXCEPT ![k] = [@ EXCEPT ![q.id] = row]]
        /\ chemSaved' = [chemSaved EXCEPT ![k] = counts]
    BY <1>11 DEF SaveProgress, KeyOf
  <2>2. k \in ChemKey
    BY <2>1 DEF ChemInv, ChemWorkersOK, ChemKnown, Posted, KeyOf, ChemKey
  <2>3. /\ chemProgress'[k] = [chemProgress[k] EXCEPT ![q.id] = row]
        /\ \A j \in ChemKey : j # k => chemProgress'[j] = chemProgress[j]
    BY <2>1, <2>2 DEF ChemInv, ChemRowsOK
  <2>4. counts \in [correct : Nat, total : Nat]
    BY <1>3, <2>2
  <2>5. /\ chemSaved'[k] = counts /\ chemSaved' \in [ChemKey -> [correct : Nat, total : Nat]]
        /\ \A j \in ChemKey : j # k => chemSaved'[j] = chemSaved[j]
    BY <1>3, <2>1, <2>2, <2>4
  <2>6. k \notin chemRaced => chemProgress'[k] = <<counts>>
    <3> SUFFICES ASSUME k \notin chemRaced PROVE chemProgress'[k] = <<counts>>
      OBVIOUS
    <3>1. chemProgress[k] = <<q.row>> /\ q.id = 1
      BY <2>1, <2>2 DEF ExactOK, StillRead
    <3>2. chemProgress[k] = <<chemSaved[k]>>
      <4>1. <<q.row>> # <<>>
        OBVIOUS
      <4> QED
        BY ONLY <1>7, <2>2, <3>1, <4>1, k \notin chemRaced
    <3>3. q.row = chemSaved[k]
      BY <3>1, <3>2, OnlyRow
    <3>4. row = counts
      BY <3>3
    <3>5. [chemProgress[k] EXCEPT ![1] = row] = <<row>>
      BY ONLY <3>1, RowReplaced
    <3> QED
      BY <2>3, <3>1, <3>4, <3>5
  <2>7. Reads(chemPc[w], chemReq[w], k) /\ \A j : ~Reads("difficulty", a, j) /\ StillRead("difficulty", a, j)'
    BY <2>1 DEF Reads, StillRead
  <2>8. (chemSaved \in [ChemKey -> [correct : Nat, total : Nat]])'
    BY <2>5 DEF ChemKey
  <2> QED
    <3>1. chemRaced \subseteq chemRaced'
      BY <2>1
    <3>2. ASSUME NEW j \in ChemKey \ chemRaced'
          PROVE  /\ \/ chemProgress'[j] = chemProgress[j] /\ chemSaved'[j] = chemSaved[j]
                    \/ Reads(chemPc[w], chemReq[w], j) /\ chemProgress'[j] = <<chemSaved'[j]>>
                 /\ ~Reads("difficulty", a, j) /\ StillRead("difficulty", a, j)'
      <4>1. CASE j = k
        <5>1. chemProgress'[k] = <<chemSaved'[k]>>
          BY <2>1, <2>5, <2>6, <4>1
        <5> QED
          BY ONLY <2>7, <4>1, <5>1
      <4>2. CASE j # k
        BY ONLY <2>3, <2>5, <2>7, <4>2, j \in ChemKey \ chemRaced'
      <4> QED
        BY <4>1, <4>2
    <3> QED
      BY ONLY <1>3, ExactOK, w \in Worker, <2>1, <2>8, <3>1, <3>2, ExactMoves
<1>12. ASSUME NEW w \in Worker, ChemCardSave(w) PROVE ExactOK'
  <2> SUFFICES ASSUME NEW q, q = chemReq[w], NEW k, k = KeyOf(q) PROVE ExactOK'
    OBVIOUS
  <2>1. /\ chemPc[w] = "card" /\ UNCHANGED <<chemSaved, chemRaced>> /\ ChemGoto(w, "idle", NoAnswer)
        /\ chemProgress' = [chemProgress EXCEPT ![k] = [@ EXCEPT ![1] = q.row]]
    BY <1>12 DEF ChemCardSave, ChemFinish, KeyOf
  <2>2. k \in ChemKey
    BY <2>1 DEF ChemInv, ChemWorkersOK, ChemKnown
  <2>3. /\ chemProgress'[k] = [chemProgress[k] EXCEPT ![1] = q.row]
        /\ \A j \in ChemKey : j # k => chemProgress'[j] = chemProgress[j]
    BY <2>1, <2>2 DEF ChemInv, ChemRowsOK
  <2>4. k \notin chemRaced => chemProgress'[k] = chemProgress[k]
    <3> SUFFICES ASSUME k \notin chemRaced PROVE chemProgress'[k] = chemProgress[k]
      OBVIOUS
    <3>1. chemProgress[k] = <<q.row>>
      BY <2>1, <2>2 DEF ExactOK, StillRead
    <3>2. [chemProgress[k] EXCEPT ![1] = q.row] = <<q.row>>
      BY ONLY <3>1, RowReplaced
    <3> QED
      BY <2>3, <3>1, <3>2
  <2>5. \A j : ~Reads("idle", NoAnswer, j) /\ StillRead("idle", NoAnswer, j)'
    BY DEF Reads, StillRead
  <2> QED
    BY <1>3, <1>4, <2>1, <2>3, <2>4, <2>5, ExactMoves
<1>13. ASSUME NEW s \in Student, NEW i \in Item, NEW w \in Worker, NEW b \in BOOLEAN, ChemPost(w, s, i, b)
       PROVE  ExactOK'
  BY <1>5, <1>13 DEF ChemPost
<1>14. ASSUME NEW w \in Worker, GetDifficulty(w) \/ SaveDifficulty(w) \/ ChemAbort(w) PROVE ExactOK'
  BY <1>5, <1>14 DEF GetDifficulty, SaveDifficulty, ChemAbort, ChemFinish
<1>15. ASSUME NEW s \in Student, NEW i \in Item,
              \/ ElementalQuiz(s, i) \/ SubstanceQuiz(s, i) \/ CompoundQuiz(s, i)
              \/ EquationQuiz(s, i) \/ ReviewQuiz(s, i)
       PROVE  ExactOK'
  BY <1>2, <1>15 DEF ElementalQuiz, SubstanceQuiz, CompoundQuiz, EquationQuiz, ReviewQuiz
<1>16. CASE UNCHANGED chemVars
  BY <1>1, <1>16 DEF chemVars
<1> QED
  BY <1>8, <1>9, <1>10, <1>11, <1>12, <1>13, <1>14, <1>15, <1>16 DEF NextChem

LEMMA ChemHonest == ChemInv /\ ExactOK => ChemRates
<1> SUFFICES ASSUME ChemInv, ExactOK PROVE ChemRates
  OBVIOUS
<1>1. ASSUME NEW k \in ChemKey, NEW n \in DOMAIN chemProgress[k]
      PROVE  /\ chemProgress[k][n].correct <= chemProgress[k][n].total
             /\ chemProgress[k][n].total <= chemPosted[k]
  <2>1. RateOf(chemProgress[k][n], Done(k)) /\ chemPosted[k] \in Nat /\ IsFiniteSet(Pending(k))
    BY DEF ChemInv, ChemRowsOK, ChemPostedOK
  <2>2. Cardinality(Pending(k)) \in Nat
    BY ONLY <2>1, FS_CardinalityType
  <2> QED
    BY <2>1, <2>2 DEF RateOf, Done
<1>2. \A i \in DOMAIN chemDifficulty : LevelOK(chemDifficulty[i])
  BY DEF ChemInv, ChemLevelsOK
<1>3. ASSUME NEW k \in ChemKey \ chemRaced
      PROVE  IF chemProgress[k] = <<>> THEN chemSaved[k].total = 0 ELSE chemProgress[k] = <<chemSaved[k]>>
  <2>1. /\ chemProgress[k] = <<>> \/ chemProgress[k] = <<chemSaved[k]>>
        /\ chemProgress[k] = <<>> => chemSaved[k] = Zero
    BY DEF ExactOK, ExactRows
  <2>2. Zero.total = 0
    BY DEF Zero
  <2> QED
    BY ONLY <2>1, <2>2
<1> QED
  BY <1>1, <1>2, <1>3 DEF ChemRates, ChemKey, LevelOK

\* The rates of both trainers (update_progress and update_difficulty of
\* vocab_trainer and chem_trainer) stay rates of answers given, for any number of
\* workers that overwrite each other, and miss none of them but for requests that
\* overlap between their read and their save: what an answer adds to is a rate of
\* answers done, it is done only once it is saved, and a row that one request alone
\* has read is still the row when it is saved.
THEOREM RatesSaneAlways == SpecQuizzes => []RatesSane
<1> DEFINE Inv == VocabInv /\ ChemInv /\ ExactOK
<1>1. InitQuizzes => Inv
  BY VocabOfQuizzes, ChemStart, ExactStart DEF InitQuizzes
<1>2. [NextQuizzes]_quizVars => [NextChem]_chemVars
  BY DEF NextQuizzes, quizVars
<1>3. Inv /\ [NextQuizzes]_quizVars => Inv'
  BY <1>2, VocabOfQuizzes, ChemNext, ExactNext
<1>4. Inv => RatesSane
  BY VocabHonest, ChemHonest DEF RatesSane
<1> QED
  BY <1>1, <1>3, <1>4, PTL DEF SpecQuizzes

-----------------------------------------------------------------------------
(* Marks of mathematics.  A marking counts the marks it writes, which are   *)
(* those of its form; when it is scored it has written them all.            *)

AnyMarks == UNION {[S -> BOOLEAN] : S \in SUBSET Nat}
RightOf(marks) == {i \in DOMAIN marks : marks[i]}

Sheet == [ mode   : {"display", "print"},
           stored : Nat,
           score  : {Unscored} \cup {Score(c, t) : c \in Nat, t \in Nat} ]

Making(r) == r = [op |-> "generate", id |-> r.id, mode |-> r.mode, sheets |-> r.sheets]
Marking == [ op : {"score"}, id : Nat, marks : AnyMarks, written : AnyMarks,
             correct : Nat, total : Nat, scored : BOOLEAN ]

\* What a marking has written is of its form, and counted.
Tallied(r) ==
    /\ sessions[r.id].mode = "print"
    /\ DOMAIN r.marks \subseteq 1 .. sessions[r.id].stored
    /\ DOMAIN r.written \subseteq DOMAIN r.marks
    /\ \A i \in DOMAIN r.written : r.written[i] = r.marks[i]
    /\ r.correct = Cardinality(RightOf(r.written))
    /\ r.total = Cardinality(DOMAIN r.written)
    /\ r.scored => DOMAIN r.written = DOMAIN r.marks

WorkOK(r) ==
    \/ r = Idle
    \/ Making(r) /\ r.id \in DOMAIN sessions
    \/ r \in Marking /\ r.id \in DOMAIN sessions /\ Tallied(r)

SheetsOK ==
    /\ sessions \in Seq(Sheet) /\ Len(sessions) <= MaxSessions
    /\ answers \in [Id -> AnyMarks]
    /\ \A s \in Id : IF s \in DOMAIN sessions
                     THEN DOMAIN answers[s] \subseteq 1 .. sessions[s].stored
                     ELSE answers[s] = NoMarks

\* The score is that of these marks, and they are among those stored.
Scored(score, form, stored) ==
    /\ score = Score(RightIn(form), Cardinality(DOMAIN form))
    /\ \A i \in DOMAIN form : i \in DOMAIN stored /\ stored[i] = form[i]

\* The inductive invariant.
MarksInv ==
    /\ SheetsOK
    /\ work = [w \in Worker |-> work[w]] /\ \A w \in Worker : WorkOK(work[w])
    /\ lastMarks = [s \in Id |-> lastMarks[s]]
    /\ ScoreOfAnswers

\* One more mark, of a problem without one.
LEMMA OneMoreMark ==
    ASSUME NEW n \in Nat, NEW f \in AnyMarks, DOMAIN f \subseteq 1 .. n,
           NEW i \in 1 .. n, i \notin DOMAIN f, NEW b \in BOOLEAN,
           NEW g, DOMAIN g = DOMAIN f \cup {i}, g = [j \in DOMAIN g |-> g[j]],
           g[i] = b, \A j \in DOMAIN f : g[j] = f[j]
    PROVE  /\ g \in AnyMarks /\ DOMAIN g = DOMAIN f \cup {i}
           /\ Cardinality(DOMAIN g) = Cardinality(DOMAIN f) + 1
           /\ Cardinality(RightOf(g))
                = IF b THEN Cardinality(RightOf(f)) + 1 ELSE Cardinality(RightOf(f))
           /\ Cardinality(DOMAIN g) \in Nat /\ Cardinality(RightOf(g)) \in Nat
<1>1. /\ \A j \in DOMAIN f : f[j] \in BOOLEAN
      /\ g = [j \in DOMAIN f \cup {i} |-> g[j]]
  BY DEF AnyMarks
<1>2. g \in [DOMAIN f \cup {i} -> BOOLEAN] /\ DOMAIN f \cup {i} \in SUBSET Nat
  BY <1>1
<1>3. g \in AnyMarks
  BY <1>2 DEF AnyMarks
<1>4. RightOf(g) = IF b THEN RightOf(f) \cup {i} ELSE RightOf(f)
  BY <1>1 DEF RightOf
<1>5. IsFiniteSet(1 .. n)
  BY FS_Interval
<1>6. IsFiniteSet(DOMAIN f) /\ IsFiniteSet(RightOf(f)) /\ i \notin RightOf(f)
  BY <1>5, FS_Subset DEF RightOf
<1>7. /\ Cardinality(DOMAIN f \cup {i}) = Cardinality(DOMAIN f) + 1
      /\ Cardinality(RightOf(f) \cup {i}) = Cardinality(RightOf(f)) + 1
  BY <1>6, FS_AddElement
<1>8. Cardinality(DOMAIN f) \in Nat /\ Cardinality(RightOf(f)) \in Nat
  BY <1>6, FS_CardinalityType
<1> QED
  BY <1>1, <1>3, <1>4, <1>7, <1>8

\* Marks that are written are there.
LEMMA Written ==
    ASSUME NEW f, NEW g
    PROVE  \A i \in DOMAIN g : i \in DOMAIN Write(f, g) /\ Write(f, g)[i] = g[i]
BY DEF Write

LEMMA MarksType ==
    ASSUME NEW f \in AnyMarks
    PROVE  /\ f = [i \in DOMAIN f |-> f[i]] /\ DOMAIN f \in SUBSET Nat
           /\ \A i \in DOMAIN f : f[i] \in BOOLEAN
BY DEF AnyMarks

LEMMA NextSheet ==
    ASSUME NEW p, Making(p), NEW k
    PROVE  [p EXCEPT !.id = k, !.sheets = @ - 1]
             = [op |-> "generate", id |-> k, mode |-> p.mode, sheets |-> p.sheets - 1]
<1>1. DOMAIN p = {"op", "id", "mode", "sheets"} /\ p.op = "generate"
  BY DEF Making
<1> DEFINE q == [p EXCEPT !.id = k, !.sheets = p.sheets - 1]
<1>2. /\ DOMAIN q = DOMAIN p /\ q = [x \in DOMAIN q |-> q[x]]
      /\ q.op = p.op /\ q.id = k /\ q.mode = p.mode /\ q.sheets = p.sheets - 1
  BY <1>1
<1> HIDE DEF q
<1>3. q = [op |-> "generate", id |-> k, mode |-> p.mode, sheets |-> p.sheets - 1]
  BY <1>1, <1>2
<1> QED
  BY <1>3 DEF q

LEMMA MarkedIs ==
    ASSUME NEW w \in Worker, NEW i, work[w] \in Marking
    PROVE  Marked(w, i) =
             [op |-> "score", id |-> work[w].id, marks |-> work[w].marks,
              written |-> Write(work[w].written, [j \in {i} |-> work[w].marks[i]]),
              correct |-> IF work[w].marks[i] THEN work[w].correct + 1 ELSE work[w].correct,
              total |-> work[w].total + 1, scored |-> work[w].scored]
<1> DEFINE p == work[w]
<1>1. /\ DOMAIN p = {"op", "id", "marks", "written", "correct", "total", "scored"} /\ p.op = "score"
  BY DEF Marking
<1>2. Marked(w, i) = [p EXCEPT !.written = Write(@, [j \in {i} |-> p.marks[i]]), !.total = @ + 1,
                               !.correct = IF p.marks[i] THEN @ + 1 ELSE @]
  BY DEF Marked
<1> HIDE DEF p
<1>3. Marked(w, i) =
        [op |-> "score", id |-> p.id, marks |-> p.marks,
         written |-> Write(p.written, [j \in {i} |-> p.marks[i]]),
         correct |-> IF p.marks[i] THEN p.correct + 1 ELSE p.correct,
         total |-> p.total + 1, scored |-> p.scored]
  BY <1>1, <1>2
<1> QED
  BY <1>3 DEF p

LEMMA WriteType ==
    ASSUME NEW n \in Nat, NEW f \in AnyMarks, NEW g \in AnyMarks,
           DOMAIN f \subseteq 1 .. n, DOMAIN g \subseteq 1 .. n
    PROVE  Write(f, g) \in AnyMarks /\ DOMAIN Write(f, g) \subseteq 1 .. n
<1>1. \A i \in DOMAIN f : f[i] \in BOOLEAN
  BY DEF AnyMarks
<1>2. \A i \in DOMAIN g : g[i] \in BOOLEAN
  BY DEF AnyMarks
<1>3. /\ Write(f, g) \in [DOMAIN f \cup DOMAIN g -> BOOLEAN]
      /\ DOMAIN f \cup DOMAIN g \in SUBSET Nat /\ DOMAIN f \cup DOMAIN g \subseteq 1 .. n
  BY <1>1, <1>2 DEF Write
<1> QED
  BY <1>3 DEF AnyMarks

LEMMA MarksInit == InitSessions => MarksInv
<1> SUFFICES ASSUME InitSessions PROVE MarksInv
  OBVIOUS
<1>1. NoMarks \in AnyMarks
  <2>1. NoMarks \in [{} -> BOOLEAN] /\ {} \in SUBSET Nat
    BY DEF NoMarks
  <2> QED
    BY <2>1 DEF AnyMarks
<1>2. SheetsOK
  BY <1>1, SessionsAssumption DEF InitSessions, SheetsOK
<1>3. work = [w \in Worker |-> work[w]] /\ \A w \in Worker : WorkOK(work[w])
  BY DEF InitSessions, WorkOK
<1>4. ScoreOfAnswers /\ lastMarks = [s \in Id |-> lastMarks[s]]
  BY DEF InitSessions, ScoreOfAnswers
<1> QED
  BY <1>2, <1>3, <1>4 DEF MarksInv

\* A session is added, or a problem to one that is there.
LEMMA SheetAdded ==
    ASSUME MarksInv, Len(sessions) < MaxSessions, NEW mode \in {"display", "print"},
           sessions' = Append(sessions, [mode |-> mode, stored |-> 0, score |-> Unscored]),
           UNCHANGED <<answers, lastMarks>>
    PROVE  /\ SheetsOK' /\ ScoreOfAnswers' /\ Len(sessions) + 1 \in DOMAIN sessions'
           /\ \A r : WorkOK(r) => WorkOK(r)'
<1> DEFINE new == [mode |-> mode, stored |-> 0, score |-> Unscored]
<1>1. /\ sessions \in Seq(Sheet) /\ new \in Sheet /\ Len(sessions) \in Nat
      /\ sessions' \in Seq(Sheet) /\ Len(sessions') = Len(sessions) + 1
      /\ DOMAIN sessions = 1 .. Len(sessions) /\ DOMAIN sessions' = 1 .. Len(sessions) + 1
      /\ \A s \in DOMAIN sessions : sessions'[s] = sessions[s]
      /\ sessions'[Len(sessions) + 1] = new
  BY DEF MarksInv, SheetsOK, Sheet
<1> HIDE DEF new
<1>2. Len(sessions) + 1 \in Id /\ answers[Len(sessions) + 1] = NoMarks
  BY <1>1, SessionsAssumption DEF MarksInv, SheetsOK, Id
<1>3. SheetsOK'
  <2>1. DOMAIN NoMarks = {}
    BY DEF NoMarks
  <2>2. Len(sessions') <= MaxSessions
    BY <1>1, SessionsAssumption
  <2>3. ASSUME NEW s \in Id
        PROVE  IF s \in DOMAIN sessions' THEN DOMAIN answers[s] \subseteq 1 .. sessions'[s].stored
               ELSE answers[s] = NoMarks
    <3>1. CASE s \in DOMAIN sessions
      BY <1>1, <2>3, <3>1 DEF MarksInv, SheetsOK
    <3>2. CASE s \notin DOMAIN sessions
      BY <2>1, <2>3, <3>2 DEF MarksInv, SheetsOK
    <3> QED
      BY <3>1, <3>2
  <2> QED
    BY <1>1, <2>2, <2>3 DEF SheetsOK, MarksInv, Id
<1>4. ScoreOfAnswers'
  <2> SUFFICES ASSUME NEW s \in DOMAIN sessions'
               PROVE  /\ sessions'[s].score # Unscored => Scored(sessions'[s].score, lastMarks[s], answers[s])
                      /\ sessions'[s].mode = "display" =>
                           answers[s] = NoMarks /\ sessions'[s].score = Unscored
    BY DEF ScoreOfAnswers, Scored
  <2>1. CASE s \in DOMAIN sessions
    BY <1>1, <2>1 DEF MarksInv, ScoreOfAnswers, Scored
  <2>2. CASE s = Len(sessions) + 1
    BY <1>1, <1>2, <2>2 DEF new
  <2> QED
    BY <1>1, <2>1, <2>2
<1>5. \A r : WorkOK(r) => WorkOK(r)'
  BY <1>1 DEF WorkOK, Tallied
<1> QED
  BY <1>1, <1>3, <1>4, <1>5

\* The work of w becomes r, that of the others stays.
LEMMA WorkMoves ==
    ASSUME MarksInv, NEW w \in Worker, NEW r, work' = [work EXCEPT ![w] = r], WorkOK(r)',
           \A q : WorkOK(q) => WorkOK(q)'
    PROVE  (work = [v \in Worker |-> work[v]] /\ \A v \in Worker : WorkOK(work[v]))'
<1>1. work = [v \in Worker |-> work[v]] /\ \A v \in Worker : WorkOK(work[v])
  BY DEF MarksInv
<1>2. work' = [v \in Worker |-> work'[v]] /\ work'[w] = r
      /\ \A v \in Worker : v # w => work'[v] = work[v]
  BY <1>1
<1>3. ASSUME NEW v \in Worker PROVE WorkOK(work[v])'
  <2>1. ASSUME NEW q, q = work[v]' PROVE WorkOK(q)'
    <3>1. v = w => q = r
      BY <1>2, <2>1
    <3>2. v # w => WorkOK(q)
      BY <1>1, <1>2, <2>1
    <3> QED
      BY <3>1, <3>2
  <2> QED
    BY <2>1 DEF WorkOK, Tallied
<1> QED
  BY <1>2, <1>3

LEMMA MarksNext == MarksInv /\ [NextSessions]_sessionVars => MarksInv'
<1> SUFFICES ASSUME MarksInv, [NextSessions]_sessionVars PROVE MarksInv'
  OBVIOUS
<1> USE DEF MarksInv
<1>1. \A w \in Worker : WorkOK(work[w]) /\ work[w].op \in {"idle", "generate", "score"}
  BY DEF WorkOK, Idle, Making, Marking
<1>2. WorkOK(Idle)'
  BY DEF WorkOK
<1>3. ASSUME UNCHANGED <<sessions, answers, lastMarks>>
      PROVE  SheetsOK' /\ ScoreOfAnswers' /\ \A q : WorkOK(q) => WorkOK(q)'
  BY <1>3 DEF SheetsOK, ScoreOfAnswers, WorkOK, Tallied
<1>4. ASSUME UNCHANGED <<sessions, answers, lastMarks, work>> PROVE MarksInv'
  BY <1>3, <1>4 DEF WorkOK, Tallied
<1>5. ASSUME NEW w \in Worker, NEW mode \in {"display", "print"}, NEW keys, NEW types,
             Generate(w, mode, keys, types)
      PROVE  MarksInv'
  <2> DEFINE r == [op |-> "generate", id |-> Len(sessions) + 1, mode |-> mode,
                   sheets |-> IF mode = "print" THEN browser.paper ELSE 1]
  <2>1. /\ Len(sessions) < MaxSessions /\ UNCHANGED <<answers, lastMarks>>
        /\ sessions' = Append(sessions, [mode |-> mode, stored |-> 0, score |-> Unscored])
        /\ work' = [work EXCEPT ![w] = r]
    BY <1>5 DEF Generate
  <2>2. /\ SheetsOK' /\ ScoreOfAnswers' /\ Len(sessions) + 1 \in DOMAIN sessions'
        /\ \A q : WorkOK(q) => WorkOK(q)'
    BY <2>1, SheetAdded
  <2>3. ASSUME NEW q, q = r PROVE WorkOK(q)'
    BY <2>2, <2>3 DEF WorkOK, Making
  <2>4. (work = [v \in Worker |-> work[v]] /\ \A v \in Worker : WorkOK(work[v]))'
    <3> DEFINE q == r
    <3> QED
      BY <2>1, <2>2, <2>3, WorkMoves
  <2> QED
    BY <2>1, <2>2, <2>4
<1>6. ASSUME NEW w \in Worker, StoreProblem(w) PROVE MarksInv'
  <2> DEFINE s == work[w].id
  <2>1. s \in DOMAIN sessions /\ sessions[s] \in Sheet /\ DOMAIN sessions = 1 .. Len(sessions)
    BY <1>1, <1>6 DEF StoreProblem, WorkOK, Making, Marking, Idle, SheetsOK
  <2>2. /\ sessions' = [sessions EXCEPT ![s].stored = @ + 1]
        /\ UNCHANGED <<answers, work, lastMarks>>
    BY <1>6 DEF StoreProblem
  <2> HIDE DEF s
  <2>3. /\ sessions' \in Seq(Sheet) /\ Len(sessions') = Len(sessions)
        /\ DOMAIN sessions' = DOMAIN sessions
        /\ \A t \in DOMAIN sessions :
              /\ sessions'[t].mode = sessions[t].mode /\ sessions'[t].score = sessions[t].score
              /\ 1 .. sessions[t].stored \subseteq 1 .. sessions'[t].stored
    <3>1. sessions \in Seq(Sheet)
      BY DEF SheetsOK
    <3> DEFINE new == [sessions[s] EXCEPT !.stored = @ + 1]
    <3>2. /\ new \in Sheet /\ new.mode = sessions[s].mode /\ new.score = sessions[s].score
          /\ 1 .. sessions[s].stored \subseteq 1 .. new.stored
      BY ONLY <2>1 DEF Sheet
    <3>3. sessions' = [sessions EXCEPT ![s] = new]
      BY <2>2
    <3> HIDE DEF new
    <3> QED
      BY ONLY <2>1, <3>1, <3>2, <3>3
  <2>4. SheetsOK'
    BY <2>2, <2>3 DEF SheetsOK
  <2>5. ScoreOfAnswers'
    <3> SUFFICES ASSUME NEW t \in DOMAIN sessions'
                 PROVE  /\ sessions'[t].score # Unscored =>
                             Scored(sessions'[t].score, lastMarks[t], answers[t])
                        /\ sessions'[t].mode = "display" =>
                             answers[t] = NoMarks /\ sessions'[t].score = Unscored
      BY <2>2 DEF ScoreOfAnswers, Scored
    <3> QED
      BY <2>3 DEF ScoreOfAnswers, Scored
  <2>6. \A q : WorkOK(q) => WorkOK(q)'
    BY <2>3 DEF WorkOK, Tallied
  <2> QED
    BY <2>2, <2>4, <2>5, <2>6 DEF WorkOK, Tallied
<1>7. ASSUME NEW w \in Worker, SheetDone(w) PROVE MarksInv'
  <2>1. Making(work[w]) /\ work[w].id \in DOMAIN sessions
    BY <1>1, <1>7 DEF SheetDone, WorkOK, Marking, Idle
  <2>2. CASE work[w].sheets > 1
    <3> DEFINE q == [work[w] EXCEPT !.id = Len(sessions) + 1, !.sheets = @ - 1]
    <3>1. /\ Len(sessions) < MaxSessions /\ UNCHANGED <<answers, lastMarks>>
          /\ sessions' = Append(sessions, [mode |-> "print", stored |-> 0, score |-> Unscored])
          /\ work' = [work EXCEPT ![w] = q]
      BY <1>7, <2>2 DEF SheetDone
    <3>2. /\ SheetsOK' /\ ScoreOfAnswers' /\ Len(sessions) + 1 \in DOMAIN sessions'
          /\ \A r : WorkOK(r) => WorkOK(r)'
      BY <3>1, SheetAdded
    <3>3. q = [op |-> "generate", id |-> Len(sessions) + 1, mode |-> work[w].mode,
               sheets |-> work[w].sheets - 1]
      BY ONLY <2>1, NextSheet
    <3>4. ASSUME NEW r, r = q PROVE WorkOK(r)'
      BY <3>2, <3>3, <3>4 DEF WorkOK, Making
    <3> QED
      BY <3>1, <3>2, <3>4, WorkMoves
  <2>3. CASE ~(work[w].sheets > 1)
    <3>1. work' = [work EXCEPT ![w] = Idle] /\ UNCHANGED <<sessions, answers, lastMarks>>
      BY <1>7, <2>3 DEF SheetDone
    <3> QED
      BY <1>2, <1>3, <3>1, WorkMoves
  <2> QED
    BY <2>2, <2>3
<1>8. ASSUME NEW w \in Worker, PostScore(w) PROVE MarksInv'
  <2>1. PICK s \in DOMAIN sessions :
           /\ sessions[s].mode = "print"
           /\ \E some \in SUBSET (1..sessions[s].stored) : \E marks \in [some -> BOOLEAN] :
                work' = [work EXCEPT ![w] = [op |-> "score", id |-> s, marks |-> marks,
                                             written |-> NoMarks, correct |-> 0, total |-> 0,
                                             scored |-> FALSE]]
    BY <1>8 DEF PostScore
  <2>0. PICK some \in SUBSET (1..sessions[s].stored) : \E marks \in [some -> BOOLEAN] :
           work' = [work EXCEPT ![w] = [op |-> "score", id |-> s, marks |-> marks,
                                        written |-> NoMarks, correct |-> 0, total |-> 0,
                                        scored |-> FALSE]]
    BY <2>1
  <2>2. PICK marks \in [some -> BOOLEAN] :
           work' = [work EXCEPT ![w] = [op |-> "score", id |-> s, marks |-> marks,
                                        written |-> NoMarks, correct |-> 0, total |-> 0,
                                        scored |-> FALSE]]
    BY <2>0
  <2>3. UNCHANGED <<sessions, answers, lastMarks>>
    BY <1>8 DEF PostScore
  <2>4. /\ NoMarks \in AnyMarks /\ DOMAIN NoMarks = {} /\ RightOf(NoMarks) = {}
        /\ marks \in AnyMarks /\ DOMAIN marks = some
        /\ Cardinality({}) = 0
    <3>1. NoMarks \in [{} -> BOOLEAN] /\ {} \in SUBSET Nat /\ some \in SUBSET Nat
      BY DEF NoMarks
    <3> QED
      BY <3>1, FS_EmptySet DEF AnyMarks, RightOf
  <2>5. ASSUME NEW r, r = [op |-> "score", id |-> s, marks |-> marks, written |-> NoMarks,
                           correct |-> 0, total |-> 0, scored |-> FALSE]
        PROVE  WorkOK(r)'
    <3>1. r \in Marking
      BY <2>4, <2>5 DEF Marking, SheetsOK
    <3>2. Tallied(r)
      BY <2>1, <2>4, <2>5 DEF Tallied
    <3> QED
      BY <1>3, <2>3, <2>5, <3>1, <3>2 DEF WorkOK
  <2> QED
    BY <1>3, <2>2, <2>3, <2>5, WorkMoves
<1>9. ASSUME NEW w \in Worker, work[w].op = "score"
      PROVE  /\ work[w] \in Marking /\ work[w].id \in DOMAIN sessions /\ Tallied(work[w])
             /\ sessions[work[w].id].stored \in Nat /\ work[w].id \in Id
  <2>1. work[w] \in Marking /\ work[w].id \in DOMAIN sessions /\ Tallied(work[w])
    BY <1>1, <1>9 DEF WorkOK, Making, Idle
  <2>2. sessions[work[w].id] \in Sheet
    BY <2>1 DEF SheetsOK
  <2>3. work[w].id \in Id
    BY <2>1, SessionsAssumption DEF SheetsOK, Id
  <2> QED
    BY <2>1, <2>2, <2>3 DEF Sheet
<1>10. ASSUME NEW w \in Worker, UpsertAnswer(w) PROVE MarksInv'
  <2> DEFINE p == work[w]
             i == NextMark(w)
             q == Marked(w, i)
  <2>1. p \in Marking /\ Tallied(p) /\ sessions[p.id].stored \in Nat /\ p.id \in DOMAIN sessions
    BY <1>9, <1>10 DEF UpsertAnswer, Scoring
  <2>2. Todo(w) \in SUBSET Nat /\ Todo(w) # {}
    BY <1>10, <2>1 DEF UpsertAnswer, Todo, Tallied
  <2>3. i \in Todo(w)
    <3> DEFINE S == Todo(w)
    <3>1. S \in SUBSET Nat /\ S # {}
      BY <2>2
    <3>2. \E k \in S : \A j \in S : k <= j
      <4> HIDE DEF S
      <4> QED
        BY <3>1, Least
    <3> QED
      BY <3>2 DEF NextMark
  <2>4. /\ i \in DOMAIN p.marks /\ i \notin DOMAIN p.written /\ p.marks[i] \in BOOLEAN
        /\ i \in 1 .. sessions[p.id].stored
        /\ DOMAIN p.written \subseteq 1 .. sessions[p.id].stored
        /\ p.marks \in AnyMarks /\ p.written \in AnyMarks /\ p.correct \in Nat /\ p.total \in Nat
    <3>1. p.marks \in AnyMarks /\ p.written \in AnyMarks /\ p.correct \in Nat /\ p.total \in Nat
      BY <2>1 DEF Marking
    <3>2. \A j \in DOMAIN p.marks : p.marks[j] \in BOOLEAN
      BY <3>1, MarksType
    <3> QED
      BY <2>1, <2>3, <3>1, <3>2 DEF Todo, Tallied
  <2>5. /\ work' = [work EXCEPT ![w] = q] /\ UNCHANGED <<sessions, answers, lastMarks>>
        /\ ~p.scored
    BY <1>10 DEF UpsertAnswer, Scoring
  <2> DEFINE g == Write(p.written, [j \in {i} |-> p.marks[i]])
  <2>6. q = [op |-> "score", id |-> p.id, marks |-> p.marks, written |-> g,
             correct |-> IF p.marks[i] THEN p.correct + 1 ELSE p.correct,
             total |-> p.total + 1, scored |-> p.scored]
    BY <2>1, MarkedIs
  <2> HIDE DEF p, i, q, g
  <2>7. /\ g \in AnyMarks /\ DOMAIN g = DOMAIN p.written \cup {i}
        /\ Cardinality(DOMAIN g) = Cardinality(DOMAIN p.written) + 1
        /\ Cardinality(RightOf(g)) = IF p.marks[i] THEN Cardinality(RightOf(p.written)) + 1
                                     ELSE Cardinality(RightOf(p.written))
        /\ \A j \in DOMAIN g : g[j] = p.marks[j]
    <3>1. ASSUME NEW n, n = sessions[p.id].stored, NEW f, f = p.written, NEW b, b = p.marks[i],
                 NEW h, DOMAIN h = DOMAIN f \cup {i}, h = [j \in DOMAIN h |-> h[j]],
                 h[i] = b, \A j \in DOMAIN f : h[j] = f[j]
          PROVE  /\ h \in AnyMarks /\ DOMAIN h = DOMAIN f \cup {i}
                 /\ Cardinality(DOMAIN h) = Cardinality(DOMAIN f) + 1
                 /\ Cardinality(RightOf(h)) = IF b THEN Cardinality(RightOf(f)) + 1
                                              ELSE Cardinality(RightOf(f))
      <4>1. /\ n \in Nat /\ f \in AnyMarks /\ DOMAIN f \subseteq 1 .. n /\ i \in 1 .. n
            /\ i \notin DOMAIN f /\ b \in BOOLEAN
        BY <2>1, <2>4, <3>1
      <4> QED
        BY ONLY <3>1, <4>1, OneMoreMark
    <3>2. /\ DOMAIN g = DOMAIN p.written \cup {i} /\ g = [j \in DOMAIN g |-> g[j]]
          /\ g[i] = p.marks[i] /\ \A j \in DOMAIN p.written : g[j] = p.written[j]
      BY <2>4 DEF g, Write
    <3>3. \A j \in DOMAIN g : g[j] = p.marks[j]
      BY <2>1, <3>2 DEF Tallied
    <3> QED
      BY ONLY <3>1, <3>2, <3>3
  <2>8. ASSUME NEW r, r = q PROVE WorkOK(r)'
    <3>1. r \in Marking
      BY <2>1, <2>4, <2>6, <2>7, <2>8 DEF Marking
    <3>2. Tallied(r)
      BY <2>1, <2>4, <2>5, <2>6, <2>7, <2>8 DEF Tallied
    <3> QED
      BY <1>3, <2>1, <2>5, <2>6, <2>8, <3>1, <3>2 DEF WorkOK
  <2> QED
    BY <1>3, <2>5, <2>8, WorkMoves
<1>11. ASSUME NEW w \in Worker, SaveScore(w) PROVE MarksInv'
  <2> DEFINE p == work[w]
             q == [p EXCEPT !.scored = TRUE]
  <2>1. p \in Marking /\ Tallied(p) /\ p.id \in DOMAIN sessions
    BY <1>9, <1>11 DEF SaveScore, Scoring
  <2>2. work' = [work EXCEPT ![w] = q] /\ UNCHANGED <<sessions, answers, lastMarks>>
    BY <1>11 DEF SaveScore
  <2>3. DOMAIN p.written = DOMAIN p.marks
    BY <1>11, <2>1 DEF SaveScore, Todo, Tallied
  <2>4. ASSUME NEW r, r = q PROVE WorkOK(r)'
    <3>1. r \in Marking /\ Tallied(r) /\ r.id \in DOMAIN sessions
      BY <2>1, <2>3, <2>4 DEF Marking, Tallied
    <3> QED
      BY <1>3, <2>2, <3>1 DEF WorkOK
  <2> QED
    BY <1>3, <2>2, <2>4, WorkMoves
<1>12. ASSUME NEW w \in Worker, CommitScore(w) PROVE MarksInv'
  <2> DEFINE p == work[w]
             s == p.id
             new == Score(p.correct, p.total)
  <2>1. p \in Marking /\ Tallied(p) /\ s \in DOMAIN sessions /\ s \in Id /\ sessions[s].stored \in Nat
    BY <1>9, <1>12 DEF CommitScore
  <2>2. /\ sessions' = [sessions EXCEPT ![s].score = new]
        /\ answers' = [answers EXCEPT ![s] = Write(@, p.written)]
        /\ lastMarks' = [lastMarks EXCEPT ![s] = p.marks]
        /\ work' = [work EXCEPT ![w] = Idle]
        /\ p.written = p.marks
    <3>1. /\ p.written = [i \in DOMAIN p.written |-> p.written[i]]
          /\ p.marks = [i \in DOMAIN p.marks |-> p.marks[i]]
      BY <2>1, MarksType DEF Marking
    <3>2. DOMAIN p.written = DOMAIN p.marks /\ \A i \in DOMAIN p.marks : p.written[i] = p.marks[i]
      BY <1>12, <2>1 DEF CommitScore, Tallied
    <3>3. p.written = p.marks
      BY ONLY <3>1, <3>2
    <3> QED
      BY <1>12, <3>3 DEF CommitScore
  <2>3. /\ p.written \in AnyMarks /\ p.correct \in Nat /\ p.total \in Nat
        /\ answers[s] \in AnyMarks /\ DOMAIN answers[s] \subseteq 1 .. sessions[s].stored
        /\ DOMAIN p.written \subseteq 1 .. sessions[s].stored
    BY <2>1 DEF Marking, SheetsOK, Tallied
  <2>4. Write(answers[s], p.written) \in AnyMarks
        /\ DOMAIN Write(answers[s], p.written) \subseteq 1 .. sessions[s].stored
    BY ONLY <2>1, <2>3, WriteType
  <2>5. p.correct = Cardinality(RightOf(p.written)) /\ p.total = Cardinality(DOMAIN p.written)
        /\ sessions[s].mode = "print"
    BY <2>1 DEF Tallied
  <2> HIDE DEF p, s
  <2>6. /\ sessions' \in Seq(Sheet) /\ Len(sessions') = Len(sessions)
        /\ DOMAIN sessions' = DOMAIN sessions /\ sessions'[s].score = new
        /\ \A t \in DOMAIN sessions :
              /\ sessions'[t].mode = sessions[t].mode /\ sessions'[t].stored = sessions[t].stored
              /\ t # s => sessions'[t] = sessions[t]
    <3>1. \A t \in DOMAIN sessions : sessions[t] \in Sheet
      BY DEF SheetsOK
    <3>2. new \in {Score(c, t) : c \in Nat, t \in Nat}
      BY <2>3
    <3> HIDE DEF new
    <3>3. sessions \in Seq(Sheet)
      BY DEF SheetsOK
    <3> QED
      BY ONLY <2>1, <2>2, <3>1, <3>2, <3>3 DEF Sheet
  <2>7. SheetsOK'
    BY <2>1, <2>2, <2>4, <2>6 DEF SheetsOK
  <2>8. ScoreOfAnswers'
    <3> SUFFICES ASSUME NEW t \in DOMAIN sessions'
                 PROVE  /\ sessions'[t].score # Unscored =>
                             Scored(sessions'[t].score, lastMarks'[t], answers'[t])
                        /\ sessions'[t].mode = "display" =>
                             answers'[t] = NoMarks /\ sessions'[t].score = Unscored
      BY DEF ScoreOfAnswers, Scored
    <3>1. CASE t # s
      <4>1. /\ answers'[t] = answers[t] /\ sessions'[t] = sessions[t]
            /\ t \in DOMAIN sessions /\ t \in Id
        BY <2>2, <2>6, <3>1, SessionsAssumption DEF SheetsOK, Id
      <4>2. lastMarks'[t] = lastMarks[t]
        BY <2>2, <3>1, <4>1
      <4> QED
        BY <4>1, <4>2 DEF ScoreOfAnswers, Scored
    <3>2. CASE t = s
      <4>1. sessions'[t].mode # "display"
        BY <2>1, <2>5, <2>6, <3>2
      <4>2. answers'[t] = Write(answers[s], p.written) /\ lastMarks'[t] = p.written
        BY <2>1, <2>2, <3>2 DEF SheetsOK
      <4>3. Scored(new, p.written, Write(answers[s], p.written))
        BY <2>5, Written DEF Scored, RightIn, RightOf
      <4> QED
        BY <2>6, <3>2, <4>1, <4>2, <4>3
    <3> QED
      BY <3>1, <3>2
  <2>9. \A q : WorkOK(q) => WorkOK(q)'
    BY <2>6 DEF WorkOK, Tallied
  <2> QED
    BY <1>2, <2>2, <2>7, <2>8, <2>9, WorkMoves
<1>13. ASSUME NEW w \in Worker, Drop(w) PROVE MarksInv'
  <2>1. work' = [work EXCEPT ![w] = Idle] /\ UNCHANGED <<sessions, answers, lastMarks>>
    BY <1>13 DEF Drop
  <2> QED
    BY <1>2, <1>3, <2>1, WorkMoves
<1>14. CASE UNCHANGED sessionVars
  BY <1>4, <1>14 DEF sessionVars
<1>15. ASSUME NEW w \in Worker,
              \/ DispatchClock(w) \/ DispatchLinear(w) \/ DispatchSystem(w)
              \/ DispatchClockPrint(w) \/ DispatchLinearPrint(w) \/ DispatchSystemPrint(w)
              \/ SubmitClock(w) \/ SubmitLinear(w) \/ SubmitSystem(w)
              \/ ClockResult(w) \/ LinearResult(w) \/ SystemResult(w)
       PROVE  MarksInv'
  BY <1>4, <1>15 DEF DispatchClock, DispatchLinear, DispatchSystem, DispatchClockPrint,
                     DispatchLinearPrint, DispatchSystemPrint, Keep, SubmitClock, SubmitLinear,
                     SubmitSystem, Submit, ClockResult, LinearResult, SystemResult, ShowResult
<1>16. ASSUME NEW w \in Worker,
              \/ DisplayClock(w) \/ DisplayLinear(w) \/ DisplaySystem(w)
              \/ PrintClock(w) \/ PrintLinear(w) \/ PrintSystem(w)
       PROVE  MarksInv'
  BY <1>5, <1>16 DEF DisplayClock, DisplayLinear, DisplaySystem, PrintClock, PrintLinear, PrintSystem
<1> QED
  BY <1>6, <1>7, <1>8, <1>10, <1>11, <1>12, <1>13, <1>14, <1>15, <1>16 DEF NextSessions

\* The score of a printed sheet is the average of the form entered last, whose marks
\* are the ones stored of its problems, for any number of problems, sheets and
\* teachers who mark at once.
THEOREM ScoreOfAnswersAlways == SpecSessions => []ScoreOfAnswers
<1>1. MarksInv => ScoreOfAnswers
  BY DEF MarksInv
<1> QED
  BY <1>1, MarksInit, MarksNext, PTL DEF SpecSessions
=============================================================================
