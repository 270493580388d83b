------------------------- MODULE PassageQuiz_proofs -------------------------
(***************************************************************************)
(* The invariants of PassageQuiz for any number of tabs, passages and      *)
(* questions: first that the batches of a passage have no gap and no more  *)
(* sets than there are tabs (BatchInv), then, with what that needs, the    *)
(* answers, the progress rows and the result pages (QuizInv).              *)
(***************************************************************************)
EXTENDS PassageQuiz, TLAPS, SequenceTheorems, FiniteSetTheorems, FunctionTheorems

\* Max is defined of a set that has a greatest element, and then is that one.
HasMax(S) == \E m \in S : \A n \in S : n <= m

LEMMA MaxOf ==
    ASSUME NEW S \in SUBSET Nat, HasMax(S)
    PROVE  Max(S) \in S /\ \A n \in S : n <= Max(S)
<1>1. PICK m \in S : \A n \in S : n <= m
  BY DEF HasMax
<1>2. \E x \in S : \A y \in S : x >= y
  BY <1>1
<1>3. QED
  BY <1>2 DEF Max

\* A batch that a tab is about to create rows of: the first one, or the one
\* after a batch that is there.
BatchFollows(w) ==
    \/ req[w].batch = 1
    \/ req[w].passage # 0 /\ req[w].batch - 1 \in BatchesOf(req[w].passage)

RowsTyped ==
    /\ passages \in Seq(Passage)
    /\ questions \in Seq(Question)
    /\ \A q \in DOMAIN questions : questions[q].passage \in DOMAIN passages
                                   /\ questions[q].batch > 0

\* What a tab has in hand that generates questions.
InHand(w) ==
    /\ pc[w] \in {"generate", "create"} =>
          /\ req[w].trainer \in Trainer /\ req[w].source \in Source
          /\ req[w].passage \in {0} \cup DOMAIN passages
    /\ pc[w] = "create" =>
          /\ req[w].size \in Nat /\ req[w].batch \in Nat \ {0}
          /\ BatchFollows(w)

Places ==
    /\ pc = [w \in Tab |-> pc[w]] /\ req = [w \in Tab |-> req[w]]
    /\ \A w \in Tab : InHand(w)

NoGap == \A p \in DOMAIN passages : \A n \in BatchesOf(p) : n > 1 => n - 1 \in BatchesOf(p)

\* The tabs that are about to add a set to a batch.
Writers(p, n) == {w \in Tab : pc[w] = "create" /\ req[w].passage = p /\ req[w].batch = n}

\* A batch has no row when its number is first given; from there on every tab
\* that has the number in hand adds at most one set, and has it no more.
Shared ==
    \A p, n \in Nat \ {0} :
        /\ IsFiniteSet(SetsOf(p, n))
        /\ Cardinality(SetsOf(p, n)) + Cardinality(Writers(p, n)) <= Cardinality(Tab)

\* The inductive invariant: a set may be committed long after its batch was
\* numbered, when others have been added, but a batch is never removed.
BatchInv ==
    /\ RowsTyped
    /\ Places
    /\ \A p \in Nat : HasMax({0} \cup BatchesOf(p))
    /\ NoGap
    /\ Shared

LEMMA BatchesAreNat ==
    ASSUME RowsTyped, NEW p
    PROVE  BatchesOf(p) \in SUBSET (Nat \ {0})
<1>1. \A q \in DOMAIN questions : questions[q] \in Question
  BY DEF RowsTyped
<1>2. \A q \in DOMAIN questions : questions[q].batch \in Nat /\ questions[q].batch > 0
  BY <1>1 DEF RowsTyped, Question
<1>3. QED
  BY <1>2 DEF BatchesOf

\* What NextBatch numbers follows a batch that is there, or is the first, and
\* is the number of no row.
LEMMA NextFollows ==
    ASSUME RowsTyped, NEW p \in Nat, HasMax({0} \cup BatchesOf(p))
    PROVE  /\ NextBatch(p) \in Nat \ {0}
           /\ NextBatch(p) = 1 \/ NextBatch(p) - 1 \in BatchesOf(p)
           /\ SetsOf(p, NextBatch(p)) = {}
<1>1. {0} \cup BatchesOf(p) \in SUBSET Nat
  BY BatchesAreNat
<1>2. /\ Max({0} \cup BatchesOf(p)) \in {0} \cup BatchesOf(p)
      /\ \A n \in BatchesOf(p) : n <= Max({0} \cup BatchesOf(p))
  BY <1>1, MaxOf
<1>3. NextBatch(p) \notin BatchesOf(p)
  BY <1>1, <1>2 DEF NextBatch
<1>4. SetsOf(p, NextBatch(p)) = {}
  BY <1>3 DEF SetsOf, QuestionsOf, BatchesOf
<1>5. /\ 1 + Max({0} \cup BatchesOf(p)) \in Nat \ {0}
      /\ \/ 1 + Max({0} \cup BatchesOf(p)) = 1
         \/ (1 + Max({0} \cup BatchesOf(p))) - 1 \in BatchesOf(p)
  BY <1>1, <1>2
<1>6. QED
  BY <1>4, <1>5 DEF NextBatch

LEMMA SomeTabs ==
    ASSUME NEW S \in SUBSET Tab
    PROVE  /\ IsFiniteSet(S) /\ Cardinality(S) \in Nat /\ Cardinality(Tab) \in Nat
           /\ Cardinality(S) <= Cardinality(Tab)
BY TabAssumption, FS_Subset, FS_CardinalityType

LEMMA BatchInit == Init => BatchInv
<1> SUFFICES ASSUME Init PROVE BatchInv
  OBVIOUS
<1>1. RowsTyped /\ Places
  BY DEF Init, RowsTyped, Places, InHand
<1>2. \A p : BatchesOf(p) = {}
  BY DEF Init, BatchesOf
<1>3. ASSUME NEW p, NEW n PROVE SetsOf(p, n) = {} /\ Writers(p, n) = {}
  BY DEF Init, SetsOf, QuestionsOf, Writers
<1>4. Shared
  <2>1. IsFiniteSet({}) /\ Cardinality({}) = 0 /\ 0 + 0 <= Cardinality(Tab)
    BY FS_EmptySet, SomeTabs
  <2>2. ASSUME NEW p \in Nat \ {0}, NEW n \in Nat \ {0}
        PROVE  /\ IsFiniteSet(SetsOf(p, n))
               /\ Cardinality(SetsOf(p, n)) + Cardinality(Writers(p, n)) <= Cardinality(Tab)
    <3>1. SetsOf(p, n) = {} /\ Writers(p, n) = {}
      BY <1>3
    <3>2. QED
      BY <2>1, <3>1
  <2>3. QED
    BY <2>2 DEF Shared
<1>5. QED
  BY <1>1, <1>2, <1>4 DEF BatchInv, HasMax, NoGap

\* Another tab keeps what it has in hand as long as no row disappears.
LEMMA OthersKeep ==
    ASSUME BatchInv, NEW v \in Tab, pc'[v] = pc[v], req'[v] = req[v],
           DOMAIN passages \subseteq DOMAIN passages',
           \A p : BatchesOf(p) \subseteq BatchesOf(p)'
    PROVE  InHand(v)'
BY DEF BatchInv, Places, InHand, BatchFollows

\* Only the tab w moves.
LEMMA Moves ==
    ASSUME Places, NEW w \in Tab, NEW place, NEW r, Goto(w, place, r)
    PROVE  /\ pc' = [v \in Tab |-> pc'[v]] /\ req' = [v \in Tab |-> req'[v]]
           /\ pc'[w] = place /\ req'[w] = r
           /\ \A v \in Tab : v # w => pc'[v] = pc[v] /\ req'[v] = req[v]
BY DEF Places, Goto

\* The writers of other batches are those there were, or fewer.
LEMMA SharedQuiet ==
    ASSUME Places, Shared, NEW w \in Tab, UNCHANGED questions,
           NEW place, NEW r, Goto(w, place, r),
           place = "create" => r.passage = 0 \/ SetsOf(r.passage, r.batch) = {}
    PROVE  Shared'
<1>1. /\ pc'[w] = place /\ req'[w] = r
      /\ \A v \in Tab : v # w => pc'[v] = pc[v] /\ req'[v] = req[v]
  BY Moves
<1>2. ASSUME NEW p \in Nat \ {0}, NEW n \in Nat \ {0}
      PROVE  /\ IsFiniteSet(SetsOf(p, n)')
             /\ Cardinality(SetsOf(p, n)') + Cardinality(Writers(p, n)') <= Cardinality(Tab)
  <2>1. SetsOf(p, n)' = SetsOf(p, n)
    BY DEF SetsOf, QuestionsOf
  <2>2. /\ IsFiniteSet(SetsOf(p, n)) /\ Cardinality(SetsOf(p, n)) \in Nat
        /\ Cardinality(SetsOf(p, n)) + Cardinality(Writers(p, n)) <= Cardinality(Tab)
    BY FS_CardinalityType DEF Shared
  <2>3. Writers(p, n) \in SUBSET Tab /\ Writers(p, n)' \in SUBSET Tab
    BY DEF Writers
  <2>4. CASE w \in Writers(p, n)'
    <3>1. SetsOf(p, n) = {}
      BY <1>1, <2>4 DEF Writers
    <3>2. Cardinality(SetsOf(p, n)') = 0
      BY <2>1, <3>1, FS_EmptySet
    <3>3. QED
      BY <2>1, <2>2, <2>3, <3>2, SomeTabs
  <2>5. CASE w \notin Writers(p, n)'
    <3>1. Writers(p, n)' \subseteq Writers(p, n)
      BY <1>1, <2>5 DEF Writers
    <3>2. Cardinality(Writers(p, n)') <= Cardinality(Writers(p, n))
      BY <2>3, <3>1, SomeTabs, FS_Subset
    <3>3. QED
      BY <2>1, <2>2, <2>3, <3>2, SomeTabs
  <2>6. QED
    BY <2>4, <2>5
<1>3. QED
  BY <1>2 DEF Shared

\* A step that adds no row, and after which the tab w has nothing wrong in hand.
LEMMA QuietStep ==
    ASSUME BatchInv, NEW w \in Tab, UNCHANGED <<passages, questions>>,
           NEW place, NEW r, Goto(w, place, r), InHand(w)',
           place = "create" => r.passage = 0 \/ SetsOf(r.passage, r.batch) = {}
    PROVE  BatchInv'
<1>1. RowsTyped' /\ \A p : BatchesOf(p)' = BatchesOf(p)
  BY DEF BatchInv, RowsTyped, BatchesOf
<1>2. Places
  BY DEF BatchInv
<1>3. ASSUME NEW v \in Tab PROVE InHand(v)'
  BY <1>1, <1>2, Moves, OthersKeep
<1>4. Places'
  BY <1>2, <1>3, Moves DEF Places
<1>5. Shared'
  BY <1>2, SharedQuiet DEF BatchInv
<1>6. QED
  BY <1>1, <1>4, <1>5 DEF BatchInv, NoGap, RowsTyped

LEMMA OtherStep ==
    ASSUME BatchInv, NEW w \in Tab, UNCHANGED <<passages, questions>>,
           NEW place, NEW r, Goto(w, place, r), place \notin {"generate", "create"}
    PROVE  BatchInv'
<1>1. InHand(w)'
  BY Moves DEF InHand, BatchInv
<1>2. QED
  BY <1>1, QuietStep

\* The dispatcher's request goes to the generator.
LEMMA GenerateStep ==
    ASSUME BatchInv, NEW w \in Tab, NEW b, NEW t \in Trainer, NEW s \in Source,
           DispatchNew(w, b, t, s) \/ DispatchMore(w, b, t, s)
    PROVE  BatchInv'
<1>1. UNCHANGED <<passages, questions>>
  BY DEF DispatchNew, DispatchMore, tableVars
<1>2. PICK p \in {0} \cup DOMAIN passages :
          Goto(w, "generate", [browser |-> b, trainer |-> t, source |-> s, passage |-> p])
  BY DEF DispatchNew, DispatchMore
<1>3. InHand(w)'
  BY <1>1, <1>2, Moves DEF InHand, BatchInv
<1>4. QED
  BY <1>1, <1>2, <1>3, QuietStep

\* The generator's reply is numbered.
LEMMA NumberStep ==
    ASSUME BatchInv, NEW w \in Tab, GeneratePassage(w) \/ AppendQuestions(w)
    PROVE  BatchInv'
<1> DEFINE p == req[w].passage
           To(size, batch) ==
               [browser |-> req[w].browser, trainer |-> req[w].trainer, source |-> req[w].source,
                passage |-> p, size |-> size, batch |-> batch]
<1>1. UNCHANGED <<passages, questions>> /\ pc[w] = "generate"
  BY DEF GeneratePassage, AppendQuestions, tableVars
<1>2. CASE Finish(w)
  BY <1>1, <1>2, OtherStep DEF Finish
<1>3. CASE \E size \in SetSizes : \/ p = 0 /\ Goto(w, "create", To(size, 1))
                                  \/ p # 0 /\ Goto(w, "create", To(size, NextBatch(p)))
  <2>1. PICK size \in Nat, batch \in {1, NextBatch(p)} :
           /\ Goto(w, "create", To(size, batch))
           /\ \/ p = 0 /\ batch = 1
              \/ p # 0 /\ batch = NextBatch(p)
    BY <1>3, SizesAssumption
  <2>2. \A x : BatchesOf(x)' = BatchesOf(x)
    BY <1>1 DEF BatchesOf
  <2>3. p \in {0} \cup DOMAIN passages /\ p \in Nat
    <3>1. p \in {0} \cup DOMAIN passages /\ passages \in Seq(Passage)
      BY <1>1 DEF BatchInv, Places, InHand, RowsTyped
    <3>2. QED
      BY <3>1
  <2>4. /\ batch \in Nat \ {0}
        /\ batch = 1 \/ (p # 0 /\ batch - 1 \in BatchesOf(p))
        /\ p = 0 \/ SetsOf(p, batch) = {}
    <3>1. RowsTyped /\ HasMax({0} \cup BatchesOf(p))
      BY <2>3 DEF BatchInv
    <3>2. /\ NextBatch(p) \in Nat \ {0} /\ (NextBatch(p) = 1 \/ NextBatch(p) - 1 \in BatchesOf(p))
          /\ SetsOf(p, NextBatch(p)) = {}
      BY <2>3, <3>1, NextFollows
    <3>3. QED
      BY <2>1, <3>2
  <2>5. /\ pc'[w] = "create" /\ req'[w] = To(size, batch)
    BY <2>1, Moves DEF BatchInv
  <2>6. /\ req[w].trainer \in Trainer /\ req[w].source \in Source
    BY <1>1 DEF BatchInv, Places, InHand
  <2>7. InHand(w)'
    BY <1>1, <2>2, <2>3, <2>4, <2>5, <2>6 DEF InHand, BatchFollows
  <2>8. QED
    BY <1>1, <2>1, <2>4, <2>7, QuietStep
<1>4. QED
  BY <1>2, <1>3 DEF GeneratePassage, AppendQuestions, Reply

\* The rows of a batch are added: to the batches of one passage comes the one
\* in hand, which follows another or is the first.
LEMMA CreateStep ==
    ASSUME BatchInv, NEW w \in Tab, CreateRows(w)
    PROVE  BatchInv'
<1> DEFINE r     == req[w]
           p     == IF r.passage = 0 THEN Len(passages) + 1 ELSE r.passage
           row   == [passage |-> p, batch |-> r.batch, set |-> Len(questions) + 1]
           added == [k \in 1 .. r.size |-> row]
<1>1. /\ pc[w] = "create"
      /\ passages' = IF r.passage # 0 THEN passages
                     ELSE Append(passages, [trainer |-> r.trainer, source |-> r.source])
      /\ questions' = questions \o added
      /\ Goto(w, "solve", [browser |-> r.browser, trainer |-> r.trainer,
                           passage |-> p, batch |-> r.batch])
  BY DEF CreateRows
<1>2. /\ r.size \in Nat /\ r.batch \in Nat \ {0} /\ BatchFollows(w)
      /\ r.trainer \in Trainer /\ r.source \in Source /\ r.passage \in {0} \cup DOMAIN passages
  BY <1>1 DEF BatchInv, Places, InHand
<1>3. passages' \in Seq(Passage) /\ DOMAIN passages \subseteq DOMAIN passages'
      /\ p \in DOMAIN passages' /\ p \in Nat
  <2>1. passages \in Seq(Passage)
    BY DEF BatchInv, RowsTyped
  <2>2. CASE r.passage = 0
    BY <1>1, <1>2, <2>1, <2>2 DEF Passage
  <2>3. CASE r.passage # 0
    BY <1>1, <1>2, <2>1, <2>3
  <2>4. QED
    BY <2>2, <2>3
<1>4. \A x \in Nat : HasMax({0} \cup BatchesOf(x))
  BY DEF BatchInv
<1>5. questions \in Seq(Question)
  BY DEF BatchInv, RowsTyped
<1>6. added \in Seq(Question) /\ Len(added) = r.size
      /\ \A k \in 1 .. r.size : added[k] = row
  <2>1. row \in Question
    BY <1>2, <1>3, <1>5 DEF Question
  <2>2. QED
    BY <1>2, <2>1
<1>7. /\ questions' \in Seq(Question)
      /\ Len(questions') = Len(questions) + r.size
      /\ \A q \in 1 .. Len(questions) : questions'[q] = questions[q]
      /\ \A q \in Len(questions) + 1 .. Len(questions) + r.size : questions'[q] = row
  BY <1>1, <1>2, <1>5, <1>6, ConcatProperties
<1>8. DOMAIN questions = 1 .. Len(questions) /\ DOMAIN questions' = 1 .. Len(questions')
  BY <1>5, <1>7
<1>9. RowsTyped'
  <2>1. ASSUME NEW q \in DOMAIN questions'
        PROVE questions'[q].passage \in DOMAIN passages' /\ questions'[q].batch > 0
    <3>1. CASE q \in DOMAIN questions
      BY <1>3, <1>7, <1>8, <3>1 DEF BatchInv, RowsTyped
    <3>2. CASE q \notin DOMAIN questions
      <4>1. questions'[q] = row
        BY <1>2, <1>5, <1>7, <1>8, <3>2
      <4>2. QED
        BY <1>2, <1>3, <4>1
    <3>3. QED
      BY <3>1, <3>2
  <2>2. QED
    BY <1>3, <1>7, <2>1 DEF RowsTyped
<1>10. \A x : BatchesOf(x)' = BatchesOf(x) \cup (IF x = p /\ r.size > 0 THEN {r.batch} ELSE {})
  <2>1. ASSUME NEW x, NEW n \in BatchesOf(x)
        PROVE  n \in BatchesOf(x)'
    BY <1>2, <1>5, <1>7, <1>8 DEF BatchesOf
  <2>2. ASSUME NEW x, x = p, r.size > 0 PROVE r.batch \in BatchesOf(x)'
    <3>1. /\ Len(questions) + 1 \in DOMAIN questions'
          /\ questions'[Len(questions) + 1].passage = x
          /\ questions'[Len(questions) + 1].batch = r.batch
      BY <1>2, <1>5, <1>7, <1>8, <2>2
    <3>2. QED
      BY <3>1 DEF BatchesOf
  <2>3. ASSUME NEW x, NEW n \in BatchesOf(x)', n \notin BatchesOf(x)
        PROVE  x = p /\ r.size > 0 /\ n = r.batch
    <3>1. PICK q \in DOMAIN questions' : questions'[q].passage = x /\ questions'[q].batch = n
      BY <2>3 DEF BatchesOf
    <3>2. q \notin DOMAIN questions
      BY <1>7, <1>8, <2>3, <3>1 DEF BatchesOf
    <3>3. questions'[q] = row /\ r.size > 0
      BY <1>2, <1>5, <1>7, <1>8, <3>2
    <3>4. QED
      BY <3>1, <3>3
  <2>4. QED
    BY <2>1, <2>2, <2>3
<1>11. r.batch = 1 \/ r.batch - 1 \in BatchesOf(p)
  BY <1>2 DEF BatchFollows
<1>12. NoGap'
  <2>1. ASSUME NEW x \in DOMAIN passages', NEW n \in BatchesOf(x)', n > 1
        PROVE  n - 1 \in BatchesOf(x)'
    <3>1. CASE n \in BatchesOf(x)
      <4>1. x \in DOMAIN passages
        BY <3>1 DEF BatchInv, RowsTyped, BatchesOf
      <4>2. QED
        BY <1>10, <2>1, <3>1, <4>1 DEF BatchInv, NoGap
    <3>2. CASE n \notin BatchesOf(x)
      BY <1>10, <1>11, <2>1, <3>2
    <3>3. QED
      BY <3>1, <3>2
  <2>2. QED
    BY <2>1 DEF NoGap
<1>13. ASSUME NEW x \in Nat PROVE HasMax({0} \cup BatchesOf(x)')
  <2>1. PICK m \in {0} \cup BatchesOf(x) : \A n \in {0} \cup BatchesOf(x) : n <= m
    BY <1>4 DEF HasMax
  <2>2. {0} \cup BatchesOf(x) \in SUBSET Nat
    BY BatchesAreNat DEF BatchInv
  <2>3. CASE BatchesOf(x)' = BatchesOf(x)
    BY <1>4, <2>3
  <2>4. CASE BatchesOf(x)' = BatchesOf(x) \cup {r.batch}
    <3>1. CASE r.batch <= m
      BY <2>1, <2>4, <3>1 DEF HasMax
    <3>2. CASE m < r.batch
      BY <1>2, <2>1, <2>2, <2>4, <3>2 DEF HasMax
    <3>3. QED
      BY <1>2, <2>1, <2>2, <3>1, <3>2
  <2>5. QED
    BY <1>10, <2>3, <2>4
<1>14. Places'
  <2>1. /\ pc'[w] = "solve" /\ pc' = [v \in Tab |-> pc'[v]] /\ req' = [v \in Tab |-> req'[v]]
        /\ \A v \in Tab : v # w => pc'[v] = pc[v] /\ req'[v] = req[v]
    BY <1>1, Moves DEF BatchInv
  <2>2. ASSUME NEW v \in Tab, v # w PROVE InHand(v)'
    BY <1>3, <1>10, <2>1, <2>2, OthersKeep
  <2>3. InHand(w)'
    BY <2>1 DEF InHand
  <2>4. QED
    BY <2>1, <2>2, <2>3 DEF Places
<1>15. ASSUME NEW x, NEW n
       PROVE  SetsOf(x, n)' \subseteq SetsOf(x, n) \cup
                 (IF x = p /\ n = r.batch THEN {Len(questions) + 1} ELSE {})
  <2>1. ASSUME NEW q \in QuestionsOf(x, n)'
        PROVE  \/ q \in QuestionsOf(x, n) /\ questions'[q] = questions[q]
               \/ x = p /\ n = r.batch /\ questions'[q].set = Len(questions) + 1
    <3>1. q \in DOMAIN questions' /\ questions'[q].passage = x /\ questions'[q].batch = n
      BY DEF QuestionsOf
    <3>2. CASE q \in DOMAIN questions
      BY <1>7, <1>8, <3>1, <3>2 DEF QuestionsOf
    <3>3. CASE q \notin DOMAIN questions
      <4>1. questions'[q] = row
        BY <1>2, <1>5, <1>7, <1>8, <3>1, <3>3
      <4>2. QED
        BY <3>1, <4>1
    <3>4. QED
      BY <3>2, <3>3
  <2>2. QED
    BY <2>1 DEF SetsOf
<1>16. Shared'
  <2>1. /\ pc'[w] = "solve" /\ \A v \in Tab : v # w => pc'[v] = pc[v] /\ req'[v] = req[v]
    BY <1>1, Moves DEF BatchInv
  <2>2. ASSUME NEW x \in Nat \ {0}, NEW n \in Nat \ {0}
        PROVE  /\ IsFiniteSet(SetsOf(x, n)')
               /\ Cardinality(SetsOf(x, n)') + Cardinality(Writers(x, n)') <= Cardinality(Tab)
    <3> DEFINE S == SetsOf(x, n)
               W == Writers(x, n)
               new == Len(questions) + 1
    <3>1. /\ IsFiniteSet(S) /\ Cardinality(S) \in Nat
          /\ Cardinality(S) + Cardinality(W) <= Cardinality(Tab)
      BY FS_CardinalityType DEF BatchInv, Shared
    <3>2. W' \subseteq W \ {w} /\ W \in SUBSET Tab /\ W' \in SUBSET Tab
      BY <2>1 DEF Writers
    <3>3. IsFiniteSet(W) /\ Cardinality(W) \in Nat /\ IsFiniteSet(W') /\ Cardinality(W') \in Nat
          /\ Cardinality(Tab) \in Nat /\ Cardinality(W') <= Cardinality(W)
      BY <3>2, SomeTabs, FS_Subset
    <3>4. CASE x = p /\ n = r.batch
      <4>1. S' \subseteq S \cup {new}
        BY <1>15, <3>4
      <4>2. IsFiniteSet(S \cup {new}) /\ Cardinality(S \cup {new}) <= Cardinality(S) + 1
        <5>1. /\ IsFiniteSet(S \cup {new})
              /\ Cardinality(S \cup {new}) = IF new \in S THEN Cardinality(S) ELSE Cardinality(S) + 1
          BY <3>1, FS_AddElement
        <5>2. QED
          BY <3>1, <5>1
      <4>3. IsFiniteSet(S') /\ Cardinality(S') \in Nat /\ Cardinality(S') <= Cardinality(S) + 1
        <5>1. /\ IsFiniteSet(S') /\ Cardinality(S') \in Nat /\ Cardinality(S \cup {new}) \in Nat
              /\ Cardinality(S') <= Cardinality(S \cup {new})
          BY <4>1, <4>2, FS_Subset, FS_CardinalityType
        <5>2. QED
          BY <3>1, <4>2, <5>1
      <4>4. CASE r.passage # 0
        <5>1. w \in W
          BY <1>1, <3>4, <4>4 DEF Writers
        <5>2. IsFiniteSet(W \ {w}) /\ Cardinality(W \ {w}) = Cardinality(W) - 1
          BY <3>3, <5>1, FS_RemoveElement
        <5>3. Cardinality(W') <= Cardinality(W) - 1
          BY <3>2, <5>2, FS_Subset
        <5>4. QED
          BY <3>1, <3>3, <4>3, <5>3
      <4>5. CASE r.passage = 0
        <5>1. p \notin DOMAIN passages /\ p # 0
          <6>1. passages \in Seq(Passage)
            BY DEF BatchInv, RowsTyped
          <6>2. QED
            BY <4>5, <6>1
        <5>2. W' = {}
          BY <2>1, <3>4, <5>1 DEF Writers, BatchInv, Places, InHand
        <5>3. S = {}
          BY <3>4, <5>1 DEF SetsOf, QuestionsOf, BatchInv, RowsTyped
        <5>4. Cardinality(S) = 0 /\ Cardinality(W') = 0
          BY <5>2, <5>3, FS_EmptySet
        <5>5. Cardinality({w}) = 1 /\ Cardinality({w}) <= Cardinality(Tab)
          BY FS_Singleton, SomeTabs
        <5>6. QED
          BY <3>3, <4>3, <5>4, <5>5
      <4>6. QED
        BY <4>4, <4>5
    <3>5. CASE ~ (x = p /\ n = r.batch)
      <4>1. S' \subseteq S
        BY <1>15, <3>5
      <4>2. IsFiniteSet(S') /\ Cardinality(S') \in Nat /\ Cardinality(S') <= Cardinality(S)
        BY <3>1, <4>1, FS_Subset, FS_CardinalityType
      <4>3. QED
        BY <3>1, <3>3, <4>2
    <3>6. QED
      BY <3>4, <3>5
  <2>3. QED
    BY <2>2 DEF Shared
<1>17. QED
  BY <1>9, <1>12, <1>13, <1>14, <1>16 DEF BatchInv

LEMMA BatchNext == BatchInv /\ [Next]_vars => BatchInv'
<1> SUFFICES ASSUME BatchInv, [Next]_vars PROVE BatchInv'
  OBVIOUS
<1>1. CASE UNCHANGED vars
  <2>1. UNCHANGED <<passages, questions, pc, req>>
    BY <1>1 DEF vars, tableVars
  <2>2. \A p, n : SetsOf(p, n)' = SetsOf(p, n) /\ Writers(p, n)' = Writers(p, n)
    BY <2>1 DEF SetsOf, QuestionsOf, Writers
  <2>3. Shared'
    BY <2>2 DEF BatchInv, Shared
  <2>4. QED
    BY <2>1, <2>3 DEF BatchInv, RowsTyped, Places, InHand, BatchFollows, BatchesOf, NoGap
<1>2. ASSUME NEW w \in Tab, NEW b, NEW t, t \in Trainer, NEW s \in Source,
             DispatchNew(w, b, t, s) \/ DispatchMore(w, b, t, s)
      PROVE  BatchInv'
  BY <1>2, GenerateStep
<1>3. ASSUME NEW w \in Tab, Answered(w) PROVE BatchInv'
  BY <1>3, NumberStep, CreateStep
  DEF Answered, GenerateReading, AppendReading, GenerateEikenReading, AppendEikenReading,
      GenerateListening, AppendListening, GenerateEikenListening, AppendEikenListening
<1>4. ASSUME NEW w \in Tab, NEW place, NEW r, Goto(w, place, r),
             place \notin {"generate", "create"}, UNCHANGED <<passages, questions>>
      PROVE  BatchInv'
  BY <1>4, OtherStep
<1>5. ASSUME NEW w \in Tab, NEW b, NEW t, NEW s, DispatchAgain(w, b, t, s) PROVE BatchInv'
  BY <1>4, <1>5 DEF DispatchAgain, tableVars
<1>6. ASSUME NEW w \in Tab, Solve(w) PROVE BatchInv'
  <2>1. CASE OpenPage(w)
    BY <1>4, <2>1 DEF OpenPage, Finish, tableVars
  <2>2. CASE Submit(w)
    BY <1>4, <2>2 DEF Submit, tableVars
  <2>3. CASE GradeQuestion(w)
    BY <1>4, <2>3 DEF GradeQuestion
  <2>4. CASE QuestionMissing(w)
    BY <1>4, <2>4 DEF QuestionMissing, Finish, tableVars
  <2>5. CASE ReadProgress(w)
    BY <1>4, <2>5 DEF ReadProgress
  <2>6. CASE SaveProgress(w)
    BY <1>4, <2>6 DEF SaveProgress
  <2>7. CASE SaveConflict(w)
    BY <1>4, <2>7 DEF SaveConflict, Finish, tableVars
  <2>8. CASE Respond(w)
    BY <1>4, <2>8 DEF Respond, tableVars
  <2>9. QED
    BY <1>6, <2>1, <2>2, <2>3, <2>4, <2>5, <2>6, <2>7, <2>8 DEF Solve
<1>7. ASSUME NEW w \in Tab, Result(w) PROVE BatchInv'
  <2>1. CASE OpenResult(w)
    BY <1>4, <2>1 DEF OpenResult, Finish, tableVars
  <2>2. CASE ShowResult(w)
    BY <1>4, <2>2 DEF ShowResult, tableVars
  <2>3. QED
    BY <1>7, <2>1, <2>2 DEF Result
<1>8. ASSUME NEW w \in Tab, NEW b, NEW t, Select(w, b, t) PROVE BatchInv'
  BY <1>4, <1>8 DEF Select, OpenSelection, tableVars
<1>9. ASSUME NEW w \in Tab, ReadOldest(w) \/ DeleteOldest(w) \/ PruneListening(w) \/ Abandon(w)
      PROVE  BatchInv'
  BY <1>4, <1>9 DEF ReadOldest, DeleteOldest, PruneListening, Abandon, Finish, tableVars
<1>10. ASSUME NEW w \in Tab, NEW b, NEW t, Dispatch(w, b, t) PROVE BatchInv'
  BY <1>2, <1>5, <1>10 DEF Dispatch
<1>11. QED
  BY <1>1, <1>3, <1>6, <1>7, <1>8, <1>9, <1>10
  DEF Next, StudentReadingQuizDispatcherView, StudentReadingQuizSolveView, StudentReadingResult,
      StudentReadingSelect, AdminReadingQuizDispatcherView, AdminReadingQuizSolveView,
      AdminReadingResult, AdminReadingSelect, StudentListeningQuizDispatcherView,
      StudentListeningQuizSolveView, StudentListeningResult, StudentListeningSelect,
      AdminListeningQuizDispatcherView, AdminListeningQuizSolveView, AdminListeningResult,
      AdminListeningSelect

\* The batches of a passage are numbered without a gap, in whatever order the
\* sets of questions that overlapping requests generate are committed, and no
\* more sets than there are requests at once share a number.
THEOREM BatchesHaveNoGap == Spec => []BatchesContiguous
<1>1. BatchInv => BatchesContiguous
  <2> SUFFICES ASSUME BatchInv, NEW p \in DOMAIN passages, NEW n \in BatchesOf(p)
               PROVE  /\ n > 1 => n - 1 \in BatchesOf(p)
                      /\ Cardinality(SetsOf(p, n)) <= Cardinality(Tab)
    BY DEF BatchesContiguous
  <2>1. p \in Nat \ {0} /\ n \in Nat \ {0}
    <3>1. passages \in Seq(Passage)
      BY DEF BatchInv, RowsTyped
    <3>2. QED
      BY <3>1, BatchesAreNat DEF BatchInv
  <2>2. /\ IsFiniteSet(SetsOf(p, n))
        /\ Cardinality(SetsOf(p, n)) + Cardinality(Writers(p, n)) <= Cardinality(Tab)
    BY <2>1 DEF BatchInv, Shared
  <2>3. Cardinality(SetsOf(p, n)) \in Nat /\ Cardinality(Writers(p, n)) \in Nat
        /\ Cardinality(Tab) \in Nat
    BY <2>2, FS_CardinalityType, SomeTabs DEF Writers
  <2>4. QED
    BY <2>2, <2>3 DEF BatchInv, NoGap
<1>2. QED
  BY <1>1, BatchInit, BatchNext, PTL DEF Spec
-----------------------------------------------------------------------------
(* What the rows, the results and the tabs have to do with one another.  The  *)
(* rows only grow, but for the progress; the questions that join a batch      *)
(* after it was read are of a set of their own.                               *)

OfNoSet(q, seen) == \A x \in seen : questions[x].set # questions[q].set

\* Every question of the batch has been seen, or none of its set has.
Complete(p, b, seen) ==
    /\ QuestionsOf(p, b) # {}
    /\ seen \subseteq QuestionsOf(p, b)
    /\ \A q \in QuestionsOf(p, b) : q \in seen \/ OfNoSet(q, seen)

Recorded(q, option) ==
    \E k \in DOMAIN answers : answers[k] = [question |-> q, selected |-> option]

ResultSound(d) ==
    d # None => /\ \A q \in DOMAIN d.data : Recorded(q, d.data[q])
                /\ Complete(d.passage, d.batch, DOMAIN d.data)

ResultsSound(s) ==
    s = [t \in Trainer |-> s[t]] /\ \A t \in Trainer : ResultSound(s[t])

Tried(rows) == {rows[k].question : k \in DOMAIN rows}

\* The rows that a request has graded follow what was picked on its page.
RowsGraded(r) ==
    /\ r.rows \in Seq(Answer)
    /\ \A k \in DOMAIN r.rows :
          /\ r.rows[k].question \in QuestionsOf(r.passage, r.batch)
          /\ r.rows[k].selected = r.picks[r.rows[k].question]

RowsRecorded(r) ==
    \A k \in DOMAIN r.rows : Recorded(r.rows[k].question, r.rows[k].selected)

\* A progress row, saved or in the hands of a tab, that submissions have earned.
EarnedBy(row, passes) ==
    /\ row \in Progress
    /\ row.repetition_count <= passes
    /\ row.repetition_count <= 1 => row.interval = 1
    /\ row.repetition_count = 2 => row.interval = 6
    /\ row.repetition_count >= 3 => row.interval > 6
Earned(p, row) == EarnedBy(row, Cardinality(Passed(p)))

OfTrainer(r) == r.passage \in DOMAIN passages /\ passages[r.passage].trainer = r.trainer

Local(place, r) ==
    /\ place \in {"idle", "generate", "create", "solve", "page", "grade", "save",
                   "respond", "result", "show", "shown", "prune", "delete", "error"}
    /\ place \in {"generate", "create", "solve", "page", "grade", "save", "respond",
                   "result", "show"} => r.browser \in Browser /\ r.trainer \in Trainer
    /\ place \in {"generate", "create"} => r.passage = 0 \/ OfTrainer(r)
    /\ place \in {"solve", "page", "grade", "save", "respond"} => OfTrainer(r)
    /\ place = "page" => /\ r.shown # {}
                         /\ r.shown \subseteq QuestionsOf(r.passage, r.batch)
    /\ place = "grade" =>
          /\ {"todo", "rows"} \subseteq DOMAIN r
          /\ r.picks \in [DOMAIN r.picks -> Option]
          /\ r.todo \subseteq QuestionsOf(r.passage, r.batch)
          /\ Complete(r.passage, r.batch, r.todo \cup Tried(r.rows))
    /\ place \in {"grade", "save", "respond"} => RowsGraded(r) /\ ResultsSound(r.session)
    /\ place \in {"save", "respond"} => Complete(r.passage, r.batch, Tried(r.rows))
    /\ place = "respond" \/ (place \in {"grade", "save"} /\ r.trainer = "listening")
          => RowsRecorded(r)
    /\ place = "save" => Earned(r.passage, r.row)
    /\ place = "show" => r.data # None /\ ResultSound(r.data) /\ ResultsSound(r.session)
    /\ place = "shown" =>
          /\ DOMAIN r.data.data \subseteq DOMAIN r.is_correct
          /\ DOMAIN r.is_correct \subseteq QuestionsOf(r.data.passage, r.data.batch)
          /\ \A q \in DOMAIN r.is_correct : IF q \in DOMAIN r.data.data
                                           THEN Recorded(q, r.data.data[q])
                                           ELSE OfNoSet(q, DOMAIN r.data.data)

Submission == [passage : Nat, correct : Nat, problems : Nat]

Tables ==
    /\ answers \in Seq(Answer)
    /\ \A k \in DOMAIN answers : answers[k].question \in DOMAIN questions
    /\ \A q \in DOMAIN questions : questions[q].set <= Len(questions)
    /\ graded \in Seq(Submission)
    /\ \A k \in DOMAIN graded : graded[k].passage \in DOMAIN passages

ProgressEarned ==
    /\ progress = [p \in DOMAIN progress |-> progress[p]]
    /\ DOMAIN progress \subseteq DOMAIN passages
    /\ \A p \in DOMAIN progress : Earned(p, progress[p])

SessionsSound ==
    session = [b \in Browser |-> session[b]] /\ \A b \in Browser : ResultsSound(session[b])

\* The two counts of AnswersCounted: of all options, and of the right one.  An
\* answer of a listening quiz is kept before its submission counts (Pending).
Counts == {Option, {"right"}}

Picked(rows, options) == {k \in DOMAIN rows : rows[k].selected \in options}
Kept(p, options) == {k \in AnswersOf(p) : answers[k].selected \in options}
Given(k, options) == IF options = Option THEN graded[k].problems ELSE graded[k].correct
Pairs(p, options) == UNION {{k} \X (1 .. Given(k, options)) : k \in GradedOf(p)}

GradingOf(p) == {w \in Tab : /\ pc[w] \in {"grade", "save"}
                             /\ req[w].trainer = "listening" /\ req[w].passage = p}
Pending(p, options) == UNION {{w} \X Picked(req[w].rows, options) : w \in GradingOf(p)}

Counted(p, options) ==
    /\ IsFiniteSet(Pairs(p, options)) /\ IsFiniteSet(Pending(p, options))
    /\ IF passages[p].trainer = "reading"
       THEN Cardinality(Kept(p, options)) = Cardinality(Pairs(p, options))
       ELSE Cardinality(Kept(p, options))
              >= Cardinality(Pairs(p, options)) + Cardinality(Pending(p, options))

AllCounted == \A p \in DOMAIN passages : \A options \in Counts : Counted(p, options)

QuizInv ==
    /\ Tables /\ ProgressEarned /\ SessionsSound /\ AllCounted
    /\ \A w \in Tab : Local(pc[w], req[w])

-----------------------------------------------------------------------------
(* Sets of numbers, and of pairs.                                            *)

Below == {ss \in Nat \X Nat : ss[1] < ss[2]}

LEMMA LeastNumber ==
    ASSUME NEW S \in SUBSET Nat, S # {}
    PROVE  Min(S) \in S /\ \A n \in S : Min(S) <= n
<1>1. IsWellFoundedOn(Below, Nat)
  BY NatLessThanWellFounded DEF OpToRel, Below
<1>2. \E m \in S : \A n \in S : ~ (<<n, m>> \in Below)
  BY <1>1, WFMin
<1>3. PICK m \in S : \A n \in S : ~ (<<n, m>> \in Below)
  BY <1>2
<1>4. ASSUME NEW n \in S PROVE m <= n
  <2>1. n \in Nat /\ m \in Nat /\ ~ (<<n, m>> \in Below)
    BY <1>3
  <2>2. ~ (n < m)
    BY <2>1 DEF Below
  <2>3. QED
    BY <2>1, <2>2
<1>5. QED
  BY <1>4 DEF Min

LEMMA ElementIn ==
    ASSUME NEW S, NEW s \in Seq(S), NEW i \in DOMAIN s
    PROVE  s[i] \in S
OBVIOUS

\* The positions that a longer sequence adds, counted.
LEMMA ShiftedCount ==
    ASSUME NEW S, IsFiniteSet(S), S \in SUBSET Nat, NEW n \in Nat
    PROVE  /\ IsFiniteSet({n + k : k \in S})
           /\ Cardinality({n + k : k \in S}) = Cardinality(S)
<1> DEFINE T == {n + k : k \in S}
           f == [k \in S |-> n + k]
<1>1. f \in Bijection(S, T)
  <2>1. f \in [S -> T] /\ \A t \in T : \E k \in S : f[k] = t
    OBVIOUS
  <2>2. \A a, b \in S : f[a] = f[b] => a = b
    OBVIOUS
  <2>3. QED
    BY <2>1, <2>2 DEF Bijection, Injection, Surjection, IsInjective
<1>2. ExistsBijection(S, T)
  BY <1>1 DEF ExistsBijection
<1>3. QED
  BY <1>2, FS_Bijection

LEMMA PairCount ==
    ASSUME NEW x, NEW S, IsFiniteSet(S)
    PROVE  IsFiniteSet({x} \X S) /\ Cardinality({x} \X S) = Cardinality(S)
<1>1. IsFiniteSet({x}) /\ Cardinality({x}) = 1
  BY FS_Singleton
<1>2. Cardinality(S) \in Nat
  BY FS_CardinalityType
<1>3. IsFiniteSet({x} \X S) /\ Cardinality({x} \X S) = Cardinality({x}) * Cardinality(S)
  BY <1>1, FS_Product
<1>4. QED
  BY <1>1, <1>2, <1>3

LEMMA DisjointCount ==
    ASSUME NEW S, NEW T, IsFiniteSet(S), IsFiniteSet(T), S \cap T = {}
    PROVE  /\ IsFiniteSet(S \cup T)
           /\ Cardinality(S \cup T) = Cardinality(S) + Cardinality(T)
<1>1. Cardinality(S) \in Nat /\ Cardinality(T) \in Nat
  BY FS_CardinalityType
<1>2. Cardinality(S \cap T) = 0
  BY FS_EmptySet
<1>3. /\ IsFiniteSet(S \cup T)
      /\ Cardinality(S \cup T) = Cardinality(S) + Cardinality(T) - Cardinality(S \cap T)
  BY FS_Union
<1>4. QED
  BY <1>1, <1>2, <1>3

LEMMA IntervalCount ==
    ASSUME NEW n \in Nat
    PROVE  IsFiniteSet(1 .. n) /\ Cardinality(1 .. n) = n
<1>1. 1 \in Int /\ n \in Int
  OBVIOUS
<1>2. /\ IsFiniteSet(1 .. n)
      /\ Cardinality(1 .. n) = IF 1 > n THEN 0 ELSE n - 1 + 1
  BY <1>1, FS_Interval
<1>3. QED
  BY <1>2

LEMMA PartOfSequence ==
    ASSUME NEW S, NEW s \in Seq(S), NEW T \in SUBSET DOMAIN s
    PROVE  IsFiniteSet(T) /\ Cardinality(T) \in Nat /\ Cardinality(T) <= Len(s)
<1>1. DOMAIN s = 1 .. Len(s) /\ Len(s) \in Nat
  OBVIOUS
<1>2. IsFiniteSet(1 .. Len(s)) /\ Cardinality(1 .. Len(s)) = Len(s)
  BY <1>1, IntervalCount
<1>3. QED
  BY <1>1, <1>2, FS_Subset, FS_CardinalityType

-----------------------------------------------------------------------------
(* What a tab or a session holds stays true while the rows grow.             *)

Grown ==
    /\ DOMAIN passages \subseteq DOMAIN passages'
    /\ \A p \in DOMAIN passages : passages'[p] = passages[p]
    /\ DOMAIN answers \subseteq DOMAIN answers'
    /\ \A k \in DOMAIN answers : answers'[k] = answers[k]
    /\ \A p : /\ Cardinality(Passed(p)) \in Nat /\ Cardinality(Passed(p)') \in Nat
              /\ Cardinality(Passed(p)) <= Cardinality(Passed(p)')
    /\ \A q \in DOMAIN questions : q \in DOMAIN questions' /\ questions'[q] = questions[q]
    /\ \A q \in DOMAIN questions' : q \notin DOMAIN questions =>
          \A x \in DOMAIN questions : questions[x].set # questions'[q].set

LEMMA RecordedKept ==
    ASSUME Grown, NEW q, NEW option, Recorded(q, option)
    PROVE  Recorded(q, option)'
BY DEF Grown, Recorded

LEMMA QuestionsKept ==
    ASSUME Grown, NEW p, NEW b
    PROVE  QuestionsOf(p, b) \subseteq QuestionsOf(p, b)'
BY DEF Grown, QuestionsOf

\* The questions that have been seen have their sets.
LEMMA OfNoSetKept ==
    ASSUME Grown, NEW q \in DOMAIN questions, NEW seen \in SUBSET DOMAIN questions,
           OfNoSet(q, seen)
    PROVE  OfNoSet(q, seen)'
BY DEF Grown, OfNoSet

LEMMA CompleteKept ==
    ASSUME Grown, NEW p, NEW b, NEW seen, Complete(p, b, seen)
    PROVE  Complete(p, b, seen)'
<1>1. QuestionsOf(p, b) \subseteq QuestionsOf(p, b)'
  BY QuestionsKept
<1>2. QuestionsOf(p, b) # {} /\ seen \subseteq QuestionsOf(p, b) /\ seen \in SUBSET DOMAIN questions
  BY DEF Complete, QuestionsOf
<1>3. ASSUME NEW q \in QuestionsOf(p, b)', q \notin seen PROVE OfNoSet(q, seen)'
  <2>1. CASE q \in DOMAIN questions
    <3>1. q \in QuestionsOf(p, b)
      BY <2>1 DEF Grown, QuestionsOf
    <3>2. OfNoSet(q, seen)
      BY <1>3, <3>1 DEF Complete
    <3>3. QED
      BY <1>2, <2>1, <3>2, OfNoSetKept
  <2>2. CASE q \notin DOMAIN questions
    <3>1. q \in DOMAIN questions'
      BY DEF QuestionsOf
    <3>2. \A x \in seen : questions[x].set # questions'[q].set /\ questions'[x] = questions[x]
      BY <1>2, <2>2, <3>1 DEF Grown
    <3>3. QED
      BY <3>2 DEF OfNoSet
  <2>3. QED
    BY <2>1, <2>2
<1>4. QED
  BY <1>1, <1>2, <1>3 DEF Complete

LEMMA ResultKept ==
    ASSUME Grown, NEW d, ResultSound(d)
    PROVE  ResultSound(d)'
<1>1. CASE d = None
  BY <1>1 DEF ResultSound
<1>2. CASE d # None
  <2>1. \A q \in DOMAIN d.data : Recorded(q, d.data[q])'
    BY <1>2, RecordedKept DEF ResultSound
  <2>2. Complete(d.passage, d.batch, DOMAIN d.data)'
    BY <1>2, CompleteKept DEF ResultSound
  <2>3. QED
    BY <2>1, <2>2 DEF ResultSound
<1>3. QED
  BY <1>1, <1>2

LEMMA ResultsKept ==
    ASSUME Grown, NEW s, ResultsSound(s)
    PROVE  ResultsSound(s)'
BY ResultKept DEF ResultsSound

LEMMA EarnedKept ==
    ASSUME Grown, NEW p, NEW row, Earned(p, row)
    PROVE  Earned(p, row)'
<1>1. /\ Cardinality(Passed(p)) \in Nat /\ Cardinality(Passed(p)') \in Nat
      /\ Cardinality(Passed(p)) <= Cardinality(Passed(p)')
  BY DEF Grown
<1>2. row.repetition_count \in Nat
  BY DEF Earned, EarnedBy, Progress
<1>3. row.repetition_count <= Cardinality(Passed(p)')
  BY <1>1, <1>2 DEF Earned, EarnedBy
<1>4. QED
  BY <1>3 DEF Earned, EarnedBy

LEMMA RowsKept ==
    ASSUME Grown, NEW r, RowsGraded(r)
    PROVE  RowsGraded(r)' /\ (RowsRecorded(r) => RowsRecorded(r)')
<1>1. RowsGraded(r)'
  <2>1. QuestionsOf(r.passage, r.batch) \subseteq QuestionsOf(r.passage, r.batch)'
    BY QuestionsKept
  <2>2. QED
    BY <2>1 DEF RowsGraded
<1>2. RowsRecorded(r) => RowsRecorded(r)'
  BY RecordedKept DEF RowsRecorded
<1>3. QED
  BY <1>1, <1>2

LEMMA LocalKept ==
    ASSUME Grown, NEW place, NEW r, Local(place, r)
    PROVE  Local(place, r)'
<1>1. OfTrainer(r) => OfTrainer(r)'
  BY DEF Grown, OfTrainer
<1>2. place = "page" => (r.shown # {} /\ r.shown \subseteq QuestionsOf(r.passage, r.batch))'
  <2>1. QuestionsOf(r.passage, r.batch) \subseteq QuestionsOf(r.passage, r.batch)'
    BY QuestionsKept
  <2>2. QED
    BY <2>1 DEF Local
<1>3. place = "grade" => /\ r.todo \subseteq QuestionsOf(r.passage, r.batch)'
                         /\ Complete(r.passage, r.batch, r.todo \cup Tried(r.rows))'
  <2>1. QuestionsOf(r.passage, r.batch) \subseteq QuestionsOf(r.passage, r.batch)'
    BY QuestionsKept
  <2>2. place = "grade" => Complete(r.passage, r.batch, r.todo \cup Tried(r.rows))'
    <3>1. SUFFICES ASSUME NEW seen, seen = r.todo \cup Tried(r.rows), place = "grade"
                   PROVE  Complete(r.passage, r.batch, seen)'
      BY DEF Tried
    <3>2. Complete(r.passage, r.batch, seen)
      BY <3>1 DEF Local
    <3>3. QED
      BY <3>2, CompleteKept
  <2>3. QED
    BY <2>1, <2>2 DEF Local
<1>4. place \in {"grade", "save", "respond"} => RowsGraded(r)' /\ ResultsSound(r.session)'
  BY RowsKept, ResultsKept DEF Local
<1>5. place \in {"save", "respond"} => Complete(r.passage, r.batch, Tried(r.rows))'
  <2>1. SUFFICES ASSUME NEW seen, seen = Tried(r.rows), place \in {"save", "respond"}
                 PROVE  Complete(r.passage, r.batch, seen)'
    BY DEF Tried
  <2>2. Complete(r.passage, r.batch, seen)
    BY <2>1 DEF Local
  <2>3. QED
    BY <2>2, CompleteKept
<1>6. place = "respond" \/ (place \in {"grade", "save"} /\ r.trainer = "listening")
        => RowsRecorded(r)'
  BY RowsKept DEF Local
<1>7. place = "save" => Earned(r.passage, r.row)'
  BY EarnedKept DEF Local
<1>8. place = "show" => r.data # None /\ ResultSound(r.data)' /\ ResultsSound(r.session)'
  BY ResultKept, ResultsKept DEF Local
<1>9. place = "shown" =>
        /\ DOMAIN r.data.data \subseteq DOMAIN r.is_correct
        /\ DOMAIN r.is_correct \subseteq QuestionsOf(r.data.passage, r.data.batch)'
        /\ \A q \in DOMAIN r.is_correct : IF q \in DOMAIN r.data.data
                                         THEN Recorded(q, r.data.data[q])'
                                         ELSE OfNoSet(q, DOMAIN r.data.data)'
  <2> SUFFICES ASSUME place = "shown",
                      NEW shown, shown = DOMAIN r.is_correct, NEW seen, seen = DOMAIN r.data.data
               PROVE  /\ seen \subseteq shown
                      /\ shown \subseteq QuestionsOf(r.data.passage, r.data.batch)'
                      /\ \A q \in shown : IF q \in seen THEN Recorded(q, r.data.data[q])'
                                           ELSE OfNoSet(q, seen)'
    BY DEF OfNoSet
  <2>1. /\ seen \subseteq shown /\ shown \subseteq QuestionsOf(r.data.passage, r.data.batch)
        /\ \A q \in shown : IF q \in seen THEN Recorded(q, r.data.data[q])
                             ELSE OfNoSet(q, seen)
    BY DEF Local
  <2>2. shown \in SUBSET DOMAIN questions /\ seen \in SUBSET DOMAIN questions
    BY <2>1 DEF QuestionsOf
  <2>3. \A q \in shown : q \in seen => Recorded(q, r.data.data[q])'
    BY <2>1, RecordedKept
  <2>4. \A q \in shown : q \notin seen => OfNoSet(q, seen)'
    BY <2>1, <2>2, OfNoSetKept
  <2>5. QED
    BY <2>1, <2>3, <2>4, QuestionsKept
<1>10. QED
  BY <1>1, <1>2, <1>3, <1>4, <1>5, <1>6, <1>7, <1>8, <1>9 DEF Local

\* Only the tab w moves, and the others keep what they have.
LEMMA TabsMove ==
    ASSUME Places, \A v \in Tab : Local(pc[v], req[v]), Grown,
           NEW w \in Tab, NEW place, NEW r, Goto(w, place, r), Local(place, r)'
    PROVE  (\A v \in Tab : Local(pc[v], req[v]))'
<1>1. /\ pc'[w] = place /\ req'[w] = r
      /\ \A v \in Tab : v # w => pc'[v] = pc[v] /\ req'[v] = req[v]
  BY Moves
<1>2. ASSUME NEW v \in Tab, v # w PROVE Local(pc[v], req[v])'
  <2>1. SUFFICES ASSUME NEW x, NEW y, x = pc[v], y = req[v] PROVE Local(x, y)'
    BY <1>1, <1>2
  <2>2. Local(x, y)
    BY <2>1
  <2>3. QED
    BY <2>2, LocalKept
<1>3. Local(pc[w], req[w])'
  BY <1>1
<1>4. QED
  BY <1>2, <1>3

\* A step that leaves all rows alone but the progress.
LEMMA GrownAlone ==
    ASSUME Tables, UNCHANGED <<passages, questions, answers, graded>>
    PROVE  Grown /\ Tables'
<1>1. \A p : Passed(p) \in SUBSET DOMAIN graded /\ Passed(p)' = Passed(p)
  BY DEF Passed, GradedOf
<1>2. \A p : Cardinality(Passed(p)) \in Nat
  BY <1>1, PartOfSequence DEF Tables
<1>3. Tables'
  BY DEF Tables
<1>4. QED
  BY <1>1, <1>2, <1>3 DEF Grown

-----------------------------------------------------------------------------
(* The counts, step by step.                                                 *)

\* A tab that grades nothing, or only reads the progress, has nothing new pending.
LEMMA PendingShrinks ==
    ASSUME Places, NEW w \in Tab, NEW place, NEW r, Goto(w, place, r),
           place \in {"grade", "save"} =>
              \/ r.rows = <<>>
              \/ /\ pc[w] \in {"grade", "save"} /\ r.rows = req[w].rows
                 /\ r.trainer = req[w].trainer /\ r.passage = req[w].passage
    PROVE  \A p : \A options \in Counts : Pending(p, options)' \subseteq Pending(p, options)
<1> TAKE p
<1> TAKE options \in Counts
<1>1. /\ pc'[w] = place /\ req'[w] = r
      /\ \A v \in Tab : v # w => pc'[v] = pc[v] /\ req'[v] = req[v]
  BY Moves
<1>2. ASSUME NEW v \in GradingOf(p)', NEW k \in Picked(req'[v].rows, options)
      PROVE  v \in GradingOf(p) /\ k \in Picked(req[v].rows, options)
  <2>1. v \in Tab
    BY DEF GradingOf
  <2>2. CASE v # w
    BY <1>1, <2>1, <2>2 DEF GradingOf
  <2>3. CASE v = w
    <3>1. place \in {"grade", "save"} /\ r.trainer = "listening" /\ r.passage = p
      BY <1>1, <2>3 DEF GradingOf
    <3>2. r.rows # <<>>
      BY <1>1, <2>3 DEF Picked
    <3>3. QED
      BY <1>1, <2>3, <3>1, <3>2 DEF GradingOf
  <2>4. QED
    BY <2>2, <2>3
<1>3. ASSUME NEW x \in Pending(p, options)' PROVE x \in Pending(p, options)
  <2>1. PICK v \in GradingOf(p)' : x \in {v} \X Picked(req'[v].rows, options)
    BY DEF Pending
  <2>2. PICK k \in Picked(req'[v].rows, options) : x = <<v, k>>
    BY <2>1
  <2>3. x \in {v} \X Picked(req[v].rows, options) /\ v \in GradingOf(p)
    BY <1>2, <2>2
  <2>4. QED
    BY <2>3 DEF Pending
<1>4. QED
  BY <1>3

\* Fewer answers are pending, and the others are those there were.
LEMMA CountsShrink ==
    ASSUME NEW p, NEW options, Counted(p, options), passages'[p] = passages[p],
           Kept(p, options)' = Kept(p, options), Pairs(p, options)' = Pairs(p, options),
           Cardinality(Kept(p, options)) \in Nat,
           Pending(p, options)' \subseteq Pending(p, options)
    PROVE  Counted(p, options)'
<1>1. IsFiniteSet(Pairs(p, options)) /\ IsFiniteSet(Pending(p, options))
  BY DEF Counted
<1>2. /\ IsFiniteSet(Pending(p, options)')
      /\ Cardinality(Pending(p, options)') <= Cardinality(Pending(p, options))
  BY <1>1, FS_Subset
<1>3. /\ Cardinality(Pairs(p, options)) \in Nat /\ Cardinality(Pending(p, options)) \in Nat
      /\ Cardinality(Pending(p, options)') \in Nat
  BY <1>1, <1>2, FS_CardinalityType
<1>4. CASE passages[p].trainer = "reading"
  BY <1>1, <1>2, <1>4 DEF Counted
<1>5. CASE passages[p].trainer # "reading"
  <2>1. Cardinality(Kept(p, options)) >= Cardinality(Pairs(p, options))
                                          + Cardinality(Pending(p, options))
    BY <1>5 DEF Counted
  <2>2. Cardinality(Kept(p, options)') >= Cardinality(Pairs(p, options)')
                                           + Cardinality(Pending(p, options)')
    BY <1>2, <1>3, <2>1
  <2>3. QED
    BY <1>1, <1>2, <1>5, <2>2 DEF Counted
<1>6. QED
  BY <1>4, <1>5

LEMMA KeptFinite ==
    ASSUME Tables, NEW p, NEW options
    PROVE  /\ IsFiniteSet(Kept(p, options)) /\ Cardinality(Kept(p, options)) \in Nat
           /\ Kept(p, options) \in SUBSET DOMAIN answers
<1>1. Kept(p, options) \in SUBSET DOMAIN answers
  BY DEF Kept, AnswersOf
<1>2. QED
  BY <1>1, PartOfSequence DEF Tables

LEMMA CountsQuiet ==
    ASSUME Tables, AllCounted, UNCHANGED <<passages, questions, answers, graded>>,
           \A p : \A options \in Counts : Pending(p, options)' \subseteq Pending(p, options)
    PROVE  AllCounted'
<1>1. ASSUME NEW p, NEW options PROVE /\ Kept(p, options)' = Kept(p, options)
                                      /\ Pairs(p, options)' = Pairs(p, options)
  BY DEF Kept, AnswersOf, Pairs, GradedOf, Given
<1>2. ASSUME NEW p \in DOMAIN passages, NEW options \in Counts PROVE Counted(p, options)'
  <2>1. Cardinality(Kept(p, options)) \in Nat
    BY KeptFinite
  <2>2. QED
    BY <1>1, <2>1, CountsShrink DEF AllCounted
<1>3. QED
  BY <1>2 DEF AllCounted

\* A new passage has no answers, no submissions and no tab that solves it.
LEMMA CountsGrow ==
    ASSUME RowsTyped, Tables, AllCounted, \A v \in Tab : Local(pc[v], req[v]),
           UNCHANGED <<answers, graded>>,
           \A p \in DOMAIN passages : p \in DOMAIN passages' /\ passages'[p] = passages[p],
           \A q \in DOMAIN questions : questions'[q] = questions[q],
           \A p : \A options \in Counts : Pending(p, options)' \subseteq Pending(p, options)
    PROVE  AllCounted'
<1>1. ASSUME NEW p, NEW options PROVE /\ Kept(p, options)' = Kept(p, options)
                                      /\ Pairs(p, options)' = Pairs(p, options)
  <2>1. \A k \in DOMAIN answers : questions'[answers[k].question] = questions[answers[k].question]
    BY DEF Tables
  <2>2. AnswersOf(p)' = AnswersOf(p)
    BY <2>1 DEF AnswersOf
  <2>3. QED
    BY <2>2 DEF Kept, Pairs, GradedOf, Given
<1>2. ASSUME NEW p \in DOMAIN passages, NEW options \in Counts PROVE Counted(p, options)'
  <2>1. Cardinality(Kept(p, options)) \in Nat
    BY KeptFinite
  <2>2. QED
    BY <1>1, <2>1, CountsShrink DEF AllCounted
<1>3. ASSUME NEW p, p \notin DOMAIN passages, NEW options \in Counts PROVE Counted(p, options)'
  <2>1. AnswersOf(p) = {} /\ GradedOf(p) = {}
    BY <1>3 DEF AnswersOf, GradedOf, Tables, RowsTyped
  <2>2. GradingOf(p) = {}
    BY <1>3 DEF GradingOf, Local, OfTrainer
  <2>3. Kept(p, options) = {} /\ Pairs(p, options) = {} /\ Pending(p, options) = {}
    BY <2>1, <2>2 DEF Kept, Pairs, Pending
  <2>4. Kept(p, options)' = {} /\ Pairs(p, options)' = {} /\ Pending(p, options)' = {}
    BY <1>1, <2>3
  <2>5. IsFiniteSet({}) /\ Cardinality({}) = 0
    BY FS_EmptySet
  <2>6. QED
    BY <2>4, <2>5 DEF Counted
<1>4. QED
  BY <1>2, <1>3 DEF AllCounted

\* Grading a question of a reading quiz changes no count; of a listening quiz,
\* the answer is kept and pending.
LEMMA CountsGrade ==
    ASSUME Places, Tables, AllCounted, NEW w \in Tab, Local(pc[w], req[w]), pc[w] = "grade",
           NEW row \in Answer, row.question \in QuestionsOf(req[w].passage, req[w].batch),
           NEW r, Goto(w, "grade", r), r.rows = Append(req[w].rows, row),
           r.trainer = req[w].trainer, r.passage = req[w].passage,
           UNCHANGED <<passages, questions, graded>>,
           answers' = IF req[w].trainer = "reading" THEN answers ELSE Append(answers, row)
    PROVE  AllCounted'
<1>1. /\ pc'[w] = "grade" /\ req'[w] = r
      /\ \A v \in Tab : v # w => pc'[v] = pc[v] /\ req'[v] = req[v]
  BY Moves
<1>2. /\ req[w].rows \in Seq(Answer) /\ req[w].trainer \in Trainer /\ OfTrainer(req[w])
  BY DEF Local, RowsGraded
<1>3. CASE req[w].trainer = "reading"
  <2>1. ASSUME NEW p PROVE GradingOf(p)' = GradingOf(p) /\ w \notin GradingOf(p)
    BY <1>1, <1>3 DEF GradingOf
  <2>2. \A p, v : v \in GradingOf(p) => req'[v] = req[v]
    BY <1>1, <2>1 DEF GradingOf
  <2>3. ASSUME NEW p, NEW options PROVE Pending(p, options)' = Pending(p, options)
    BY <2>1, <2>2 DEF Pending
  <2>4. QED
    BY <1>3, <2>3, CountsQuiet
<1>4. CASE req[w].trainer = "listening"
  <2> DEFINE n == Len(req[w].rows) + 1
             a == Len(answers) + 1
             One(p, options, x) == IF p = req[w].passage /\ row.selected \in options
                                   THEN {x} ELSE {}
  <2>1. /\ answers \in Seq(Answer) /\ answers' = Append(answers, row)
        /\ DOMAIN answers' = DOMAIN answers \cup {a} /\ a \notin DOMAIN answers /\ answers'[a] = row
        /\ \A k \in DOMAIN answers : answers'[k] = answers[k]
    BY <1>4 DEF Tables
  <2>2. /\ DOMAIN r.rows = DOMAIN req[w].rows \cup {n} /\ n \notin DOMAIN req[w].rows
        /\ r.rows[n] = row
        /\ \A k \in DOMAIN req[w].rows : r.rows[k] = req[w].rows[k]
    BY <1>2
  <2>3. questions[row.question].passage = req[w].passage
    BY DEF QuestionsOf
  <2>4. ASSUME NEW p, NEW options
        PROVE  Kept(p, options)' = Kept(p, options) \cup One(p, options, a)
    <3>1. AnswersOf(p)' = AnswersOf(p) \cup (IF p = req[w].passage THEN {a} ELSE {})
      BY <2>1, <2>3 DEF AnswersOf
    <3>2. \A k \in AnswersOf(p) : answers'[k] = answers[k]
      BY <2>1 DEF AnswersOf
    <3>3. QED
      BY <2>1, <3>1, <3>2 DEF Kept
  <2>5. \A p : GradingOf(p)' = GradingOf(p) /\ (w \in GradingOf(p) <=> p = req[w].passage)
    BY <1>1, <1>4 DEF GradingOf
  <2>6. ASSUME NEW options
        PROVE  Picked(r.rows, options) = Picked(req[w].rows, options)
                                         \cup (IF row.selected \in options THEN {n} ELSE {})
    BY <2>2 DEF Picked
  <2>7. ASSUME NEW p, NEW options
        PROVE  Pending(p, options)' = Pending(p, options) \cup One(p, options, <<w, n>>)
    <3>1. ASSUME NEW v \in GradingOf(p), v # w
          PROVE  Picked(req'[v].rows, options) = Picked(req[v].rows, options)
      BY <1>1, <3>1 DEF GradingOf
    <3>2. CASE p # req[w].passage
      BY <2>5, <3>1, <3>2 DEF Pending
    <3>3. CASE p = req[w].passage
      <4>1. w \in GradingOf(p) /\ GradingOf(p)' = GradingOf(p)
        BY <2>5, <3>3
      <4>2. {w} \X Picked(req'[w].rows, options)
              = ({w} \X Picked(req[w].rows, options)) \cup One(p, options, <<w, n>>)
        <5>1. Picked(req'[w].rows, options)
                = Picked(req[w].rows, options) \cup (IF row.selected \in options THEN {n} ELSE {})
          BY <1>1, <2>6
        <5>2. CASE row.selected \in options
          BY <3>3, <5>1, <5>2
        <5>3. CASE row.selected \notin options
          BY <3>3, <5>1, <5>3
        <5>4. QED
          BY <5>2, <5>3
      <4>3. ASSUME NEW x \in Pending(p, options)'
            PROVE  x \in Pending(p, options) \cup One(p, options, <<w, n>>)
        <5>1. PICK v \in GradingOf(p) : x \in {v} \X Picked(req'[v].rows, options)
          BY <4>1 DEF Pending
        <5>2. x \in {v} \X Picked(req[v].rows, options) \/ x \in One(p, options, <<w, n>>)
          BY <3>1, <4>2, <5>1
        <5>3. QED
          BY <5>2 DEF Pending
      <4>4. ASSUME NEW x \in Pending(p, options) PROVE x \in Pending(p, options)'
        <5>1. PICK v \in GradingOf(p) : x \in {v} \X Picked(req[v].rows, options)
          BY DEF Pending
        <5>2. x \in {v} \X Picked(req'[v].rows, options)
          BY <3>1, <4>2, <5>1
        <5>3. QED
          BY <4>1, <5>2 DEF Pending
      <4>5. One(p, options, <<w, n>>) \subseteq Pending(p, options)'
        BY <4>1, <4>2 DEF Pending
      <4>6. QED
        BY <4>3, <4>4, <4>5
    <3>4. QED
      BY <3>2, <3>3
  <2>8. ASSUME NEW p \in DOMAIN passages, NEW options \in Counts PROVE Counted(p, options)'
    <3>1. Pairs(p, options)' = Pairs(p, options)
      BY DEF Pairs, GradedOf, Given
    <3>2. Counted(p, options) /\ IsFiniteSet(Pairs(p, options)) /\ IsFiniteSet(Pending(p, options))
      BY DEF AllCounted, Counted
    <3>3. /\ Kept(p, options) \subseteq DOMAIN answers /\ IsFiniteSet(Kept(p, options))
          /\ Cardinality(Kept(p, options)) \in Nat
      BY KeptFinite
    <3>4. CASE ~(p = req[w].passage /\ row.selected \in options)
      <4>1. One(p, options, a) = {} /\ One(p, options, <<w, n>>) = {}
        BY <3>4
      <4>2. /\ Kept(p, options)' = Kept(p, options)
            /\ Pending(p, options)' \subseteq Pending(p, options)
        BY <2>4, <2>7, <4>1
      <4>3. QED
        BY <3>1, <3>2, <3>3, <4>2, CountsShrink
    <3>5. CASE p = req[w].passage /\ row.selected \in options
      <4>1. /\ Kept(p, options)' = Kept(p, options) \cup {a} /\ a \notin Kept(p, options)
            /\ Pending(p, options)' = Pending(p, options) \cup {<<w, n>>}
        BY <2>1, <2>4, <2>7, <3>3, <3>5
      <4>2. <<w, n>> \notin Pending(p, options)
        BY <2>2 DEF Pending, Picked
      <4>3. Cardinality(Kept(p, options)') = Cardinality(Kept(p, options)) + 1
        BY <3>3, <4>1, FS_AddElement
      <4>4. /\ IsFiniteSet(Pending(p, options)')
            /\ Cardinality(Pending(p, options)') = Cardinality(Pending(p, options)) + 1
        <5>1. /\ IsFiniteSet(Pending(p, options) \cup {<<w, n>>})
              /\ Cardinality(Pending(p, options) \cup {<<w, n>>})
                    = Cardinality(Pending(p, options)) + 1
          <6> HIDE DEF n
          <6>1. QED
            BY <3>2, <4>2, FS_AddElement
        <5>2. QED
          BY <4>1, <5>1
      <4>5. passages[p].trainer = "listening"
        BY <1>2, <1>4, <3>5 DEF OfTrainer
      <4>6. Cardinality(Kept(p, options)) >= Cardinality(Pairs(p, options))
                                              + Cardinality(Pending(p, options))
        BY <3>2, <4>5 DEF Counted
      <4>7. Cardinality(Pairs(p, options)) \in Nat /\ Cardinality(Pending(p, options)) \in Nat
        BY <3>2, FS_CardinalityType
      <4>8. Cardinality(Kept(p, options)') >= Cardinality(Pairs(p, options)')
                                               + Cardinality(Pending(p, options)')
        BY <3>1, <3>3, <4>3, <4>4, <4>6, <4>7
      <4>9. QED
        BY <3>1, <3>2, <4>4, <4>5, <4>8 DEF Counted
    <3>6. QED
      BY <3>4, <3>5
  <2>9. QED
    BY <2>8 DEF AllCounted
<1>5. QED
  BY <1>2, <1>3, <1>4, TrainerAssumption

\* The rows of a submission, counted in the two ways.
LEMMA SubmissionCount ==
    ASSUME NEW rows \in Seq(Answer), NEW options \in Counts
    PROVE  /\ IsFiniteSet(Picked(rows, options)) /\ Picked(rows, options) \in SUBSET Nat
           /\ Cardinality(Picked(rows, options)) \in Nat
           /\ Cardinality(Picked(rows, options))
                = IF options = Option THEN Len(rows) ELSE Correct(rows)
<1>1. Picked(rows, options) \in SUBSET DOMAIN rows /\ DOMAIN rows \in SUBSET Nat
  BY DEF Picked
<1>2. IsFiniteSet(Picked(rows, options)) /\ Cardinality(Picked(rows, options)) \in Nat
  BY <1>1, PartOfSequence
<1>3. CASE options = Option
  <2>1. \A k \in DOMAIN rows : rows[k].selected \in Option
    <3>1. \A k \in DOMAIN rows : rows[k] \in Answer
      BY ElementIn
    <3>2. QED
      BY <3>1 DEF Answer
  <2>2. Picked(rows, options) = 1 .. Len(rows)
    BY <1>3, <2>1 DEF Picked
  <2>3. Cardinality(1 .. Len(rows)) = Len(rows)
    BY IntervalCount
  <2>4. QED
    BY <1>1, <1>2, <1>3, <2>2, <2>3
<1>4. CASE options # Option
  <2>1. options = {"right"}
    BY <1>4 DEF Counts
  <2>2. Picked(rows, options) = {k \in DOMAIN rows : rows[k].selected = "right"}
    BY <2>1 DEF Picked
  <2>3. QED
    BY <1>1, <1>2, <1>4, <2>2 DEF Correct
<1>5. QED
  BY <1>3, <1>4

\* The submission counts; its answers are committed, or no longer pending.
LEMMA CountsSave ==
    ASSUME Places, Tables, AllCounted, NEW w \in Tab, Local(pc[w], req[w]), pc[w] = "save",
           Goto(w, "respond", req[w]), UNCHANGED <<passages, questions>>,
           graded' = Append(graded, [passage |-> req[w].passage, correct |-> Correct(req[w].rows),
                                     problems |-> Len(req[w].rows)]),
           answers' = IF req[w].trainer = "reading" THEN answers \o req[w].rows ELSE answers
    PROVE  AllCounted'
<1> SUFFICES ASSUME NEW g, g = Len(graded) + 1 PROVE AllCounted'
  OBVIOUS
<1> DEFINE r == req[w]
           New(options) == Picked(r.rows, options)
           Count(options) == Cardinality(New(options))
<1>1. /\ r.rows \in Seq(Answer) /\ r.trainer \in Trainer /\ OfTrainer(r)
      /\ \A k \in DOMAIN r.rows : questions[r.rows[k].question].passage = r.passage
  BY DEF Local, RowsGraded, QuestionsOf
<1>2. /\ DOMAIN graded' = DOMAIN graded \cup {g} /\ g \notin DOMAIN graded
      /\ \A k \in DOMAIN graded : graded'[k] = graded[k]
      /\ graded'[g] = [passage |-> r.passage, correct |-> Correct(r.rows),
                       problems |-> Len(r.rows)]
  BY DEF Tables
<1>3. ASSUME NEW options \in Counts
      PROVE  /\ IsFiniteSet(New(options)) /\ New(options) \in SUBSET Nat
             /\ Count(options) \in Nat
             /\ Given(g, options)' = Count(options)
  <2>1. Given(g, options)' = IF options = Option THEN Len(r.rows) ELSE Correct(r.rows)
    BY <1>2 DEF Given
  <2>2. QED
    BY <1>1, <2>1, SubmissionCount
<1> HIDE DEF Count
<1>4. ASSUME NEW p, NEW options \in Counts
      PROVE  /\ p # r.passage => Pairs(p, options)' = Pairs(p, options)
             /\ p = r.passage => Pairs(p, options)'
                                   = Pairs(p, options) \cup ({g} \X (1 .. Count(options)))
  <2>1. GradedOf(p)' = GradedOf(p) \cup (IF p = r.passage THEN {g} ELSE {})
    BY <1>2 DEF GradedOf
  <2>2. \A k \in GradedOf(p) : Given(k, options)' = Given(k, options)
    BY <1>2 DEF GradedOf, Given
  <2>3. Given(g, options)' = Count(options)
    BY <1>3
  <2>4. Pairs(p, options)' = UNION {{k} \X (1 .. Given(k, options)') : k \in GradedOf(p)'}
    BY DEF Pairs
  <2>5. CASE p # r.passage
    <3>1. GradedOf(p)' = GradedOf(p)
      BY <1>2, <2>5 DEF GradedOf
    <3>2. QED
      BY <2>2, <2>4, <2>5, <3>1 DEF Pairs
  <2>6. CASE p = r.passage
    <3>1. ASSUME NEW x \in Pairs(p, options)'
          PROVE  x \in Pairs(p, options) \cup ({g} \X (1 .. Count(options)))
      <4>1. PICK k \in GradedOf(p)' : x \in {k} \X (1 .. Given(k, options)')
        BY <2>4
      <4>2. CASE k \in GradedOf(p)
        BY <2>2, <4>1, <4>2 DEF Pairs
      <4>3. CASE k = g
        BY <2>3, <4>1, <4>3
      <4>4. QED
        BY <2>1, <2>6, <4>1, <4>2, <4>3
    <3>2. {g} \X (1 .. Count(options)) \subseteq Pairs(p, options)'
      <4>1. g \in GradedOf(p)'
        BY <2>1, <2>6
      <4>2. QED
        BY <2>3, <2>4, <4>1
    <3>3. ASSUME NEW x \in Pairs(p, options) PROVE x \in Pairs(p, options)'
      <4>1. PICK k \in GradedOf(p) : x \in {k} \X (1 .. Given(k, options))
        BY DEF Pairs
      <4>2. k \in GradedOf(p)' /\ x \in {k} \X (1 .. Given(k, options)')
        BY <2>1, <2>2, <4>1
      <4>3. QED
        BY <2>4, <4>2
    <3>4. QED
      BY <2>6, <3>1, <3>2, <3>3
  <2>7. QED
    BY <2>5, <2>6
<1>5. ASSUME NEW p, NEW options \in Counts, IsFiniteSet(Pairs(p, options))
      PROVE  /\ IsFiniteSet(Pairs(p, options)')
             /\ Cardinality(Pairs(p, options)')
                  = Cardinality(Pairs(p, options))
                    + (IF p = r.passage THEN Count(options) ELSE 0)
  <2>1. Cardinality(Pairs(p, options)) \in Nat
    BY <1>5, FS_CardinalityType
  <2>2. CASE p # r.passage
    <3>1. Pairs(p, options)' = Pairs(p, options)
      BY <1>4, <2>2
    <3>2. QED
      BY <1>5, <2>1, <2>2, <3>1
  <2>3. CASE p = r.passage
    <3>1. Count(options) \in Nat
      BY <1>3
    <3>2. /\ IsFiniteSet({g} \X (1 .. Count(options)))
          /\ Cardinality({g} \X (1 .. Count(options))) = Count(options)
      <4>1. IsFiniteSet(1 .. Count(options)) /\ Cardinality(1 .. Count(options)) = Count(options)
        BY <3>1, IntervalCount
      <4>2. QED
        BY <4>1, PairCount
    <3>3. Pairs(p, options) \cap ({g} \X (1 .. Count(options))) = {}
      BY <1>2 DEF Pairs, GradedOf
    <3>4. Pairs(p, options)' = Pairs(p, options) \cup ({g} \X (1 .. Count(options)))
      BY <1>4, <2>3
    <3>5. /\ IsFiniteSet(Pairs(p, options)')
          /\ Cardinality(Pairs(p, options)') = Cardinality(Pairs(p, options)) + Count(options)
      <4> DEFINE T == {g} \X (1 .. Count(options))
      <4>1. /\ IsFiniteSet(T) /\ Cardinality(T) = Count(options)
            /\ Pairs(p, options) \cap T = {} /\ Pairs(p, options)' = Pairs(p, options) \cup T
        BY <3>2, <3>3, <3>4
      <4> HIDE DEF T
      <4>2. QED
        BY <1>5, <4>1, DisjointCount
    <3>6. QED
      BY <2>3, <3>5
  <2>4. QED
    BY <2>2, <2>3
<1>6. \A p : \A options \in Counts : Pending(p, options)' \subseteq Pending(p, options)
  BY PendingShrinks
<1>7. CASE r.trainer = "reading"
  <2> DEFINE Moved(options) == {Len(answers) + k : k \in New(options)}
  <2>1. /\ answers \in Seq(Answer) /\ answers' = answers \o r.rows
        /\ Len(answers') = Len(answers) + Len(r.rows) /\ answers' \in Seq(Answer)
        /\ \A k \in 1 .. Len(answers) : answers'[k] = answers[k]
        /\ \A k \in 1 .. Len(r.rows) : answers'[Len(answers) + k] = r.rows[k]
    BY <1>1, <1>7 DEF Tables
  <2>2. ASSUME NEW p, NEW options
        PROVE  /\ p # r.passage => Kept(p, options)' = Kept(p, options)
               /\ p = r.passage => Kept(p, options)' = Kept(p, options) \cup Moved(options)
    <3>1. ASSUME NEW k \in DOMAIN answers
          PROVE  k \in Kept(p, options)' <=> k \in Kept(p, options)
      BY <2>1 DEF Kept, AnswersOf
    <3>2. ASSUME NEW k \in 1 .. Len(r.rows)
          PROVE  Len(answers) + k \in Kept(p, options)'
                   <=> p = r.passage /\ k \in New(options)
      <4>1. /\ Len(answers) + k \in DOMAIN answers' /\ answers'[Len(answers) + k] = r.rows[k]
            /\ k \in DOMAIN r.rows
        BY <1>1, <2>1
      <4>2. questions'[r.rows[k].question].passage = r.passage
        BY <1>1, <4>1
      <4>3. QED
        BY <4>1, <4>2 DEF Kept, AnswersOf, Picked
    <3>3. ASSUME NEW k \in DOMAIN answers', k \notin DOMAIN answers
          PROVE  \E i \in 1 .. Len(r.rows) : k = Len(answers) + i
      <4>1. k - Len(answers) \in 1 .. Len(r.rows) /\ k = Len(answers) + (k - Len(answers))
        BY <1>1, <2>1, <3>3
      <4>2. QED
        BY <4>1
    <3>4. /\ Kept(p, options)' \subseteq DOMAIN answers' /\ Kept(p, options) \subseteq DOMAIN answers
          /\ New(options) \subseteq 1 .. Len(r.rows)
      BY <1>1 DEF Kept, AnswersOf, Picked
    <3> HIDE DEF New, r
    <3>5. QED
      BY <3>1, <3>2, <3>3, <3>4
  <2>3. ASSUME NEW p \in DOMAIN passages, NEW options \in Counts PROVE Counted(p, options)'
    <3>1. /\ Counted(p, options) /\ IsFiniteSet(Pairs(p, options))
          /\ IsFiniteSet(Pending(p, options))
      BY DEF AllCounted, Counted
    <3>2. /\ IsFiniteSet(Kept(p, options)) /\ Cardinality(Kept(p, options)) \in Nat
          /\ Kept(p, options) \in SUBSET DOMAIN answers
      BY KeptFinite
    <3>3. IsFiniteSet(Pairs(p, options)') /\ IsFiniteSet(Pending(p, options)')
      BY <1>5, <1>6, <3>1, FS_Subset
    <3>4. CASE p # r.passage
      <4>1. Kept(p, options)' = Kept(p, options) /\ Pairs(p, options)' = Pairs(p, options)
        BY <1>4, <2>2, <3>4
      <4>2. QED
        BY <1>6, <3>1, <3>2, <4>1, CountsShrink
    <3>5. CASE p = r.passage
      <4>1. passages[p].trainer = "reading"
        BY <1>1, <1>7, <3>5 DEF OfTrainer
      <4>2. IsFiniteSet(Moved(options)) /\ Cardinality(Moved(options)) = Count(options)
        <5>1. Len(answers) \in Nat
          BY <2>1
        <5>2. QED
          BY <1>3, <5>1, ShiftedCount DEF Count
      <4>3. Kept(p, options) \cap Moved(options) = {}
        <5>1. DOMAIN answers = 1 .. Len(answers) /\ Len(answers) \in Nat
          BY <2>1
        <5>2. \A k \in New(options) : k \in Nat /\ k > 0
          BY <1>1 DEF Picked
        <5>3. QED
          BY <3>2, <5>1, <5>2
      <4>4. Cardinality(Kept(p, options)') = Cardinality(Kept(p, options)) + Count(options)
        BY <2>2, <3>2, <3>5, <4>2, <4>3, DisjointCount
      <4>5. Cardinality(Pairs(p, options)') = Cardinality(Pairs(p, options)) + Count(options)
        BY <1>5, <3>1, <3>5
      <4>6. Cardinality(Kept(p, options)) = Cardinality(Pairs(p, options))
        BY <3>1, <4>1 DEF Counted
      <4>7. QED
        BY <3>3, <4>1, <4>4, <4>5, <4>6 DEF Counted
    <3>6. QED
      BY <3>4, <3>5
  <2>4. QED
    BY <2>3 DEF AllCounted
<1>8. CASE r.trainer = "listening"
  <2>1. ASSUME NEW p, NEW options PROVE Kept(p, options)' = Kept(p, options)
    BY <1>8 DEF Kept, AnswersOf
  <2>2. ASSUME NEW p \in DOMAIN passages, NEW options \in Counts PROVE Counted(p, options)'
    <3>1. /\ Counted(p, options) /\ IsFiniteSet(Pairs(p, options))
          /\ IsFiniteSet(Pending(p, options))
      BY DEF AllCounted, Counted
    <3>2. IsFiniteSet(Kept(p, options)) /\ Cardinality(Kept(p, options)) \in Nat
      BY KeptFinite
    <3>3. IsFiniteSet(Pairs(p, options)') /\ IsFiniteSet(Pending(p, options)')
      BY <1>5, <1>6, <3>1, FS_Subset
    <3>4. CASE p # r.passage
      <4>1. Pairs(p, options)' = Pairs(p, options)
        BY <1>4, <3>4
      <4>2. QED
        BY <1>6, <2>1, <3>1, <3>2, <4>1, CountsShrink
    <3>5. CASE p = r.passage
      <4>1. passages[p].trainer = "listening" /\ w \in GradingOf(p)
        BY <1>1, <1>8, <3>5 DEF OfTrainer, GradingOf
      <4>2. {w} \X New(options) \in SUBSET Pending(p, options)
        BY <4>1 DEF Pending
      <4>3. Pending(p, options)' \subseteq Pending(p, options) \ ({w} \X New(options))
        <5>1. w \notin GradingOf(p)'
          BY Moves DEF GradingOf
        <5>2. \A x \in Pending(p, options)' : x[1] # w
          BY <5>1 DEF Pending
        <5>3. QED
          BY <1>6, <5>2
      <4>4. /\ IsFiniteSet({w} \X New(options))
            /\ Cardinality({w} \X New(options)) = Count(options)
        BY <1>3, PairCount DEF Count
      <4>5. /\ IsFiniteSet(Pending(p, options) \ ({w} \X New(options)))
            /\ Cardinality(Pending(p, options) \ ({w} \X New(options)))
                 = Cardinality(Pending(p, options)) - Count(options)
        <5> DEFINE T == {w} \X New(options)
        <5>1. IsFiniteSet(T) /\ Cardinality(T) = Count(options) /\ T \in SUBSET Pending(p, options)
          BY <4>2, <4>4
        <5> HIDE DEF T
        <5>2. Pending(p, options) \cap T = T
          BY <5>1
        <5>3. /\ IsFiniteSet(Pending(p, options) \ T)
              /\ Cardinality(Pending(p, options) \ T)
                   = Cardinality(Pending(p, options)) - Cardinality(Pending(p, options) \cap T)
          BY <3>1, FS_Difference
        <5>4. QED
          BY <5>1, <5>2, <5>3 DEF T
      <4>6. Cardinality(Pending(p, options)')
              <= Cardinality(Pending(p, options)) - Count(options)
        BY <4>3, <4>5, FS_Subset
      <4>7. Cardinality(Pairs(p, options)') = Cardinality(Pairs(p, options)) + Count(options)
        BY <1>5, <3>1, <3>5
      <4>8. Cardinality(Kept(p, options)) >= Cardinality(Pairs(p, options))
                                              + Cardinality(Pending(p, options))
        BY <3>1, <4>1 DEF Counted
      <4>9. /\ Cardinality(Pairs(p, options)) \in Nat /\ Cardinality(Pending(p, options)) \in Nat
            /\ Cardinality(Pending(p, options)') \in Nat /\ Count(options) \in Nat
        BY <1>3, <3>1, <3>3, FS_CardinalityType
      <4>10. Cardinality(Kept(p, options)') >= Cardinality(Pairs(p, options)')
                                                + Cardinality(Pending(p, options)')
        BY <2>1, <3>2, <4>6, <4>7, <4>8, <4>9
      <4>11. QED
        BY <3>3, <4>1, <4>10 DEF Counted
    <3>6. QED
      BY <3>4, <3>5
  <2>3. QED
    BY <2>2 DEF AllCounted
<1>9. QED
  BY <1>1, <1>7, <1>8, TrainerAssumption

-----------------------------------------------------------------------------
(* The steps.                                                                *)

LEMMA QuizInit == Init => QuizInv
<1> SUFFICES ASSUME Init PROVE QuizInv
  OBVIOUS
<1>1. Tables /\ ProgressEarned
  BY DEF Init, Tables, ProgressEarned
<1>2. SessionsSound
  BY DEF Init, SessionsSound, ResultsSound, ResultSound
<1>3. AllCounted /\ \A w \in Tab : Local(pc[w], req[w])
  BY DEF Init, AllCounted, Local
<1>4. QED
  BY <1>1, <1>2, <1>3 DEF QuizInv

\* A step that leaves the rows alone, but for the progress and the sessions.
LEMMA QuietQuiz ==
    ASSUME BatchInv, QuizInv, UNCHANGED <<passages, questions, answers, graded>>,
           ProgressEarned', SessionsSound',
           NEW w \in Tab, NEW place, NEW r, Goto(w, place, r), Local(place, r),
           place \in {"grade", "save"} =>
              \/ r.rows = <<>>
              \/ /\ pc[w] \in {"grade", "save"} /\ r.rows = req[w].rows
                 /\ r.trainer = req[w].trainer /\ r.passage = req[w].passage
    PROVE  QuizInv'
<1>1. Grown /\ Tables' /\ Places
  BY GrownAlone DEF QuizInv, BatchInv
<1>2. Local(place, r)'
  BY <1>1, LocalKept
<1>3. (\A v \in Tab : Local(pc[v], req[v]))'
  BY <1>1, <1>2, TabsMove DEF QuizInv
<1>4. AllCounted'
  BY <1>1, PendingShrinks, CountsQuiet DEF QuizInv
<1>5. QED
  BY <1>1, <1>3, <1>4 DEF QuizInv

LEMMA SessionsKept ==
    ASSUME QuizInv, UNCHANGED <<passages, questions, answers, graded>>
    PROVE  /\ UNCHANGED session => SessionsSound'
           /\ UNCHANGED progress => ProgressEarned'
<1>1. Grown
  BY GrownAlone DEF QuizInv
<1>2. UNCHANGED session => SessionsSound'
  BY <1>1, ResultsKept DEF QuizInv, SessionsSound
<1>3. UNCHANGED progress => ProgressEarned'
  BY <1>1, EarnedKept DEF QuizInv, ProgressEarned
<1>4. QED
  BY <1>2, <1>3

\* A step that changes nothing but what the tab w does.
LEMMA PageStep ==
    ASSUME BatchInv, QuizInv, UNCHANGED <<tableVars, session, graded>>,
           NEW w \in Tab, NEW place, NEW r, Goto(w, place, r), Local(place, r),
           place \in {"grade", "save"} =>
              \/ r.rows = <<>>
              \/ /\ pc[w] \in {"grade", "save"} /\ r.rows = req[w].rows
                 /\ r.trainer = req[w].trainer /\ r.passage = req[w].passage
    PROVE  QuizInv'
<1>1. UNCHANGED <<passages, questions, answers, progress, session, graded>>
  BY DEF tableVars
<1>2. ProgressEarned' /\ SessionsSound'
  BY <1>1, SessionsKept
<1>3. QED
  BY <1>1, <1>2, QuietQuiz

LEMMA FinishStep ==
    ASSUME BatchInv, QuizInv, UNCHANGED <<tableVars, session, graded>>,
           NEW w \in Tab, Finish(w)
    PROVE  QuizInv'
<1>1. Local("idle", NoRequest)
  BY DEF Local
<1>2. QED
  BY <1>1, PageStep DEF Finish

LEMMA DispatchStep ==
    ASSUME BatchInv, QuizInv, NEW w \in Tab, NEW b \in Browser, NEW t \in Trainer,
           Dispatch(w, b, t)
    PROVE  QuizInv'
<1>1. PICK s \in Source : DispatchNew(w, b, t, s) \/ DispatchMore(w, b, t, s)
                           \/ DispatchAgain(w, b, t, s)
  BY DEF Dispatch
<1>2. UNCHANGED <<tableVars, session, graded>>
  BY <1>1 DEF DispatchNew, DispatchMore, DispatchAgain
<1>3. CASE DispatchNew(w, b, t, s)
  <2>1. SUFFICES ASSUME NEW r, r = [browser |-> b, trainer |-> t, source |-> s, passage |-> 0],
                        Goto(w, "generate", r)
                 PROVE  QuizInv'
    BY <1>3 DEF DispatchNew
  <2>2. Local("generate", r)
    BY <2>1 DEF Local
  <2>3. QED
    BY <1>2, <2>1, <2>2, PageStep
<1>4. CASE DispatchMore(w, b, t, s)
  <2>1. SUFFICES ASSUME NEW p \in DOMAIN passages, passages[p] = [trainer |-> t, source |-> s],
                        NEW r, r = [browser |-> b, trainer |-> t, source |-> s, passage |-> p],
                        Goto(w, "generate", r)
                 PROVE  QuizInv'
    BY <1>4 DEF DispatchMore
  <2>2. Local("generate", r)
    BY <2>1 DEF Local, OfTrainer
  <2>3. QED
    BY <1>2, <2>1, <2>2, PageStep
<1>5. CASE DispatchAgain(w, b, t, s)
  <2>1. SUFFICES ASSUME NEW p \in DOMAIN passages, passages[p] = [trainer |-> t, source |-> s],
                        NEW r, r = [browser |-> b, trainer |-> t, passage |-> p,
                                    batch |-> LatestBatch(p)],
                        Goto(w, "solve", r)
                 PROVE  QuizInv'
    BY <1>5 DEF DispatchAgain
  <2>2. Local("solve", r)
    BY <2>1 DEF Local, OfTrainer
  <2>3. QED
    BY <1>2, <2>1, <2>2, PageStep
<1>6. QED
  BY <1>1, <1>3, <1>4, <1>5

LEMMA ReplyStep ==
    ASSUME BatchInv, QuizInv, NEW w \in Tab, GeneratePassage(w) \/ AppendQuestions(w)
    PROVE  QuizInv'
<1>1. UNCHANGED <<tableVars, session, graded>> /\ pc[w] = "generate" /\ Local(pc[w], req[w])
  BY DEF GeneratePassage, AppendQuestions, QuizInv
<1>2. CASE Finish(w)
  BY <1>1, <1>2, FinishStep
<1>3. CASE ~ Finish(w)
  <2>1. PICK size \in Reply : \E batch \in {1, NextBatch(req[w].passage)} :
           Goto(w, "create", [browser |-> req[w].browser, trainer |-> req[w].trainer,
                              source |-> req[w].source, passage |-> req[w].passage,
                              size |-> size, batch |-> batch])
    BY <1>3 DEF GeneratePassage, AppendQuestions
  <2>2. SUFFICES ASSUME NEW batch, NEW r,
                        r = [browser |-> req[w].browser, trainer |-> req[w].trainer,
                             source |-> req[w].source, passage |-> req[w].passage,
                             size |-> size, batch |-> batch],
                        Goto(w, "create", r)
                 PROVE  QuizInv'
    BY <2>1
  <2>3. Local("create", r)
    BY <1>1, <2>2 DEF Local, OfTrainer
  <2>4. QED
    BY <1>1, <2>2, <2>3, PageStep
<1>4. QED
  BY <1>2, <1>3

\* What CreateRows adds, for the two invariants.
LEMMA RowsAdded ==
    ASSUME BatchInv, NEW w \in Tab, CreateRows(w)
    PROVE  \E p \in Nat :
             /\ \A x \in DOMAIN passages : x \in DOMAIN passages' /\ passages'[x] = passages[x]
             /\ p \in DOMAIN passages'
             /\ req[w].passage = 0 => passages'[p].trainer = req[w].trainer
             /\ req[w].passage # 0 => p = req[w].passage
             /\ \A q \in DOMAIN questions : q \in DOMAIN questions' /\ questions'[q] = questions[q]
             /\ \A q \in DOMAIN questions' : q \notin DOMAIN questions =>
                  /\ questions'[q] = [passage |-> p, batch |-> req[w].batch,
                                      set |-> Len(questions) + 1]
                  /\ Len(questions') > Len(questions)
             /\ Len(questions') >= Len(questions)
             /\ Goto(w, "solve", [browser |-> req[w].browser, trainer |-> req[w].trainer,
                                  passage |-> p, batch |-> req[w].batch])
<1> DEFINE r     == req[w]
           p     == IF r.passage = 0 THEN Len(passages) + 1 ELSE r.passage
           row   == [passage |-> p, batch |-> r.batch, set |-> Len(questions) + 1]
           added == [k \in 1 .. r.size |-> row]
<1>1. /\ pc[w] = "create"
      /\ passages' = IF r.passage # 0 THEN passages
                     ELSE Append(passages, [trainer |-> r.trainer, source |-> r.source])
      /\ questions' = questions \o added
      /\ Goto(w, "solve", [browser |-> r.browser, trainer |-> r.trainer,
                           passage |-> p, batch |-> r.batch])
  BY DEF CreateRows
<1>2. r.size \in Nat /\ r.batch \in Nat \ {0} /\ r.passage \in {0} \cup DOMAIN passages
  BY <1>1 DEF BatchInv, Places, InHand
<1>3. passages \in Seq(Passage) /\ questions \in Seq(Question)
  BY DEF BatchInv, RowsTyped
<1>4. /\ p \in Nat /\ p \in DOMAIN passages'
      /\ \A x \in DOMAIN passages : x \in DOMAIN passages' /\ passages'[x] = passages[x]
      /\ r.passage = 0 => passages'[p].trainer = r.trainer
      /\ r.passage # 0 => p = r.passage
  <2>1. CASE r.passage = 0
    BY <1>1, <1>3, <2>1
  <2>2. CASE r.passage # 0
    BY <1>1, <1>2, <1>3, <2>2
  <2>3. QED
    BY <2>1, <2>2
<1>5. added \in Seq({row}) /\ Len(added) = r.size /\ \A k \in 1 .. r.size : added[k] = row
  BY <1>2
<1>6. /\ DOMAIN questions = 1 .. Len(questions) /\ DOMAIN questions' = 1 .. Len(questions')
      /\ Len(questions') = Len(questions) + r.size
      /\ \A q \in 1 .. Len(questions) : questions'[q] = questions[q]
      /\ \A q \in Len(questions) + 1 .. Len(questions) + r.size : questions'[q] = row
  <2> HIDE DEF row
  <2>1. questions \in Seq(Question \cup {row}) /\ added \in Seq(Question \cup {row})
    BY <1>3, <1>5
  <2> HIDE DEF added
  <2>2. /\ questions \o added \in Seq(Question \cup {row})
        /\ Len(questions \o added) = Len(questions) + Len(added)
        /\ \A q \in 1 .. Len(questions) + Len(added) :
              (questions \o added)[q] = IF q <= Len(questions) THEN questions[q]
                                        ELSE added[q - Len(questions)]
    BY <2>1, ConcatProperties
  <2>3. DOMAIN questions = 1 .. Len(questions) /\ DOMAIN questions' = 1 .. Len(questions')
    BY <1>1, <2>1, <2>2
  <2>4. \A q \in Len(questions) + 1 .. Len(questions) + r.size : questions'[q] = row
    <3>1. TAKE q \in Len(questions) + 1 .. Len(questions) + r.size
    <3>2. q - Len(questions) \in 1 .. r.size /\ Len(questions) \in Nat
      BY <1>2, <1>3
    <3>3. QED
      BY <1>1, <1>2, <1>5, <2>2, <3>2
  <2>5. QED
    BY <1>1, <1>2, <1>5, <2>2, <2>3, <2>4
<1>7. \A q \in DOMAIN questions' : q \notin DOMAIN questions =>
         questions'[q] = row /\ Len(questions') > Len(questions)
  <2> HIDE DEF row, added
  <2>1. QED
    BY <1>2, <1>3, <1>6
<1>8. /\ Len(questions') >= Len(questions)
      /\ \A q \in DOMAIN questions : q \in DOMAIN questions' /\ questions'[q] = questions[q]
  <2> HIDE DEF row, added
  <2>1. QED
    BY <1>2, <1>3, <1>6
<1>9. QED
  BY <1>1, <1>4, <1>7, <1>8

LEMMA QuizCreate ==
    ASSUME BatchInv, QuizInv, NEW w \in Tab, CreateRows(w)
    PROVE  QuizInv'
<1>1. PICK p \in Nat :
             /\ \A x \in DOMAIN passages : x \in DOMAIN passages' /\ passages'[x] = passages[x]
             /\ p \in DOMAIN passages'
             /\ req[w].passage = 0 => passages'[p].trainer = req[w].trainer
             /\ req[w].passage # 0 => p = req[w].passage
             /\ \A q \in DOMAIN questions : q \in DOMAIN questions' /\ questions'[q] = questions[q]
             /\ \A q \in DOMAIN questions' : q \notin DOMAIN questions =>
                  /\ questions'[q] = [passage |-> p, batch |-> req[w].batch,
                                      set |-> Len(questions) + 1]
                  /\ Len(questions') > Len(questions)
             /\ Len(questions') >= Len(questions)
             /\ Goto(w, "solve", [browser |-> req[w].browser, trainer |-> req[w].trainer,
                                  passage |-> p, batch |-> req[w].batch])
  BY RowsAdded
<1>2. /\ UNCHANGED <<answers, progress, session, graded>> /\ pc[w] = "create"
      /\ Local(pc[w], req[w]) /\ Tables /\ Places /\ RowsTyped
      /\ Len(questions) \in Nat /\ Len(questions') \in Nat
      /\ \A q \in DOMAIN questions : questions[q].set \in Nat /\ questions[q].set <= Len(questions)
  <2>1. BatchInv'
    BY CreateStep
  <2>2. questions \in Seq(Question) /\ questions' \in Seq(Question)
    BY <2>1 DEF BatchInv, RowsTyped
  <2>3. \A q \in DOMAIN questions : questions[q] \in Question
    BY <2>2, ElementIn
  <2>4. \A q \in DOMAIN questions : questions[q].set \in Nat /\ questions[q].set <= Len(questions)
    BY <2>3 DEF QuizInv, Tables, Question
  <2>5. Local(pc[w], req[w]) /\ Tables /\ Places /\ RowsTyped
    BY DEF QuizInv, BatchInv
  <2>6. UNCHANGED <<answers, progress, session, graded>> /\ pc[w] = "create"
    BY DEF CreateRows
  <2>7. Len(questions) \in Nat /\ Len(questions') \in Nat
    BY <2>2
  <2>8. QED
    BY <2>4, <2>5, <2>6, <2>7
<1>3. ASSUME NEW new \in DOMAIN questions', new \notin DOMAIN questions,
             NEW old \in DOMAIN questions
      PROVE  questions[old].set # questions'[new].set
  <2>1. questions'[new].set = Len(questions) + 1
    BY <1>1, <1>3
  <2>2. QED
    BY <1>2, <2>1
<1>4. Grown
  <2>1. \A x : Passed(x) \in SUBSET DOMAIN graded /\ Passed(x)' = Passed(x)
    BY <1>2 DEF Passed, GradedOf
  <2>2. \A x : Cardinality(Passed(x)) \in Nat
    BY <1>2, <2>1, PartOfSequence DEF Tables
  <2>3. QED
    BY <1>1, <1>2, <1>3, <2>1, <2>2 DEF Grown
<1>5. Tables'
  <2>1. ASSUME NEW q \in DOMAIN questions' PROVE questions'[q].set <= Len(questions')
    <3>1. CASE q \in DOMAIN questions
      BY <1>1, <1>2, <3>1
    <3>2. CASE q \notin DOMAIN questions
      BY <1>1, <1>2, <3>2
    <3>3. QED
      BY <3>1, <3>2
  <2>2. QED
    BY <1>1, <1>2, <2>1 DEF Tables
<1>6. ProgressEarned'
  BY <1>1, <1>2, <1>4, EarnedKept DEF QuizInv, ProgressEarned
<1>7. SessionsSound'
  BY <1>2, <1>4, ResultsKept DEF QuizInv, SessionsSound
<1>8. SUFFICES ASSUME NEW r, r = [browser |-> req[w].browser, trainer |-> req[w].trainer,
                                  passage |-> p, batch |-> req[w].batch],
                      Goto(w, "solve", r)
               PROVE  QuizInv'
  BY <1>1
<1>9. Local("solve", r)'
  <2>1. OfTrainer(r)'
    <3>1. CASE req[w].passage = 0
      BY <1>1, <1>8, <3>1 DEF OfTrainer
    <3>2. CASE req[w].passage # 0
      BY <1>1, <1>2, <1>8, <3>2 DEF Local, OfTrainer
    <3>3. QED
      BY <3>1, <3>2
  <2>2. QED
    BY <1>2, <1>8, <2>1 DEF Local
<1>10. (\A v \in Tab : Local(pc[v], req[v]))'
  BY <1>2, <1>4, <1>8, <1>9, TabsMove DEF QuizInv
<1>11. AllCounted'
  <2>1. \A x : \A options \in Counts : Pending(x, options)' \subseteq Pending(x, options)
    BY <1>2, <1>8, PendingShrinks
  <2>2. QED
    BY <1>1, <1>2, <2>1, CountsGrow DEF QuizInv
<1>12. QED
  BY <1>5, <1>6, <1>7, <1>10, <1>11 DEF QuizInv

LEMMA QuizOpenPage ==
    ASSUME BatchInv, QuizInv, NEW w \in Tab, OpenPage(w)
    PROVE  QuizInv'
<1>1. /\ UNCHANGED <<tableVars, session, graded>> /\ pc[w] = "solve" /\ Local(pc[w], req[w])
  BY DEF OpenPage, QuizInv
<1>2. CASE Finish(w)
  BY <1>1, <1>2, FinishStep
<1>3. CASE ~ Finish(w)
  <2>1. SUFFICES ASSUME NEW shown, shown = QuestionsOf(req[w].passage, req[w].batch), shown # {},
                        NEW r, r = [browser |-> req[w].browser, trainer |-> req[w].trainer,
                                    passage |-> req[w].passage, batch |-> req[w].batch,
                                    shown |-> shown],
                        Goto(w, "page", r)
                 PROVE  QuizInv'
    BY <1>3 DEF OpenPage
  <2>2. Local("page", r)
    BY <1>1, <2>1 DEF Local, OfTrainer
  <2>3. QED
    BY <1>1, <2>1, <2>2, PageStep
<1>4. QED
  BY <1>2, <1>3

LEMMA QuizSubmit ==
    ASSUME BatchInv, QuizInv, NEW w \in Tab, Submit(w)
    PROVE  QuizInv'
<1>1. /\ UNCHANGED <<tableVars, session, graded>> /\ pc[w] = "page" /\ Local(pc[w], req[w])
  BY DEF Submit, QuizInv
<1>2. SUFFICES ASSUME NEW picks \in [req[w].shown -> Option],
                      NEW r, r = [browser |-> req[w].browser, trainer |-> req[w].trainer,
                                  passage |-> req[w].passage, batch |-> req[w].batch,
                                  session |-> session[req[w].browser], picks |-> picks,
                                  todo |-> QuestionsOf(req[w].passage, req[w].batch),
                                  rows |-> <<>>],
                      Goto(w, "grade", r)
               PROVE  QuizInv'
  BY DEF Submit
<1>3. /\ req[w].shown # {} /\ req[w].shown \subseteq QuestionsOf(req[w].passage, req[w].batch)
      /\ req[w].browser \in Browser /\ req[w].trainer \in Trainer /\ OfTrainer(req[w])
  BY <1>1 DEF Local
<1>4. Complete(r.passage, r.batch, r.todo \cup Tried(r.rows))
  <2>1. r.todo \cup Tried(r.rows) = QuestionsOf(r.passage, r.batch)
    BY <1>2 DEF Tried
  <2>2. QuestionsOf(r.passage, r.batch) # {}
    BY <1>2, <1>3
  <2>3. QED
    BY <2>1, <2>2 DEF Complete
<1>5. RowsGraded(r) /\ RowsRecorded(r)
  BY <1>2 DEF RowsGraded, RowsRecorded
<1>6. ResultsSound(r.session)
  BY <1>2, <1>3 DEF QuizInv, SessionsSound
<1>7. Local("grade", r)
  BY <1>2, <1>3, <1>4, <1>5, <1>6 DEF Local, OfTrainer
<1>8. QED
  BY <1>1, <1>2, <1>7, PageStep

\* A row that is appended is recorded, and nothing that was is lost.
LEMMA AnswersAppended ==
    ASSUME Tables, NEW rows \in Seq(Answer), answers' = answers \o rows,
           \A k \in DOMAIN rows : rows[k].question \in DOMAIN questions
    PROVE  /\ answers' \in Seq(Answer)
           /\ \A k \in DOMAIN answers : k \in DOMAIN answers' /\ answers'[k] = answers[k]
           /\ \A k \in DOMAIN answers' : answers'[k].question \in DOMAIN questions
           /\ \A k \in DOMAIN rows : Recorded(rows[k].question, rows[k].selected)'
<1>1. answers \in Seq(Answer)
  BY DEF Tables
<1>2. /\ answers' \in Seq(Answer) /\ Len(answers') = Len(answers) + Len(rows)
      /\ \A k \in 1 .. Len(answers) + Len(rows) :
            answers'[k] = IF k <= Len(answers) THEN answers[k] ELSE rows[k - Len(answers)]
  BY <1>1, ConcatProperties
<1>3. /\ DOMAIN answers = 1 .. Len(answers) /\ DOMAIN answers' = 1 .. Len(answers')
      /\ DOMAIN rows = 1 .. Len(rows) /\ Len(rows) \in Nat /\ Len(answers) \in Nat
  BY <1>1, <1>2
<1>4. \A k \in DOMAIN answers : k \in DOMAIN answers' /\ answers'[k] = answers[k]
  BY <1>2, <1>3
<1>5. \A k \in DOMAIN rows : Len(answers) + k \in DOMAIN answers' /\ answers'[Len(answers) + k] = rows[k]
  BY <1>2, <1>3
<1>6. ASSUME NEW k \in DOMAIN rows PROVE Recorded(rows[k].question, rows[k].selected)'
  <2>1. rows[k] \in Answer
    BY ElementIn
  <2>2. rows[k] = [question |-> rows[k].question, selected |-> rows[k].selected]
    BY <2>1 DEF Answer
  <2>3. QED
    BY <1>5, <2>2 DEF Recorded
<1>7. ASSUME NEW k \in DOMAIN answers' PROVE answers'[k].question \in DOMAIN questions
  <2>1. CASE k <= Len(answers)
    BY <1>2, <1>3, <2>1 DEF Tables
  <2>2. CASE k > Len(answers)
    <3>1. k - Len(answers) \in DOMAIN rows /\ answers'[k] = rows[k - Len(answers)]
      BY <1>2, <1>3, <2>2
    <3>2. QED
      BY <3>1
  <2>3. QED
    BY <1>3, <2>1, <2>2
<1>8. QED
  BY <1>2, <1>4, <1>6, <1>7

LEMMA AnswersGrown ==
    ASSUME Tables, UNCHANGED <<passages, questions, graded>>,
           NEW rows \in Seq(Answer), answers' = answers \o rows,
           \A k \in DOMAIN rows : rows[k].question \in DOMAIN questions
    PROVE  /\ Grown /\ Tables'
           /\ \A k \in DOMAIN rows : Recorded(rows[k].question, rows[k].selected)'
<1>1. /\ answers' \in Seq(Answer)
      /\ \A k \in DOMAIN answers : k \in DOMAIN answers' /\ answers'[k] = answers[k]
      /\ \A k \in DOMAIN answers' : answers'[k].question \in DOMAIN questions
      /\ \A k \in DOMAIN rows : Recorded(rows[k].question, rows[k].selected)'
  BY AnswersAppended
<1>2. \A p : Passed(p) \in SUBSET DOMAIN graded /\ Passed(p)' = Passed(p)
  BY DEF Passed, GradedOf
<1>3. \A p : Cardinality(Passed(p)) \in Nat
  BY <1>2, PartOfSequence DEF Tables
<1>4. Grown
  BY <1>1, <1>2, <1>3 DEF Grown
<1>5. Tables'
  BY <1>1 DEF Tables
<1>6. QED
  BY <1>1, <1>4, <1>5

LEMMA QuizGrade ==
    ASSUME BatchInv, QuizInv, NEW w \in Tab, GradeQuestion(w)
    PROVE  QuizInv'
<1> SUFFICES ASSUME NEW s, s = req[w] PROVE QuizInv'
  OBVIOUS
<1>1. /\ UNCHANGED <<passages, questions, progress, session, graded>> /\ pc[w] = "grade"
      /\ s.todo # {} /\ NextQuestion(w) \in DOMAIN s.picks /\ Local(pc[w], req[w])
      /\ Tables /\ Places /\ RowsTyped
  BY DEF GradeQuestion, QuizInv, BatchInv
<1>2. SUFFICES ASSUME NEW q, q = NextQuestion(w),
                      NEW row, row = [question |-> q, selected |-> s.picks[q]],
                      NEW r, r = [s EXCEPT !.todo = @ \ {q}, !.rows = Append(@, row)],
                      Goto(w, "grade", r),
                      answers' = IF s.trainer = "reading" THEN answers ELSE Append(answers, row)
               PROVE  QuizInv'
  BY DEF GradeQuestion
<1>3. /\ {"todo", "rows"} \subseteq DOMAIN s /\ s.picks \in [DOMAIN s.picks -> Option]
      /\ s.todo \subseteq QuestionsOf(s.passage, s.batch)
      /\ Complete(s.passage, s.batch, s.todo \cup Tried(s.rows))
      /\ RowsGraded(s) /\ ResultsSound(s.session) /\ OfTrainer(s)
      /\ s.browser \in Browser /\ s.trainer \in Trainer
      /\ s.trainer = "listening" => RowsRecorded(s)
  BY <1>1 DEF Local
<1>4. q \in QuestionsOf(s.passage, s.batch) /\ q \in Nat /\ q \in s.todo
  <2>1. QuestionsOf(s.passage, s.batch) \subseteq DOMAIN questions /\ DOMAIN questions \subseteq Nat
    BY <1>1 DEF QuestionsOf, RowsTyped
  <2>2. s.todo \in SUBSET Nat
    BY <1>3, <2>1
  <2>3. Min(s.todo) \in s.todo
    BY <1>1, <2>2, LeastNumber
  <2>4. QED
    BY <1>2, <1>3, <2>2, <2>3 DEF NextQuestion
<1>5. row \in Answer
  BY <1>1, <1>2, <1>3, <1>4 DEF Answer
<1>6. <<row>> \in Seq(Answer) /\ DOMAIN <<row>> = {1} /\ <<row>>[1] = row
      /\ answers \in Seq(Answer) /\ Append(answers, row) = answers \o <<row>>
      /\ answers = answers \o << >>
  BY <1>1, <1>5 DEF Tables
<1>7. /\ Grown /\ Tables'
      /\ s.trainer = "listening" => Recorded(q, s.picks[q])'
  <2>1. CASE s.trainer = "reading"
    BY <1>1, <1>2, <2>1, GrownAlone
  <2>2. CASE s.trainer = "listening"
    <3>1. answers' = answers \o <<row>>
      BY <1>2, <1>6, <2>2
    <3>2. \A k \in DOMAIN <<row>> : <<row>>[k].question \in DOMAIN questions
      BY <1>2, <1>4, <1>6 DEF QuestionsOf
    <3>3. /\ Grown /\ Tables'
          /\ \A k \in DOMAIN <<row>> : Recorded(<<row>>[k].question, <<row>>[k].selected)'
      BY <1>1, <1>6, <3>1, <3>2, AnswersGrown
    <3>4. Recorded(row.question, row.selected)'
      BY <1>6, <3>3
    <3>5. QED
      BY <1>2, <3>3, <3>4
  <2>3. QED
    BY <1>3, <2>1, <2>2, TrainerAssumption
<1>8. /\ r.browser = s.browser /\ r.trainer = s.trainer /\ r.passage = s.passage
      /\ r.batch = s.batch /\ r.session = s.session /\ r.picks = s.picks
      /\ r.todo = s.todo \ {q} /\ r.rows = Append(s.rows, row)
  BY <1>2, <1>3
<1>9. Local("grade", r)'
  <2>1. s.rows \in Seq(Answer) /\ r.rows \in Seq(Answer) /\ DOMAIN r.rows = DOMAIN s.rows \cup {Len(s.rows) + 1}
        /\ r.rows[Len(s.rows) + 1] = row /\ \A k \in DOMAIN s.rows : r.rows[k] = s.rows[k]
    BY <1>3, <1>5, <1>8 DEF RowsGraded
  <2>2. RowsGraded(r)
    <3>1. SUFFICES ASSUME NEW k \in DOMAIN r.rows
                   PROVE  /\ r.rows[k].question \in QuestionsOf(s.passage, s.batch)
                          /\ r.rows[k].selected = s.picks[r.rows[k].question]
      BY <1>8, <2>1 DEF RowsGraded
    <3>2. CASE k \in DOMAIN s.rows
      BY <1>3, <2>1, <3>2 DEF RowsGraded
    <3>3. CASE k = Len(s.rows) + 1
      <4>1. row.question = q /\ row.selected = s.picks[q] /\ r.rows[k] = row
        BY <1>2, <2>1, <3>3
      <4>2. QED
        BY <1>4, <4>1
    <3>4. QED
      BY <2>1, <3>2, <3>3
  <2>3. RowsGraded(r)' /\ ResultsSound(r.session)'
    BY <1>3, <1>7, <1>8, <2>2, RowsKept, ResultsKept
  <2>4. ASSUME s.trainer = "listening", NEW k \in DOMAIN r.rows
        PROVE  Recorded(r.rows[k].question, r.rows[k].selected)'
    <3>1. RowsRecorded(s)'
      BY <1>3, <1>7, <2>4, RowsKept
    <3>2. CASE k \in DOMAIN s.rows
      BY <2>1, <3>1, <3>2 DEF RowsRecorded
    <3>3. CASE k = Len(s.rows) + 1
      <4>1. r.rows[k].question = q /\ r.rows[k].selected = s.picks[q]
        BY <1>2, <2>1, <3>3
      <4>2. QED
        BY <1>7, <2>4, <4>1
    <3>4. QED
      BY <2>1, <3>2, <3>3
  <2>5. Complete(r.passage, r.batch, r.todo \cup Tried(r.rows))'
    <3>1. SUFFICES ASSUME NEW seen, seen = r.todo \cup Tried(r.rows)
                   PROVE  Complete(r.passage, r.batch, seen)'
      BY DEF Tried
    <3>2. /\ q \in s.todo /\ r.todo = s.todo \ {q}
          /\ Tried(r.rows) = Tried(s.rows) \cup {q}
      <4>1. r.rows[Len(s.rows) + 1].question = q
        BY <1>2, <2>1
      <4>2. QED
        BY <1>4, <1>8, <2>1, <4>1 DEF Tried
    <3>3. seen = s.todo \cup Tried(s.rows)
      BY <3>1, <3>2
    <3>4. Complete(r.passage, r.batch, seen)
      BY <1>3, <1>8, <3>3
    <3>5. QED
      BY <1>7, <3>4, CompleteKept
  <2>6. OfTrainer(r)' /\ r.todo \subseteq QuestionsOf(r.passage, r.batch)'
    BY <1>1, <1>3, <1>8 DEF OfTrainer, QuestionsOf
  <2>7. {"todo", "rows"} \subseteq DOMAIN r
    BY <1>2, <1>3
  <2>8. QED
    BY <1>3, <1>8, <2>3, <2>4, <2>5, <2>6, <2>7 DEF Local, RowsRecorded
<1>10. (\A v \in Tab : Local(pc[v], req[v]))'
  BY <1>1, <1>2, <1>7, <1>9, TabsMove DEF QuizInv
<1>11. AllCounted'
  <2>1. Places /\ Tables /\ AllCounted /\ Local(pc[w], req[w]) /\ pc[w] = "grade"
    BY <1>1 DEF QuizInv
  <2>2. row.question = q
    BY <1>2
  <2>3. /\ row.question \in QuestionsOf(req[w].passage, req[w].batch)
        /\ r.rows = Append(req[w].rows, row)
        /\ r.trainer = req[w].trainer /\ r.passage = req[w].passage
    BY <1>4, <1>8, <2>2
  <2>4. answers' = IF req[w].trainer = "reading" THEN answers ELSE Append(answers, row)
    BY <1>2
  <2>5. Goto(w, "grade", r) /\ UNCHANGED <<passages, questions, graded>>
    BY <1>1, <1>2
  <2>6. QED
    BY ONLY <1>5, <2>1, <2>3, <2>4, <2>5, CountsGrade
<1>12. ProgressEarned' /\ SessionsSound'
  BY <1>1, <1>7, EarnedKept, ResultsKept DEF QuizInv, ProgressEarned, SessionsSound
<1>13. QED
  BY <1>7, <1>10, <1>11, <1>12 DEF QuizInv

LEMMA NewProgressEarned ==
    ASSUME NEW new, progress' = new, new = [x \in DOMAIN new |-> new[x]],
           DOMAIN new \subseteq DOMAIN passages',
           \A x \in DOMAIN new : Earned(x, new[x])'
    PROVE  ProgressEarned'
BY DEF ProgressEarned

LEMMA QuizRead ==
    ASSUME BatchInv, QuizInv, NEW w \in Tab, ReadProgress(w)
    PROVE  QuizInv'
<1> SUFFICES ASSUME NEW s, s = req[w] PROVE QuizInv'
  OBVIOUS
<1> DEFINE missing == s.passage \notin DOMAIN progress
<1>1. /\ UNCHANGED <<passages, questions, answers, session, graded>> /\ pc[w] = "grade"
      /\ s.todo = {} /\ Local(pc[w], req[w])
      /\ progress' = IF missing /\ s.trainer = "listening"
                     THEN ProgressWith(s.passage, NewProgress) ELSE progress
  BY DEF ReadProgress, QuizInv
<1>2. /\ Complete(s.passage, s.batch, s.todo \cup Tried(s.rows))
      /\ RowsGraded(s) /\ ResultsSound(s.session) /\ OfTrainer(s)
      /\ s.browser \in Browser /\ s.trainer \in Trainer
      /\ s.trainer = "listening" => RowsRecorded(s)
  BY <1>1 DEF Local
<1>3. Grown /\ Tables
  BY <1>1, GrownAlone DEF QuizInv
<1>4. \A p : Earned(p, NewProgress)
  BY <1>3 DEF Grown, Earned, EarnedBy, Progress, NewProgress
<1>5. ProgressEarned'
  <2>1. CASE missing /\ s.trainer = "listening"
    <3>1. SUFFICES ASSUME NEW new, progress' = new, new = ProgressWith(s.passage, NewProgress)
                   PROVE  ProgressEarned'
      BY <1>1, <2>1
    <3>2. new = [x \in DOMAIN progress \cup {s.passage} |->
                   IF x = s.passage THEN NewProgress ELSE progress[x]]
      BY <3>1 DEF ProgressWith
    <3>3. \A x \in DOMAIN new : Earned(x, new[x])
      BY <1>4, <3>2 DEF QuizInv, ProgressEarned
    <3>4. \A x \in DOMAIN new : Earned(x, new[x])'
      BY <1>3, <3>3, EarnedKept
    <3>5. DOMAIN new \subseteq DOMAIN passages'
      BY <1>1, <1>2, <3>2 DEF OfTrainer, QuizInv, ProgressEarned
    <3>6. QED
      BY <3>1, <3>2, <3>4, <3>5, NewProgressEarned
  <2>2. CASE ~(missing /\ s.trainer = "listening")
    BY <1>1, <2>2, SessionsKept
  <2>3. QED
    BY <2>1, <2>2
<1>6. SessionsSound'
  BY <1>1, SessionsKept
<1>7. SUFFICES ASSUME NEW row, row = IF missing THEN NewProgress ELSE progress[s.passage],
                      NEW r, r = [browser |-> s.browser, trainer |-> s.trainer,
                                  passage |-> s.passage, batch |-> s.batch,
                                  session |-> s.session, picks |-> s.picks, rows |-> s.rows,
                                  inserted |-> missing /\ s.trainer = "reading", row |-> row],
                      Goto(w, "save", r)
               PROVE  QuizInv'
  BY DEF ReadProgress
<1>8. Earned(s.passage, row)
  BY <1>4, <1>7 DEF QuizInv, ProgressEarned
<1>9. /\ r.browser = s.browser /\ r.trainer = s.trainer /\ r.passage = s.passage
      /\ r.batch = s.batch /\ r.session = s.session /\ r.picks = s.picks /\ r.rows = s.rows
      /\ r.row = row
  BY <1>7
<1>10. RowsGraded(r) /\ (r.trainer = "listening" => RowsRecorded(r))
  BY <1>2, <1>9 DEF RowsGraded, RowsRecorded
<1>11. Complete(r.passage, r.batch, Tried(r.rows))
  BY <1>1, <1>2, <1>9 DEF Complete
<1>12. Local("save", r)
  BY <1>2, <1>8, <1>9, <1>10, <1>11 DEF Local, OfTrainer
<1>13. QED
  BY <1>1, <1>5, <1>6, <1>7, <1>9, <1>12, QuietQuiz

LEMMA Growth ==
    ASSUME NEW a \in Nat, NEW b \in Nat, a >= 6, b >= 130
    PROVE  (a * b) \div 100 \in Nat /\ (a * b) \div 100 > 6
<1>1. a * b \in Nat /\ a * b >= 6 * b
  OBVIOUS
<1>2. a * b >= 700
  BY <1>1
<1> HIDE DEF \div
<1>3. QED
  BY <1>1, <1>2

\* A graded submission moves an earned row to an earned row.
LEMMA UpdateEarns ==
    ASSUME NEW row, NEW n \in Nat, NEW m \in Nat, NEW score \in 1 .. 5, NEW now \in Nat,
           EarnedBy(row, n), m >= n, score >= 3 => m >= n + 1
    PROVE  EarnedBy(UpdatedBySm2(row, score, now), m)
<1> DEFINE c == row.repetition_count
           i == row.interval
           e == row.ease_factor
<1>1. c \in Nat /\ i \in Nat \ {0} /\ e \in Nat /\ e >= 130 /\ row.id \in Nat
  BY DEF EarnedBy, Progress
<1>2. \A x \in Int : AtLeast(130, x) \in Nat /\ AtLeast(130, x) >= 130
  BY DEF AtLeast
<1>3. CASE score < 3
  <2>1. UpdatedBySm2(row, score, now)
          = [id |-> row.id, repetition_count |-> 0, interval |-> 1, ease_factor |-> AtLeast(130, e - 20),
             last_reviewed_at |-> now]
    BY <1>3 DEF UpdatedBySm2
  <2>2. AtLeast(130, e - 20) \in {x \in Nat : x >= 130}
    BY <1>1, <1>2
  <2> HIDE DEF e
  <2>3. QED
    BY <1>1, <2>1, <2>2 DEF EarnedBy, Progress
<1>4. CASE score >= 3
  <2> DEFINE days == CASE c = 0 -> 1 [] c = 1 -> 6 [] OTHER -> (i * e) \div 100
             ease == AtLeast(130, e + 10 - (5 - score) * (8 + (5 - score) * 2))
  <2>1. UpdatedBySm2(row, score, now)
          = [id |-> row.id, repetition_count |-> c + 1, interval |-> days, ease_factor |-> ease,
             last_reviewed_at |-> now]
    BY <1>4 DEF UpdatedBySm2
  <2>2. ease \in {x \in Nat : x >= 130}
    <3>1. e + 10 - (5 - score) * (8 + (5 - score) * 2) \in Int
      BY <1>1
    <3>2. QED
      BY <1>2, <3>1
  <2>3. c >= 2 => days \in Nat /\ days > 6
    <3>1. SUFFICES ASSUME c >= 2 PROVE days \in Nat /\ days > 6
      OBVIOUS
    <3>2. i >= 6
      BY <1>1, <3>1 DEF EarnedBy
    <3>3. (i * e) \div 100 \in Nat /\ (i * e) \div 100 > 6
      BY <1>1, <3>2, Growth
    <3>4. days = (i * e) \div 100
      BY <1>1, <3>1
    <3>5. QED
      BY <3>3, <3>4
  <2>4. (c = 0 => days = 1) /\ (c = 1 => days = 6)
    BY <1>1
  <2>5. c + 1 <= m
    BY <1>1, <1>4 DEF EarnedBy
  <2> HIDE DEF days, ease, c
  <2>6. QED
    BY <1>1, <2>1, <2>2, <2>3, <2>4, <2>5 DEF EarnedBy, Progress
<1>5. QED
  BY <1>3, <1>4

\* An earned row that is inserted has another identifier, and is as earned.
LEMMA InsertedEarned ==
    ASSUME NEW row, NEW n, EarnedBy(row, n), NEW id \in Nat
    PROVE  EarnedBy([row EXCEPT !.id = id], n)
BY DEF EarnedBy, Progress

LEMMA ScoreRange == \A correct, problems : Score(correct, problems) \in 1 .. 5
<1> SUFFICES ASSUME NEW correct, NEW problems PROVE Score(correct, problems) \in 1 .. 5
  OBVIOUS
<1> DEFINE Bars == {50, 70, 85, 95}
           Reached == {percent \in Bars : 100 * correct >= percent * problems}
<1>1. IsFiniteSet(Bars) /\ Cardinality(Bars) = 4
  <2>1. IsFiniteSet({50}) /\ Cardinality({50}) = 1
    BY FS_Singleton
  <2>2. IsFiniteSet({50} \cup {70}) /\ Cardinality({50} \cup {70}) = 2
    BY <2>1, FS_AddElement
  <2>3. IsFiniteSet(({50} \cup {70}) \cup {85}) /\ Cardinality(({50} \cup {70}) \cup {85}) = 3
    BY <2>2, FS_AddElement
  <2>4. /\ IsFiniteSet((({50} \cup {70}) \cup {85}) \cup {95})
        /\ Cardinality((({50} \cup {70}) \cup {85}) \cup {95}) = 4
    BY <2>3, FS_AddElement
  <2>5. Bars = (({50} \cup {70}) \cup {85}) \cup {95}
    OBVIOUS
  <2> QED
    BY <2>4, <2>5
<1>2. Cardinality(Reached) \in 0 .. 4
  <2>1. Reached \in SUBSET Bars
    OBVIOUS
  <2> HIDE DEF Bars, Reached
  <2>2. IsFiniteSet(Reached) /\ Cardinality(Reached) <= 4 /\ Cardinality(Reached) \in Nat
    BY <1>1, <2>1, FS_Subset, FS_CardinalityType
  <2> QED
    BY <2>2
<1>3. Score(correct, problems) = 1 + Cardinality(Reached)
  BY DEF Score
<1> QED
  BY <1>2, <1>3

LEMMA QuizSave ==
    ASSUME BatchInv, QuizInv, NEW w \in Tab, SaveProgress(w)
    PROVE  QuizInv'
<1> SUFFICES ASSUME NEW s, s = req[w], NEW g, g = Len(graded) + 1,
                    NEW score, score = Score(Correct(s.rows), Len(s.rows)),
                    NEW old, old = IF s.inserted THEN [s.row EXCEPT !.id = g] ELSE s.row,
                    NEW row, row = UpdatedBySm2(old, score, g),
                    NEW new, new = ProgressWith(s.passage, row), progress' = new
             PROVE  QuizInv'
  BY DEF SaveProgress
<1>1. /\ UNCHANGED <<passages, questions, session>> /\ pc[w] = "save"
      /\ Local(pc[w], req[w]) /\ Tables /\ Places
      /\ answers' = IF s.trainer = "reading" THEN answers \o s.rows ELSE answers
      /\ graded' = Append(graded, [passage |-> s.passage, correct |-> Correct(s.rows),
                                   problems |-> Len(s.rows)])
      /\ Goto(w, "respond", s)
  BY DEF SaveProgress, QuizInv, BatchInv
<1>2. /\ Complete(s.passage, s.batch, Tried(s.rows))
      /\ RowsGraded(s) /\ ResultsSound(s.session) /\ OfTrainer(s)
      /\ s.browser \in Browser /\ s.trainer \in Trainer
      /\ s.trainer = "listening" => RowsRecorded(s)
      /\ Earned(s.passage, s.row)
  BY <1>1 DEF Local
<1>3. /\ Correct(s.rows) \in Nat /\ Len(s.rows) \in Nat /\ s.rows \in Seq(Answer)
      /\ s.passage \in Nat /\ graded \in Seq(Submission)
  <2>1. s.rows \in Seq(Answer) /\ graded \in Seq(Submission)
    BY <1>1, <1>2 DEF RowsGraded, Tables
  <2>2. Correct(s.rows) \in Nat
    BY <2>1, PartOfSequence DEF Correct
  <2>3. passages \in Seq(Passage)
    BY DEF BatchInv, RowsTyped
  <2>4. s.passage \in Nat
    BY <1>2, <2>3 DEF OfTrainer
  <2>5. QED
    BY <2>1, <2>2, <2>4
<1>4. /\ graded' \in Seq(Submission) /\ g \in Nat
      /\ DOMAIN graded' = DOMAIN graded \cup {g} /\ g \notin DOMAIN graded
      /\ \A k \in DOMAIN graded : graded'[k] = graded[k]
      /\ graded'[g] = [passage |-> s.passage, correct |-> Correct(s.rows), problems |-> Len(s.rows)]
  <2>1. [passage |-> s.passage, correct |-> Correct(s.rows), problems |-> Len(s.rows)] \in Submission
    BY <1>3 DEF Submission
  <2> SUFFICES ASSUME NEW sub \in Submission,
                      sub = [passage |-> s.passage, correct |-> Correct(s.rows),
                             problems |-> Len(s.rows)]
               PROVE  /\ graded' \in Seq(Submission) /\ g \in Nat
                      /\ DOMAIN graded' = DOMAIN graded \cup {g} /\ g \notin DOMAIN graded
                      /\ \A k \in DOMAIN graded : graded'[k] = graded[k]
                      /\ graded'[g] = sub
    BY <2>1
  <2>2. graded' = Append(graded, sub)
    BY <1>1
  <2>3. QED
    BY <1>3, <2>2
<1>5. ASSUME NEW p
      PROVE  /\ Cardinality(Passed(p)) \in Nat /\ Cardinality(Passed(p)') \in Nat
             /\ Cardinality(Passed(p)) <= Cardinality(Passed(p)')
             /\ p = s.passage /\ score >= 3
                  => Cardinality(Passed(p)') = Cardinality(Passed(p)) + 1
  <2>1. Passed(p) \in SUBSET DOMAIN graded /\ Passed(p)' \in SUBSET DOMAIN graded'
    BY DEF Passed, GradedOf
  <2>2. /\ IsFiniteSet(Passed(p)) /\ Cardinality(Passed(p)) \in Nat
        /\ IsFiniteSet(Passed(p)') /\ Cardinality(Passed(p)') \in Nat
    BY <1>3, <1>4, <2>1, PartOfSequence
  <2>3. \A k \in DOMAIN graded : k \in Passed(p)' <=> k \in Passed(p)
    BY <1>4 DEF Passed, GradedOf
  <2>4. g \in Passed(p)' <=> p = s.passage /\ score >= 3
    BY <1>4 DEF Passed, GradedOf
  <2>5. Passed(p) \subseteq Passed(p)'
    BY <2>1, <2>3
  <2>6. Cardinality(Passed(p)) <= Cardinality(Passed(p)')
    BY <2>2, <2>5, FS_Subset
  <2>7. ASSUME p = s.passage, score >= 3
        PROVE  Cardinality(Passed(p)') = Cardinality(Passed(p)) + 1
    <3>1. \A k : k \in Passed(p)' <=> k \in Passed(p) \cup {g}
      BY <1>4, <2>1, <2>3, <2>4, <2>7
    <3>2. Passed(p)' = Passed(p) \cup {g}
      BY <3>1
    <3>3. g \notin Passed(p)
      BY <1>4, <2>1
    <3>4. Cardinality(Passed(p) \cup {g}) = Cardinality(Passed(p)) + 1
      BY <2>2, <3>3, FS_AddElement
    <3>5. QED
      BY <3>2, <3>4
  <2>8. QED
    BY <2>2, <2>6, <2>7
<1>6. Earned(s.passage, row)'
  <2>1. SUFFICES ASSUME NEW n, n = Cardinality(Passed(s.passage)),
                        NEW m, m = Cardinality(Passed(s.passage)')
                 PROVE  Earned(s.passage, row)'
    OBVIOUS
  <2>2. n \in Nat /\ m \in Nat /\ m >= n /\ (score >= 3 => m >= n + 1)
    BY <1>5, <2>1
  <2>3. EarnedBy(old, n) /\ row = UpdatedBySm2(old, score, g)
    BY <1>2, <1>4, <2>1, InsertedEarned DEF Earned
  <2>4. score \in 1 .. 5 /\ g \in Nat
    BY <1>4, ScoreRange
  <2>5. EarnedBy(row, m)
    <3>1. EarnedBy(UpdatedBySm2(old, score, g), m)
      BY ONLY <2>2, <2>3, <2>4, UpdateEarns
    <3>2. QED
      BY <2>3, <3>1
  <2>6. QED
    BY <2>1, <2>5 DEF Earned
<1>7. /\ answers' \in Seq(Answer)
      /\ \A k \in DOMAIN answers : k \in DOMAIN answers' /\ answers'[k] = answers[k]
      /\ \A k \in DOMAIN answers' : answers'[k].question \in DOMAIN questions
      /\ RowsRecorded(s)'
  <2>1. CASE s.trainer = "reading"
    <3>1. /\ answers' = answers \o s.rows /\ answers \in Seq(Answer)
          /\ \A k \in DOMAIN s.rows : s.rows[k].question \in DOMAIN questions
      BY <1>1, <1>2, <2>1 DEF RowsGraded, QuestionsOf, Tables
    <3>2. /\ answers' \in Seq(Answer)
          /\ \A k \in DOMAIN answers : k \in DOMAIN answers' /\ answers'[k] = answers[k]
          /\ \A k \in DOMAIN answers' : answers'[k].question \in DOMAIN questions
          /\ \A k \in DOMAIN s.rows : Recorded(s.rows[k].question, s.rows[k].selected)'
      BY <1>1, <1>3, <3>1, AnswersAppended
    <3>3. QED
      BY <3>2 DEF RowsRecorded
  <2>2. CASE s.trainer = "listening"
    <3>1. answers' = answers /\ RowsRecorded(s)
      BY <1>1, <1>2, <2>2
    <3>2. RowsRecorded(s)'
      BY <3>1 DEF RowsRecorded, Recorded
    <3>3. /\ answers' \in Seq(Answer)
          /\ \A k \in DOMAIN answers : k \in DOMAIN answers' /\ answers'[k] = answers[k]
      BY <1>1, <3>1 DEF Tables
    <3>4. \A k \in DOMAIN answers' : answers'[k].question \in DOMAIN questions
      BY <1>1, <3>1 DEF Tables
    <3>5. QED
      BY <3>2, <3>3, <3>4
  <2>3. QED
    BY <1>2, <2>1, <2>2, TrainerAssumption
<1>8. Grown
  BY <1>1, <1>5, <1>7 DEF Grown
<1>9. Tables'
  <2>1. \A k \in DOMAIN graded' : graded'[k].passage \in DOMAIN passages
    BY <1>1, <1>2, <1>4 DEF Tables, OfTrainer
  <2>2. QED
    BY <1>1, <1>4, <1>7, <2>1 DEF Tables
<1>10. ProgressEarned'
  <2>1. new = [x \in DOMAIN progress \cup {s.passage} |->
                 IF x = s.passage THEN row ELSE progress[x]]
    BY DEF ProgressWith
  <2>2. ASSUME NEW x \in DOMAIN new PROVE Earned(x, new[x])'
    <3>1. CASE x = s.passage
      BY <1>6, <2>1, <3>1
    <3>2. CASE x # s.passage
      <4>1. x \in DOMAIN progress /\ new[x] = progress[x]
        BY <2>1, <3>2
      <4>2. Earned(x, new[x])
        BY <4>1 DEF QuizInv, ProgressEarned
      <4>3. QED
        BY <1>8, <4>2, EarnedKept
    <3>3. QED
      BY <3>1, <3>2
  <2>3. DOMAIN new \subseteq DOMAIN passages'
    BY <1>1, <1>2, <2>1 DEF OfTrainer, QuizInv, ProgressEarned
  <2>4. QED
    BY <2>1, <2>2, <2>3, NewProgressEarned
<1>11. SessionsSound'
  BY <1>1, <1>8, ResultsKept DEF QuizInv, SessionsSound
<1>12. Local("respond", s)'
  <2>1. RowsGraded(s)' /\ ResultsSound(s.session)'
    BY <1>2, <1>8, RowsKept, ResultsKept
  <2>2. Complete(s.passage, s.batch, Tried(s.rows))'
    <3>1. SUFFICES ASSUME NEW seen, seen = Tried(s.rows)
                   PROVE  Complete(s.passage, s.batch, seen)'
      BY DEF Tried
    <3>2. QED
      BY <1>2, <1>8, <3>1, CompleteKept
  <2>3. OfTrainer(s)'
    BY <1>1, <1>2 DEF OfTrainer
  <2>4. QED
    BY <1>2, <1>7, <2>1, <2>2, <2>3 DEF Local
<1>13. (\A v \in Tab : Local(pc[v], req[v]))'
  BY <1>1, <1>8, <1>12, TabsMove DEF QuizInv
<1>14. AllCounted'
  BY <1>1, CountsSave DEF QuizInv
<1>15. QED
  BY <1>9, <1>10, <1>11, <1>13, <1>14 DEF QuizInv

\* The session is saved whole: each of its results is sound.
LEMMA SessionSaved ==
    ASSUME QuizInv, UNCHANGED <<passages, questions, answers, graded>>,
           NEW b \in Browser, NEW new, ResultsSound(new), session' = [session EXCEPT ![b] = new]
    PROVE  SessionsSound'
<1>1. Grown
  BY GrownAlone DEF QuizInv
<1>2. session' = [x \in Browser |-> IF x = b THEN new ELSE session[x]]
  BY DEF QuizInv, SessionsSound
<1>3. SUFFICES ASSUME NEW x \in Browser, NEW s, s = IF x = b THEN new ELSE session[x]
               PROVE  ResultsSound(s)'
  <2>1. \A x \in Browser : ResultsSound(IF x = b THEN new ELSE session[x])'
    BY <1>3
  <2> SUFFICES ASSUME NEW all, session' = all,
                      all = [x \in Browser |-> IF x = b THEN new ELSE session[x]]
               PROVE  SessionsSound'
    BY <1>2
  <2>2. \A x \in Browser : ResultsSound(all[x])
    BY DEF QuizInv, SessionsSound
  <2>3. \A x \in Browser : ResultsSound(all[x])'
    BY <1>1, <2>2, ResultsKept
  <2>4. QED
    BY <2>3 DEF SessionsSound
<1>4. QED
  BY <1>1, <1>3, ResultsKept DEF QuizInv, SessionsSound

LEMMA ResultIn ==
    ASSUME NEW s, ResultsSound(s), NEW t \in Trainer, NEW d, ResultSound(d)
    PROVE  ResultsSound([s EXCEPT ![t] = d])
BY DEF ResultsSound

LEMMA QuizRespond ==
    ASSUME BatchInv, QuizInv, NEW w \in Tab, Respond(w)
    PROVE  QuizInv'
<1> SUFFICES ASSUME NEW s, s = req[w],
                    NEW seen, seen = {row.question : row \in Range(s.rows)},
                    NEW data, data = [q \in seen |-> s.picks[q]],
                    NEW d, d = [passage |-> s.passage, batch |-> s.batch, data |-> data],
                    NEW r, r = [browser |-> s.browser, trainer |-> s.trainer],
                    Goto(w, "result", r),
                    session' = [session EXCEPT ![s.browser] = [s.session EXCEPT ![s.trainer] = d]]
             PROVE  QuizInv'
  BY DEF Respond
<1>1. /\ UNCHANGED <<tableVars, graded>> /\ pc[w] = "respond" /\ Local(pc[w], req[w])
  BY DEF Respond, QuizInv
<1>2. /\ Complete(s.passage, s.batch, Tried(s.rows)) /\ RowsGraded(s) /\ RowsRecorded(s)
      /\ ResultsSound(s.session) /\ s.browser \in Browser /\ s.trainer \in Trainer
  BY <1>1 DEF Local
<1>3. seen = Tried(s.rows)
  BY DEF Range, Tried
<1>4. ASSUME NEW q \in seen PROVE Recorded(q, data[q])
  <2>1. PICK k \in DOMAIN s.rows : s.rows[k].question = q
    BY <1>3 DEF Tried
  <2>2. s.rows[k].selected = data[q]
    BY <1>2, <2>1 DEF RowsGraded
  <2>3. QED
    BY <1>2, <2>1, <2>2 DEF RowsRecorded
<1>5. ResultSound(d)
  BY <1>2, <1>3, <1>4 DEF ResultSound
<1>6. ResultsSound([s.session EXCEPT ![s.trainer] = d])
  BY <1>2, <1>5, ResultIn
<1>7. UNCHANGED <<passages, questions, answers, progress, graded>>
  BY <1>1 DEF tableVars
<1>8. SessionsSound'
  BY <1>2, <1>6, <1>7, SessionSaved
<1>9. Local("result", r)
  BY <1>2 DEF Local
<1>10. QED
  BY <1>7, <1>8, <1>9, SessionsKept, QuietQuiz

LEMMA QuizOpenResult ==
    ASSUME BatchInv, QuizInv, NEW w \in Tab, OpenResult(w)
    PROVE  QuizInv'
<1> SUFFICES ASSUME NEW s, s = req[w], NEW data, data = session[s.browser][s.trainer]
             PROVE  QuizInv'
  OBVIOUS
<1>1. /\ UNCHANGED <<tableVars, session, graded>> /\ pc[w] = "result" /\ Local(pc[w], req[w])
  BY DEF OpenResult, QuizInv
<1>2. s.browser \in Browser /\ s.trainer \in Trainer
  BY <1>1 DEF Local
<1>3. ResultSound(data) /\ ResultsSound(session[s.browser])
  BY <1>2 DEF QuizInv, SessionsSound, ResultsSound
<1>4. CASE data = None
  BY <1>1, <1>4, FinishStep DEF OpenResult
<1>5. CASE data # None
  <2>1. SUFFICES ASSUME NEW new, new = [session[s.browser] EXCEPT ![s.trainer] = None],
                        NEW r, r = [browser |-> s.browser, trainer |-> s.trainer,
                                    data |-> data, session |-> new],
                        Goto(w, "show", r)
                 PROVE  QuizInv'
    BY <1>5 DEF OpenResult
  <2>2. ResultsSound(new)
    <3>1. ResultSound(None)
      BY DEF ResultSound
    <3>2. QED
      BY <1>2, <1>3, <2>1, <3>1, ResultIn
  <2>3. Local("show", r)
    BY <1>2, <1>3, <1>5, <2>1, <2>2 DEF Local
  <2>4. QED
    BY <1>1, <2>1, <2>3, PageStep
<1>6. QED
  BY <1>4, <1>5

LEMMA QuizShowResult ==
    ASSUME BatchInv, QuizInv, NEW w \in Tab, ShowResult(w)
    PROVE  QuizInv'
<1> SUFFICES ASSUME NEW s, s = req[w], NEW data, data = s.data,
                    NEW right, right = [q \in ResultQuestions(data) |->
                                          q \in DOMAIN data.data /\ data.data[q] = "right"],
                    NEW r, r = [browser |-> s.browser, trainer |-> s.trainer, data |-> data,
                                is_correct |-> right],
                    Goto(w, "shown", r)
             PROVE  QuizInv'
  BY DEF ShowResult
<1>1. /\ UNCHANGED <<tableVars, graded>> /\ pc[w] = "show" /\ Local(pc[w], req[w])
      /\ session' = [session EXCEPT ![s.browser] = s.session]
  BY DEF ShowResult, QuizInv
<1>2. /\ s.browser \in Browser /\ s.trainer \in Trainer
      /\ data # None /\ ResultSound(data) /\ ResultsSound(s.session)
  BY <1>1 DEF Local
<1>3. UNCHANGED <<passages, questions, answers, progress, graded>>
  BY <1>1 DEF tableVars
<1>4. SessionsSound'
  BY <1>1, <1>2, <1>3, SessionSaved
<1>5. /\ DOMAIN data.data \subseteq ResultQuestions(data)
      /\ ResultQuestions(data) = QuestionsOf(data.passage, data.batch)
      /\ \A q \in ResultQuestions(data) : IF q \in DOMAIN data.data
                                          THEN Recorded(q, data.data[q])
                                          ELSE OfNoSet(q, DOMAIN data.data)
  BY <1>2 DEF ResultSound, Complete, ResultQuestions
<1>6. Local("shown", r)
  BY <1>5 DEF Local
<1>7. QED
  BY <1>3, <1>4, <1>6, SessionsKept, QuietQuiz

LEMMA QuizPrune ==
    ASSUME BatchInv, QuizInv, NEW w \in Tab, NEW b, NEW t,
           Select(w, b, t) \/ ReadOldest(w) \/ DeleteOldest(w) \/ PruneListening(w)
    PROVE  QuizInv'
<1>1. ASSUME NEW place \in {"prune", "delete", "error"}, NEW r, Goto(w, place, r),
             UNCHANGED <<tableVars, session, graded>>
      PROVE  QuizInv'
  <2>1. Local(place, r)
    BY DEF Local
  <2>2. QED
    BY <1>1, <2>1, PageStep
<1>2. CASE Select(w, b, t)
  BY <1>1, <1>2 DEF Select, OpenSelection
<1>3. CASE ReadOldest(w)
  BY <1>1, <1>3 DEF ReadOldest
<1>4. CASE PruneListening(w)
  BY <1>1, <1>4 DEF PruneListening
<1>5. CASE DeleteOldest(w)
  <2>1. /\ UNCHANGED <<passages, questions, answers, session, graded>>
        /\ Goto(w, "idle", NoRequest)
    BY <1>5 DEF DeleteOldest, Finish
  <2>2. SUFFICES ASSUME NEW new, progress' = new,
                        new = [p \in {x \in DOMAIN progress :
                                          <<x, progress[x].id>> \notin req[w].ids} |-> progress[p]]
                 PROVE  QuizInv'
    BY <1>5 DEF DeleteOldest
  <2>3. Grown
    BY <2>1, GrownAlone DEF QuizInv
  <2>4. ProgressEarned'
    <3>1. \A x \in DOMAIN new : Earned(x, new[x])
      BY <2>2 DEF QuizInv, ProgressEarned
    <3>2. \A x \in DOMAIN new : Earned(x, new[x])'
      BY <2>3, <3>1, EarnedKept
    <3>3. DOMAIN new \subseteq DOMAIN passages'
      BY <2>1, <2>2 DEF QuizInv, ProgressEarned
    <3>4. QED
      BY <2>2, <3>2, <3>3, NewProgressEarned
  <2>5. SessionsSound'
    BY <2>1, SessionsKept
  <2>6. Local("idle", NoRequest)
    BY DEF Local
  <2>7. QED
    BY <2>1, <2>4, <2>5, <2>6, QuietQuiz
<1>6. QED
  BY <1>2, <1>3, <1>4, <1>5

LEMMA QuizStutter ==
    ASSUME QuizInv, UNCHANGED vars
    PROVE  QuizInv'
<1>1. /\ UNCHANGED <<passages, questions, answers, progress, session, graded>>
      /\ pc' = pc /\ req' = req
  BY DEF vars, tableVars
<1>2. Grown /\ Tables' /\ ProgressEarned' /\ SessionsSound'
  BY <1>1, GrownAlone, SessionsKept DEF QuizInv
<1>3. (\A v \in Tab : Local(pc[v], req[v]))'
  <2>1. SUFFICES ASSUME NEW v \in Tab, NEW x, NEW y, x = pc[v], y = req[v] PROVE Local(x, y)'
    BY <1>1
  <2>2. Local(x, y)
    BY <2>1 DEF QuizInv
  <2>3. QED
    BY <1>2, <2>2, LocalKept
<1>4. AllCounted'
  <2>1. \A p, options : Pending(p, options)' = Pending(p, options)
    BY <1>1 DEF Pending, GradingOf
  <2>2. QED
    BY <1>1, <2>1, CountsQuiet DEF QuizInv
<1>5. QED
  BY <1>2, <1>3, <1>4 DEF QuizInv

LEMMA QuizNext == BatchInv /\ QuizInv /\ [Next]_vars => QuizInv'
<1> SUFFICES ASSUME BatchInv, QuizInv, [Next]_vars PROVE QuizInv'
  OBVIOUS
<1>1. CASE UNCHANGED vars
  BY <1>1, QuizStutter
<1>2. ASSUME NEW w \in Tab, NEW b \in Browser, NEW t, Dispatch(w, b, t) PROVE QuizInv'
  BY <1>2, DispatchStep DEF Dispatch
<1>3. ASSUME NEW w \in Tab, Answered(w) PROVE QuizInv'
  BY <1>3, ReplyStep, QuizCreate
  DEF Answered, GenerateReading, AppendReading, GenerateEikenReading, AppendEikenReading,
      GenerateListening, AppendListening, GenerateEikenListening, AppendEikenListening
<1>4. ASSUME NEW w \in Tab, QuestionMissing(w) \/ SaveConflict(w) \/ Abandon(w) PROVE QuizInv'
  BY <1>4, FinishStep DEF QuestionMissing, SaveConflict, Abandon
<1>5. ASSUME NEW w \in Tab, Solve(w) PROVE QuizInv'
  BY <1>4, <1>5, QuizOpenPage, QuizSubmit, QuizGrade, QuizRead, QuizSave, QuizRespond DEF Solve
<1>6. ASSUME NEW w \in Tab, Result(w) PROVE QuizInv'
  BY <1>6, QuizOpenResult, QuizShowResult DEF Result
<1>7. ASSUME NEW w \in Tab, NEW b, NEW t,
             Select(w, b, t) \/ ReadOldest(w) \/ DeleteOldest(w) \/ PruneListening(w)
      PROVE  QuizInv'
  BY <1>7, QuizPrune
<1>8. Student \in Browser /\ Staff \in Browser
  BY DEF Browser
<1>9. QED
  BY <1>1, <1>2, <1>3, <1>4, <1>5, <1>6, <1>7, <1>8
  DEF Next, StudentReadingQuizDispatcherView, StudentReadingQuizSolveView,
      StudentReadingResult, StudentReadingSelect, AdminReadingQuizDispatcherView,
      AdminReadingQuizSolveView, AdminReadingResult, AdminReadingSelect,
      StudentListeningQuizDispatcherView, StudentListeningQuizSolveView, StudentListeningResult,
      StudentListeningSelect, AdminListeningQuizDispatcherView, AdminListeningQuizSolveView,
      AdminListeningResult, AdminListeningSelect

LEMMA QuizStates ==
    BatchInv /\ QuizInv => TypeOK /\ AnswersCounted /\ IntervalEarned /\ ResultHonest
<1> SUFFICES ASSUME BatchInv, QuizInv
             PROVE  TypeOK /\ AnswersCounted /\ IntervalEarned /\ ResultHonest
  OBVIOUS
<1>1. TypeOK
  <2>1. progress \in [DOMAIN progress -> Progress]
    BY DEF QuizInv, ProgressEarned, Earned, EarnedBy
  <2>2. pc \in [Tab -> {"idle", "generate", "create", "solve", "page", "grade", "save",
                        "respond", "result", "show", "shown", "prune", "delete", "error"}]
    BY DEF QuizInv, BatchInv, Places, Local
  <2>3. QED
    BY <2>1, <2>2 DEF TypeOK, QuizInv, BatchInv, RowsTyped, Tables, ProgressEarned
<1>2. AnswersCounted
  <2>1. ASSUME NEW p \in DOMAIN passages
        PROVE  IF passages[p].trainer = "reading"
               THEN /\ Cardinality(AnswersOf(p)) = Cardinality(ProblemsOf(p))
                    /\ Cardinality(RightOf(p)) = Cardinality(CorrectOf(p))
               ELSE /\ Cardinality(AnswersOf(p)) >= Cardinality(ProblemsOf(p))
                    /\ Cardinality(RightOf(p)) >= Cardinality(CorrectOf(p))
    <3>1. AnswersOf(p) = Kept(p, Option)
      <4>1. \A k \in DOMAIN answers : answers[k] \in Answer
        BY ElementIn DEF QuizInv, Tables
      <4>2. QED
        BY <4>1 DEF Kept, AnswersOf, Answer
    <3>2. RightOf(p) = Kept(p, {"right"})
      BY DEF Kept, RightOf
    <3>3. ProblemsOf(p) = Pairs(p, Option)
      BY DEF ProblemsOf, Pairs, Given
    <3>4. {"right"} # Option
      BY DEF Option
    <3>5. CorrectOf(p) = Pairs(p, {"right"})
      BY <3>4 DEF CorrectOf, Pairs, Given
    <3>6. ASSUME NEW options \in Counts
          PROVE  IF passages[p].trainer = "reading"
                 THEN Cardinality(Kept(p, options)) = Cardinality(Pairs(p, options))
                 ELSE Cardinality(Kept(p, options)) >= Cardinality(Pairs(p, options))
      <4>1. Counted(p, options)
        BY DEF QuizInv, AllCounted
      <4>2. /\ Cardinality(Pairs(p, options)) \in Nat /\ Cardinality(Pending(p, options)) \in Nat
        BY <4>1, FS_CardinalityType DEF Counted
      <4>3. Cardinality(Kept(p, options)) \in Nat
        BY KeptFinite DEF QuizInv
      <4>4. CASE passages[p].trainer = "reading"
        BY <4>1, <4>4 DEF Counted
      <4>5. CASE passages[p].trainer # "reading"
        <5>1. Cardinality(Kept(p, options)) >= Cardinality(Pairs(p, options))
                                                + Cardinality(Pending(p, options))
          BY <4>1, <4>5 DEF Counted
        <5>2. QED
          BY <4>2, <4>3, <4>5, <5>1
      <4>6. QED
        BY <4>4, <4>5
    <3>7. Option \in Counts /\ {"right"} \in Counts
      BY DEF Counts
    <3>8. QED
      BY <3>1, <3>2, <3>3, <3>5, <3>6, <3>7
  <2>2. QED
    BY <2>1 DEF AnswersCounted
<1>3. IntervalEarned
  BY DEF IntervalEarned, QuizInv, ProgressEarned, Earned, EarnedBy
<1>4. ResultHonest
  <2>1. SUFFICES ASSUME NEW w \in Tab, pc[w] = "shown", NEW r, r = req[w]
                 PROVE  /\ DOMAIN r.data.data \subseteq DOMAIN r.is_correct
                        /\ DOMAIN r.is_correct \subseteq QuestionsOf(r.data.passage, r.data.batch)
                        /\ \A q \in DOMAIN r.is_correct :
                              IF q \in DOMAIN r.data.data
                              THEN \E k \in DOMAIN answers :
                                      answers[k] = [question |-> q, selected |-> r.data.data[q]]
                              ELSE \A x \in DOMAIN r.data.data : questions[x].set # questions[q].set
    BY DEF ResultHonest
  <2>2. Local("shown", r)
    BY <2>1 DEF QuizInv
  <2>3. QED
    BY <2>2 DEF Local, Recorded, OfNoSet
<1>5. QED
  BY <1>1, <1>2, <1>3, <1>4

LEMMA QuizAlways == Spec => [](TypeOK /\ AnswersCounted /\ IntervalEarned /\ ResultHonest)
<1>1. Init => BatchInv /\ QuizInv
  BY BatchInit, QuizInit
<1>2. BatchInv /\ QuizInv /\ [Next]_vars => BatchInv' /\ QuizInv'
  BY BatchNext, QuizNext
<1>3. QED
  BY <1>1, <1>2, QuizStates, PTL DEF Spec

\* The rows refer to one another as they should, and no tab leaves its pages.
THEOREM RowsAgree == Spec => []TypeOK
BY QuizAlways, PTL

\* The answers kept for a reading passage are exactly those of the submissions
\* that moved its progress, for any number of tabs that overlap and are abandoned.
THEOREM AnswersCountedAlways == Spec => []AnswersCounted
BY QuizAlways, PTL

\* No interleaving of tabs that overwrite or prune a progress row gives it more
\* repetitions than submissions have passed, or an interval that they do not give.
THEOREM IntervalEarnedAlways == Spec => []IntervalEarned
BY QuizAlways, PTL

\* A result page shows recorded answers, whatever sets joined the batch since.
THEOREM ResultHonestAlways == Spec => []ResultHonest
BY QuizAlways, PTL
=============================================================================
