--------------------------- MODULE TrainerQuizzes ---------------------------
(***************************************************************************)
(* The vocabulary and the chemistry quizzes of one server.  The two apps   *)
(* share the students and no table, so that what the one does tells        *)
(* nothing of the other: a behaviour here is one of either.                *)
(***************************************************************************)
EXTENDS VocabProgress, ChemProgress

VARIABLE app     \* the app whose requests the behaviour is about

quizVars == <<vocabVars, chemVars, app>>

InitQuizzes == InitVocab /\ InitChem /\ app \in {"vocab", "chem"}

NextQuizzes ==
    \/ app = "vocab" /\ NextVocab /\ UNCHANGED <<chemVars, app>>
    \/ app = "chem" /\ NextChem /\ UNCHANGED <<vocabVars, app>>

SpecQuizzes == InitQuizzes /\ [][NextQuizzes]_quizVars

\* Both apps read counters, add to them and save them whole, vocab_trainer with
\* the row locked after it was read and chem_trainer without any lock: what is stored
\* stays a rate of answers given, and misses none but for requests that overlap.
RatesSane == VocabRates /\ ChemRates
=============================================================================
