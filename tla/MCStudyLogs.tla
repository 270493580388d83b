---------------------------- MODULE MCStudyLogs ----------------------------
(* An instance of StudyLogs for TLC. *)
EXTENDS StudyLogs

CONSTANTS w1, w2
=============================================================================
