------------------------- MODULE MCReminderPipeline -------------------------
(* Instances of ReminderPipeline for TLC. *)
EXTENDS ReminderPipeline

CONSTANTS w1, w2, r1, r2
=============================================================================
