----------------------------- MODULE WebServer -----------------------------
(* What the applications of the site share beside their tables. *)

CONSTANT Worker  \* the requests the web server handles at a time
=============================================================================
