-------------------------- MODULE TrainerRequests --------------------------
(* What the trainers of one web server have in common. *)
EXTENDS WebServer, Integers

CONSTANTS
    Student,    \* the students
    MaxAnswers  \* bound: answers posted

ASSUME BoundAssumption == MaxAnswers \in Nat
=============================================================================
