----------------------------- MODULE MathTrainer -----------------------------
(***************************************************************************)
(* math_trainer: its sessions, and the three generators of problems that a *)
(* session is filled by.  A generator works on numbers it draws, and on no *)
(* state of the sessions, so that a behaviour here is one of either.       *)
(***************************************************************************)
EXTENDS MathSessions, LinearEquations, SimultaneousEquations, ClockProblems

VARIABLE part       \* what the behaviour is about

mathVars == <<sessionVars, linear, system, clock, part>>

InitMath ==
    /\ InitSessions /\ InitLinear /\ InitSystem /\ InitClock
    /\ part \in {"sessions", "linear", "system", "clock"}

NextMath ==
    /\ UNCHANGED part
    /\ \/ part = "sessions" /\ NextSessions /\ UNCHANGED <<linear, system, clock>>
       \/ part = "linear" /\ NextLinear /\ UNCHANGED <<sessionVars, system, clock>>
       \/ part = "system" /\ NextSystem /\ UNCHANGED <<sessionVars, linear, clock>>
       \/ part = "clock" /\ NextClock /\ UNCHANGED <<sessionVars, linear, system>>

SpecMath == InitMath /\ [][NextMath]_mathVars

\* Whatever the options and the numbers drawn, a problem can be made, the stored
\* answer answers it as it is printed or drawn, and the choices beside it are
\* different from each other and wrong: a mark compares the text that was chosen
\* with the answer's.
OneRightChoice == LinearRight /\ SystemRight /\ ClockRight
=============================================================================
