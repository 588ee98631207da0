---------------------------- MODULE EngineClaims ----------------------------
(***************************************************************************)
(* What a test of the repository says of the engine and the code does not  *)
(* do; a run finds the behaviour against it.                               *)
(***************************************************************************)
EXTENDS MCEngine

\* scheduler.rs:722, every_admitted_request_eventually_finishes: "the scheduler
\* never deadlocks or drops anyone".
NeverLivelocks == EveryRequestEnds
=============================================================================
