------------------------------ MODULE MCEngine ------------------------------
(***************************************************************************)
(* The engine on small instances: the scheduler's, with channels.          *)
(***************************************************************************)
EXTENDS MCScheduler, Engine
=============================================================================
