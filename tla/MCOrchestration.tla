--------------------------- MODULE MCOrchestration ---------------------------
(***************************************************************************)
(* Orchestration for TLC: a pipeline of two steps, a fan-out of two        *)
(* members with its judge, on three runs.                                  *)
(***************************************************************************)
EXTENDS Orchestration, TLC
==============================================================================
