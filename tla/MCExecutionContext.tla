------------------------- MODULE MCExecutionContext -------------------------
(***************************************************************************)
(* A small instance of ExecutionContext for TLC.                           *)
(***************************************************************************)
EXTENDS ExecutionContext
=============================================================================
