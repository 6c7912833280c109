--------------------------- MODULE MCPollService ----------------------------
(***************************************************************************)
(* A small instance of PollService for TLC.                                *)
(***************************************************************************)
EXTENDS PollService

(* Completions are alike; descriptors are not, they are ordered. *)
Symmetry == Permutations(Handlers)
=============================================================================
