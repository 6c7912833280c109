---------------------------- MODULE MCUniqueLock ----------------------------
(***************************************************************************)
(* A small instance of UniqueLock for TLC.                                 *)
(***************************************************************************)
EXTENDS UniqueLock, TLC

(* Locks are alike, and so are handlers. *)
Symmetry == Permutations(Locks) \cup Permutations(Handlers)
=============================================================================
