-------------------------- MODULE MCUniqueFunction --------------------------
(***************************************************************************)
(* Small instances of UniqueFunction for TLC.                              *)
(***************************************************************************)
EXTENDS UniqueFunction, TLC

CONSTANTS small, aligned

(* One callable at the start of the storage and one at the next alignment. *)
TwoAlignments == small :> 0 @@ aligned :> 8

Symmetry == Permutations(Functions)
=============================================================================
