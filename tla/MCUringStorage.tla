--------------------------- MODULE MCUringStorage ---------------------------
(***************************************************************************)
(* A small instance of UringStorage for TLC.                               *)
(***************************************************************************)
EXTENDS UringStorage, TLC

(* Storages are alike, and so are results and rings. *)
Symmetry == Permutations(Storages) \cup Permutations(Results) \cup Permutations(Rings)
=============================================================================
