---------------------------- MODULE MCSemaphore -----------------------------
(***************************************************************************)
(* Small instances of Semaphore for TLC.                                   *)
(***************************************************************************)
EXTENDS Semaphore, TLC

(* Nothing in the code tells threads, or handlers, apart. *)
Symmetry == Permutations(Threads) \cup Permutations(Handlers)
=============================================================================
