-------------------------- MODULE MCAsyncOperation --------------------------
(***************************************************************************)
(* Small instances of AsyncOperation for TLC.                              *)
(***************************************************************************)
EXTENDS AsyncOperation, TLC

CONSTANTS a, b, c

Mixed == {a :> first @@ b :> "stat" @@ c :> "close" : first \in {"open", "read"}}

Opening == {a :> "open"}
=============================================================================
