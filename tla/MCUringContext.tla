--------------------------- MODULE MCUringContext ---------------------------
(***************************************************************************)
(* Small instances of UringContext for TLC.                                *)
(***************************************************************************)
EXTENDS UringContext

CONSTANTS a, b, c, m

(* a needs no event, c and m do; b cancels c. *)
Mixed == a :> "statx" @@ b :> "cancel_fd" @@ c :> "accept" @@ m :> "poll_multishot"

Few == a :> "read" @@ m :> "poll_multishot"
=============================================================================
