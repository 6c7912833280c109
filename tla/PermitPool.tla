----------------------------- MODULE PermitPool -----------------------------
(***************************************************************************)
(* What a counting semaphore promises to the code that uses it, without    *)
(* the counter and the list that implement it: a pool of permits, the      *)
(* handlers that asked for one, and the handlers that were given one.      *)
(* Handlers are admitted in no particular order, as the documentation of   *)
(* tcx::basic_semaphore allows (semaphore.hpp:34).                         *)
(***************************************************************************)
EXTENDS Naturals

CONSTANTS
  Handlers,  \* completion handlers
  Desired,   \* permits in the pool at first
  Updates    \* how many permits one call may put back

VARIABLES
  permits,   \* free permits
  asking,    \* handlers that asked and were not admitted
  admitted   \* handlers that own, or owned, a permit

poolVars == <<permits, asking, admitted>>

PoolInit ==
  /\ permits = Desired
  /\ asking = {}
  /\ admitted = {}

(* A handler asks and has to wait. *)
Ask(h) ==
  /\ h \notin asking \cup admitted
  /\ asking' = asking \cup {h}
  /\ UNCHANGED <<permits, admitted>>

(* A waiting handler is given a free permit. *)
Admit(h) ==
  /\ h \in asking
  /\ permits > 0
  /\ permits' = permits - 1
  /\ asking' = asking \ {h}
  /\ admitted' = admitted \cup {h}

(* A handler asks while a permit is free and does not wait. *)
AdmitAtOnce(h) ==
  /\ h \notin asking \cup admitted
  /\ permits > 0
  /\ permits' = permits - 1
  /\ admitted' = admitted \cup {h}
  /\ UNCHANGED asking

(* A caller without a handler takes a free permit. *)
Take ==
  /\ permits > 0
  /\ permits' = permits - 1
  /\ UNCHANGED <<asking, admitted>>

(* Permits are put (back) into the pool. *)
Give(u) ==
  /\ permits' = permits + u
  /\ UNCHANGED <<asking, admitted>>

PoolNext ==
  \/ \E h \in Handlers : Ask(h) \/ Admit(h) \/ AdmitAtOnce(h)
  \/ Take
  \/ \E u \in Updates : Give(u)

PoolSpec == PoolInit /\ [][PoolNext]_poolVars
=============================================================================
