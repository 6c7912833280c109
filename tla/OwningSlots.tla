---------------------------- MODULE OwningSlots -----------------------------
(***************************************************************************)
(* What unique_function promises: a slot holds one callable or none, moves *)
(* exchange what two slots hold, and a callable is destroyed once, with    *)
(* the slot that holds it.                                                 *)
(***************************************************************************)
CONSTANTS
  Slots,
  Targets,  \* callables; each is made once
  Nothing

VARIABLES
  holds,     \* what each slot that exists holds
  destroyed  \* callables destroyed with their slot

slotVars == <<holds, destroyed>>

SlotsInit ==
  /\ holds = [s \in {} |-> Nothing]
  /\ destroyed = {}

Held == {holds[s] : s \in DOMAIN holds} \ {Nothing}

With(s, x) == [r \in DOMAIN holds \cup {s} |-> IF r = s THEN x ELSE holds[r]]

Without(s) == [r \in DOMAIN holds \ {s} |-> holds[r]]

Make(s, x) ==
  /\ s \notin DOMAIN holds
  /\ x \notin Held \cup destroyed
  /\ holds' = With(s, x)
  /\ UNCHANGED destroyed

TakeOver(s, r) ==
  /\ s \notin DOMAIN holds
  /\ r \in DOMAIN holds
  /\ holds' = [With(s, holds[r]) EXCEPT ![r] = Nothing]
  /\ UNCHANGED destroyed

Exchange(s, r) ==
  /\ {s, r} \subseteq DOMAIN holds
  /\ holds' = [holds EXCEPT ![s] = holds[r], ![r] = holds[s]]
  /\ UNCHANGED destroyed

Destroy(s) ==
  /\ s \in DOMAIN holds
  /\ holds' = Without(s)
  /\ destroyed' = destroyed \cup ({holds[s]} \ {Nothing})

SlotsNext ==
  \E s \in Slots :
    \/ \E x \in Targets \cup {Nothing} : Make(s, x)
    \/ \E r \in Slots : TakeOver(s, r) \/ Exchange(s, r)
    \/ Destroy(s)

SlotsSpec == SlotsInit /\ [][SlotsNext]_slotVars
=============================================================================
