--------------------------- MODULE CompletionRing ---------------------------
(***************************************************************************)
(* What an io_uring context promises to the code that starts operations on *)
(* it: an accepted operation gives rise to entries, one of them its last,  *)
(* and each entry is dispatched once, in the order in which the operations *)
(* made progress.                                                          *)
(***************************************************************************)
EXTENDS Naturals, Sequences

CONSTANT Ops  \* operations; each is started once

VARIABLES
  accepted,   \* operations whose last entry is still to come
  entries,    \* not dispatched yet, oldest first
  concluded   \* operations whose last entry was made

ringVars == <<accepted, entries, concluded>>

RingInit ==
  /\ accepted = {}
  /\ entries = <<>>
  /\ concluded = {}

Accept(o) ==
  /\ o \notin accepted \cup concluded
  /\ accepted' = accepted \cup {o}
  /\ UNCHANGED <<entries, concluded>>

Progress(o) ==
  /\ o \in accepted
  /\ entries' = Append(entries, [op |-> o, last |-> FALSE])
  /\ UNCHANGED <<accepted, concluded>>

Conclude(o) ==
  /\ o \in accepted
  /\ entries' = Append(entries, [op |-> o, last |-> TRUE])
  /\ accepted' = accepted \ {o}
  /\ concluded' = concluded \cup {o}

Dispatch ==
  /\ entries # <<>>
  /\ entries' = Tail(entries)
  /\ UNCHANGED <<accepted, concluded>>

RingNext == Dispatch \/ \E o \in Ops : Accept(o) \/ Progress(o) \/ Conclude(o)

RingSpec == RingInit /\ [][RingNext]_ringVars
=============================================================================
