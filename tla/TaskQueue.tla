------------------------------ MODULE TaskQueue -----------------------------
(***************************************************************************)
(* What an execution context promises to the code that posts functions to  *)
(* it: a function is started once, in the order of the calls of post, and  *)
(* a function that was started ends once, by returning or by throwing.     *)
(***************************************************************************)
EXTENDS Naturals, Sequences

CONSTANT Tasks  \* functions; each is posted once

VARIABLES
  waiting,   \* posted and not started, oldest first
  running,   \* started and not ended
  ended

queueVars == <<waiting, running, ended>>

Waits(x) == \E i \in 1..Len(waiting) : waiting[i] = x

QueueInit ==
  /\ waiting = <<>>
  /\ running = {}
  /\ ended = {}

Submit(x) ==
  /\ ~Waits(x)
  /\ x \notin running \cup ended
  /\ waiting' = Append(waiting, x)
  /\ UNCHANGED <<running, ended>>

Start ==
  /\ waiting # <<>>
  /\ waiting' = Tail(waiting)
  /\ running' = running \cup {Head(waiting)}
  /\ UNCHANGED ended

End(x) ==
  /\ x \in running
  /\ running' = running \ {x}
  /\ ended' = ended \cup {x}
  /\ UNCHANGED waiting

QueueNext == Start \/ \E x \in Tasks : Submit(x) \/ End(x)

QueueSpec == QueueInit /\ [][QueueNext]_queueVars
=============================================================================
