----------------------------- MODULE UniqueLock -----------------------------
(***************************************************************************)
(* tcx::unique_lock (include/tcx/async/locks/guard.hpp), and async_acquire *)
(* with a lock (include/tcx/async/locks/acquire.hpp), over one semaphore.  *)
(*                                                                         *)
(* The calls of the semaphore are single steps here: module Semaphore is   *)
(* about their interleavings, this one about the objects that make them.   *)
(* unique_lock declares a destructor and no copy or move operation, so the *)
(* compiler adds a copy constructor and a copy assignment, and moving a    *)
(* lock copies it too.                                                     *)
(*                                                                         *)
(* The wrapper of acquire.hpp:22 calls its handler with an empty error and *)
(* the lock, two arguments, while the concept that a handler has to        *)
(* satisfy (concepts.hpp:39) asks for a call with one variant.  Handlers   *)
(* here are those that take both: tcx::detached and variadic lambdas, and  *)
(* not tcx::use_awaitable.                                                 *)
(***************************************************************************)
EXTENDS Integers, FiniteSets

CONSTANTS
  Locks,     \* unique_lock objects; storage is used again after destruction
  Handlers,  \* completion handlers; each is passed to async_acquire once
  NoLock,    \* no object is there
  Desired,   \* the semaphore's initial counter
  MaxExtra   \* bound of the model: copies of owning locks

ASSUME UniqueLockAssumption ==
  /\ NoLock \notin [m_sem : BOOLEAN, m_locked : BOOLEAN]
  /\ Desired \in Nat
  /\ MaxExtra \in Nat

VARIABLES
  m_count,      \* the semaphore's counter
  m_functions,  \* handlers stored in the semaphore
  posted,       \* handlers in the executor
  called,       \* handlers that were called with a lock
  lock,         \* each lock: does m_sem point to the semaphore, and m_locked
  loose,        \* permits of which release() has relieved a lock: the
                \* program gives them back itself
  extra         \* history: owning locks copied, minus owning locks overwritten

semaphore == <<m_count, m_functions, posted>>
vars == <<semaphore, called, lock, loose, extra>>

TypeOK ==
  /\ m_count \in Int
  /\ m_functions \subseteq Handlers
  /\ posted \subseteq Handlers
  /\ called \subseteq Handlers
  /\ lock \in [Locks -> [m_sem : BOOLEAN, m_locked : BOOLEAN] \cup {NoLock}]
  /\ loose \in Nat
  /\ extra \in Int

Init ==
  /\ m_count = Desired
  /\ m_functions = {}
  /\ posted = {}
  /\ called = {}
  /\ lock = [l \in Locks |-> NoLock]
  /\ loose = 0
  /\ extra = 0

-----------------------------------------------------------------------------
(* The semaphore's calls. *)

(* try_acquire returns true. *)
Free_AtZero == m_count >= 0

Free == m_count > 0

(* release: how many stored handlers it posts. *)
Admits(update) ==
  IF m_count + update > 0 /\ m_count < 0 THEN -m_count ELSE 0

SemaphoreRelease(update) ==
  /\ m_count' = m_count + update
  /\ \E S \in SUBSET m_functions :
       /\ Cardinality(S) = Admits(update)
       /\ m_functions' = m_functions \ S
       /\ posted' = posted \cup S

-----------------------------------------------------------------------------
(* unique_lock *)

Exists(l) == lock[l] # NoLock

Owns(l) == Exists(l) /\ lock[l].m_sem /\ lock[l].m_locked

Owning == {l \in Locks : Owns(l)}

Set(l, value) == lock' = [lock EXCEPT ![l] = value]

(* unique_lock(s, adopt_lock): the permit is there already. *)
Adopted == [m_sem |-> TRUE, m_locked |-> TRUE]

(* unique_lock() *)
ConstructDefault(l) ==
  /\ ~Exists(l)
  /\ Set(l, [m_sem |-> FALSE, m_locked |-> FALSE])
  /\ UNCHANGED <<semaphore, called, loose, extra>>

(* unique_lock(s, defer_lock) *)
ConstructDefer(l) ==
  /\ ~Exists(l)
  /\ Set(l, [m_sem |-> TRUE, m_locked |-> FALSE])
  /\ UNCHANGED <<semaphore, called, loose, extra>>

(* unique_lock(s, try_to_lock) *)
ConstructTry(l) ==
  /\ ~Exists(l)
  /\ Set(l, [m_sem |-> TRUE, m_locked |-> Free])
  /\ m_count' = IF Free THEN m_count - 1 ELSE m_count
  /\ UNCHANGED <<m_functions, posted, called, loose, extra>>

(* async_acquire with a lock: the handler is wrapped and given to the      *)
(* semaphore, which posts or stores it.                                    *)
AsyncAcquire(h) ==
  /\ h \notin m_functions \cup posted \cup called
  /\ m_count' = m_count - 1
  /\ IF m_count > 0 THEN posted' = posted \cup {h} /\ UNCHANGED m_functions
                    ELSE m_functions' = m_functions \cup {h} /\ UNCHANGED posted
  /\ UNCHANGED <<called, lock, loose, extra>>

(* The executor calls the wrapper, which calls the handler with a lock     *)
(* made with adopt_lock.                                                   *)
CallWithLock(h, l) ==
  /\ h \in posted
  /\ ~Exists(l)
  /\ posted' = posted \ {h}
  /\ called' = called \cup {h}
  /\ Set(l, Adopted)
  /\ UNCHANGED <<m_count, m_functions, loose, extra>>

(* release(): the lock forgets the semaphore, and the permit with it. *)
Release(l) ==
  /\ Exists(l)
  /\ Set(l, [lock[l] EXCEPT !.m_sem = FALSE])
  /\ loose' = IF Owns(l) THEN loose + 1 ELSE loose
  /\ UNCHANGED <<semaphore, called, extra>>

(* The program gives back permits it got from release(). *)
ReturnLoose(update) ==
  /\ update <= loose
  /\ SemaphoreRelease(update)
  /\ loose' = loose - update
  /\ UNCHANGED <<called, lock, extra>>

(* unlock(): what is left of the lock.  m_locked keeps its value. *)
Unlocked_StillPointing(l) == lock[l]

Unlocked(l) == IF Owns(l) THEN [lock[l] EXCEPT !.m_sem = FALSE] ELSE lock[l]

Unlock(l) ==
  /\ Exists(l)
  /\ IF Owns(l) THEN SemaphoreRelease(1) ELSE UNCHANGED semaphore
  /\ Set(l, Unlocked(l))
  /\ UNCHANGED <<called, loose, extra>>

(* ~unique_lock() *)
Destruct(l) ==
  /\ Exists(l)
  /\ IF Owns(l) THEN SemaphoreRelease(1) ELSE UNCHANGED semaphore
  /\ Set(l, NoLock)
  /\ UNCHANGED <<called, loose, extra>>

(* The implicit copy constructor. *)
CopyConstruct(l, from) ==
  /\ ~Exists(l) /\ Exists(from)
  /\ Owns(from) => extra < MaxExtra
  /\ Set(l, lock[from])
  /\ extra' = IF Owns(from) THEN extra + 1 ELSE extra
  /\ UNCHANGED <<semaphore, called, loose>>

(* The implicit copy assignment; it does not unlock what it overwrites. *)
CopyAssign(l, from) ==
  /\ l # from
  /\ Exists(l) /\ Exists(from)
  /\ extra + Cardinality({from} \cap Owning) - Cardinality({l} \cap Owning) <= MaxExtra
  /\ Set(l, lock[from])
  /\ extra' = extra + Cardinality({from} \cap Owning) - Cardinality({l} \cap Owning)
  /\ UNCHANGED <<semaphore, called, loose>>

Next ==
  \/ \E h \in Handlers : AsyncAcquire(h) \/ \E l \in Locks : CallWithLock(h, l)
  \/ \E l \in Locks :
       \/ ConstructDefault(l) \/ ConstructDefer(l) \/ ConstructTry(l)
       \/ Release(l) \/ Unlock(l) \/ Destruct(l)
       \/ \E from \in Locks : CopyConstruct(l, from) \/ CopyAssign(l, from)
  \/ \E update \in 1..loose : ReturnLoose(update)

Spec == Init /\ [][Next]_vars

-----------------------------------------------------------------------------
(* Every permit is somewhere, once: in the counter, with a handler that    *)
(* waits or was posted, with a lock, or with the program.  Only a copy of  *)
(* an owning lock makes a permit out of nothing, and only an assignment to *)
(* an owning lock loses one: unlock() and then the destructor, release()   *)
(* and then unlock(), a handler called with a lock, do neither             *)
(* (guard.hpp:32-81, acquire.hpp:21-23).                                   *)
PermitsAccounted ==
  m_count + Cardinality(m_functions) + Cardinality(posted)
    + Cardinality(Owning) + loose = Desired + extra

(* Locks exclude each other, whatever waits in the semaphore: no more of   *)
(* them own a permit, or are about to, than the semaphore started with and *)
(* copies have made, so without copies of owning locks no more than        *)
(* Desired (guard.hpp:60-81, semaphore.hpp:84, 100, 118-119).              *)
ExcludesOthers ==
  Cardinality(Owning) + Cardinality(posted) + loose <= Desired + extra
=============================================================================
