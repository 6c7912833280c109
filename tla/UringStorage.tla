---------------------------- MODULE UringStorage ----------------------------
(***************************************************************************)
(* tcx::uring_context_storage (include/tcx/services/uring_service.hpp):    *)
(* who owns an io_uring instance while storages, and the results that      *)
(* create() returns them in, are moved, assigned and destroyed.  A context *)
(* moves as its storage does.                                              *)
(*                                                                         *)
(* Functions that return a result construct it in place (NRVO), so only    *)
(* the program moves one.                                                  *)
(***************************************************************************)
EXTENDS NativeResult, FiniteSets

CONSTANTS
  Storages, Results,  \* objects; their memory is used again
  Rings,              \* io_uring instances; each is created once
  NoRing,             \* default_uring()
  Absent,             \* no object is there
  Error               \* an error number of io_uring_queue_init_params

ASSUME StorageAssumption ==
  /\ NoRing \notin Rings /\ Garbage \notin Rings /\ Absent \notin Rings
  /\ Cardinality({NoRing, Garbage, Absent}) = 3
  /\ Absent \notin [first : {0, Error}, second : Rings \cup {NoRing, Garbage}]
  /\ Error \in Nat \ {0}

VARIABLES
  NDEBUG,   \* assertions are compiled out; no step changes it
  status,   \* "alive", "aborted" or "undefined"
  storage,  \* the m_uring of each storage
  result,   \* each native::result<uring_context_storage>
  open,     \* the instances of the kernel
  used,     \* history: rings that were created
  dropped   \* history: rings that were in a result when it was destroyed

vars == <<NDEBUG, status, storage, result, open, used, dropped>>

TypeOK ==
  /\ NDEBUG \in BOOLEAN
  /\ status \in {"alive", "aborted", "undefined"}
  /\ storage \in [Storages -> Rings \cup {NoRing, Garbage, Absent}]
  /\ result \in [Results -> [first : {0, Error}, second : Rings \cup {NoRing, Garbage}]
                              \cup {Absent}]
  /\ open \subseteq used
  /\ used \subseteq Rings
  /\ dropped \subseteq used

Init ==
  /\ NDEBUG \in BOOLEAN
  /\ status = "alive"
  /\ storage = [s \in Storages |-> Absent]
  /\ result = [r \in Results |-> Absent]
  /\ open = {}
  /\ used = {}
  /\ dropped = {}

-----------------------------------------------------------------------------
(* std::exchange(other.m_uring, default_uring()): what is left in other. *)
Exchanged_Copied(ring) == ring

Exchanged(ring) == NoRing

(* Assignment: the rings that io_uring_queue_exit closes. *)
Replaced(s) == {storage[s]} \cap Rings

(* Destruction: the rings that io_uring_queue_exit closes. *)
Exited(s) == {storage[s]} \cap Rings

(* A result's destructor destroys the union around its value, which does   *)
(* nothing: these rings stay open.                                         *)
Forgotten(r) == {result[r].second} \cap Rings

(* The move constructor of a result: the new result, and what is left.     *)
ResultMoved(r) ==
  IF HasValue(result[r]) THEN result[r] ELSE FromError(result[r].first)

ResultLeft(r) ==
  IF HasValue(result[r]) THEN [result[r] EXCEPT !.second = Exchanged(@)] ELSE result[r]

-----------------------------------------------------------------------------
(* uring_context_storage() *)
DefaultConstruct(s) ==
  /\ storage[s] = Absent
  /\ storage' = [storage EXCEPT ![s] = NoRing]
  /\ UNCHANGED <<status, result, open, used, dropped>>

(* create: io_uring_queue_init_params makes a ring in a local storage,     *)
(* which is moved into the result.                                         *)
Create(r, ring) ==
  /\ result[r] = Absent
  /\ ring \notin used
  /\ result' = [result EXCEPT ![r] = FromValue(ring)]
  /\ open' = open \cup {ring}
  /\ used' = used \cup {ring}
  /\ UNCHANGED <<status, storage, dropped>>

(* create: there is no ring. *)
CreateFails(r) ==
  /\ result[r] = Absent
  /\ result' = [result EXCEPT ![r] = FromError(Error)]
  /\ UNCHANGED <<status, storage, open, used, dropped>>

(* A storage is move-constructed from std::move(result).value(), which     *)
(* asserts has_value().                                                    *)
TakeValue(s, r) ==
  /\ storage[s] = Absent
  /\ result[r] # Absent
  /\ NDEBUG \/ HasValue(result[r])
  /\ storage' = [storage EXCEPT ![s] = result[r].second]
  /\ result' = [result EXCEPT ![r].second = Exchanged(@)]
  /\ UNCHANGED <<status, open, used, dropped>>

ValueAborts(r) ==
  /\ result[r] # Absent
  /\ ~NDEBUG /\ ~HasValue(result[r])
  /\ status' = "aborted"
  /\ UNCHANGED <<storage, result, open, used, dropped>>

(* result(result &&) *)
MoveResult(r, from) ==
  /\ result[r] = Absent /\ result[from] # Absent
  /\ result' = [result EXCEPT ![r] = ResultMoved(from), ![from] = ResultLeft(from)]
  /\ UNCHANGED <<status, storage, open, used, dropped>>

(* ~result() *)
DestroyResult(r) ==
  /\ result[r] # Absent
  /\ dropped' = dropped \cup Forgotten(r)
  /\ result' = [result EXCEPT ![r] = Absent]
  /\ UNCHANGED <<status, storage, open, used>>

(* uring_context_storage(uring_context_storage &&) *)
MoveConstruct(s, from) ==
  /\ storage[s] = Absent /\ storage[from] # Absent
  /\ storage' = [storage EXCEPT ![s] = storage[from], ![from] = Exchanged(@)]
  /\ UNCHANGED <<status, result, open, used, dropped>>

(* operator=: a storage without a ring does not take the other's. *)
MoveAssign(s, from) ==
  /\ s # from
  /\ storage[s] \in Rings \cup {NoRing} /\ storage[from] # Absent
  /\ IF storage[s] # NoRing
     THEN /\ storage' = [storage EXCEPT ![s] = storage[from], ![from] = Exchanged(@)]
          /\ open' = open \ Replaced(s)
     ELSE UNCHANGED <<storage, open>>
  /\ UNCHANGED <<status, result, used, dropped>>

(* ~uring_context_storage() *)
Destruct(s) ==
  /\ storage[s] \in Rings \cup {NoRing}
  /\ storage' = [storage EXCEPT ![s] = Absent]
  /\ open' = open \ Exited(s)
  /\ UNCHANGED <<status, result, used, dropped>>

(* Assignment to, or destruction of, a storage that was made of memory     *)
(* nobody wrote, the value of a result with an error or of a moved one.    *)
ExitUndefined(s) ==
  /\ storage[s] = Garbage
  /\ status' = "undefined"
  /\ UNCHANGED <<storage, result, open, used, dropped>>

Next ==
  /\ status = "alive"
  /\ UNCHANGED NDEBUG
  /\ \/ \E s \in Storages :
          \/ DefaultConstruct(s) \/ Destruct(s) \/ ExitUndefined(s)
          \/ \E r \in Results : TakeValue(s, r)
          \/ \E from \in Storages : MoveConstruct(s, from) \/ MoveAssign(s, from)
     \/ \E r \in Results :
          \/ \E ring \in Rings : Create(r, ring)
          \/ CreateFails(r) \/ ValueAborts(r) \/ DestroyResult(r)
          \/ \E from \in Results : MoveResult(r, from)

Spec == Init /\ [][Next]_vars

-----------------------------------------------------------------------------
InStorage(s, ring) == storage[s] = ring

InResult(r, ring) == result[r] # Absent /\ result[r].second = ring

(* However storages and results are moved, assigned and destroyed, a ring  *)
(* that is open is in one of them, and only one, unless a result was       *)
(* destroyed with it; and none of them has a ring that was closed, which   *)
(* it would use, or close again (uring_service.hpp:57-114,                 *)
(* result.hpp:129-170).                                                    *)
OneHolder ==
  \A ring \in Rings :
    /\ ring \in open \ dropped <=> \/ \E s \in Storages : InStorage(s, ring)
                                  \/ \E r \in Results : InResult(r, ring)
    /\ \A s, u \in Storages : InStorage(s, ring) /\ InStorage(u, ring) => s = u
    /\ \A r, q \in Results : InResult(r, ring) /\ InResult(q, ring) => r = q
    /\ \A s \in Storages, r \in Results : ~(InStorage(s, ring) /\ InResult(r, ring))
=============================================================================
