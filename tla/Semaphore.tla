----------------------------- MODULE Semaphore ------------------------------
(***************************************************************************)
(* tcx::basic_semaphore (include/tcx/semaphore.hpp).                       *)
(*                                                                         *)
(* Threads call async_acquire, try_acquire and release concurrently.  Each *)
(* access to the atomic counter m_count, each operation on the lock-free   *)
(* queue m_functions and each call of executor().post is one step; any     *)
(* other thread may run between two of them.                               *)
(*                                                                         *)
(* m_functions is a moodycamel::ConcurrentQueue, which orders the items of *)
(* one producer only, so it is a set here: a dequeue may return any item.  *)
(* With Spurious a try_dequeue may also miss items that other threads      *)
(* store, which that queue's documentation does not rule out.              *)
(***************************************************************************)
EXTENDS Integers, FiniteSets

CONSTANTS
  Threads,    \* threads that call the semaphore
  Handlers,   \* completion handlers; each is passed to async_acquire once
  EMPTY,      \* a default constructed function_storage
  Desired,    \* the constructor's initial value of the counter
  Updates,    \* the arguments release is called with
  MaxIssued,  \* bound of the model: permits ever put into the semaphore
  Builds,     \* the values NDEBUG may have: TRUE without assertions
  Spurious    \* TRUE if try_dequeue may fail although something is stored

ASSUME SemaphoreAssumption ==
  /\ EMPTY \notin Handlers
  /\ Desired \in Nat
  /\ Updates \subseteq Nat \ {0}
  /\ MaxIssued \in Nat
  /\ Builds \subseteq BOOLEAN
  /\ Spurious \in BOOLEAN

VARIABLES
  NDEBUG,       \* how the program was built; no step changes it
  m_count,      \* std::atomic<value_type> m_count
  m_functions,  \* handlers stored in the queue
  posted,       \* how often executor().post got each function; 2: or more
  status,       \* of the object: alive, destroyed or ended by an assertion
  pc,           \* what each thread does next
  f,            \* the handler a thread has in its hands
  old,          \* try_acquire's last look at the counter
  left,         \* iterations of release's loop a thread has yet to make
  issued,       \* history: Desired plus every update added by release
  taken         \* history: successful calls of try_acquire

objectVars == <<m_count, m_functions, posted, status>>
threadVars == <<pc, f, old, left>>
historyVars == <<issued, taken>>
vars == <<NDEBUG, objectVars, threadVars, historyVars>>

PCs == {"idle", "post", "enqueue", "cas", "dequeue"}
Statuses == {"alive", "destroyed", "release assertion", "destructor assertion"}

TypeOK ==
  /\ m_count \in Int
  /\ m_functions \subseteq Handlers
  /\ posted \in [Handlers \cup {EMPTY} -> 0..2]
  /\ status \in Statuses
  /\ pc \in [Threads -> PCs]
  /\ f \in [Threads -> Handlers \cup {EMPTY}]
  /\ old \in [Threads -> Int]
  /\ left \in [Threads -> Nat]
  /\ issued \in Nat
  /\ taken \in Nat

Init ==
  /\ NDEBUG \in Builds
  /\ m_count = Desired
  /\ m_functions = {}
  /\ posted = [x \in Handlers \cup {EMPTY} |-> 0]
  /\ status = "alive"
  /\ pc = [t \in Threads |-> "idle"]
  /\ f = [t \in Threads |-> EMPTY]
  /\ old = [t \in Threads |-> 0]
  /\ left = [t \in Threads |-> 0]
  /\ issued = Desired
  /\ taken = 0

-----------------------------------------------------------------------------
(* Where a handler is. *)

Storing == {f[t] : t \in {s \in Threads : pc[s] = "enqueue"}}

Waiting == m_functions \cup Storing

InHand == {f[t] : t \in {s \in Threads : pc[s] = "post"}} \ {EMPTY}

Posted == {h \in Handlers : posted[h] > 0}

Admitted == Posted \cup InHand

(* The dequeues that releases in progress have yet to make. *)
Claims == UNION {{t} \X (1..left[t]) : t \in Threads}

(* Negative counter: handlers the counter says are waiting. *)
Deficit == IF m_count < 0 THEN -m_count ELSE 0

-----------------------------------------------------------------------------
(* The calls.  Every step needs the object to exist. *)

At(t, label) == status = "alive" /\ pc[t] = label

Goto(t, label) == pc' = [pc EXCEPT ![t] = label]

(* The decisions the code takes on a value of the counter.  A definition   *)
(* named after another one and a fault (OwnsPermit_OffByOne) is that       *)
(* decision with the fault in it; PROJECT.json names the property that     *)
(* tells the two apart.                                                    *)

(* async_acquire: value >= 0. *)
OwnsPermit_OffByOne(value) == value >= -1

OwnsPermit(value) == value >= 0

(* try_acquire: compare_exchange_strong finds the value it expects. *)
Exchanges_Blindly(t) == TRUE

Exchanges(t) == m_count = old[t]

(* release: the iterations of its loop, from i = 0 to i < -old. *)
Iterations_Update(update) == IF m_count < 0 THEN update ELSE 0

Iterations_OneMore(update) ==
  IF m_count + update > 0 /\ m_count < 0 THEN 1 - m_count ELSE 0

Iterations(update) ==
  IF m_count + update > 0 /\ m_count < 0 THEN -m_count ELSE 0

(* release: ++i. *)
NextIteration_Missing(t) == left

NextIteration(t) == [left EXCEPT ![t] = @ - 1]

(* release: what try_dequeue leaves in the queue. *)
Without(h) == m_functions \ {h}

(* async_acquire: fetch_sub, then the branch on its result. *)
AsyncAcquire_EnqueuesFirst(t, h) ==
  /\ At(t, "idle")
  /\ h \notin Waiting \cup Admitted
  /\ m_count' = m_count - 1
  /\ m_functions' = m_functions \cup {h}
  /\ f' = [f EXCEPT ![t] = IF OwnsPermit(m_count - 1) THEN h ELSE EMPTY]
  /\ Goto(t, IF OwnsPermit(m_count - 1) THEN "post" ELSE "idle")
  /\ UNCHANGED <<posted, status, old, left, historyVars>>

AsyncAcquire(t, h) ==
  /\ At(t, "idle")
  /\ h \notin Waiting \cup Admitted
  /\ m_count' = m_count - 1
  /\ f' = [f EXCEPT ![t] = h]
  /\ Goto(t, IF OwnsPermit(m_count - 1) THEN "post" ELSE "enqueue")
  /\ UNCHANGED <<m_functions, posted, status, old, left, historyVars>>

(* async_acquire, negative counter: m_functions.enqueue. *)
Enqueue(t) ==
  /\ At(t, "enqueue")
  /\ m_functions' = m_functions \cup {f[t]}
  /\ f' = [f EXCEPT ![t] = EMPTY]
  /\ Goto(t, "idle")
  /\ UNCHANGED <<m_count, posted, status, old, left, historyVars>>

(* executor().post, of async_acquire and of each iteration of release. *)
Post(t) ==
  /\ At(t, "post")
  /\ posted' = [posted EXCEPT ![f[t]] = IF @ = 0 THEN 1 ELSE 2]
  /\ f' = [f EXCEPT ![t] = EMPTY]
  /\ Goto(t, IF left[t] > 0 THEN "dequeue" ELSE "idle")
  /\ UNCHANGED <<m_count, m_functions, status, old, left, historyVars>>

(* try_acquire: the load, and the return of false when it is not positive. *)
TryLoad(t) ==
  /\ At(t, "idle")
  /\ m_count > 0
  /\ old' = [old EXCEPT ![t] = m_count]
  /\ Goto(t, "cas")
  /\ UNCHANGED <<objectVars, f, left, historyVars>>

(* try_acquire: compare_exchange_strong; a failure reloads old and loops. *)
TryCas(t) ==
  /\ At(t, "cas")
  /\ \/ /\ Exchanges(t)
        /\ m_count' = old[t] - 1
        /\ taken' = taken + 1
        /\ Goto(t, "idle")
        /\ UNCHANGED old
     \/ /\ ~Exchanges(t)
        /\ old' = [old EXCEPT ![t] = m_count]
        /\ Goto(t, IF m_count <= 0 THEN "idle" ELSE "cas")
        /\ UNCHANGED <<m_count, taken>>
  /\ UNCHANGED <<m_functions, posted, status, f, left, issued>>

(* release: fetch_add, the test old + update > 0 and the loop's bound. *)
Release(t, update) ==
  /\ At(t, "idle")
  /\ issued + update <= MaxIssued
  /\ m_count' = m_count + update
  /\ issued' = issued + update
  /\ left' = [left EXCEPT ![t] = Iterations(update)]
  /\ Goto(t, IF Iterations(update) > 0 THEN "dequeue" ELSE "idle")
  /\ UNCHANGED <<m_functions, posted, status, f, old, taken>>

(* release, one iteration: try_dequeue returns a handler. *)
Dequeue(t) ==
  /\ At(t, "dequeue")
  /\ \E h \in m_functions :
       /\ m_functions' = Without(h)
       /\ f' = [f EXCEPT ![t] = h]
  /\ left' = NextIteration(t)
  /\ Goto(t, "post")
  /\ UNCHANGED <<m_count, posted, status, old, historyVars>>

(* release, one iteration: try_dequeue fails.  The assertion ends a debug  *)
(* build; without it the empty function is posted.                         *)
DequeueFails(t) ==
  /\ At(t, "dequeue")
  /\ m_functions = {} \/ Spurious
  /\ \/ /\ NDEBUG
        /\ left' = NextIteration(t)
        /\ Goto(t, "post")
        /\ UNCHANGED status
     \/ /\ ~NDEBUG
        /\ status' = "release assertion"
        /\ UNCHANGED <<pc, left>>
  /\ UNCHANGED <<m_count, m_functions, posted, f, old, historyVars>>

(* The destructor, which no call may overlap.  A debug build asserts that  *)
(* m_functions.size_approx() is not zero.                                  *)
Destroy ==
  /\ \A t \in Threads : At(t, "idle")
  /\ status' = IF ~NDEBUG /\ m_functions = {}
               THEN "destructor assertion" ELSE "destroyed"
  /\ UNCHANGED <<m_count, m_functions, posted, threadVars, historyVars>>

Step(t) == Enqueue(t) \/ Post(t) \/ TryCas(t) \/ Dequeue(t) \/ DequeueFails(t)

Call(t) ==
  \/ \E h \in Handlers : AsyncAcquire(t, h)
  \/ TryLoad(t)
  \/ \E u \in Updates : Release(t, u)

Next ==
  /\ UNCHANGED NDEBUG
  /\ (\E t \in Threads : Call(t) \/ Step(t)) \/ Destroy

Spec == Init /\ [][Next]_vars

(* A call that has begun goes on: threads are scheduled. *)
FairSpec == Spec /\ \A t \in Threads : WF_vars(Step(t) /\ UNCHANGED NDEBUG)

-----------------------------------------------------------------------------
(* Safety. *)

(* The semaphore never admits more callers than it was given permits,      *)
(* whatever the order in which fetch_sub, fetch_add, enqueue and dequeue   *)
(* of different threads fall (semaphore.hpp:84-88, 98-104, 118-125).       *)
NoOverAdmission == Cardinality(Admitted) + taken <= issued

(* The counter is at every moment the permits put in, less those taken and *)
(* less one for each handler that is admitted or waits: no update is lost  *)
(* or made twice between the reads and the writes of different threads,    *)
(* and to store, dequeue or post a handler costs nothing more than the one *)
(* fetch_sub of its async_acquire (semaphore.hpp:84-88, 102-103, 118-124). *)
Ledger == m_count = issued - taken - Cardinality(Admitted) - Cardinality(Waiting)

(* A handler is handed to the executor at most once, and not while it is   *)
(* still stored or about to be stored (semaphore.hpp:85, 87, 121-123).     *)
PostedOnce ==
  /\ \A h \in Handlers : posted[h] <= 1
  /\ Waiting \cap Admitted = {}

(* Every dequeue that a release has still to make, and every unit the      *)
(* counter is below zero, is matched by a handler that is stored or is on  *)
(* its way into the queue (semaphore.hpp:84, 87, 118-121).                 *)
ClaimsCovered == Cardinality(Claims) + Deficit <= Cardinality(Waiting)

(* release finds the queue empty only while some async_acquire is between  *)
(* its fetch_sub and its enqueue (semaphore.hpp:84-87, 121-122).           *)
EmptyOnlyWhileStoring ==
  \A t \in Threads : pc[t] = "dequeue" /\ m_functions = {} => Storing # {}

(* try_acquire takes only from a positive counter, although it decides on  *)
(* a value it read earlier (semaphore.hpp:98-103).                         *)
TryTakesFreePermit == [][taken' > taken => m_count > 0]_vars

(* The semaphore implements the pool of permits. *)
Pool == INSTANCE PermitPool WITH
          permits <- issued - taken - Cardinality(Admitted),
          asking <- Waiting,
          admitted <- Admitted

PoolSpec == Pool!PoolSpec

-----------------------------------------------------------------------------
(* Liveness, under FairSpec. *)

(* A call of release or async_acquire that has begun returns, unless an    *)
(* assertion ends the program: the loop of release makes finitely many     *)
(* iterations (semaphore.hpp:84-87, 119-124).                              *)
CallsReturn ==
  \A t \in Threads :
    pc[t] \in {"post", "enqueue", "dequeue"} ~>
      (pc[t] = "idle" \/ status # "alive")

-----------------------------------------------------------------------------
(* What the documentation and the assertions say, and the code does not    *)
(* always do.                                                              *)

Quiet == \A t \in Threads : pc[t] = "idle"

(* semaphore.hpp:111-112: "Any completions(s) waiting for the counter to   *)
(* be greater than 0 will subsequently be posted to the associated         *)
(* executor": with no call in progress, none waits while the counter is    *)
(* positive.                                                               *)
NoneWaitsWhilePositive == Quiet /\ m_count > 0 => m_functions = {}

(* semaphore.hpp:122: assert(could && "Queue appears to be empty??"). *)
ReleaseAssertionHolds == status # "release assertion"
=============================================================================
