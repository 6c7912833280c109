--------------------------- MODULE AsyncOperation ---------------------------
(***************************************************************************)
(* An operation awaited by a coroutine: tcx::async_open, async_read,       *)
(* async_stat and async_close (include/tcx/async/ioring/), called with     *)
(* tcx::use_awaitable (include/tcx/async/use_awaitable.hpp) through        *)
(* wrap_op (include/tcx/async/wrap_op.hpp).                                *)
(*                                                                         *)
(* The operation passes through two other components, taken here as what   *)
(* they promise: the ring of completions, whose callback posts the handler *)
(* to the executor, and the executor's queue of tasks.  Each operation is  *)
(* one co_await expression of a coroutine of its own: the awaitable is     *)
(* awaited in the expression that starts the operation.  A caller who      *)
(* keeps the awaitable and awaits it later is not here; for such a one the *)
(* handler may run first on one thread too.                                *)
(***************************************************************************)
EXTENDS Naturals, Sequences, FiniteSets

CONSTANTS
  Ops,       \* operations; each is started once
  Kinds,     \* assignments of a function ("open", ...) to each of them
  Threading  \* subset of {"one", "many"}: the coroutines, the ring and the
             \* executor share one thread, or the executor has threads of its own

ASSUME AsyncOperationAssumption ==
  /\ Kinds \subseteq [Ops -> {"open", "read", "stat", "close"}]
  /\ Threading \subseteq {"one", "many"}

VARIABLES
  threading, kind,               \* one of Threading and of Kinds, for good
  accepted, entries, concluded,  \* the ring (CompletionRing)
  waiting, running, ended,       \* the executor (TaskQueue)
  pc,           \* where the coroutine is in its co_await expression
  res,          \* cqe->res of each operation
  m_result,     \* index of state_type::m_result: 0 nothing, 1 error, 2 value
  m_coroutine,  \* state_type::m_coroutine: does it hold the coroutine?
  statbuf,      \* operations whose caller's struct stat was written
  outcome       \* how co_await ended

ring == <<accepted, entries, concluded>>
executor == <<waiting, running, ended>>
coroutine == <<pc, res, m_result, m_coroutine, outcome>>
setting == <<threading, kind>>
vars == <<setting, ring, executor, coroutine, statbuf>>

Ring == INSTANCE CompletionRing
Queue == INSTANCE TaskQueue WITH Tasks <- Ops

TypeOK ==
  /\ threading \in Threading /\ kind \in Kinds
  /\ accepted \subseteq Ops /\ concluded \subseteq Ops
  /\ entries \in Seq([op : Ops, last : {TRUE}])
  /\ waiting \in Seq(Ops) /\ running \subseteq Ops /\ ended \subseteq Ops
  /\ pc \in [Ops -> {"idle", "made", "called", "suspended", "resumed", "threw"}]
  /\ res \in [Ops -> {"none", "success", "failure"}]
  /\ m_result \in [Ops -> 0..2]
  /\ m_coroutine \in [Ops -> BOOLEAN]
  /\ statbuf \subseteq Ops
  /\ outcome \in [Ops -> {"none", "value", "system_error", "already_retrieved"}]

Init ==
  /\ threading \in Threading /\ kind \in Kinds
  /\ Ring!RingInit
  /\ Queue!QueueInit
  /\ pc = [o \in Ops |-> "idle"]
  /\ res = [o \in Ops |-> "none"]
  /\ m_result = [o \in Ops |-> 0]
  /\ m_coroutine = [o \in Ops |-> FALSE]
  /\ statbuf = {}
  /\ outcome = [o \in Ops |-> "none"]

-----------------------------------------------------------------------------
(* With one thread, a coroutine is not left in the middle of its co_await  *)
(* expression, nor a task or a callback in the middle of its own.          *)
BetweenExpressions == \A o \in Ops : pc[o] \notin {"made", "called"}

SameThread == threading = "one"

(* async_stat's callback has begun and has not posted the handler yet. *)
InCallback == entries # <<>> /\ Head(entries).op \in statbuf

Uninterrupted == SameThread => BetweenExpressions /\ running = {}

ThreadFree == Uninterrupted /\ (SameThread => ~InCallback)

ThreadOf(o) == SameThread => running = {} /\ \A p \in Ops \ {o} : pc[p] \notin {"made", "called"}

(* What the posted function gives the handler: the index of the variant.   *)
(* close's gives an error_code, success or not, which converts to an error. *)
Argument(o) == IF res[o] = "failure" \/ kind[o] = "close" THEN 1 ELSE 2

(* using_awaitable_t::operator(): may the coroutine be resumed already?     *)
Ready_AtOnce(o) == TRUE

Ready(o) == m_result[o] # 0

(* await_resume: the stored error is thrown, the stored value returned. *)
Resumption_Swapped(o) == <<"already_retrieved", "value", "system_error">>[m_result[o] + 1]

Resumption(o) == <<"already_retrieved", "system_error", "value">>[m_result[o] + 1]

(* await_suspend: the handle that operator() will resume. *)
Suspended_Elsewhere(o) == m_coroutine

Suspended(o) == [m_coroutine EXCEPT ![o] = TRUE]

(* async_stat's callback posts the handler when the caller's struct stat   *)
(* is filled in.                                                           *)
CopiedFirst_PostsAtOnce(o) == TRUE

CopiedFirst(o) == kind[o] = "stat" => o \in statbuf

-----------------------------------------------------------------------------
(* wrap_op::call: f.async_result(), before the operation is started. *)
AsyncResult(o) ==
  /\ pc[o] = "idle"
  /\ ThreadFree
  /\ pc' = [pc EXCEPT ![o] = "made"]
  /\ UNCHANGED <<ring, executor, res, m_result, m_coroutine, outcome, statbuf>>

(* The functions a co_await expression calls, all of them through wrap_op. *)
AsyncOpen(o) == kind[o] = "open" /\ AsyncResult(o)

AsyncRead(o) == kind[o] = "read" /\ AsyncResult(o)

AsyncStat(o) == kind[o] = "stat" /\ AsyncResult(o)

AsyncClose(o) == kind[o] = "close" /\ AsyncResult(o)

(* async_open with a mode string that has not exactly one of r, w and a:   *)
(* std::invalid_argument, before there is anything to await.               *)
AsyncOpenThrows(o) ==
  /\ kind[o] = "open"
  /\ pc[o] = "idle"
  /\ ThreadFree
  /\ pc' = [pc EXCEPT ![o] = "threw"]
  /\ UNCHANGED <<ring, executor, res, m_result, m_coroutine, outcome, statbuf>>

AsyncStart(o) ==
  AsyncOpen(o) \/ AsyncRead(o) \/ AsyncStat(o) \/ AsyncClose(o) \/ AsyncOpenThrows(o)

(* wrap_op::call: Op::call starts the operation, and its result is dropped. *)
Called(o) ==
  /\ pc[o] = "made"
  /\ ThreadOf(o)
  /\ pc' = [pc EXCEPT ![o] = "called"]
  /\ UNCHANGED <<executor, res, m_result, m_coroutine, outcome, statbuf>>

OpAccepted(o) == Called(o) /\ Ring!Accept(o)

OpRefused(o) == Called(o) /\ UNCHANGED ring

(* co_await: await_ready() is false, await_suspend(coroutine). *)
AwaitSuspend(o) ==
  /\ pc[o] = "called"
  /\ ThreadOf(o)
  /\ pc' = [pc EXCEPT ![o] = "suspended"]
  /\ m_coroutine' = Suspended(o)
  /\ UNCHANGED <<ring, executor, res, m_result, outcome, statbuf>>

(* The kernel ends the operation. *)
KernelFinishes(o, r) ==
  /\ Ring!Conclude(o)
  /\ res' = [res EXCEPT ![o] = r]
  /\ UNCHANGED <<executor, pc, m_result, m_coroutine, outcome, statbuf>>

(* The callback that async_stat gives to the ring begins: it copies what   *)
(* the kernel has written to the struct stat of the caller.                *)
CallbackCopies ==
  /\ ThreadFree
  /\ entries # <<>>
  /\ kind[Head(entries).op] = "stat" /\ Head(entries).op \notin statbuf
  /\ statbuf' = statbuf \cup {Head(entries).op}
  /\ UNCHANGED <<ring, executor, coroutine>>

(* The callback given to the ring posts the handler to the executor. *)
Callback_EntryNotSeen ==
  /\ Uninterrupted
  /\ entries # <<>>
  /\ CopiedFirst(Head(entries).op)
  /\ Queue!Submit(Head(entries).op)
  /\ UNCHANGED <<ring, coroutine, statbuf>>

Callback ==
  /\ Uninterrupted
  /\ Ring!Dispatch
  /\ CopiedFirst(Head(entries).op)
  /\ Queue!Submit(Head(entries).op)
  /\ UNCHANGED <<coroutine, statbuf>>

(* run() of the executor takes a posted function. *)
RunTakes ==
  /\ ThreadFree
  /\ Queue!Start
  /\ UNCHANGED <<ring, coroutine, statbuf>>

(* using_awaitable_t::operator(): the result is stored. *)
StoreResult(o) ==
  /\ o \in running
  /\ m_result[o] = 0
  /\ m_result' = [m_result EXCEPT ![o] = Argument(o)]
  /\ UNCHANGED <<ring, executor, pc, res, m_coroutine, outcome, statbuf>>

(* using_awaitable_t::operator(): m_coroutine.resume(), which is           *)
(* await_resume() if a coroutine was stored and nothing if it was not.     *)
Resume(o) ==
  /\ Ready(o)
  /\ Queue!End(o)
  /\ IF m_coroutine[o]
       THEN /\ pc' = [pc EXCEPT ![o] = "resumed"]
            /\ outcome' = [outcome EXCEPT ![o] = Resumption(o)]
            /\ m_result' = [m_result EXCEPT ![o] = 0]
       ELSE UNCHANGED <<pc, outcome, m_result>>
  /\ UNCHANGED <<ring, res, m_coroutine, statbuf>>

CoroutineStep(o) == OpAccepted(o) \/ OpRefused(o) \/ AwaitSuspend(o)

KernelStep(o) == \E r \in {"success", "failure"} : KernelFinishes(o, r)

Step ==
  \/ \E o \in Ops : AsyncStart(o) \/ CoroutineStep(o) \/ KernelStep(o)
  \/ CallbackCopies \/ Callback
  \/ RunTakes
  \/ \E o \in Ops : StoreResult(o) \/ Resume(o)

Next == Step /\ UNCHANGED setting

Spec == Init /\ [][Next]_vars

(* The kernel ends these whatever happens.  Opening a FIFO, or reading     *)
(* from a pipe, may wait for ever.                                         *)
EndsByItself(o) == kind[o] \in {"stat", "close"}

(* Threads go on, the ring is waited for and run() called again and again, *)
(* and the kernel ends every operation that ends by itself.                *)
FairSpec ==
  /\ Spec
  /\ SF_vars((CallbackCopies \/ Callback) /\ UNCHANGED setting)
  /\ SF_vars(RunTakes /\ UNCHANGED setting)
  /\ \A o \in Ops : /\ WF_vars(CoroutineStep(o) /\ UNCHANGED setting)
                    /\ WF_vars(EndsByItself(o) /\ KernelStep(o) /\ UNCHANGED setting)
                    /\ WF_vars((StoreResult(o) \/ Resume(o)) /\ UNCHANGED setting)

-----------------------------------------------------------------------------
(* Safety. *)

(* A resumed coroutine finds the result of its operation and not an empty  *)
(* state, whichever threads are involved (use_awaitable.hpp:75-77,         *)
(* 108-112).                                                               *)
NeverResumedEmpty == \A o \in Ops : outcome[o] # "already_retrieved"

(* The handler of async_stat, and the coroutine that it resumes, find the  *)
(* caller's struct stat filled in, although it is the ring's callback that *)
(* fills it in and another thread that may take the handler as soon as     *)
(* that callback has posted it (stat.hpp:27-45).                           *)
StatBeforeHandler ==
  \A o \in running \cup ended : kind[o] = "stat" => o \in statbuf

(* co_await throws when the operation failed, and only then                *)
(* (use_awaitable.hpp:39-41, 96-97), but for async_close, which throws in  *)
(* either case.                                                            *)
ThrowsOnFailureOnly ==
  \A o \in Ops : pc[o] = "resumed" /\ kind[o] # "close" => (outcome[o] = "system_error" <=> res[o] = "failure")

(* Ring and executor make one queue of the operations that have ended: the *)
(* handlers start in the order in which the kernel ended the operations,   *)
(* each once, whichever steps of the coroutines and of other threads fall  *)
(* between the completion, the callback and the task (open.hpp:27-34,      *)
(* read.hpp:25-32, stat.hpp:27-44, close.hpp:18-25).                       *)
Pipeline == waiting \o [i \in 1..Len(entries) |-> entries[i].op]

Pipe == INSTANCE TaskQueue WITH Tasks <- Ops, waiting <- Pipeline

PipelineSpec == Pipe!QueueSpec

(* On one thread no handler runs before its coroutine is suspended: what   *)
(* has ended was resumed (use_awaitable.hpp:55-58, 112).                   *)
EndedMeansResumed == SameThread => \A o \in ended : pc[o] = "resumed"

-----------------------------------------------------------------------------
(* Liveness. *)

(* The operation has ended or will. *)
WillEnd(o) == o \in concluded \/ (o \in accepted /\ EndsByItself(o))

(* A coroutine that awaits an operation the ring has accepted is resumed   *)
(* once that ends (use_awaitable.hpp:98: Finally, the coroutine is         *)
(* resumed).                                                               *)
AwaitedIsResumed ==
  \A o \in Ops : pc[o] = "suspended" /\ WillEnd(o) ~> pc[o] = "resumed"

(* It is when coroutines, ring and executor share one thread.              *)
ResumedOnOneThread ==
  \A o \in Ops :
    SameThread /\ pc[o] = "suspended" /\ WillEnd(o) ~> pc[o] = "resumed"
=============================================================================
