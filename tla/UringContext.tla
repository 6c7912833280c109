---------------------------- MODULE UringContext ----------------------------
(***************************************************************************)
(* tcx::unsynchronized_uring_context and the bases it is made of           *)
(* (include/tcx/services/uring_service.hpp), with the results they return  *)
(* (include/tcx/native/result.hpp).                                        *)
(*                                                                         *)
(* One thread starts operations, waits for completion queue entries and    *)
(* hands them to complete(); the kernel is the other actor.  A callback    *)
(* that starts operations does so between two steps of the thread.  The    *)
(* kernel's side is external: it takes a prefix of the submission queue,   *)
(* it never drops an entry, and it makes the entries of an operation in    *)
(* any order with those of others.                                         *)
(***************************************************************************)
EXTENDS NativeResult, Sequences, FiniteSets, SequencesExt

CONSTANTS
  Ops,         \* operations; each is started once
  Starter,     \* the function that starts each of them
  Cancelled,   \* the operation on whose descriptor async_cancel_fd is called
  None,        \* no operation
  SQEntries,   \* size of the submission queue
  Spans,       \* sizes of the spans that wait_many gets
  EINTR, EBADR,\* the error numbers submit_one looks for
  KernelError, \* another error number
  NDEBUG,      \* TRUE: assertions are compiled out
  MaxMore      \* bound of the model: entries of an operation before its last

-----------------------------------------------------------------------------
(* The functions async_... .  Each fills an entry and passes it to         *)
(* submit(); they differ in when the kernel ends what they start.  The     *)
(* assertions of async_readv, async_writev, async_openat2, async_read and  *)
(* async_write are not here: a build that has them ends in create.         *)

(* Those that end by themselves. *)
NoopFunctions == {"post", "noop"}
SyncFunctions == {"fsync"}
RangeFunctions == {"sync_file_range"}
AdviceFunctions == {"fallocate", "fadvice", "madvice"}
FileFunctions == {"close", "statx"}
BufferFunctions == {"provide_buffers", "remove_buffers"}
PathFunctions == {"shutdown", "renameat", "rename", "unlinkat", "unlink"}

(* Nothing sets IOSQE_IO_LINK, and a timeout linked to nothing ends at once. *)
LinkFunctions == {"link_timeout"}

(* Those that end when something happens.  Opening, reading and writing    *)
(* are among them for the sake of FIFOs, pipes and sockets.                *)
OpenFunctions == {"openat", "open", "openat2"}
VectorFunctions == {"readv", "writev"}
DataFunctions == {"read", "write", "splice", "tee"}
PollFunctions == {"poll_add"}
MultishotFunctions == {"poll_multishot"}
SocketFunctions == {"sendmsg", "recvmsg", "send", "recv"}
TimeoutFunctions == {"timeout"}
AcceptFunctions == {"accept"}
ConnectFunctions == {"connect"}

(* Those that end other operations: the one with the given id, or those on *)
(* the given descriptor.                                                   *)
PollRemoveFunctions == {"poll_remove"}
TimeoutIdFunctions == {"timeout_remove", "timeout_update"}
CancelFunctions == {"cancel"}
CancelFdFunctions == {"cancel_fd"}

PlainFunctions ==
  NoopFunctions \cup SyncFunctions \cup RangeFunctions \cup AdviceFunctions
    \cup FileFunctions \cup BufferFunctions \cup PathFunctions \cup LinkFunctions

EventFunctions ==
  OpenFunctions \cup VectorFunctions \cup DataFunctions
    \cup PollFunctions \cup SocketFunctions \cup TimeoutFunctions
    \cup AcceptFunctions \cup ConnectFunctions

ByIdFunctions == PollRemoveFunctions \cup TimeoutIdFunctions \cup CancelFunctions

ASSUME UringAssumption ==
  /\ Starter \in
       [Ops -> PlainFunctions \cup EventFunctions \cup MultishotFunctions
                 \cup ByIdFunctions \cup CancelFdFunctions]
  /\ Cancelled \in Ops
  /\ None \notin Ops
  /\ SQEntries \in Nat \ {0}
  /\ Spans \subseteq Nat
  /\ EINTR \in Nat \ {0} /\ EBADR \in Nat \ {0} /\ KernelError \in Nat \ {0}
  /\ NDEBUG \in BOOLEAN
  /\ MaxMore \in Nat

VARIABLES
  state,    \* "absent", "open", "closed", "aborted" or "undefined" (nothing
            \* is known of the context any more)
  sq,       \* submission queue, oldest first
  kernel,   \* operations the kernel works on
  doomed,   \* operations the kernel was told to cancel
  cq,       \* completion queue, oldest first
  batch,    \* copied to the span of wait_many, not handed to complete() yet
  waiting,  \* None, or the wait_many in progress
  cur,      \* the operation inside submit(), or None
  object,   \* the Completion of each operation: "none", "live" or "freed"
  stored,   \* history: operations put into the submission queue
  refused,  \* history: operations submit() gave up
  more,     \* history: entries made before the last one
  finished  \* history: operations whose last entry was handed to complete()

submission == <<cur, object, stored, refused>>
kernelSide == <<kernel, doomed, more>>
dispatch == <<batch, waiting, finished>>
vars == <<state, sq, cq, submission, kernelSide, dispatch>>

Entry == [op : Ops, last : BOOLEAN]

TypeOK ==
  /\ state \in {"absent", "open", "closed", "aborted", "undefined"}
  /\ sq \in Seq(Ops) /\ Len(sq) <= SQEntries
  /\ kernel \subseteq Ops /\ doomed \subseteq Ops
  /\ cq \in Seq(Entry)
  /\ batch \in Seq(Entry) /\ \E s \in Spans \cup {0} : Len(batch) <= s
  /\ waiting = None \/ waiting \in
       [span : Spans, nr : Nat, sent : 0..SQEntries, blocks : BOOLEAN]
  /\ cur \in Ops \cup {None}
  /\ object \in [Ops -> {"none", "live", "freed"}]
  /\ stored \subseteq Ops
  /\ refused \subseteq Ops
  /\ more \in [Ops -> 0..MaxMore]
  /\ finished \subseteq Ops

Init ==
  /\ state = "absent"
  /\ sq = <<>>
  /\ kernel = {}
  /\ doomed = {}
  /\ cq = <<>>
  /\ batch = <<>>
  /\ waiting = None
  /\ cur = None
  /\ object = [o \in Ops |-> "none"]
  /\ stored = {}
  /\ refused = {}
  /\ more = [o \in Ops |-> 0]
  /\ finished = {}

-----------------------------------------------------------------------------
(* submit_one: the SQ is full and io_uring_submit returned n. *)
Retries(n) == n \in {0, EINTR}

(* submit_one: *sqe = *submission, into the entry that io_uring_get_sqe    *)
(* reserved behind the others.                                             *)
Queued_OverLast(o) == IF sq = <<>> THEN <<o>> ELSE Append(Front(sq), o)

Queued_First(o) == <<o>> \o sq

Queued(o) == Append(sq, o)

(* wait_many: how many entries are copied. *)
Seen_Unbounded(span) == Len(cq)

Seen_OneShort(span) == IF span <= Len(cq) THEN span - 1 ELSE Len(cq)

Seen(span) == IF span <= Len(cq) THEN span ELSE Len(cq)

(* wait_many: what io_uring_cq_advance leaves. *)
Kept_Nothing(span) == <<>>

Kept_All(span) == cq

Kept(span) == SubSeq(cq, Seen(span) + 1, Len(cq))

(* wait_many: error != 0, so the completion queue is not looked at. *)
WaitFails(sent) == sent # 0

Idle == state = "open" /\ cur = None /\ waiting = None

Multishot == {o \in Ops : Starter[o] \in MultishotFunctions}

(* The operations that end only if something happens. *)
Awaiting == Multishot \cup {o \in Ops : Starter[o] \in EventFunctions}

(* The operations that o tells the kernel to cancel.  Those with a given   *)
(* id are not among them: the program has the ids that submit() returned,  *)
(* which are uninitialized or those of refused operations.  Such an id may *)
(* be that of any operation by chance, and any operation may end early.    *)
Cancels(o) == IF Starter[o] \in CancelFdFunctions THEN {Cancelled} ELSE {}

-----------------------------------------------------------------------------
(* create, of the context and of its storage; the latter returns           *)
(* from_value(storage), or from_error(error) if there is no ring.  A       *)
(* result says the opposite of what it holds, so that a ring that exists   *)
(* ends in from_error(0), and one that does not is moved from.             *)
StorageResult(error) == IF error = 0 THEN FromValue("ring") ELSE FromError(error)

(* The ring exists.  The assertion of from_error aborts, or the context is *)
(* read from memory that from_error did not write: the ring is then what   *)
(* this memory held before, by chance the one that was created.            *)
CreateWithRing ==
  /\ state = "absent"
  /\ state' \in IF ~HasError(StorageResult(0)) THEN {"open"}
                ELSE IF NDEBUG THEN {"open", "undefined"} ELSE {"aborted"}
  /\ UNCHANGED <<sq, cq, submission, kernelSide, dispatch>>

(* There is no ring, and the storage is moved out of memory nobody wrote. *)
CreateWithoutRing ==
  /\ state = "absent"
  /\ state' = IF HasError(StorageResult(KernelError)) THEN "closed" ELSE "undefined"
  /\ UNCHANGED <<sq, cq, submission, kernelSide, dispatch>>

(* The destructor of the storage: io_uring_queue_exit.  The queues are not *)
(* looked at any more, the operations in them end without a callback, and  *)
(* the Completions that were not deleted stay behind.                      *)
Destroy ==
  /\ Idle
  /\ state' = "closed"
  /\ UNCHANGED <<sq, cq, submission, kernelSide, dispatch>>

-----------------------------------------------------------------------------
(* async_*: prepares an entry; submit allocates the Completion. *)
AsyncBegin(o) ==
  /\ Idle
  /\ object[o] = "none"
  /\ cur' = o
  /\ object' = [object EXCEPT ![o] = "live"]
  /\ UNCHANGED <<state, sq, cq, stored, refused, kernelSide, dispatch>>

(* submit, once submit_one returned: the Completion is deleted if there is *)
(* an error.  The id or the error that submit returns is kept nowhere.     *)
SubmitReturns(result) ==
  /\ object' = IF HasError(result) THEN [object EXCEPT ![cur] = "freed"] ELSE object
  /\ cur' = None

(* submit_one: there is a free entry. *)
SubmitStores ==
  /\ state = "open"
  /\ cur # None
  /\ Len(sq) < SQEntries
  /\ sq' = Queued(cur)
  /\ stored' = stored \cup {cur}
  /\ SubmitReturns([first |-> 0])
  /\ UNCHANGED <<state, cq, refused, kernelSide, dispatch>>

(* io_uring_submit hands the n oldest entries to the kernel. *)
Enter(n) ==
  /\ sq' = SubSeq(sq, n + 1, Len(sq))
  /\ kernel' = kernel \cup {sq[i] : i \in 1..n}
  /\ UNCHANGED <<doomed, more>>

(* submit_one: the queue is full, and is submitted; look for an entry again. *)
SubmitRetries(n) ==
  /\ state = "open"
  /\ cur # None
  /\ Len(sq) = SQEntries
  /\ Retries(n)
  /\ Enter(n)
  /\ UNCHANGED <<state, cq, submission, dispatch>>

(* submit_one: as many entries were submitted as EBADR is: std::abort. *)
SubmitAborts(n) ==
  /\ state = "open"
  /\ cur # None
  /\ Len(sq) = SQEntries
  /\ n = EBADR
  /\ Enter(n)
  /\ state' = "aborted"
  /\ UNCHANGED <<cq, submission, dispatch>>

(* submit_one: any other number, of entries or of an error, is an error. *)
SubmitRefuses(n) ==
  /\ state = "open"
  /\ cur # None
  /\ Len(sq) = SQEntries
  /\ ~Retries(n) /\ n # EBADR
  /\ IF n > 0 THEN Enter(n) ELSE UNCHANGED <<sq, kernelSide>>
  /\ refused' = refused \cup {cur}
  /\ SubmitReturns([first |-> -n])
  /\ UNCHANGED <<state, cq, stored, dispatch>>

-----------------------------------------------------------------------------
(* wait_many: io_uring_submit_and_wait takes n entries, and blocks if these *)
(* were all.  Nobody waits for more entries than will be made.              *)
WaitBegin(span, nr, n) ==
  /\ Idle
  /\ batch = <<>>
  /\ nr <= Len(cq) + Cardinality(kernel) + Len(sq)
  /\ Enter(n)
  /\ waiting' = [span |-> span, nr |-> nr, sent |-> n, blocks |-> n = Len(sq)]
  /\ UNCHANGED <<state, cq, batch, finished, submission>>

WaitEnds == waiting # None /\ (waiting.blocks => Len(cq) >= waiting.nr)

Blocked == waiting # None /\ ~WaitEnds

(* wait_many: the number of submitted entries is not 0, which is an error. *)
WaitReturnsError ==
  /\ WaitEnds
  /\ WaitFails(waiting.sent)
  /\ waiting' = None
  /\ UNCHANGED <<state, sq, cq, batch, finished, submission, kernelSide>>

(* wait_many: copies the oldest entries to the span and removes them. *)
WaitReturns ==
  /\ WaitEnds
  /\ ~WaitFails(waiting.sent)
  /\ batch' = SubSeq(cq, 1, Seen(waiting.span))
  /\ cq' = Kept(waiting.span)
  /\ waiting' = None
  /\ UNCHANGED <<state, sq, finished, submission, kernelSide>>

(* wait_many: a signal ends the wait. *)
WaitInterrupted ==
  /\ waiting # None
  /\ waiting.blocks
  /\ waiting' = None
  /\ UNCHANGED <<state, sq, cq, batch, finished, submission, kernelSide>>

(* complete: invokes the callback, which may throw; the Completion is      *)
(* deleted when the last entry's callback throws, and only then.  If it    *)
(* was deleted before, its memory may still hold it.                       *)
Complete(throws) ==
  /\ Idle
  /\ batch # <<>>
  /\ batch' = Tail(batch)
  /\ LET e == Head(batch) IN
       /\ object' = IF e.last /\ throws THEN [object EXCEPT ![e.op] = "freed"] ELSE object
       /\ finished' = IF e.last THEN finished \cup {e.op} ELSE finished
  /\ UNCHANGED <<state, sq, cq, waiting, cur, stored, refused, kernelSide>>

(* complete: the Completion was deleted, and anything may happen. *)
CompleteUndefined ==
  /\ Idle
  /\ batch # <<>>
  /\ object[Head(batch).op] = "freed"
  /\ state' = "undefined"
  /\ UNCHANGED <<sq, cq, submission, kernelSide, dispatch>>

-----------------------------------------------------------------------------
(* The kernel, while the process lives. *)
Post(o, last) == cq' = Append(cq, [op |-> o, last |-> last])

KernelProgresses(o) ==
  /\ state = "open"
  /\ o \in kernel \cap Multishot
  /\ more[o] < MaxMore
  /\ Post(o, FALSE)
  /\ more' = [more EXCEPT ![o] = @ + 1]
  /\ UNCHANGED <<state, sq, kernel, doomed, submission, dispatch>>

(* An operation ends; what it cancels, if the kernel has it, will end. *)
KernelFinishes(o) ==
  /\ state = "open"
  /\ o \in kernel
  /\ Post(o, TRUE)
  /\ kernel' = kernel \ {o}
  /\ doomed' = (doomed \cup (Cancels(o) \cap kernel)) \ {o}
  /\ UNCHANGED <<state, sq, more, submission, dispatch>>

WaitMany(n) == \E span \in Spans : \E nr \in 0..Cardinality(Ops) : WaitBegin(span, nr, n)

SubmitGoesOn ==
  \/ SubmitStores
  \/ \E n \in 0..Len(sq) : SubmitRetries(n) \/ SubmitAborts(n)
  \/ \E n \in (1..Len(sq)) \cup {-KernelError} : SubmitRefuses(n)

Next ==
  \/ CreateWithRing \/ CreateWithoutRing \/ Destroy
  \/ \E o \in Ops : AsyncBegin(o)
  \/ SubmitGoesOn
  \/ \E n \in 0..Len(sq) : WaitMany(n)
  \/ WaitReturnsError \/ WaitReturns \/ WaitInterrupted
  \/ \E throws \in BOOLEAN : Complete(throws)
  \/ CompleteUndefined
  \/ \E o \in Ops : KernelProgresses(o) \/ KernelFinishes(o)

Spec == Init /\ [][Next]_vars

(* The thread goes on, and it waits and dispatches again and again; the    *)
(* kernel takes entries in the end, and ends every operation that does not *)
(* depend on an event, and every one it was told to cancel.  The event of  *)
(* one that does may never happen, unless the thread blocks for it again   *)
(* and again: callers do not wait for what will not come.  Signals do not  *)
(* interrupt every wait.                                                   *)
FairSpec ==
  /\ Spec
  /\ WF_vars(SubmitGoesOn)
  /\ SF_vars(WaitMany(Len(sq)))
  /\ SF_vars(WaitReturns)
  /\ WF_vars(WaitReturnsError)
  /\ WF_vars(\E throws \in BOOLEAN : Complete(throws))
  /\ \A o \in Ops \ Awaiting : WF_vars(KernelFinishes(o))
  /\ \A o \in Awaiting : SF_vars(Blocked /\ KernelFinishes(o))
  /\ WF_vars(Cancelled \in doomed /\ KernelFinishes(Cancelled))

-----------------------------------------------------------------------------
(* Safety. *)

Pending == batch \o cq  \* entries not handed to complete() yet, oldest first

LastEntries(o) == {i \in 1..Len(Pending) : Pending[i] = [op |-> o, last |-> TRUE]}

(* An operation put into the submission queue is, until it has finished,   *)
(* in exactly one place, once: the submission queue, the kernel, or its    *)
(* last entry on the way to complete().  Full queues, partial submissions, *)
(* errors, short spans and interrupted waits lose and duplicate nothing;   *)
(* a refused operation is nowhere (uring_service.hpp:825-866).             *)
Conserved ==
  \A o \in Ops :
    Cardinality({i \in 1..Len(sq) : sq[i] = o}) + Cardinality({o} \cap kernel)
      + Cardinality(LastEntries(o)) + Cardinality({o} \cap finished)
    = Cardinality({o} \cap (stored \ refused))

(* complete() sees no entry of an operation after its last one, the one    *)
(* after which the Completion may be gone (uring_service.hpp:744-757).     *)
NothingAfterLast ==
  /\ \A i \in 1..Len(Pending) : Pending[i].op \notin finished
  /\ \A i, j \in 1..Len(Pending) :
       i < j /\ Pending[i].op = Pending[j].op => ~Pending[i].last

(* The context implements the ring of completions. *)
Ring == INSTANCE CompletionRing WITH
          accepted <- kernel \cup ToSet(sq),
          entries <- Pending,
          concluded <- finished \cup {o \in Ops : LastEntries(o) # {}}

(* The context refines CompletionRing (uring_service.hpp:765-866). *)
RingSpec == Ring!RingSpec

-----------------------------------------------------------------------------
(* Liveness. *)

(* Every operation in the submission queue that needs no event finishes,   *)
(* however full the queue, however short the spans and however many        *)
(* operations wait for events, unless the context is lost                  *)
(* (uring_service.hpp:825-866).                                            *)
StoredFinishes ==
  \A o \in Ops \ Awaiting : o \in stored ~> o \in finished \/ state # "open"

(* async_cancel_fd ends an operation that was started before it, although  *)
(* its event never happens and both pass through a queue that is submitted *)
(* in parts: a cancellation does not overtake what it cancels              *)
(* (uring_service.hpp:491-498, 842, 848).                                  *)
CancelledFinishes ==
  \A p \in Ops :
    Cancels(p) # {} /\ cur = p /\ Cancelled \in stored
      ~> Cancelled \in finished \/ p \in refused \/ state # "open"

-----------------------------------------------------------------------------
(* What the code says of itself, and does not do. *)

(* uring_service.hpp:745: there will be more completion entries coming, do *)
(* not delete.                                                             *)
AliveWhileEntriesCome ==
  \A o \in Ops : o \in kernel \cup ToSet(sq) => object[o] = "live"
=============================================================================
