# A verification project for tcx (bad_io)

`tcx` is a C++20 library of building blocks for asynchronous I/O: executors that
run posted functions, a semaphore whose waiters are functions, services that wrap
io_uring, epoll and poll, and adapters that turn an operation into a callback, a
future or a coroutine.  This directory holds TLA+ models of its parts, the TLC
configurations that check them on small instances, and TLAPS proofs for every
size of the instance where they exist.

Paths below are relative to `src/`; `include/tcx/` is left out of header names.

## Inventory

| Part | State | Operations | What is hard | What makes it correct |
|---|---|---|---|---|
| `basic_semaphore` (`semaphore.hpp`) | an atomic counter, a lock-free queue of handlers | `async_acquire`, `try_acquire`, `release`, destructor, from any thread | counter and queue change in separate atomic steps | permits are never over-committed, a handler is posted once, nobody waits while there are permits |
| `unsynchronized_execution_context` | `std::queue` of functions | `post`, `run`, `pending`; one thread | functions post, run the context again, throw | order, completeness and count of `run()` |
| `synchronized_execution_context` | tbb `concurrent_queue` | `post`, `run` from several threads, destructor | popping and posting race, the local `f` outlives the call | a function runs once, is destroyed once, in the order of the posts |
| `uring_context_storage` (`services/uring_service.hpp`) | the `io_uring` instance, or none | `create`, moves, assignment, destructor | rings pass through results that hide their own state | an open ring has one owner and is closed once |
| `unsynchronized_uring_context` (same file) | submission and completion queue, a heap `Completion` per operation | `create`, about 40 `async_*`, `submit`, `wait_many`, `complete` | full queue, partial submissions, errors, short spans, multishot, cancellation | no operation and no entry is lost or duplicated; a `Completion` outlives its entries |
| `synchronized_uring_context` | the same, two mutexes | `submit_many`, `wait_many`, `wait_one` | waiting and submitting hold different locks | as above, from several threads |
| `native::result` (`native/result.hpp`) | an error number and a value | `from_error`, `from_value`, `has_error`, `value`, move, destructor | every caller branches on it | `has_error()` says whether there is an error |
| operations (`async/ioring/*.hpp`, `async/wrap_op.hpp`) | captured handler and buffers | `async_open`, `async_read`, `async_close`, ... | a callback of the ring posts the handler to an executor | the handler is called once with the operation's result |
| `use_awaitable`, `use_future`, `detached` | shared state of result and coroutine | `async_result`, `await_suspend`, `await_resume`, `operator()` | the operation may end before the coroutine is suspended | an awaiting coroutine is resumed, with the right result |
| `unique_function` | a table, an address, 40 bytes of storage | construction, move, swap, call, destruction | callables live in the storage, on the heap or elsewhere, and move between storages | a callable is invoked and destroyed where it is, once |
| `poll_service`, `epoll_service` | lists of descriptors and completions | `async_poll_add`, `poll` | two lists kept in step; callbacks add descriptors and poll again | an event reaches the completion of its descriptor |
| `unique_lock` (`async/locks/`) | a semaphore pointer and a flag | construct, `release`, `unlock`, destroy, implicit copies, `async_acquire` with a lock | permits held by copies, locks that outlive their permit | a permit is released once; locks exclude each other |
| `main.cpp` | a counter and a buffer shared by reads | open, stat, many reads, close | errors thrown from handlers, the loop that drives everything | buffer and descriptor are released, the loop ends when all is done |
| helpers (`function_view`, `allocator_aware`, `clamp`, handles, strings, concepts) | none | pure | - | - |

Interactions: an operation is started on a uring context, whose completion entry
invokes a callback; the callback posts the handler to an executor; `run()` of the
executor invokes it; the handler may resume a coroutine, which starts the next
operation.  Contexts store posted functions as `unique_function`.  The semaphore
posts the handlers of `async_acquire` to an executor.

## Modules

| Module | What it is |
|---|---|
| `PermitPool` | abstract semaphore: permits given out, put back and promised |
| `Semaphore` | `basic_semaphore`, one action per atomic access of a thread |
| `SemaphoreProofs` | theorems about `Semaphore`, for every set of threads and every bound |
| `TaskQueue` | abstract executor: tasks wait, run and end |
| `ExecutionContext` | both execution contexts: `post`, `run` and the destructor, with nested activations, exceptions and several threads |
| `ExecutionContextProofs` | theorems about `ExecutionContext`, for any threads, functions and depth of nesting |
| `CompletionRing` | abstract ring: operations are accepted, make entries, conclude; entries are dispatched in order |
| `NativeResult` | what `native::result` stores and what it says of it |
| `UringContext` | `unsynchronized_uring_context` with its bases; the kernel as second actor |
| `UringContextProofs` | theorems about `UringContext`, for any operations, queue sizes and error numbers |
| `UringStorage` | `uring_context_storage` and the results it travels in: who owns a ring |
| `UringStorageProofs` | the theorem about `UringStorage`, for any number of objects and rings |
| `AsyncOperation` | an awaited operation, over the abstract ring and the abstract executor |
| `AsyncOperationProofs` | theorems about `AsyncOperation`, for any operations on one thread or several |
| `OwningSlots` | abstract `unique_function`: slots that own one callable each |
| `UniqueFunction` | `unique_function` with the memory its callables live in |
| `UniqueFunctionProofs` | theorems about `UniqueFunction`, for any functions, callables and alignments |
| `PollService` | `poll_service`: the two lists and the functions that `poll()` calls |
| `PollServiceProofs` | theorems about `PollService`, for any descriptors, functions and depth of nesting |
| `UniqueLock` | `unique_lock` and `async_acquire` with a lock, over one semaphore |
| `UniqueLockProofs` | theorems about `UniqueLock`, for any number of locks and handlers |
| `MC*` | instances for TLC: symmetry sets and constant functions |

Names follow the source: variables are called like the members they stand for
(`m_function_queue`, `m_coroutine`), actions like the functions.  Variables that
are marked *history* record what happened and do not influence any action.
A definition with an underscore in its name (`Counted_Once`, `Seen_OneShort`)
is a faulty variant of the definition after it.  No specification uses these;
replacing the definition by the variant makes the property that is about it fail,
which shows that the property depends on that piece of code.

### Semaphore

State: `m_count` and `m_functions` of the source, and for each thread the position
in the call it executes with the local variables that outlive an atomic access.
`fetch_sub` and `fetch_add`, the load and the exchange of `try_acquire`, and each
`enqueue` and `try_dequeue` are one action each, so every interleaving of these is
explored.  The queue is a set, as the moodycamel queue orders the elements of one
producer only, and `try_dequeue` may miss elements that are there (`Spurious`): an
empty answer of a lock-free queue is only a snapshot of its sub-queues.
`NDEBUG` tells whether the assertions are compiled in; it is chosen from `Builds` in
the initial state and never changes, so that one instance covers both builds.

`PermitPool` says what callers may rely on: permits are promised to waiters or free,
and a claim is never given out twice.  `Semaphore` implements it with
the counter as free permits (when positive) or waiters (when negative).

### Execution contexts

`ExecutionContext` is both classes; `synchronized`, chosen in the initial state, says
which.  Each thread has a stack of activations of `run()` (only the thread `Main` has
one if the context is unsynchronized).  A function may post, call `run()` again and
throw at any point of its execution; an exception takes the innermost activation with
it.  The classes differ in what they do around the call.  The unsynchronized `run()`
moves the oldest function out, pops, calls, and destroys the function at the end of the
iteration (`MoveFront`, `IterationEnds`).  The synchronized one has `f` outside of the
loop: a function that has returned stays there, with what it captured, until the next
successful `try_pop` or the end of `run()` (`TryPop`, `FunctionReturns`).  Seeing the
queue empty (`LoopEnds`) and returning (`RunReturns`) are two steps, between which
others post.  Both classes implement `TaskQueue`.

### The io_uring context

`sq`, `kernel`, `cq` and `batch` are the places an operation passes through:
submission queue, kernel, completion queue, and the span of the caller of
`wait_many`.  `submit` is `AsyncBegin` and then one of `SubmitStores`,
`SubmitRetries` (again and again), `SubmitAborts`, `SubmitRefuses`; `wait_many` is
`WaitBegin` and one of three ends.  The functions `async_*` differ in the
entry they fill, and for the model in when the kernel ends what they start: at once, at
an event, after several entries, or by ending others (the sets `...Functions`; `Starter`
says which function starts each operation).  Opening, reading and writing may wait for an
event, on a pipe or a socket, and count as such; closing, `statx`, synchronizing, advice
and buffers end by themselves.  The assertions of these functions about their arguments
have no effect in the model: a build that compiles them in cannot create a context.  What `async_cancel_fd` reaches is `doomed`
from then on, and the kernel ends it.  Operations that cancel by id end
nothing for certain: the ids a program can have are uninitialized or those of refused
operations.  The results the functions return are records (`NativeResult`) whose
`HasValue` and `HasError` are those of `result.hpp`,
which say the opposite of what they are called.  What follows from this is in the
model as it is in the code: a context cannot be created by a debug build, a
release build reads one from memory nobody wrote, and `submit` deletes the
`Completion` of every operation it has queued.  `Destroy` ends the context with
whatever is in it.  Reading such memory is a choice:
by chance it is intact, or the state is `"undefined"` and the model stops.

### Who owns a ring

In `UringStorage` a ring is in the `m_uring` of a storage or in the value of a
`native::result`.  Storages are constructed, moved, assigned and destroyed in any order,
results are created by `create`, moved, asked for their value and destroyed.  Three
oddities of the code are in the model as they are.  Assigning to a storage without a
ring does nothing.  The inverted `has_value()` makes the move of a successful result
leave the ring behind, with the new result's value unwritten, and the move of a failed
one move out of memory nobody wrote (`Garbage`).  The destructor of a result destroys the union around
the value, which does nothing, so that a ring in it stays open (`dropped`).

### poll_service

`m_fds` is sorted, which both binary searches rely on (`LowerBound`, `FdsSorted`), and
`m_completions` is meant to have the opposite order.  A descriptor that is polled already
is refused if it is at the position of the search (`AlreadyPolled`).  `poll()`
walks a copy of the descriptors while the functions it calls change both lists and
call `poll()` again, so `frames` is a stack.  The position it erases in
`m_completions` is one past the one it means; for the lowest descriptor that is
`end()`.  This is undefined; with libstdc++ the last element goes.  `Iterate` is the
latter and `IterateUndefined` the former, and both are possible in every such state, as
`CMakeLists.txt` fixes no library.

### unique_lock

A lock is what its `m_sem` and `m_locked` say, or no object.  The class declares a
destructor and nothing else, so the compiler adds copies, and moving copies too
(`CopyConstruct`, `CopyAssign`).  `extra` counts how many permits copies have made, or
lost.  `release()` relieves a lock of its permit without giving it back; the model's
program gives back such permits (`loose`), one or several at a time.  Calls of the
semaphore are single steps here: their interleavings are in `Semaphore`.
`acquire.hpp:22` calls the handler with two arguments while `concepts.hpp:39` asks for
handlers of one variant, so only handlers that can be called both ways come that far:
`detached` and variadic lambdas, not `use_awaitable`.

### Awaited operations

`AsyncOperation` conjoins its steps with the actions of `CompletionRing` and
`TaskQueue`: the callback of the ring dispatches an entry and submits a task
(`Callback`).  That of `async_stat` first copies into the caller's `struct stat`, a step
of its own (`CallbackCopies`), so that what other threads do in between, and the order of
the two, are in the model.  `Pipeline` is both queues in a row, and implements `TaskQueue` again.  Which functions are awaited, and whether coroutines, ring and
executor share one thread, is chosen in the initial state; with one thread the
steps of a coroutine between `async_result()` and `await_suspend()` are not
interrupted (`BetweenExpressions`).  That is the case of an awaitable that is awaited in the
expression that starts its operation; a caller who keeps it and awaits it later may lose the
wake-up on one thread too, in the way that `async_lost` shows for several.  The ring is taken here as what `CompletionRing` promises, so the
early deletion described below, which breaks a callback before it is invoked, is
not repeated in this module.

### unique_function

`mem` holds, for each function, its `m_state`, the object in its storage with its
offset, plus the buffer of `swap` and the heap.  The functions of a `virtual_table`
are operators on this memory that also note when they are applied to an object that
is not there (`bad`), or with an address of the wrong alignment.  `swap` composes them in
the order of the code.  It counts the index of a callable from the start of the function
(`FromStart`), whose `m_state` takes the first `StateSize` = 24 bytes; `tmp_buf` is as
large as a function and used with that index, the storages with 24 less (`InStorage`).

## What the runs show

| Run | Instance | Shows |
|---|---|---|
| `semaphore` | both builds, 3 threads, 2 handlers, at most 4 permits | permits, posts and claims agree in every interleaving; the counter is the balance of all permits; `try_acquire` takes from a positive counter only; `release` meets an empty queue only while an `async_acquire` stores its handler; the semaphore implements `PermitPool`; calls return |
| `contexts` | both classes, 2 threads, 3 functions of which 2 may throw | who owns a function at each moment and when it is destroyed; counts of nested and concurrent activations; what a thread has posted was taken when its `run()` returns; functions start in the order of their posts (`TaskQueue`); activations end and own posts are executed |
| `uring` | 4 operations: a multishot poll, an accept, a `cancel_fd` of the latter and one that ends by itself; submission queue of 3 | entries and operations are conserved through full queues, partial submissions, errors, short spans and signals; the context implements `CompletionRing`; what was queued finishes; a cancellation reaches what was started before it |
| `storage` | 3 storages, 2 results, 3 rings, both builds | an open ring has one owner unless a result was destroyed with it, and nobody has a closed one |
| `async` | 3 operations, on one thread and on several | a resumed coroutine finds its result and its `struct stat`, and throws exactly when the operation failed; handlers start once, in the order in which the kernel ended their operations; the `struct stat` of a caller is filled in before its handler starts; on one thread a coroutine is suspended before its handler runs, and is resumed if its operation ends |
| `function` | 3 functions, callables of each storage kind | callables stay whole through every sequence of moves, are invoked and destroyed where they are, once, and nothing stays behind; a `unique_function` implements `OwningSlots` |
| `poll` | 3 descriptors, 4 functions, 2 calls of `poll()` in progress | the lists keep equal lengths, the descriptors stay sorted and no function is called twice, although `poll()` erases the wrong ones; each completion lost in this way leaves an empty entry, and there are no other losses; with one descriptor at a time every function is called for its own event |
| `lock` | 3 locks, 3 handlers, 2 permits, at most 2 more by copies | permits are neither made nor lost but by copies; no more locks own a permit, or are about to, than there are permits and copies of owning locks |

Where the code and what it says of itself disagree, a run finds the counterexample:

| Run | Disagreement |
|---|---|
| `semaphore_stranded` | a `release` that brings the counter to 0 posts nobody; the next one makes the counter positive and the handler stays stored, against `semaphore.hpp:111-112` |
| `semaphore_release_assert` | the assertion of `semaphore.hpp:122` fails while an `async_acquire` has counted itself and not stored its handler |
| `uring_alive` | the `Completion` of a queued operation is deleted at once, as `has_error()` answers the opposite, against `uring_service.hpp:745` |
| `async_lost` | with an executor on another thread the handler may resume the initial `noop_coroutine`; the coroutine then sleeps for ever, against `use_awaitable.hpp:98` |

Further observations that the models contain and no run is about:

* The destructor of the semaphore asserts `size_approx() != 0`, the opposite of
  its message: a debug build aborts when nothing is pending (`Destroy`).
* In a debug build `create` always aborts when there is a ring: the inverted
  `has_error()` leads to `from_error(0)`, which asserts that its argument is not
  0 (`CreateWithRing`).
* An operation that was given up because the queue was full returns an id, against
  `uring_service.hpp:179` (`SubmitReturns`).
* `unlock()` releases one permit, for which `release()` of the semaphore posts nobody:
  handlers that wait for a lock are called only if somebody releases several permits
  at once (`Admits`).  It is the disagreement of `semaphore_stranded`, met through a lock.
* `poll()` with several descriptors calls functions of others, and functions without an
  event (`wrong`), erases others uncalled and may take an empty one (`IterateUndefined`).
  `LostLeavesHollow` says how many; `ServedWhileAlone` is about one descriptor at a time.
  There every iteration erases `end()`, so what it says holds only with a standard
  library in which that removes the last element.
* Assignment to a `uring_context_storage` without a ring leaves both sides as they are,
  against `uring_service.hpp:94-98` (`MoveAssign`).  A ring in a result that is
  destroyed is never closed (`DestroyResult`).
* `submit` returns no id for an operation it has queued (`SubmitReturns`), so no
  queued operation can be cancelled by its id.
* `complete()` deletes a `Completion` only if its callback throws (`Complete`).
* `async_close` gives its handler an `error_code` in either case, so awaiting it
  throws after a success too; `ThrowsOnFailureOnly` leaves it out.
* `async_stat` hands on the negative error number, which is a detail of the data
  that `AsyncOperation` does not have.
* An operation that the ring refuses drops its handler, and the coroutine that
  awaits it is never resumed (`OpRefused`).

### Bounds

Every bound is a constant of a module or a value in a `.cfg` file.

* `Semaphore`: `MaxIssued` = 4 bounds the permits a program puts in.  Three threads
  suffice for one that stores a handler, one that releases, and one that tries or
  acquires in between; two handlers let one wait while another is posted.
* Execution contexts: `MaxNested` = 1 bounds the calls of `run()` one function makes;
  a function that such a call executes may make one too, so a stack can hold
  an activation for each function and one more.
  Three functions are enough for one that posts, one that runs the context and one
  that throws into it, while a second thread runs the context too.
* `UringContext`: the submission queue has three entries and there are four
  operations, so that it is full, submitted whole and in part.  `EINTR` and
  `EBADR`, which the code compares with the number of submitted entries, are scaled
  to this size (1 and 3 instead of 4 and 53), so that a count equal to either, and
  one equal to neither, occur.  `MaxMore` = 1 bounds the entries of a multishot
  operation before its last.  Spans of 1 and 2 are shorter than the completion queue
  can be.  `uring_alive` needs neither and keeps 4 and 53.
* `UringStorage`: three storages and two results, so that one ring can pass through a
  result and two storages while another is assigned over.
* `PollService`: three descriptors make the lowest, a middle and the highest position
  of the lists; with four functions one can be added by a function that `poll()` calls.
  `MaxNested` = 2 bounds the calls of `poll()` in progress.
* `UniqueLock`: `Desired` = 2 permits and three locks, so that one of them waits or is a
  copy; `MaxExtra` = 2 bounds the copies of owning locks.
* `AsyncOperation`: three operations, so that a handler, a callback and a coroutine
  of three different ones can be in progress.
* `UniqueFunction`: three functions let a callable be moved on while another takes
  its place; two inline callables of different alignment, one on the heap, one
  that is a plain pointer.

Symmetry is used where no liveness is checked and the module treats the
elements alike: handlers of `poll`, locks and handlers of `lock`, objects and rings of
`storage`, threads and handlers of the two violation runs of `Semaphore`.

Deadlock is not checked: every model has finitely many operations and the program
may stop when they are done, or destroy its objects.

### Fairness

Weak fairness on the steps of a call says that a thread that is inside a function
is scheduled.  Nothing is assumed of when calls are made, with exceptions that belong
to the callers: `StoredFinishes`, `CancelledFinishes` and `ResumedOnOneThread`
(`AwaitedIsResumed`) assume that somebody calls `wait_many`, `complete` and `run()` again and again, and
that the kernel ends the operations it was given.  In `UringContext` the latter is
assumed of operations that end by themselves and of those it was told to cancel, in
`AsyncOperation` of stat and close (`EndsByItself`).  Those in `Awaiting` (polls, timeouts,
receiving, opening, reading, writing, ...) may stay in the kernel for ever, and `StoredFinishes` says that
they do not keep the others from finishing; only a thread that is blocked for their
entries again and again gets one.  Strong fairness is used where other calls may
disable a step in between: `WaitMany` and `WaitReturns`, which a signal or a partial
submission may end early without doing so each time, and in `AsyncOperation` the
steps that need the one thread to be free.

## What is proved

Every invariant, action property and refinement that the passing runs check is a
theorem of TLAPS too, for every value of the constants.  So is the type
invariant of `Semaphore`, `ExecutionContext`, `AsyncOperation` and `UniqueFunction`, which their runs leave to the
proof.
Each proof module states an inductive invariant `IInv`, which holds on the instance of the
run too (to repeat this with TLC, extend the proof module and check `IInv`), and proves that the
initial states satisfy it and that each action keeps it, with a lemma per action or kind
of action.  The theorems follow from it.  The only assumptions are the named `ASSUME`s
about the constants of the module, which TLC evaluates in every run.

`SemaphoreProofs` proves, for any sets of threads and handlers, any initial count,
any updates and any bound, debug or release, spurious dequeues or not:

| Theorem | Property |
|---|---|
| `TypeCorrect` | `TypeOK` |
| `CounterIsBalance` | `Ledger` |
| `NeverOverAdmits` | `NoOverAdmission` |
| `EveryClaimCovered` | `ClaimsCovered` |
| `NeverPostedTwice` | `PostedOnce` |
| `EmptyMeansStoring` | `EmptyOnlyWhileStoring` |
| `TryTakesFree` | `TryTakesFreePermit` |
| `Refinement` | `PoolSpec` |

The only assumption is `SemaphoreAssumption`, which types the constants and says
that the empty function is not a handler.  None of the safety properties is
inductive by itself.  `IInv` has what makes them so:

* `Locals`: what the position of a thread says about its local variables;
* `InOnePlace`: a handler that a thread has in its hands, or that is stored, is in
  no other place and was not posted;
* `AllFinite`: the sets that are counted are finite, whatever the constants are;
* `Ledger`: the counter is what was put in, less what is owned, less who waits.

With `Ledger`, over-admission would need the counter below minus the number of
waiting handlers, which `ClaimsCovered` excludes; `ClaimsCovered` survives a
`release` because the loop of the code claims exactly as many handlers as the
counter was below zero, and survives each iteration because a claim and a waiting
handler go together.  The proof that a step preserves `IInv` has one lemma per
action; `RowSize`, `ClaimsChange` and `FewerClaims` do the counting, and the same
step lemmas give the step of `PermitPool` that `Refinement` needs.

`UniqueLockProofs` proves, for any sets of locks and handlers, any initial count and any
number of copies, from `UniqueLockAssumption` alone:

| Theorem | Property |
|---|---|
| `EveryPermitAccounted` | `PermitsAccounted` |
| `LocksExclude` | `ExcludesOthers` |

`PermitsAccounted` is the sum of everything that holds permits, and a step moves a
permit from one summand to another.  That needs `Apart` (a handler is stored or posted,
not both; otherwise a release would count it once less) and `AllFinite`.  `ExcludesOthers` says that
the counter and those who wait make up a number that is not negative, which is
`Covered`, with the copies on the other side of the sum; a release keeps it, as it takes
out as many handlers as the counter was below zero.  `OwningAfter` reduces every write to a lock to adding it to, or removing it
from, the set of those that own a permit, and `ReleaseAdds` is the one place that
counts what a release does.

`UringStorageProofs` proves `EveryRingHasOneHolder` (`OneHolder`) for any number of
storages, results and rings, from `StorageAssumption`.  With the types the property is
inductive.  The proof restates it per ring as three cases (`HolderOf`: a storage has
it and nobody else, a result has it and nobody else, or it is closed or dropped
and nobody has it).  A step that takes a ring from its holder gives it to another,
closes it or drops it, and leaves the case of all other rings as it was (`SameHolder`).

`ExecutionContextProofs` proves, for any sets of threads and functions and any depth of
nesting, synchronized or not, from `ContextAssumption`:

| Theorem | Property |
|---|---|
| `TypeCorrect` | `TypeOK` |
| `FunctionsHaveOneOwner` | `OneOwner` |
| `EndedAreKeptBetweenCalls` | `KeptBetweenCalls` |
| `ContextLeaksNothing` | `NothingLeaks` |
| `OwnPostsAreTaken` | `OwnPostsTaken` |
| `ImplementsTaskQueue` | `QueueSpec` |
| `RunCountsEachOnce` | `CountsAgree` |

`OneOwner` counts places and does not say what a place means, so no step preserves it by
itself.  `IInv` says where functions are and what that tells about them:

* `Stacks`: an activation that has called another one is inside its function, and the
  unsynchronized `run()` has no function between two calls;
* `Places`: no function is twice in the queue, in two activations, or in both;
* `Meaning`: what is queued has not ended and still exists; what is in an activation has
  ended exactly if the activation is between two calls; what is nowhere was destroyed;
  after the destructor no activation is left;
* `SeenEmpty`: a thread that has left its loop has nothing of its own in the queue.  This
  is `OwnPostsTaken` one step earlier: between `LoopEnds` and `RunReturns` others
  post, but the thread itself is busy returning.

`OneOwner` is then three cases, in each of which two of the summands are 0
(`OneHolder` counts the activations).  For `QueueSpec`, the functions that run are those of
the activations inside a call: `InvokeStarts` and `EndEnds` show that a step adds
or removes one of them, and all other steps but `Post` stutter.

`CountsAgree` adds up the local counts of all activations.  It is stated as a cardinality:
`Counts` has one mark for each increment of each activation, so that a call that ends adds
one mark and one finished function (`ReturnCounted`), and an activation that returns or
that an exception ends takes its row of marks with it, to `reported` or to `lost`
(`LeftCounted`).  `Counting` adds that the sets are finite, which no constant guarantees.

`UringContextProofs` proves, for any operations started by any of the functions, any size
of the submission queue, any spans and error numbers, from `UringAssumption`:

| Theorem | Property |
|---|---|
| `TypeCorrect` | `TypeOK` |
| `NothingFollowsLast` | `NothingAfterLast` |
| `OperationsConserved` | `Conserved` |
| `ImplementsCompletionRing` | `RingSpec` |

The entries between the kernel and `complete()` are one sequence, `Pending`.  A
`wait_many`, however short its span, moves the border inside of it (`WaitReturnsPending`),
the kernel appends to it and `complete()` takes its head.  `IInv` adds to the types:

* `Distinct`: an operation is once in the submission queue or in the kernel, not both,
  which a submission of a part of the queue keeps (`EnterMoves`);
* `Stages`: what is under way has no last entry and has not finished; what was stored is
  under way, has its last entry in `Pending`, or has finished; nothing follows a last entry;
* `Submitting`: an operation is stored or refused, once, and not before its `Completion`
  was allocated;
* `SpanFree`: a thread that waits has completed all entries of its last `wait_many`.
  Without it `wait_many` would overwrite entries that nobody has seen.

`Conserved` is a sum of four cardinalities; `Stages` says which of them is 1
(`LastEntriesOf`).  The mapping to `CompletionRing` takes what is under way as accepted
and what has its last entry, or has finished, as concluded; `StagesOfRing` says that
an operation that was stored is one or the other.

`AsyncOperationProofs` proves, for any operations, for both kinds of threading, from
`AsyncOperationAssumption`:

| Theorem | Property |
|---|---|
| `TypeCorrect` | `TypeOK` |
| `ResultIsThere` | `NeverResumedEmpty` |
| `StatIsThere` | `StatBeforeHandler` |
| `ThrowsTheOperationsError` | `ThrowsOnFailureOnly` |
| `OneThreadResumes` | `EndedMeansResumed` |
| `HandlersInOrder` | `PipelineSpec` |

A handler is in one place of the executor (`OnePlace`) and is posted after its operation
was concluded (`AfterConclusion`).  As no step changes the result of a concluded operation, what
the handler has stored is still the result when the coroutine reads it (`Results`, which also
says that what is in the executor has its `struct stat`; `StatBeforeHandler` follows).
`CoroutineFollows` ties the coroutine to this: on one thread it is suspended as soon as
its handler is in the executor.  On several threads that does not hold, and the run
`async_lost` shows what comes of it.

`PipelineSpec` is a refinement of `TaskQueue` a second time, by ring and executor together: the
queue is `Pipeline`, the posted handlers followed by those of the entries.
The kernel's step is the abstract submission (`ConcludeIsSubmit`, which needs
`AfterConclusion`: the operation has no entry and was not posted before), the callback moves a
handler over the border inside the sequence and is a stutter (`CallbackKeepsOrder`), `run()` takes
the first of all (`RunTakesIsStart`).

`PollServiceProofs` proves, for any descriptors, functions and depth of nested calls, from
`PollAssumption`:

| Theorem | Property |
|---|---|
| `ListsAreParallel` | `SameLength` |
| `DescriptorsStaySorted` | `FdsSorted` |
| `NoSecondCall` | `CalledOnce` |
| `LossesAreHollowEntries` | `LostLeavesHollow` |
| `OneAtATimeIsServed` | `ServedWhileAlone` |

`SameLength` and `CalledOnce` hold although the erased position is wrong: an iteration takes one element
out of each list, whichever it is (`Erased`), and the function it calls has left an empty one
where it was, so that what is still in `m_completions` was never called (`Fresh`).  For
`ServedWhileAlone`, `Alone` says what holds as long as no `poll()` has seen several descriptors:
`m_completions` is `m_fds` in the opposite order (`Mirror`), a function that was added and not called
is in the list (`Kept`), each activation has polled one descriptor (`OneEach`),
and one that is about to call a function sees the lists as they were when it started
(`AsPolled`).  The last one is why functions may add descriptors and poll again: they do so
after their own descriptor's turn.

`LostLeavesHollow` is a difference of two counts.  A completion that waits for its call has an
entry, its own or an empty one: an addition makes one of each, a call ends one of each
(`Entries`).  The entries that are not empty hold different completions that wait (`Fresh`), so
what is left on either side, the lost ones and the empty entries, is equally many
(`LostAsHollow`).

`std::lower_bound` is modelled by what it counts, the smaller descriptors.  In a sorted list
these are the first ones: their positions are as many as they are (`BoundSplits`), so an insertion
there keeps the order, strictly as the one position that `async_poll_add` looks at would hold
the descriptor if the list had it (`AddsInOrder`); an erasure keeps it wherever it
is (`IteratesInOrder`).

`UniqueFunctionProofs` proves, for any functions and callables, with any alignments, from
`UniqueFunctionAssumption` and `NullAssumption` (`nullptr` is the address of nothing):

| Theorem | Property |
|---|---|
| `TypeCorrect` | `TypeOK` |
| `InvokesWhatItHolds` | `InvokesItsOwn` |
| `MemoryIsSound` | `NeverMisused` |
| `NothingIsLeft` | `NothingLeftBehind` |
| `ImplementsOwningSlots` | `OwningSpec` |

Between two operations the whole memory is a function of who holds which callable:
`mem = MemoryOf(held)`, with every callable at its place, every unused storage and the
buffer of `swap` empty, and nothing misused.  `Owners` says that no callable is
held twice, by a function that does not exist, or after its destruction.  An operation
changes `held`, and the work is to show that the steps of the code end in
`MemoryOf` of the new one.  For `swap` these are its three branches (`PointersSwap`, `OneInlineSwaps`,
`BothInlineSwap`), composed of moves of one callable to a storage that is free
(`Relocates`) at the index that the storage or `tmp_buf` has for it (`Alignments`); `Swaps` sums them up as an exchange of two holders.  `HoldsDirect`, `HoldsInline`,
`HoldsOnHeap` and `Destructs` do the same for construction and destruction.

Only model-checked: liveness (`CallsReturn`, `RunEnds`, `OwnPostsRun`,
`StoredFinishes`, `CancelledFinishes`, `ResumedOnOneThread`), which needs fairness and
enabledness, and is out of the prover's reach.  The
properties of the four runs that end in a violation do not hold.

## What is not modelled, and why

* Memory order: atomic accesses are sequentially consistent.  The orders the code
  asks for (acquire, release) are enough for the counter of the semaphore, whose
  value alone is used.
* The lock-free queues are external: `moodycamel::ConcurrentQueue` is a set,
  `tbb::concurrent_queue` a linearizable queue.
* Failure of an allocation; overflow of the counters.
* Moving an execution context, and moving a `unique_function` to itself, which no code
  does.  Moving a uring context is moving its storage.
* Copies of results, `result<syscall>` and results of references, which no code uses.
  Functions that return a result are taken to construct it in place (NRVO).
* Data: buffers, error numbers, the fields of `struct stat`, the flags of a mode
  string (whether it is valid is modelled).
* `synchronized_uring_context`: no object of it can be made, as its base has no
  default constructor and the class declares none.  Its `submit_to_kernel` would
  repeat for ever, with the mutex held: the `break` of line 890 leaves the `switch`.
* `epoll_service` and `epoll/accept.hpp`: `async_poll_add` cannot be instantiated,
  and `poll()` asks for no events.
* `awaitable.hpp`, `use_future`, `detached_throw` as a handler, and the io_uring
  operations other than open, read, stat and close: they do not compile when used
  (a const cast, handlers of two arguments, callbacks of an `int32_t`).  Nor does
  `async_epoll_ctl` of the uring context.
* `main.cpp`: `run_until_complete` only asks `pending()`, so nothing it prepares is
  ever executed.
* Build files, concepts, handles, strings, `clamp`, `function_view`: no state.

## Plan

What is left, in this order:

1. `UringContext`: addresses of `Completion`s as identifiers, their reuse after a
   deletion, and the cancelling operations that name one.  Abstract specification: each
   entry reaches the callback of its own operation.
2. `AsyncOperation` over `ExecutionContext` and `UringContext` themselves instead of
   their abstractions.
3. Proofs: every safety property the passing runs check is proved.  What 1 and 2
   add to the models needs its proofs extended: with 2, `AsyncOperation` inherits what is
   proved about `ExecutionContext` and `UringContext` through their refinements.
