-------------------------- MODULE ExecutionContext --------------------------
(***************************************************************************)
(* tcx::unsynchronized_execution_context and                               *)
(* tcx::synchronized_execution_context: post                               *)
(* (include/tcx/*_execution_context.hpp) and run                           *)
(* (src/execution_context.cpp), where the two classes differ.              *)
(*                                                                         *)
(* A function that run() executes may post, may call run() again, and ends *)
(* by returning or by throwing; an exception leaves the innermost run()    *)
(* and reaches the function, or the program, that called it.               *)
(*                                                                         *)
(* The unsynchronized context belongs to one thread.  Its run() destroys a *)
(* function at the end of the iteration that called it.  The synchronized  *)
(* one belongs to all threads.  oneapi::tbb::concurrent_queue is external: *)
(* a linearizable first-in first-out queue, whose try_pop(f) move-assigns  *)
(* the oldest item to f and destroys what is left of the item.  The move   *)
(* assignment of tcx::unique_function swaps (unique_function.hpp:163-167), *)
(* so what that destroys is the function f held before: run() keeps a      *)
(* function that has returned until its next try_pop succeeds, or until    *)
(* run() is left.                                                          *)
(***************************************************************************)
EXTENDS Integers, Sequences, FiniteSets, SequencesExt

CONSTANTS
  Threads,
  Main,      \* the thread that uses an unsynchronized context
  Tasks,     \* functions; each is posted once
  NoTask,    \* an empty function_storage
  Throwing,  \* functions that may throw, or let an exception through
  MaxNested  \* bound of the model: calls of run() that one function makes

ASSUME ContextAssumption ==
  /\ Main \in Threads
  /\ NoTask \notin Tasks
  /\ Throwing \subseteq Tasks
  /\ MaxNested \in Nat

VARIABLES
  synchronized,      \* the class of the context; no step changes it
  m_function_queue,  \* oldest first
  alive,             \* the context was not destroyed
  frames,            \* each thread's activations of run(), innermost last
  own,               \* history: the functions each thread posted
  finished,          \* history: functions that returned
  threw,             \* history: functions that threw
  destroyed,         \* history: how often each was destroyed; 2: or more
  reported,          \* history: sum of what the activations returned
  lost               \* history: counts of activations an exception ended

context == <<synchronized, m_function_queue, alive>>
history == <<own, finished, threw, destroyed, reported, lost>>
vars == <<context, frames, history>>

(* An activation: its f and count, what it does (at the head of the loop,  *)
(* in f(), or on its way out), and the calls of run() that f has made.     *)
Frame == [f : Tasks \cup {NoTask}, count : Nat,
          at : {"loop", "call", "leaving"}, nested : 0..MaxNested]

TypeOK ==
  /\ synchronized \in BOOLEAN
  /\ m_function_queue \in Seq(Tasks)
  /\ alive \in BOOLEAN
  /\ frames \in [Threads -> Seq(Frame)]
  /\ own \in [Threads -> SUBSET Tasks]
  /\ finished \subseteq Tasks
  /\ threw \subseteq Tasks
  /\ destroyed \in [Tasks -> 0..2]
  /\ reported \in Nat
  /\ lost \in Nat

Init ==
  /\ synchronized \in BOOLEAN
  /\ m_function_queue = <<>>
  /\ alive = TRUE
  /\ frames = [t \in Threads |-> <<>>]
  /\ own = [t \in Threads |-> {}]
  /\ finished = {}
  /\ threw = {}
  /\ destroyed = [x \in Tasks |-> 0]
  /\ reported = 0
  /\ lost = 0

-----------------------------------------------------------------------------
Posted == UNION {own[t] : t \in Threads}

top(t) == frames[t][Len(frames[t])]

callers(t) == Front(frames[t])

(* run: its local variables at the start. *)
NewFrame == [f |-> NoTask, count |-> 0, at |-> "loop", nested |-> 0]

Replace(t, frame) == [frames EXCEPT ![t][Len(frames[t])] = frame]

At(t, label) == frames[t] # <<>> /\ top(t).at = label

(* The thread's own code runs, or a function of its innermost activation.  *)
Active(t) ==
  /\ alive
  /\ synchronized \/ t = Main
  /\ frames[t] = <<>> \/ At(t, "call")

Destroy(dead) ==
  destroyed' = [x \in Tasks |-> IF x \notin dead THEN destroyed[x]
                                ELSE IF destroyed[x] = 0 THEN 1 ELSE 2]

(* post: the queue after the push. *)
Pushed_Twice(x) == m_function_queue \o <<x, x>>

Pushed(x) == Append(m_function_queue, x)

(* unsynchronized run: the queue after front() was moved from and popped. *)
Popped_Newest == Front(m_function_queue)

Popped == Tail(m_function_queue)

(* synchronized run: the queue after a try_pop. *)
Remaining == Tail(m_function_queue)

(* synchronized run: the functions that try_pop(f) destroys. *)
Overwritten_Forgotten(t) == {}

Overwritten(t) == {top(t).f} \ {NoTask}

(* run: the functions destroyed with the variable f. *)
Local_Static(t) == {}

Local(t) == {top(t).f} \ {NoTask}

(* The destructor of the queue. *)
Discarded == ToSet(m_function_queue)

(* run: m_function_queue.empty(), or try_pop finds nothing. *)
NothingLeft_AfterOne(t) == m_function_queue = <<>> \/ top(t).count > 0

NothingLeft_Never(t) == FALSE

NothingLeft(t) == m_function_queue = <<>>

(* run: ++count. *)
Counted_Once(t) == 1

Counted(t) == top(t).count + 1

-----------------------------------------------------------------------------
(* post: emplace at the back. *)
Post(t, x) ==
  /\ Active(t)
  /\ x \notin Posted
  /\ m_function_queue' = Pushed(x)
  /\ own' = [own EXCEPT ![t] = @ \cup {x}]
  /\ UNCHANGED <<synchronized, alive, frames, finished, threw, destroyed,
                 reported, lost>>

(* run is called, by the thread's own code or by a function. *)
Run(t) ==
  /\ Active(t)
  /\ frames[t] # <<>> => top(t).nested < MaxNested
  /\ LET outer == IF frames[t] = <<>> THEN <<>>
                  ELSE Append(callers(t), [top(t) EXCEPT !.nested = @ + 1])
     IN  frames' = [frames EXCEPT ![t] = Append(outer, NewFrame)]
  /\ UNCHANGED <<context, history>>

(* run: f is the oldest function now, and is called. *)
Invoke(t) ==
  /\ At(t, "loop")
  /\ m_function_queue # <<>>
  /\ frames' = Replace(t, [top(t) EXCEPT !.f = Head(m_function_queue),
                                         !.at = "call", !.nested = 0])
  /\ UNCHANGED <<synchronized, alive, own, finished, threw, reported, lost>>

(* unsynchronized run: auto f = std::move(front()); pop(); f(). *)
MoveFront(t) ==
  /\ ~synchronized
  /\ Invoke(t)
  /\ m_function_queue' = Popped
  /\ UNCHANGED destroyed

(* unsynchronized run: f returns, is counted and goes out of scope. *)
IterationEnds(t) ==
  /\ ~synchronized
  /\ At(t, "call")
  /\ frames' = Replace(t, [top(t) EXCEPT !.f = NoTask, !.at = "loop",
                                         !.count = Counted(t)])
  /\ finished' = finished \cup {top(t).f}
  /\ Destroy(Local(t))
  /\ UNCHANGED <<context, own, threw, reported, lost>>

(* synchronized run: try_pop(f) succeeds and f is called. *)
TryPop(t) ==
  /\ synchronized
  /\ Invoke(t)
  /\ m_function_queue' = Remaining
  /\ Destroy(Overwritten(t))

(* synchronized run: f returns and is counted; the variable f keeps it. *)
FunctionReturns(t) ==
  /\ synchronized
  /\ At(t, "call")
  /\ frames' = Replace(t, [top(t) EXCEPT !.at = "loop", !.count = Counted(t)])
  /\ finished' = finished \cup {top(t).f}
  /\ UNCHANGED <<context, own, threw, destroyed, reported, lost>>

(* The function throws: run() is left, and with it the count. *)
FunctionThrows(t) ==
  /\ At(t, "call")
  /\ top(t).f \in Throwing
  /\ frames' = [frames EXCEPT ![t] = callers(t)]
  /\ threw' = threw \cup {top(t).f}
  /\ lost' = lost + top(t).count
  /\ Destroy(Local(t))
  /\ UNCHANGED <<context, own, finished, reported>>

(* run: nothing is queued, and the loop is left. *)
LoopEnds(t) ==
  /\ At(t, "loop")
  /\ NothingLeft(t)
  /\ frames' = Replace(t, [top(t) EXCEPT !.at = "leaving"])
  /\ UNCHANGED <<context, history>>

(* run returns count.  Others may have posted since the loop was left. *)
RunReturns(t) ==
  /\ At(t, "leaving")
  /\ frames' = [frames EXCEPT ![t] = callers(t)]
  /\ reported' = reported + top(t).count
  /\ Destroy(Local(t))
  /\ UNCHANGED <<context, own, finished, threw, lost>>

(* The destructor, which no call may overlap, destroys what is queued. *)
DestroyContext ==
  /\ alive
  /\ \A t \in Threads : frames[t] = <<>>
  /\ alive' = FALSE
  /\ Destroy(Discarded)
  /\ UNCHANGED <<synchronized, m_function_queue, frames, own, finished, threw,
                 reported, lost>>

Step(t) ==
  \/ MoveFront(t) \/ IterationEnds(t)
  \/ TryPop(t) \/ FunctionReturns(t)
  \/ LoopEnds(t) \/ RunReturns(t)

Next ==
  \/ \E t \in Threads :
       \/ \E x \in Tasks : Post(t, x)
       \/ Run(t)
       \/ Step(t)
       \/ FunctionThrows(t)
  \/ DestroyContext

Spec == Init /\ [][Next]_vars

(* Threads are scheduled, and every function ends in the end. *)
FairSpec == Spec /\ \A t \in Threads : WF_vars(Step(t))

-----------------------------------------------------------------------------
(* Safety. *)

Activations == UNION {{t} \X (1..Len(frames[t])) : t \in Threads}

Holders(x) == {a \in Activations : frames[a[1]][a[2]].f = x}

Queued(x) == {i \in 1..Len(m_function_queue) : m_function_queue[i] = x}

(* Threads that run the context together never share a function nor lose   *)
(* one: until it is destroyed, a posted function is in the queue or in one *)
(* activation, and nowhere after (execution_context.cpp:8-10, 19-24).      *)
OneOwner ==
  alive => \A x \in Posted :
             Cardinality(Holders(x)) + Cardinality(Queued(x)) + destroyed[x] = 1

(* A function that has ended, with all that it captured, outlives its call *)
(* only in an activation of the synchronized run() that is between two     *)
(* calls (execution_context.cpp:8-12, 19-24).                              *)
KeptBetweenCalls ==
  \A x \in finished \cup threw : destroyed[x] = 0 =>
    /\ synchronized
    /\ \E t \in Threads : \E i \in 1..Len(frames[t]) :
         frames[t][i].f = x /\ frames[t][i].at # "call"

(* When the context is gone every function was destroyed, once: those that *)
(* ran, those that threw and those that never ran                          *)
(* (synchronized_execution_context.hpp:32, execution_context.cpp:19-26).   *)
NothingLeaks == ~alive => \A x \in Posted : destroyed[x] = 1

(* What a thread has posted was taken out, by it or by another thread,     *)
(* when a call of run() that it makes returns, although others go on       *)
(* posting after its loop was left (execution_context.cpp:7, 21-26).       *)
OwnPostsTaken ==
  [][\A t \in Threads : RunReturns(t) => own[t] \cap ToSet(m_function_queue) = {}]_vars

(* As many as the counts of all activations in progress add up to. *)
Counts == UNION {{a} \X (1..frames[a[1]][a[2]].count) : a \in Activations}

(* Neither nested activations nor other threads count a function twice or  *)
(* miss one: what run() returned, and what the activations in progress and *)
(* those ended by an exception counted, is the number of functions that    *)
(* returned (execution_context.cpp:6, 11-13, 18, 23-26).                   *)
CountsAgree == reported + lost + Cardinality(Counts) = Cardinality(finished)

(* A context of either class implements the queue of tasks: functions are  *)
(* started once, in the order of their posts, after exceptions and through *)
(* nested activations too.                                                 *)
Calling(t) == {frames[t][i].f : i \in {j \in 1..Len(frames[t]) : frames[t][j].at = "call"}}

Queue == INSTANCE TaskQueue WITH
           waiting <- m_function_queue,
           running <- UNION {Calling(t) : t \in Threads},
           ended <- finished \cup threw

(* execution_context.cpp:4-27 refines TaskQueue. *)
QueueSpec == Queue!QueueSpec

-----------------------------------------------------------------------------
(* Liveness, under FairSpec. *)

(* run() returns or is left by an exception, if functions end and post     *)
(* finitely many others (execution_context.cpp:7, 20-22).                  *)
RunEnds == \A t \in Threads : frames[t] # <<>> ~> frames[t] = <<>>

(* What a thread has posted by the time it executes a function is executed *)
(* in the end, unless an exception ends an activation: no wake-up is lost  *)
(* between its look at the queue and the posts of others                   *)
(* (execution_context.cpp:7, 20).                                          *)
OwnPostsRun ==
  \A t \in Threads, x \in Tasks :
    At(t, "call") /\ x \in own[t] ~> x \in finished \/ threw # {}
=============================================================================
