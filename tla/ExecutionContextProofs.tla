----------------------- MODULE ExecutionContextProofs -----------------------
(***************************************************************************)
(* Theorems about ExecutionContext, for any number of threads and          *)
(* functions and any depth of nested activations.                          *)
(*                                                                         *)
(* The argument: a function that was posted is in the queue, in one        *)
(* activation, or gone, and the place says what has happened to it.  Each  *)
(* action moves one function from its place to the next.                   *)
(***************************************************************************)
EXTENDS ExecutionContext, SequenceTheorems, FiniteSetTheorems, TLAPS

(* An activation that has called another is inside its function, and the   *)
(* unsynchronized run() keeps no function between two calls.               *)
Stacks ==
  \A t \in Threads : \A i \in 1..Len(frames[t]) :
    /\ i < Len(frames[t]) => frames[t][i].at = "call"
    /\ frames[t][i].at = "call" => frames[t][i].f # NoTask
    /\ ~synchronized /\ frames[t][i].at # "call" => frames[t][i].f = NoTask

(* No function is in two places. *)
DistinctQueued ==
  \A i, j \in 1..Len(m_function_queue) :
    m_function_queue[i] = m_function_queue[j] => i = j

DistinctHeld ==
  \A t, u \in Threads : \A i \in 1..Len(frames[t]), j \in 1..Len(frames[u]) :
    frames[t][i].f = frames[u][j].f /\ frames[t][i].f # NoTask => t = u /\ i = j

QueuedNotHeld ==
  \A t \in Threads : \A i \in 1..Len(frames[t]), k \in 1..Len(m_function_queue) :
    frames[t][i].f # m_function_queue[k]

(* What the place of a function says of it. *)
QueuedFresh ==
  alive => \A k \in 1..Len(m_function_queue) :
             /\ m_function_queue[k] \in Posted
             /\ destroyed[m_function_queue[k]] = 0
             /\ m_function_queue[k] \notin finished \cup threw

HeldPosted ==
  \A t \in Threads : \A i \in 1..Len(frames[t]) : frames[t][i].f # NoTask =>
    /\ frames[t][i].f \in Posted
    /\ destroyed[frames[t][i].f] = 0
    /\ frames[t][i].f \in finished \cup threw <=> frames[t][i].at # "call"

UnpostedFresh ==
  \A x \in Tasks \ Posted : destroyed[x] = 0 /\ x \notin finished \cup threw

InQueue(x) == \E k \in 1..Len(m_function_queue) : m_function_queue[k] = x

InFrame(x) == \E t \in Threads : \E i \in 1..Len(frames[t]) : frames[t][i].f = x

Gone(x) == destroyed[x] = 1 /\ x \in finished \cup threw

NoneMissing == alive => \A x \in Posted : Gone(x) \/ InQueue(x) \/ InFrame(x)

(* The destructor ran: no activation is left, and no function. *)
AllOver ==
  ~alive => /\ \A t \in Threads : frames[t] = <<>>
            /\ \A x \in Posted : destroyed[x] = 1

(* A thread that has left its loop has nothing of its own in the queue. *)
SeenEmpty ==
  \A t \in Threads : At(t, "leaving") =>
    \A k \in 1..Len(m_function_queue) : m_function_queue[k] \notin own[t]

Places == DistinctQueued /\ DistinctHeld /\ QueuedNotHeld

Meaning == QueuedFresh /\ HeldPosted /\ UnpostedFresh /\ NoneMissing /\ AllOver

IInv == TypeOK /\ Stacks /\ Places /\ Meaning /\ SeenEmpty

-----------------------------------------------------------------------------
(* Sequences. *)

(* Front(s) is s without its last element. *)
LEMMA FrontOf ==
  ASSUME NEW S, NEW s \in Seq(S), s # <<>>
  PROVE  /\ Front(s) \in Seq(S)
         /\ Len(s) \in Nat \ {0}
         /\ Len(Front(s)) = Len(s) - 1
         /\ \A i \in 1..Len(s) - 1 : Front(s)[i] = s[i]
<1>1. PICK n \in Nat \ {0} : n = Len(s)
  BY EmptySeq
<1>2. \A i \in 1..n - 1 : s[i] \in S
  BY <1>1, ElementOfSeq
<1>3. /\ SubSeq(s, 1, n - 1) \in Seq(S)
      /\ Len(SubSeq(s, 1, n - 1)) = IF 1 <= n - 1 THEN (n - 1) - 1 + 1 ELSE 0
      /\ \A i \in 1..(n - 1) - 1 + 1 : SubSeq(s, 1, n - 1)[i] = s[1 + i - 1]
  BY <1>2, SubSeqProperties
<1>4. /\ (IF 1 <= n - 1 THEN (n - 1) - 1 + 1 ELSE 0) = n - 1
      /\ \A i \in 1..n - 1 : i \in 1..(n - 1) - 1 + 1 /\ 1 + i - 1 = i
  OBVIOUS
<1>5. QED
  BY <1>1, <1>3, <1>4, Zenon DEF Front

LEMMA SetOfSeq ==
  ASSUME NEW S, NEW s \in Seq(S)
  PROVE  \A x : x \in ToSet(s) <=> \E k \in 1..Len(s) : s[k] = x
BY LenProperties DEF ToSet

-----------------------------------------------------------------------------
(* What a step does to the activations of one thread. *)

(* Thread t's innermost activation becomes frame. *)
TopBecomes(t, frame) ==
  /\ frames' \in [Threads -> Seq(Frame)]
  /\ \A u \in Threads : u # t => frames'[u] = frames[u]
  /\ Len(frames[t]) \in Nat \ {0}
  /\ Len(frames'[t]) = Len(frames[t])
  /\ frames'[t][Len(frames[t])] = frame
  /\ \A i \in 1..Len(frames[t]) : i # Len(frames[t]) => frames'[t][i] = frames[t][i]

(* Thread t's innermost activation is left. *)
TopLeaves(t) ==
  /\ frames' \in [Threads -> Seq(Frame)]
  /\ \A u \in Threads : u # t => frames'[u] = frames[u]
  /\ Len(frames[t]) \in Nat \ {0}
  /\ Len(frames'[t]) = Len(frames[t]) - 1
  /\ \A i \in 1..Len(frames[t]) - 1 : frames'[t][i] = frames[t][i]

LEMMA TopReplaced ==
  ASSUME TypeOK, NEW t \in Threads, frames[t] # <<>>,
         NEW frame \in Frame, frames' = Replace(t, frame)
  PROVE  TopBecomes(t, frame)
<1>1. frames[t] \in Seq(Frame)
  BY DEF TypeOK
<1>2. Len(frames[t]) \in 1..Len(frames[t]) /\ Len(frames[t]) \in Nat \ {0}
  BY <1>1, EmptySeq
<1>3. frames' = [frames EXCEPT ![t] = [frames[t] EXCEPT ![Len(frames[t])] = frame]]
  BY DEF Replace
<1>4. frames'[t] = [frames[t] EXCEPT ![Len(frames[t])] = frame]
  BY <1>3 DEF TypeOK
<1>5. /\ frames'[t] \in Seq(Frame)
      /\ Len(frames'[t]) = Len(frames[t])
      /\ \A j \in 1..Len(frames[t]) :
           frames'[t][j] = IF j = Len(frames[t]) THEN frame ELSE frames[t][j]
  BY <1>1, <1>2, <1>4, ExceptSeq
<1>6. frames' \in [Threads -> Seq(Frame)] /\ \A u \in Threads : u # t => frames'[u] = frames[u]
  BY <1>3, <1>4, <1>5 DEF TypeOK
<1>7. QED
  BY <1>2, <1>5, <1>6 DEF TopBecomes

LEMMA TopLeft ==
  ASSUME TypeOK, NEW t \in Threads, frames[t] # <<>>,
         frames' = [frames EXCEPT ![t] = callers(t)]
  PROVE  TopLeaves(t)
<1>1. frames[t] \in Seq(Frame)
  BY DEF TypeOK
<1>2. /\ callers(t) \in Seq(Frame)
      /\ Len(frames[t]) \in Nat \ {0}
      /\ Len(callers(t)) = Len(frames[t]) - 1
      /\ \A i \in 1..Len(frames[t]) - 1 : callers(t)[i] = frames[t][i]
  BY <1>1, FrontOf DEF callers
<1>3. frames'[t] = callers(t) /\ \A u \in Threads : u # t => frames'[u] = frames[u]
  BY DEF TypeOK
<1>4. frames' \in [Threads -> Seq(Frame)]
  BY <1>2 DEF TypeOK
<1>5. QED
  BY <1>2, <1>3, <1>4 DEF TopLeaves

(* A thread that is in an activation, and its innermost one. *)
LEMMA TopType ==
  ASSUME TypeOK, NEW t \in Threads, frames[t] # <<>>
  PROVE  /\ Len(frames[t]) \in 1..Len(frames[t])
         /\ Len(frames[t]) \in Nat \ {0}
         /\ top(t) = frames[t][Len(frames[t])]
         /\ top(t) \in Frame
<1>1. frames[t] \in Seq(Frame)
  BY DEF TypeOK
<1>2. Len(frames[t]) \in 1..Len(frames[t]) /\ Len(frames[t]) \in Nat \ {0}
  BY <1>1, EmptySeq
<1>3. QED
  BY <1>1, <1>2, ElementOfSeq DEF top

-----------------------------------------------------------------------------
(* The initial states, and one lemma per action. *)

LEMMA InitIInv == Init => IInv
<1> SUFFICES ASSUME Init PROVE IInv
  OBVIOUS
<1>1. TypeOK
  BY EmptySeq DEF Init, TypeOK
<1>2. Len(m_function_queue) = 0 /\ \A t \in Threads : frames[t] = <<>> /\ Len(frames[t]) = 0
  BY DEF Init
<1>3. Posted = {}
  BY DEF Init, Posted
<1>4. Stacks /\ Places
  BY <1>2 DEF Stacks, Places, DistinctQueued, DistinctHeld, QueuedNotHeld
<1>5. Meaning /\ SeenEmpty
  BY <1>2, <1>3 DEF Init, Meaning, QueuedFresh, HeldPosted, UnpostedFresh, NoneMissing,
                    AllOver, SeenEmpty, At
<1>6. QED
  BY <1>1, <1>4, <1>5 DEF IInv

(* post (execution_context.hpp:22-28): a new function, at the end. *)
LEMMA PostIInv ==
  ASSUME IInv, NEW t \in Threads, NEW x \in Tasks, Post(t, x)
  PROVE  IInv'
<1>1. /\ m_function_queue' \in Seq(Tasks)
      /\ Len(m_function_queue) \in Nat
      /\ Len(m_function_queue') = Len(m_function_queue) + 1
      /\ \A k \in 1..Len(m_function_queue) : m_function_queue'[k] = m_function_queue[k]
      /\ m_function_queue'[Len(m_function_queue) + 1] = x
  BY AppendProperties, LenProperties DEF IInv, TypeOK, Post, Pushed
<1>2. /\ x \notin Posted /\ alive /\ UNCHANGED <<synchronized, alive, frames, finished, threw, destroyed>>
      /\ own' = [own EXCEPT ![t] = @ \cup {x}]
      /\ UNCHANGED <<reported, lost>>
  BY DEF Post, Active
<1>3. Posted' = Posted \cup {x}
  BY <1>2 DEF Posted, IInv, TypeOK
<1>4. TypeOK'
  BY <1>1, <1>2 DEF IInv, TypeOK
<1>5. Stacks'
  BY <1>2 DEF IInv, Stacks
<1>6. DistinctQueued'
  BY <1>1, <1>2 DEF IInv, Places, Meaning, DistinctQueued, QueuedFresh
<1>7. DistinctHeld'
  BY <1>2 DEF IInv, Places, DistinctHeld
<1>8. QueuedNotHeld'
  <2>1. \A u \in Threads : \A i \in 1..Len(frames[u]) : frames[u][i].f # x
    BY <1>2, ContextAssumption DEF IInv, Meaning, HeldPosted
  <2>2. QED
    BY <1>1, <1>2, <2>1 DEF IInv, Places, QueuedNotHeld
<1>9. QueuedFresh'
  BY <1>1, <1>2, <1>3 DEF IInv, Meaning, QueuedFresh, UnpostedFresh
<1>10. HeldPosted'
  BY <1>2, <1>3 DEF IInv, Meaning, HeldPosted
<1>11. UnpostedFresh'
  BY <1>2, <1>3 DEF IInv, Meaning, UnpostedFresh
<1>12. NoneMissing'
  <2>1. ASSUME NEW y, InQueue(y) PROVE InQueue(y)'
    BY <1>1, <2>1 DEF InQueue
  <2>2. ASSUME NEW y, InFrame(y) PROVE InFrame(y)'
    BY <1>2, <2>2 DEF InFrame
  <2>3. ASSUME NEW y, Gone(y) PROVE Gone(y)'
    BY <1>2, <2>3 DEF Gone
  <2>4. InQueue(x)'
    BY <1>1 DEF InQueue
  <2>5. QED
    BY <1>2, <1>3, <2>1, <2>2, <2>3, <2>4 DEF IInv, Meaning, NoneMissing
<1>13. AllOver'
  BY <1>2 DEF AllOver
<1>14. SeenEmpty'
  <2>1. SUFFICES ASSUME NEW u \in Threads, At(u, "leaving"),
                        NEW k \in 1..Len(m_function_queue'), m_function_queue'[k] \in own'[u]
                 PROVE  FALSE
    BY <1>2 DEF SeenEmpty, At, top
  <2>2. u # t
    BY <2>1 DEF Post, Active, At
  <2>3. own'[u] = own[u] /\ own[u] \subseteq Posted
    BY <1>2, <2>2 DEF IInv, TypeOK, Posted
  <2>4. QED
    BY <1>1, <1>2, <2>1, <2>3 DEF IInv, SeenEmpty
<1>15. QED
  BY <1>4, <1>5, <1>6, <1>7, <1>8, <1>9, <1>10, <1>11, <1>12, <1>13, <1>14
  DEF IInv, Places, Meaning

(* Thread t enters an activation; the one that calls it, if any, counts    *)
(* the call and stays as it is.                                            *)
TopEnters(t) ==
  /\ frames' \in [Threads -> Seq(Frame)]
  /\ \A u \in Threads : u # t => frames'[u] = frames[u]
  /\ Len(frames[t]) \in Nat
  /\ Len(frames'[t]) = Len(frames[t]) + 1
  /\ frames'[t][Len(frames[t]) + 1] = NewFrame
  /\ \A i \in 1..Len(frames[t]) : /\ frames'[t][i].f = frames[t][i].f
                                  /\ frames'[t][i].at = frames[t][i].at
                                  /\ frames'[t][i].count = frames[t][i].count

LEMMA TopEntered ==
  ASSUME IInv, NEW t \in Threads, Run(t)
  PROVE  TopEnters(t)
<1> DEFINE outer == IF frames[t] = <<>> THEN <<>>
                    ELSE Append(callers(t), [top(t) EXCEPT !.nested = @ + 1])
<1>1. frames[t] \in Seq(Frame) /\ Len(frames[t]) \in Nat
  BY LenProperties DEF IInv, TypeOK
<1>2. NewFrame \in Frame
  BY ContextAssumption DEF NewFrame, Frame
<1>3. /\ outer \in Seq(Frame)
      /\ Len(outer) = Len(frames[t])
      /\ \A i \in 1..Len(frames[t]) : /\ outer[i].f = frames[t][i].f
                                      /\ outer[i].at = frames[t][i].at
                                      /\ outer[i].count = frames[t][i].count
  <2>1. CASE frames[t] = <<>>
    BY <2>1, EmptySeq
  <2>2. CASE frames[t] # <<>>
    <3>1. /\ callers(t) \in Seq(Frame)
          /\ Len(frames[t]) \in Nat \ {0}
          /\ Len(callers(t)) = Len(frames[t]) - 1
          /\ \A i \in 1..Len(frames[t]) - 1 : callers(t)[i] = frames[t][i]
      BY <1>1, <2>2, FrontOf DEF callers
    <3>2. top(t) \in Frame /\ top(t) = frames[t][Len(frames[t])]
      BY <2>2, TopType DEF IInv
    <3>3. PICK caller \in Frame : /\ caller = [top(t) EXCEPT !.nested = @ + 1]
                                  /\ caller.f = top(t).f
                                  /\ caller.at = top(t).at
                                  /\ caller.count = top(t).count
      BY <2>2, <3>2, ContextAssumption DEF Run, Frame
    <3>4. outer = Append(callers(t), caller)
      BY <2>2, <3>3
    <3> HIDE DEF outer
    <3>5. /\ outer \in Seq(Frame)
          /\ Len(outer) = Len(callers(t)) + 1
          /\ \A i \in 1..Len(callers(t)) : outer[i] = callers(t)[i]
          /\ outer[Len(callers(t)) + 1] = caller
      BY <3>1, <3>4, AppendProperties
    <3>6. \A i \in 1..Len(frames[t]) :
            outer[i] = IF i = Len(frames[t]) THEN caller ELSE frames[t][i]
      BY <3>1, <3>5
    <3>7. /\ caller.f = frames[t][Len(frames[t])].f
          /\ caller.at = frames[t][Len(frames[t])].at
          /\ caller.count = frames[t][Len(frames[t])].count
      BY <3>2, <3>3
    <3>8. QED
      BY <3>1, <3>5, <3>6, <3>7
  <2>3. QED
    BY <2>1, <2>2
<1>4. frames' = [frames EXCEPT ![t] = Append(outer, NewFrame)]
  BY DEF Run
<1> HIDE DEF outer
<1>5. /\ Append(outer, NewFrame) \in Seq(Frame)
      /\ Len(Append(outer, NewFrame)) = Len(outer) + 1
      /\ \A i \in 1..Len(outer) : Append(outer, NewFrame)[i] = outer[i]
      /\ Append(outer, NewFrame)[Len(outer) + 1] = NewFrame
  BY <1>2, <1>3, AppendProperties
<1>6. frames'[t] = Append(outer, NewFrame)
  BY <1>4 DEF IInv, TypeOK
<1>7. frames' \in [Threads -> Seq(Frame)] /\ \A u \in Threads : u # t => frames'[u] = frames[u]
  BY <1>4, <1>5 DEF IInv, TypeOK
<1>8. QED
  BY <1>1, <1>3, <1>5, <1>6, <1>7 DEF TopEnters

(* A step that brings no function into an activation, nor moves one from   *)
(* an activation to another.                                               *)
NoneAdded ==
  \A u \in Threads : \A i \in 1..Len(frames'[u]) : frames'[u][i].f # NoTask =>
    i \in 1..Len(frames[u]) /\ frames[u][i].f = frames'[u][i].f

LEMMA PlacesKept ==
  ASSUME IInv, NoneAdded, m_function_queue' = m_function_queue
  PROVE  Places'
<1>1. DistinctQueued'
  BY DEF IInv, Places, DistinctQueued
<1>2. DistinctHeld'
  <2> SUFFICES ASSUME NEW t \in Threads, NEW u \in Threads,
                      NEW i \in 1..Len(frames'[t]), NEW j \in 1..Len(frames'[u]),
                      frames'[t][i].f = frames'[u][j].f, frames'[t][i].f # NoTask
               PROVE  t = u /\ i = j
    BY DEF DistinctHeld
  <2>1. i \in 1..Len(frames[t]) /\ frames[t][i].f = frames'[t][i].f
    BY Zenon DEF NoneAdded
  <2>2. j \in 1..Len(frames[u]) /\ frames[u][j].f = frames'[u][j].f
    BY Zenon DEF NoneAdded
  <2>3. frames[t][i].f = frames[u][j].f /\ frames[t][i].f # NoTask
    BY <2>1, <2>2, Zenon
  <2>4. QED
    BY <2>1, <2>2, <2>3 DEF IInv, Places, DistinctHeld
<1>3. QueuedNotHeld'
  <2>1. \A k \in 1..Len(m_function_queue) : m_function_queue[k] # NoTask
    BY ContextAssumption, ElementOfSeq DEF IInv, TypeOK
  <2>2. QED
    BY <2>1 DEF IInv, Places, QueuedNotHeld, NoneAdded
<1>4. QED
  BY <1>1, <1>2, <1>3 DEF Places

(* run is entered (execution_context.cpp:4-6, 16-19): its f is empty. *)
LEMMA RunIInv ==
  ASSUME IInv, NEW t \in Threads, Run(t)
  PROVE  IInv'
<1>1. TopEnters(t)
  BY TopEntered
<1>2. /\ alive /\ UNCHANGED <<context, history>>
      /\ frames[t] # <<>> => frames[t][Len(frames[t])].at = "call"
  BY DEF Run, Active, At, top
<1>3. NewFrame.f = NoTask /\ NewFrame.at = "loop"
  BY DEF NewFrame
<1>4. frames[t] # <<>> <=> Len(frames[t]) # 0
  BY EmptySeq DEF IInv, TypeOK
<1>5. UNCHANGED Posted
  BY <1>2 DEF Posted, history
<1>6. TypeOK'
  BY <1>1, <1>2 DEF TopEnters, IInv, TypeOK, context, history
<1>7. Stacks'
  <2> SUFFICES ASSUME NEW u \in Threads, NEW i \in 1..Len(frames'[u])
               PROVE  /\ i < Len(frames'[u]) => frames'[u][i].at = "call"
                      /\ frames'[u][i].at = "call" => frames'[u][i].f # NoTask
                      /\ ~synchronized' /\ frames'[u][i].at # "call" => frames'[u][i].f = NoTask
    BY DEF Stacks
  <2>1. synchronized' = synchronized
    BY <1>2 DEF context
  <2>2. CASE u = t /\ i = Len(frames[t]) + 1
    BY <1>1, <1>3, <2>2 DEF TopEnters
  <2>3. CASE u = t /\ i # Len(frames[t]) + 1
    <3>1. /\ i \in 1..Len(frames[t])
          /\ frames'[u][i].at = frames[t][i].at /\ frames'[u][i].f = frames[t][i].f
      BY <1>1, <2>3 DEF TopEnters
    <3>2. i = Len(frames[t]) => frames[t][i].at = "call"
      BY <1>2, <1>4, <3>1
    <3>3. QED
      BY <2>1, <3>1, <3>2 DEF IInv, Stacks
  <2>4. CASE u # t
    BY <1>1, <2>1, <2>4 DEF TopEnters, IInv, Stacks
  <2>5. QED
    BY <2>2, <2>3, <2>4
<1>8. NoneAdded
  BY <1>1, <1>3 DEF TopEnters, NoneAdded
<1>9. Places'
  BY <1>2, <1>8, PlacesKept DEF context
<1>11. QueuedFresh' /\ UnpostedFresh'
  BY <1>2, <1>5 DEF IInv, Meaning, QueuedFresh, UnpostedFresh, context, history
<1>12. HeldPosted'
  BY <1>1, <1>2, <1>3, <1>5 DEF TopEnters, IInv, Meaning, HeldPosted, history
<1>13. NoneMissing'
  <2>1. ASSUME NEW y, InFrame(y) PROVE InFrame(y)'
    <3>1. PICK u \in Threads : \E i \in 1..Len(frames[u]) : frames[u][i].f = y
      BY <2>1 DEF InFrame
    <3>2. PICK i \in 1..Len(frames[u]) : frames[u][i].f = y
      BY <3>1
    <3>3. i \in 1..Len(frames'[u]) /\ frames'[u][i].f = y
      BY <1>1, <3>2 DEF TopEnters
    <3>4. QED
      BY <3>3 DEF InFrame
  <2>2. \A y : (InQueue(y)' <=> InQueue(y)) /\ (Gone(y)' <=> Gone(y))
    BY <1>2 DEF InQueue, Gone, context, history
  <2>3. QED
    BY <1>2, <1>5, <2>1, <2>2 DEF IInv, Meaning, NoneMissing, context
<1>14. AllOver'
  BY <1>2 DEF AllOver, context
<1>15. SeenEmpty'
  <2>1. ASSUME NEW u \in Threads, At(u, "leaving")' PROVE At(u, "leaving")
    BY <1>1, <1>3, <2>1 DEF TopEnters, At, top
  <2>2. QED
    BY <1>2, <2>1 DEF IInv, SeenEmpty, context, history
<1>16. QED
  BY <1>6, <1>7, <1>9, <1>11, <1>12, <1>13, <1>14, <1>15
  DEF IInv, Places, Meaning

(* The function of an innermost activation is there and nowhere else. *)
LEMMA TopFunction ==
  ASSUME IInv, NEW t \in Threads, frames[t] # <<>>, top(t).f # NoTask
  PROVE  /\ top(t).f \in Posted /\ top(t).f \in Tasks
         /\ destroyed[top(t).f] = 0
         /\ top(t).f \in finished \cup threw <=> top(t).at # "call"
         /\ \A u \in Threads : \A i \in 1..Len(frames[u]) :
              frames[u][i].f = top(t).f => u = t /\ i = Len(frames[t])
         /\ \A k \in 1..Len(m_function_queue) : m_function_queue[k] # top(t).f
<1>1. /\ Len(frames[t]) \in 1..Len(frames[t])
      /\ top(t) = frames[t][Len(frames[t])]
      /\ top(t) \in Frame
  BY TopType DEF IInv
<1>2. /\ top(t).f \in Posted
      /\ destroyed[top(t).f] = 0
      /\ top(t).f \in finished \cup threw <=> top(t).at # "call"
  BY <1>1 DEF IInv, Meaning, HeldPosted
<1>3. top(t).f \in Tasks
  BY <1>1 DEF Frame
<1>4. ASSUME NEW u \in Threads, NEW i \in 1..Len(frames[u]), frames[u][i].f = top(t).f
      PROVE  u = t /\ i = Len(frames[t])
  BY <1>1, <1>4 DEF IInv, Places, DistinctHeld
<1>5. \A k \in 1..Len(m_function_queue) : m_function_queue[k] # top(t).f
  BY <1>1 DEF IInv, Places, QueuedNotHeld
<1>6. QED
  BY <1>2, <1>3, <1>4, <1>5, Zenon

(* Which functions a step destroys. *)
LEMMA Destroying ==
  ASSUME TypeOK, NEW dead, Destroy(dead)
  PROVE  /\ destroyed' \in [Tasks -> 0..2]
         /\ \A x \in Tasks : x \notin dead => destroyed'[x] = destroyed[x]
         /\ \A x \in Tasks : x \in dead /\ destroyed[x] = 0 => destroyed'[x] = 1
BY DEF TypeOK, Destroy

(* What holds of the function x that a thread has called, and of the       *)
(* activation it is in.                                                    *)
LEMMA CalledFunction ==
  ASSUME IInv, NEW t \in Threads, At(t, "call")
  PROVE  /\ frames[t] # <<>> /\ top(t) \in Frame /\ top(t).f \in Tasks
         /\ top(t).f # NoTask /\ Local(t) = {top(t).f}
<1>1. /\ Len(frames[t]) \in 1..Len(frames[t])
      /\ top(t) = frames[t][Len(frames[t])]
      /\ top(t) \in Frame
      /\ frames[t] # <<>> /\ top(t).at = "call"
  BY TopType DEF IInv, At
<1>2. top(t).f # NoTask
  BY <1>1 DEF IInv, Stacks
<1>3. QED
  BY <1>1, <1>2 DEF Local, Frame

(* What the activation becomes when its function returns: the              *)
(* unsynchronized run() destroys f, the synchronized one keeps it.         *)
LEMMA IterationEndsTop ==
  ASSUME IInv, NEW t \in Threads, IterationEnds(t)
  PROVE  \E frame \in Frame : /\ TopBecomes(t, frame)
                              /\ frame.f = NoTask /\ frame.at = "loop"
                              /\ frame.count = top(t).count + 1
<1>1. PICK g \in Frame, n \in Nat : g = top(t) /\ n = Counted(t)
  BY CalledFunction DEF IterationEnds, Counted, Frame
<1>2. PICK frame : frame = [g EXCEPT !.f = NoTask, !.at = "loop", !.count = n]
  OBVIOUS
<1>3. frame \in Frame /\ frame.f = NoTask /\ frame.at = "loop" /\ frame.count = n
  BY <1>2 DEF Frame
<1>4. frames' = Replace(t, frame)
  BY <1>1, <1>2 DEF IterationEnds
<1>5. TopBecomes(t, frame)
  BY <1>3, <1>4, CalledFunction, TopReplaced DEF IInv, IterationEnds
<1>6. QED
  BY <1>1, <1>3, <1>5 DEF Counted

LEMMA FunctionReturnsTop ==
  ASSUME IInv, NEW t \in Threads, FunctionReturns(t)
  PROVE  \E frame \in Frame : /\ TopBecomes(t, frame)
                              /\ frame.f = top(t).f /\ frame.at = "loop"
                              /\ frame.count = top(t).count + 1
<1>1. PICK g \in Frame, n \in Nat : g = top(t) /\ n = Counted(t)
  BY CalledFunction DEF FunctionReturns, Counted, Frame
<1>2. PICK frame : frame = [g EXCEPT !.at = "loop", !.count = n]
  OBVIOUS
<1>3. frame \in Frame /\ frame.f = g.f /\ frame.at = "loop" /\ frame.count = n
  BY <1>2 DEF Frame
<1>4. frames' = Replace(t, frame)
  BY <1>1, <1>2 DEF FunctionReturns
<1>5. TopBecomes(t, frame)
  BY <1>3, <1>4, CalledFunction, TopReplaced DEF IInv, FunctionReturns
<1>6. QED
  BY <1>1, <1>3, <1>5 DEF Counted

(* The same when the loop is left, and when a function is called. *)
LEMMA LoopEndsTop ==
  ASSUME IInv, NEW t \in Threads, LoopEnds(t)
  PROVE  \E frame \in Frame : /\ TopBecomes(t, frame)
                              /\ frame.f = top(t).f /\ frame.at = "leaving"
                              /\ frame.count = top(t).count
<1>1. frames[t] # <<>>
  BY DEF LoopEnds, At
<1>2. PICK g \in Frame : g = top(t)
  BY <1>1, TopType DEF IInv
<1>3. PICK frame : frame = [g EXCEPT !.at = "leaving"]
  OBVIOUS
<1>4. frame \in Frame /\ frame.f = g.f /\ frame.at = "leaving" /\ frame.count = g.count
  BY <1>3 DEF Frame
<1>5. frames' = Replace(t, frame)
  BY <1>2, <1>3 DEF LoopEnds
<1>6. TopBecomes(t, frame)
  BY <1>1, <1>4, <1>5, TopReplaced DEF IInv
<1>7. QED
  BY <1>2, <1>4, <1>6

LEMMA InvokeTop ==
  ASSUME IInv, NEW t \in Threads, Invoke(t)
  PROVE  \E frame \in Frame : /\ TopBecomes(t, frame)
                              /\ frame.f = Head(m_function_queue)
                              /\ frame.at = "call"
                              /\ frame.count = top(t).count
<1>1. frames[t] # <<>> /\ m_function_queue # <<>>
  BY DEF Invoke, At
<1>2. PICK g \in Frame : g = top(t)
  BY <1>1, TopType DEF IInv
<1>3. PICK h \in Tasks : h = Head(m_function_queue)
  BY <1>1, HeadTailProperties DEF IInv, TypeOK
<1>4. PICK frame : frame = [g EXCEPT !.f = h, !.at = "call", !.nested = 0]
  OBVIOUS
<1>5. 0 \in 0..MaxNested
  BY ContextAssumption
<1>6. frame \in Frame /\ frame.f = h /\ frame.at = "call" /\ frame.count = g.count
  BY <1>4, <1>5 DEF Frame
<1>7. frames' = Replace(t, frame)
  BY <1>2, <1>3, <1>4 DEF Invoke
<1>8. TopBecomes(t, frame)
  BY <1>1, <1>6, <1>7, TopReplaced DEF IInv
<1>9. QED
  BY <1>2, <1>3, <1>6, <1>8

(* A function ends and is destroyed with its variable, at the end of the   *)
(* iteration (execution_context.cpp:10-12).                                *)
LEMMA IterationEndsIInv ==
  ASSUME IInv, NEW t \in Threads, IterationEnds(t)
  PROVE  IInv'
<1>1. /\ ~synchronized /\ At(t, "call")
      /\ Destroy(Local(t))
      /\ UNCHANGED <<synchronized, m_function_queue, alive, own, threw, reported, lost>>
  BY DEF IterationEnds, context
<1>2. PICK x : x = top(t).f /\ x # NoTask /\ Local(t) = {x}
  BY <1>1, CalledFunction
<1>3. finished' = finished \cup {x}
  BY <1>2 DEF IterationEnds
<1>4. PICK frame \in Frame : /\ TopBecomes(t, frame)
                             /\ frame.f = NoTask
                             /\ frame.at = "loop"
  BY IterationEndsTop
<1>6. /\ x \in Posted /\ x \in Tasks
      /\ destroyed[x] = 0
      /\ \A u \in Threads : \A i \in 1..Len(frames[u]) :
           frames[u][i].f = x => u = t /\ i = Len(frames[t])
      /\ \A k \in 1..Len(m_function_queue) : m_function_queue[k] # x
  BY <1>1, <1>2, TopFunction, CalledFunction, Zenon
<1>7. /\ destroyed' \in [Tasks -> 0..2]
      /\ \A y \in Tasks : y # x => destroyed'[y] = destroyed[y]
      /\ destroyed'[x] = 1
  BY <1>1, <1>2, <1>6, Destroying DEF IInv
<1>8. UNCHANGED Posted
  BY <1>1 DEF Posted
<1>9. TypeOK'
  BY <1>4, <1>1, <1>3, <1>6, <1>7 DEF TopBecomes, IInv, TypeOK
<1>10. Stacks'
  BY <1>1, <1>4 DEF TopBecomes, IInv, Stacks
<1>11. NoneAdded
  BY <1>4 DEF TopBecomes, NoneAdded
<1>12. Places'
  BY <1>1, <1>11, PlacesKept
<1>13. QueuedFresh'
  BY <1>1, <1>3, <1>6, <1>7, <1>8, ElementOfSeq DEF IInv, TypeOK, Meaning, QueuedFresh
<1>14. HeldPosted'
  <2> SUFFICES ASSUME NEW u \in Threads, NEW i \in 1..Len(frames'[u]), frames'[u][i].f # NoTask
               PROVE  /\ frames'[u][i].f \in Posted
                      /\ destroyed'[frames'[u][i].f] = 0
                      /\ frames'[u][i].f \in finished' \cup threw' <=> frames'[u][i].at # "call"
    BY <1>8 DEF HeldPosted
  <2>1. i \in 1..Len(frames[u]) /\ frames'[u][i] = frames[u][i] /\ (u # t \/ i # Len(frames[t]))
    BY <1>4 DEF TopBecomes
  <2>2. frames[u][i].f # x
    BY <1>6, <2>1, Zenon
  <2>3. frames[u][i].f \in Posted /\ Posted \subseteq Tasks
    BY <2>1 DEF IInv, Meaning, HeldPosted, Posted, TypeOK
  <2>4. QED
    BY <1>1, <1>3, <1>7, <2>1, <2>2, <2>3 DEF IInv, Meaning, HeldPosted
<1>15. UnpostedFresh'
  BY <1>1, <1>3, <1>6, <1>7, <1>8 DEF IInv, Meaning, UnpostedFresh
<1>16. NoneMissing'
  <2>1. ASSUME NEW y, InFrame(y), y # x PROVE InFrame(y)'
    BY <1>4, <1>2, <2>1 DEF TopBecomes, InFrame, top
  <2>2. ASSUME NEW y \in Tasks, Gone(y) PROVE Gone(y)'
    BY <1>1, <1>3, <1>6, <1>7, <2>2 DEF Gone
  <2>3. Gone(x)'
    BY <1>3, <1>7 DEF Gone
  <2>4. \A y : InQueue(y)' <=> InQueue(y)
    BY <1>1 DEF InQueue
  <2>5. Posted \subseteq Tasks
    BY DEF IInv, TypeOK, Posted
  <2>6. QED
    BY <1>1, <1>8, <2>1, <2>2, <2>3, <2>4, <2>5 DEF IInv, Meaning, NoneMissing
<1>17. AllOver'
  BY <1>1, <1>2, CalledFunction DEF IInv, Meaning, AllOver
<1>18. SeenEmpty'
  <2>1. ASSUME NEW u \in Threads, At(u, "leaving")' PROVE At(u, "leaving")
    BY <1>4, <2>1 DEF TopBecomes, At, top
  <2>2. QED
    BY <1>1, <2>1 DEF IInv, SeenEmpty
<1>19. QED
  BY <1>9, <1>10, <1>12, <1>13, <1>14, <1>15, <1>16, <1>17, <1>18 DEF IInv, Meaning

(* A function returns and stays in the variable f of its activation        *)
(* (execution_context.cpp:22-24).                                          *)
LEMMA FunctionReturnsIInv ==
  ASSUME IInv, NEW t \in Threads, FunctionReturns(t)
  PROVE  IInv'
<1>1. /\ synchronized /\ At(t, "call")
      /\ UNCHANGED <<synchronized, m_function_queue, alive, own, threw, destroyed, reported, lost>>
  BY DEF FunctionReturns, context
<1>2. PICK x : x = top(t).f /\ x # NoTask
  BY <1>1, CalledFunction
<1>3. finished' = finished \cup {x}
  BY <1>2 DEF FunctionReturns
<1>4. PICK frame \in Frame : /\ TopBecomes(t, frame)
                             /\ frame.f = x
                             /\ frame.at = "loop"
  BY <1>2, FunctionReturnsTop
<1>6. /\ x \in Posted /\ x \in Tasks
      /\ destroyed[x] = 0
      /\ \A u \in Threads : \A i \in 1..Len(frames[u]) :
           frames[u][i].f = x => u = t /\ i = Len(frames[t])
      /\ \A k \in 1..Len(m_function_queue) : m_function_queue[k] # x
  BY <1>1, <1>2, TopFunction, CalledFunction, Zenon
<1>7. UNCHANGED Posted
  BY <1>1 DEF Posted
<1>8. frames[t][Len(frames[t])].f = x
  BY <1>2 DEF top
<1>9. TypeOK'
  BY <1>4, <1>1, <1>3, <1>6 DEF TopBecomes, IInv, TypeOK
<1>10. Stacks'
  BY <1>1, <1>2, <1>4 DEF TopBecomes, IInv, Stacks
<1>11. NoneAdded
  BY <1>4, <1>8 DEF TopBecomes, NoneAdded
<1>12. Places'
  BY <1>1, <1>11, PlacesKept
<1>13. QueuedFresh'
  BY <1>1, <1>3, <1>6, <1>7 DEF IInv, Meaning, QueuedFresh
<1>14. HeldPosted'
  <2> SUFFICES ASSUME NEW u \in Threads, NEW i \in 1..Len(frames'[u]), frames'[u][i].f # NoTask
               PROVE  /\ frames'[u][i].f \in Posted
                      /\ destroyed[frames'[u][i].f] = 0
                      /\ frames'[u][i].f \in finished' \cup threw' <=> frames'[u][i].at # "call"
    BY <1>1, <1>7 DEF HeldPosted
  <2>1. CASE u = t /\ i = Len(frames[t])
    <3>1. frames'[u][i] = frame
      BY <1>4, <2>1, Zenon DEF TopBecomes
    <3>2. QED
      BY <1>3, <1>4, <1>6, <3>1
  <2>2. CASE ~(u = t /\ i = Len(frames[t]))
    <3>1. i \in 1..Len(frames[u]) /\ frames'[u][i] = frames[u][i]
      BY <1>4, <2>2 DEF TopBecomes
    <3>2. frames[u][i].f # x
      BY <1>6, <2>2, <3>1, Zenon
    <3>3. QED
      BY <1>1, <1>3, <3>1, <3>2 DEF IInv, Meaning, HeldPosted
  <2>3. QED
    BY <2>1, <2>2
<1>15. UnpostedFresh'
  BY <1>1, <1>3, <1>6, <1>7 DEF IInv, Meaning, UnpostedFresh
<1>16. NoneMissing'
  <2>1. ASSUME NEW y, InFrame(y) PROVE InFrame(y)'
    BY <1>4, <1>8, <2>1 DEF TopBecomes, InFrame
  <2>2. \A y : Gone(y) => Gone(y)'
    BY <1>1, <1>3 DEF Gone
  <2>3. \A y : InQueue(y)' <=> InQueue(y)
    BY <1>1 DEF InQueue
  <2>4. QED
    BY <1>1, <1>7, <2>1, <2>2, <2>3 DEF IInv, Meaning, NoneMissing
<1>17. AllOver'
  BY <1>1, <1>2, CalledFunction DEF IInv, Meaning, AllOver
<1>18. SeenEmpty'
  <2>1. ASSUME NEW u \in Threads, At(u, "leaving")' PROVE At(u, "leaving")
    BY <1>4, <2>1 DEF TopBecomes, At, top
  <2>2. QED
    BY <1>1, <2>1 DEF IInv, SeenEmpty
<1>19. QED
  BY <1>9, <1>10, <1>12, <1>13, <1>14, <1>15, <1>16, <1>17, <1>18 DEF IInv, Meaning

(* The queue was empty: the loop is left (execution_context.cpp:7, 20-21). *)
LEMMA LoopEndsIInv ==
  ASSUME IInv, NEW t \in Threads, LoopEnds(t)
  PROVE  IInv'
<1>1. /\ At(t, "loop") /\ m_function_queue = <<>>
      /\ UNCHANGED <<synchronized, m_function_queue, alive>>
      /\ UNCHANGED <<own, finished, threw, destroyed, reported, lost>>
  BY DEF LoopEnds, NothingLeft, context, history
<1>2. /\ frames[t] # <<>> /\ top(t) \in Frame /\ top(t).at = "loop"
      /\ Len(frames[t]) \in 1..Len(frames[t]) /\ top(t) = frames[t][Len(frames[t])]
  BY <1>1, TopType DEF At, IInv
<1>3. PICK g \in Frame : g = frames[t][Len(frames[t])] /\ g.at = "loop"
  BY <1>2
<1>4. PICK frame \in Frame : /\ TopBecomes(t, frame)
                             /\ frame.f = g.f
                             /\ frame.at = "leaving"
  BY <1>2, <1>3, LoopEndsTop
<1>6. UNCHANGED Posted
  BY <1>1 DEF Posted
<1>7. TypeOK'
  BY <1>4, <1>1 DEF TopBecomes, IInv, TypeOK
<1>8. Stacks'
  BY <1>1, <1>3, <1>4 DEF TopBecomes, IInv, Stacks
<1>9. NoneAdded
  BY <1>3, <1>4 DEF TopBecomes, NoneAdded
<1>10. Places'
  BY <1>1, <1>9, PlacesKept
<1>11. QueuedFresh' /\ UnpostedFresh'
  BY <1>1, <1>6 DEF IInv, Meaning, QueuedFresh, UnpostedFresh
<1>12. HeldPosted'
  BY <1>1, <1>3, <1>4, <1>6 DEF TopBecomes, IInv, Meaning, HeldPosted
<1>13. NoneMissing'
  <2>1. ASSUME NEW y, InFrame(y) PROVE InFrame(y)'
    BY <1>3, <1>4, <2>1 DEF TopBecomes, InFrame
  <2>2. \A y : (InQueue(y)' <=> InQueue(y)) /\ (Gone(y)' <=> Gone(y))
    BY <1>1 DEF InQueue, Gone
  <2>3. QED
    BY <1>1, <1>6, <2>1, <2>2 DEF IInv, Meaning, NoneMissing
<1>14. AllOver'
  BY <1>1, <1>2 DEF IInv, Meaning, AllOver
<1>15. SeenEmpty'
  BY <1>1 DEF SeenEmpty
<1>16. QED
  BY <1>7, <1>8, <1>10, <1>11, <1>12, <1>13, <1>14, <1>15 DEF IInv, Meaning

(* An activation is left and its variable f, the last place of a function  *)
(* that has ended, is destroyed (execution_context.cpp:10, 19-26).         *)
LEMMA ActivationLeftIInv ==
  ASSUME IInv, NEW t \in Threads, frames[t] # <<>>, top(t).at # "loop",
         frames' = [frames EXCEPT ![t] = callers(t)],
         Destroy(Local(t)), UNCHANGED <<context, own>>,
         finished' \subseteq Tasks, threw' \subseteq Tasks,
         finished' \cup threw' = finished \cup threw \cup Local(t),
         reported' \in Nat, lost' \in Nat
  PROVE  IInv'
<1>1. TopLeaves(t)
  BY TopLeft, Zenon DEF IInv
<1>2. PICK x : x = top(t).f
  OBVIOUS
<1>3. /\ top(t) \in Frame /\ Len(frames[t]) \in 1..Len(frames[t])
      /\ frames[t][Len(frames[t])].f = x
      /\ Local(t) = {x} \ {NoTask}
  BY <1>2, TopType DEF IInv, Local
<1>4. x # NoTask => /\ x \in Posted /\ x \in Tasks
                    /\ destroyed[x] = 0
                    /\ \A u \in Threads : \A i \in 1..Len(frames[u]) :
                         frames[u][i].f = x => u = t /\ i = Len(frames[t])
                    /\ \A k \in 1..Len(m_function_queue) : m_function_queue[k] # x
  BY <1>2, TopFunction, Zenon
<1>5. /\ destroyed' \in [Tasks -> 0..2]
      /\ \A y \in Tasks : y # x => destroyed'[y] = destroyed[y]
      /\ x # NoTask => destroyed'[x] = 1
  BY <1>3, <1>4, Destroying, ContextAssumption DEF IInv
<1>6. /\ UNCHANGED <<synchronized, m_function_queue, alive, own>>
      /\ UNCHANGED Posted
      /\ Posted \subseteq Tasks
  BY DEF context, Posted, IInv, TypeOK
<1>7. PICK over : over = finished' \cup threw' /\ over = finished \cup threw \cup ({x} \ {NoTask})
  BY <1>3
<1>8. TypeOK'
  BY <1>1, <1>5, <1>6 DEF TopLeaves, IInv, TypeOK
<1>9. Stacks'
  BY <1>1, <1>6 DEF TopLeaves, IInv, Stacks
<1>10. NoneAdded
  BY <1>1 DEF TopLeaves, NoneAdded
<1>11. Places'
  BY <1>6, <1>10, PlacesKept
<1>12. QueuedFresh'
  <2>1. \A k \in 1..Len(m_function_queue) : m_function_queue[k] \in Tasks /\ m_function_queue[k] # x
    BY <1>4, ElementOfSeq, ContextAssumption DEF IInv, TypeOK
  <2>2. QED
    BY <1>5, <1>6, <1>7, <2>1 DEF IInv, Meaning, QueuedFresh
<1>13. HeldPosted'
  <2> SUFFICES ASSUME NEW u \in Threads, NEW i \in 1..Len(frames'[u]), frames'[u][i].f # NoTask
               PROVE  /\ frames'[u][i].f \in Posted
                      /\ destroyed'[frames'[u][i].f] = 0
                      /\ frames'[u][i].f \in over <=> frames'[u][i].at # "call"
    BY <1>6, <1>7 DEF HeldPosted
  <2>1. i \in 1..Len(frames[u]) /\ frames'[u][i] = frames[u][i] /\ (u # t \/ i # Len(frames[t]))
    BY <1>1 DEF TopLeaves
  <2>2. frames[u][i].f # x
    BY <1>4, <2>1
  <2>3. frames[u][i].f \in Posted
    BY <2>1 DEF IInv, Meaning, HeldPosted
  <2>4. QED
    BY <1>5, <1>6, <1>7, <2>1, <2>2, <2>3 DEF IInv, Meaning, HeldPosted
<1>14. UnpostedFresh'
  <2>1. \A y \in Tasks \ Posted : y # x
    BY <1>4, ContextAssumption
  <2>2. QED
    BY <1>5, <1>6, <1>7, <2>1 DEF IInv, Meaning, UnpostedFresh
<1>15. NoneMissing'
  <2>1. ASSUME NEW y, InFrame(y), y # x PROVE InFrame(y)'
    BY <1>1, <1>3, <2>1 DEF TopLeaves, InFrame
  <2>2. ASSUME NEW y \in Tasks, Gone(y) PROVE Gone(y)'
    <3>1. x # NoTask => y # x
      BY <1>4, <2>2 DEF Gone
    <3>2. y # x
      BY <3>1, ContextAssumption
    <3>3. QED
      BY <1>5, <1>7, <2>2, <3>2 DEF Gone
  <2>3. x # NoTask => Gone(x)'
    BY <1>5, <1>7 DEF Gone
  <2>4. \A y : InQueue(y)' <=> InQueue(y)
    BY <1>6 DEF InQueue
  <2>5. QED
    BY <1>6, <2>1, <2>2, <2>3, <2>4, ContextAssumption DEF IInv, Meaning, NoneMissing
<1>16. AllOver'
  BY <1>6 DEF IInv, Meaning, AllOver
<1>17. SeenEmpty'
  <2>1. ASSUME NEW u \in Threads, At(u, "leaving")' PROVE At(u, "leaving")
    <3>1. CASE u # t
      BY <1>1, <2>1, <3>1 DEF TopLeaves, At, top
    <3>2. CASE u = t
      <4>1. frames'[t] \in Seq(Frame) /\ frames'[t] # <<>>
        BY <1>1, <2>1, <3>2 DEF TopLeaves, At
      <4>2. Len(frames'[t]) \in 1..Len(frames[t]) - 1
        BY <1>1, <4>1, EmptySeq DEF TopLeaves
      <4>3. frames'[t][Len(frames'[t])].at = "call"
        BY <1>1, <4>2 DEF TopLeaves, IInv, Stacks
      <4>4. QED
        BY <2>1, <3>2, <4>3 DEF At, top
    <3>3. QED
      BY <3>1, <3>2
  <2>2. QED
    BY <1>6, <2>1 DEF IInv, SeenEmpty
<1>18. QED
  BY <1>8, <1>9, <1>11, <1>12, <1>13, <1>14, <1>15, <1>16, <1>17 DEF IInv, Meaning

(* run returns: the activation's last function was over already. *)
LEMMA RunReturnsIInv ==
  ASSUME IInv, NEW t \in Threads, RunReturns(t)
  PROVE  IInv'
<1>1. frames[t] # <<>> /\ top(t).at = "leaving" /\ top(t) \in Frame
  BY TopType DEF RunReturns, At, IInv
<1>2. Local(t) \subseteq finished \cup threw
  BY <1>1, TopFunction DEF Local
<1>3. /\ finished' \subseteq Tasks /\ threw' \subseteq Tasks
      /\ finished' \cup threw' = finished \cup threw \cup Local(t)
  BY <1>2 DEF RunReturns, IInv, TypeOK
<1>4. reported' \in Nat /\ lost' \in Nat
  BY <1>1 DEF RunReturns, IInv, TypeOK, Frame
<1>5. top(t).at # "loop"
  BY <1>1
<1>6. QED
  BY <1>1, <1>3, <1>4, <1>5, ActivationLeftIInv DEF RunReturns

(* The function throws, and with it the activation is left. *)
LEMMA FunctionThrowsIInv ==
  ASSUME IInv, NEW t \in Threads, FunctionThrows(t)
  PROVE  IInv'
<1>1. /\ frames[t] # <<>> /\ top(t).at # "loop" /\ top(t) \in Frame
      /\ top(t).f \in Tasks /\ Local(t) = {top(t).f}
  BY CalledFunction DEF FunctionThrows, At
<1>2. /\ finished' \subseteq Tasks /\ threw' \subseteq Tasks
      /\ finished' \cup threw' = finished \cup threw \cup Local(t)
  BY <1>1 DEF FunctionThrows, IInv, TypeOK
<1>3. reported' \in Nat /\ lost' \in Nat
  BY <1>1 DEF FunctionThrows, IInv, TypeOK, Frame
<1>4. QED
  BY <1>1, <1>2, <1>3, ActivationLeftIInv DEF FunctionThrows

(* The oldest function moves from the queue to the activation that calls   *)
(* it, in place of the one that ended there (execution_context.cpp:8-10,   *)
(* 20-22).                                                                 *)
LEMMA InvokeIInv ==
  ASSUME IInv, NEW t \in Threads, Invoke(t),
         m_function_queue' = Tail(m_function_queue),
         destroyed' \in [Tasks -> 0..2],
         \A y \in Tasks : y # top(t).f => destroyed'[y] = destroyed[y],
         top(t).f # NoTask => destroyed'[top(t).f] = 1
  PROVE  IInv'
<1>1. /\ At(t, "loop") /\ m_function_queue # <<>>
      /\ UNCHANGED <<synchronized, alive, own, finished, threw, reported, lost>>
  BY DEF Invoke
<1>2. /\ frames[t] # <<>> /\ top(t) \in Frame /\ top(t).at = "loop"
      /\ Len(frames[t]) \in 1..Len(frames[t]) /\ top(t) = frames[t][Len(frames[t])]
  BY <1>1, TopType DEF At, IInv
<1>3. PICK g, x : g \in Frame /\ g = top(t) /\ x = g.f /\ g.at = "loop"
  BY <1>2
<1>4. PICK n \in Nat \ {0} : n = Len(m_function_queue)
  BY <1>1, EmptySeq DEF IInv, TypeOK
<1>5. PICK h \in Tasks : h = Head(m_function_queue) /\ h = m_function_queue[1]
  BY <1>1, HeadTailProperties DEF IInv, TypeOK
<1>6. /\ m_function_queue' \in Seq(Tasks)
      /\ Len(m_function_queue') = n - 1
      /\ \A k \in 1..n - 1 : m_function_queue'[k] = m_function_queue[k + 1]
  BY <1>1, <1>4, HeadTailProperties DEF IInv, TypeOK
<1>7. PICK frame \in Frame : /\ TopBecomes(t, frame)
                             /\ frame.f = h
                             /\ frame.at = "call"
  BY <1>5, InvokeTop
<1>9. x # NoTask => /\ x \in Posted /\ x \in Tasks
                    /\ x \in finished \cup threw
                    /\ destroyed[x] = 0
                    /\ \A u \in Threads : \A i \in 1..Len(frames[u]) :
                         frames[u][i].f = x => u = t /\ i = Len(frames[t])
  BY <1>2, <1>3, TopFunction
<1>10. alive
  BY <1>2 DEF IInv, Meaning, AllOver
<1>11. /\ h \in Posted /\ destroyed[h] = 0 /\ h \notin finished \cup threw
       /\ h # NoTask /\ h # x
       /\ \A u \in Threads : \A i \in 1..Len(frames[u]) : frames[u][i].f # h
       /\ \A k \in 2..n : m_function_queue[k] # h
  <2>1. h \in Posted /\ destroyed[h] = 0 /\ h \notin finished \cup threw
    BY <1>4, <1>5, <1>10 DEF IInv, Meaning, QueuedFresh
  <2>2. \A u \in Threads : \A i \in 1..Len(frames[u]) : frames[u][i].f # h
    BY <1>4, <1>5 DEF IInv, Places, QueuedNotHeld
  <2>3. \A k \in 2..n : m_function_queue[k] # h
    BY <1>4, <1>5 DEF IInv, Places, DistinctQueued
  <2>4. QED
    BY <1>2, <1>3, <2>1, <2>2, <2>3, ContextAssumption
<1>12. /\ \A y \in Tasks : y # x => destroyed'[y] = destroyed[y]
       /\ x # NoTask => destroyed'[x] = 1
  BY <1>3
<1>13. UNCHANGED Posted /\ Posted \subseteq Tasks
  BY <1>1 DEF Posted, IInv, TypeOK
<1>14. \A k \in 1..n : m_function_queue[k] # x /\ m_function_queue[k] \in Tasks
  BY <1>2, <1>3, <1>4, ElementOfSeq, ContextAssumption DEF IInv, TypeOK, Places, QueuedNotHeld
<1>15. TypeOK'
  BY <1>7, <1>1, <1>6 DEF TopBecomes, IInv, TypeOK
<1>16. Stacks'
  BY <1>1, <1>7, <1>11 DEF TopBecomes, IInv, Stacks
<1>17. DistinctQueued'
  BY <1>4, <1>6 DEF IInv, Places, DistinctQueued
<1>18. DistinctHeld'
  <2> SUFFICES ASSUME NEW u \in Threads, NEW v \in Threads,
                      NEW i \in 1..Len(frames'[u]), NEW j \in 1..Len(frames'[v]),
                      frames'[u][i].f = frames'[v][j].f, frames'[u][i].f # NoTask
               PROVE  u = v /\ i = j
    BY DEF DistinctHeld
  <2>1. ASSUME NEW w \in Threads, NEW k \in 1..Len(frames'[w])
        PROVE  /\ k \in 1..Len(frames[w])
               /\ w = t /\ k = Len(frames[t]) => frames'[w][k].f = h
               /\ ~(w = t /\ k = Len(frames[t])) => frames'[w][k].f = frames[w][k].f /\ frames[w][k].f # h
    BY <1>7, <1>11 DEF TopBecomes
  <2>2. CASE u = t /\ i = Len(frames[t])
    BY <2>1, <2>2
  <2>3. CASE v = t /\ j = Len(frames[t])
    BY <2>1, <2>3
  <2>4. CASE ~(u = t /\ i = Len(frames[t])) /\ ~(v = t /\ j = Len(frames[t]))
    <3>1. i \in 1..Len(frames[u]) /\ frames'[u][i].f = frames[u][i].f
      BY <2>1, <2>4
    <3>2. j \in 1..Len(frames[v]) /\ frames'[v][j].f = frames[v][j].f
      BY <2>1, <2>4
    <3>3. frames[u][i].f = frames[v][j].f /\ frames[u][i].f # NoTask
      BY <3>1, <3>2
    <3>4. QED
      BY <3>1, <3>2, <3>3 DEF IInv, Places, DistinctHeld
  <2>5. QED
    BY <2>2, <2>3, <2>4
<1>19. QueuedNotHeld'
  <2> SUFFICES ASSUME NEW u \in Threads, NEW i \in 1..Len(frames'[u]), NEW k \in 1..Len(m_function_queue')
               PROVE  frames'[u][i].f # m_function_queue'[k]
    BY DEF QueuedNotHeld
  <2>1. m_function_queue'[k] = m_function_queue[k + 1] /\ k + 1 \in 2..n /\ k + 1 \in 1..n
    BY <1>6
  <2>2. CASE u = t /\ i = Len(frames[t])
    BY <1>7, <1>11, <2>1, <2>2 DEF TopBecomes
  <2>3. CASE ~(u = t /\ i = Len(frames[t]))
    BY <1>7, <1>4, <2>1, <2>3 DEF TopBecomes, IInv, Places, QueuedNotHeld
  <2>4. QED
    BY <2>2, <2>3
<1>20. QueuedFresh'
  <2>1. \A k \in 1..n - 1 : k + 1 \in 1..n
    OBVIOUS
  <2>2. QED
    BY <1>1, <1>4, <1>6, <1>12, <1>13, <1>14, <2>1 DEF IInv, Meaning, QueuedFresh
<1>21. HeldPosted'
  <2> SUFFICES ASSUME NEW u \in Threads, NEW i \in 1..Len(frames'[u]), frames'[u][i].f # NoTask
               PROVE  /\ frames'[u][i].f \in Posted
                      /\ destroyed'[frames'[u][i].f] = 0
                      /\ frames'[u][i].f \in finished \cup threw <=> frames'[u][i].at # "call"
    BY <1>1, <1>13 DEF HeldPosted
  <2>1. CASE u = t /\ i = Len(frames[t])
    <3>1. frames'[u][i] = frame
      BY <1>7, <2>1, Zenon DEF TopBecomes
    <3>2. QED
      BY <1>7, <1>11, <1>12, <3>1
  <2>2. CASE ~(u = t /\ i = Len(frames[t]))
    <3>1. i \in 1..Len(frames[u]) /\ frames'[u][i] = frames[u][i]
      BY <1>7, <2>2 DEF TopBecomes
    <3>2. frames[u][i].f # x
      BY <1>9, <2>2, <3>1
    <3>3. frames[u][i].f \in Tasks
      BY <1>13, <3>1 DEF IInv, Meaning, HeldPosted
    <3>4. QED
      BY <1>12, <3>1, <3>2, <3>3 DEF IInv, Meaning, HeldPosted
  <2>3. QED
    BY <2>1, <2>2
<1>22. UnpostedFresh'
  <2>1. \A y \in Tasks \ Posted : y # x
    BY <1>9, ContextAssumption
  <2>2. QED
    BY <1>1, <1>12, <1>13, <2>1 DEF IInv, Meaning, UnpostedFresh
<1>23. NoneMissing'
  <2>1. ASSUME NEW y, InFrame(y), y # x PROVE InFrame(y)'
    BY <1>7, <1>2, <1>3, <2>1 DEF TopBecomes, InFrame
  <2>2. ASSUME NEW y \in Tasks, Gone(y) PROVE Gone(y)'
    <3>1. y # x
      BY <1>9, <2>2, ContextAssumption DEF Gone
    <3>2. QED
      BY <1>1, <1>12, <2>2, <3>1 DEF Gone
  <2>3. x # NoTask => Gone(x)'
    BY <1>1, <1>9, <1>12 DEF Gone
  <2>4. InFrame(h)'
    BY <1>2, <1>7 DEF TopBecomes, InFrame
  <2>5. ASSUME NEW y, InQueue(y), y # h PROVE InQueue(y)'
    <3>1. PICK k \in 1..n : m_function_queue[k] = y
      BY <1>4, <2>5 DEF InQueue
    <3>2. k # 1 /\ k - 1 \in 1..n - 1 /\ (k - 1) + 1 = k
      BY <1>5, <2>5, <3>1
    <3>3. m_function_queue'[k - 1] = y
      BY <1>6, <3>1, <3>2
    <3>4. QED
      BY <1>6, <3>2, <3>3 DEF InQueue
  <2>6. QED
    BY <1>1, <1>13, <2>1, <2>2, <2>3, <2>4, <2>5, ContextAssumption DEF IInv, Meaning, NoneMissing
<1>24. AllOver'
  BY <1>1, <1>10 DEF AllOver
<1>25. SeenEmpty'
  <2>1. ASSUME NEW u \in Threads, At(u, "leaving")' PROVE At(u, "leaving")
    BY <1>7, <2>1 DEF TopBecomes, At, top
  <2>2. \A k \in 1..n - 1 : k + 1 \in 1..n
    OBVIOUS
  <2>3. QED
    BY <1>1, <1>4, <1>6, <2>1, <2>2 DEF IInv, SeenEmpty
<1>26. QED
  BY <1>15, <1>16, <1>17, <1>18, <1>19, <1>20, <1>21, <1>22, <1>23, <1>24, <1>25
  DEF IInv, Places, Meaning

LEMMA MoveFrontIInv ==
  ASSUME IInv, NEW t \in Threads, MoveFront(t)
  PROVE  IInv'
<1>1. Invoke(t) /\ m_function_queue' = Tail(m_function_queue) /\ destroyed' = destroyed
  BY DEF MoveFront, Popped
<1>2. top(t).f = NoTask
  <2>1. frames[t] # <<>> /\ top(t).at = "loop" /\ ~synchronized
    BY DEF MoveFront, Invoke, At
  <2>2. Len(frames[t]) \in 1..Len(frames[t]) /\ top(t) = frames[t][Len(frames[t])]
    BY <2>1, TopType DEF IInv
  <2>3. QED
    BY <2>1, <2>2 DEF IInv, Stacks
<1>3. destroyed' \in [Tasks -> 0..2] /\ \A y \in Tasks : destroyed'[y] = destroyed[y]
  BY <1>1 DEF IInv, TypeOK
<1>4. QED
  BY <1>1, <1>2, <1>3, InvokeIInv, Zenon

LEMMA TryPopIInv ==
  ASSUME IInv, NEW t \in Threads, TryPop(t)
  PROVE  IInv'
<1>1. /\ Invoke(t) /\ m_function_queue' = Tail(m_function_queue)
      /\ Destroy({top(t).f} \ {NoTask})
  BY DEF TryPop, Remaining, Overwritten
<1>2. frames[t] # <<>>
  BY <1>1 DEF Invoke, At
<1>3. /\ destroyed' \in [Tasks -> 0..2]
      /\ \A y \in Tasks : y \notin {top(t).f} \ {NoTask} => destroyed'[y] = destroyed[y]
      /\ \A y \in Tasks : y \in {top(t).f} \ {NoTask} /\ destroyed[y] = 0 => destroyed'[y] = 1
  BY <1>1, Destroying DEF IInv
<1>4. top(t).f # NoTask => destroyed'[top(t).f] = 1
  BY <1>2, <1>3, TopFunction
<1>5. \A y \in Tasks : y # top(t).f => destroyed'[y] = destroyed[y]
  BY <1>3
<1>6. QED
  BY <1>1, <1>3, <1>4, <1>5, InvokeIInv

(* The destructor, outside of run(): the queue is all that is left. *)
LEMMA DestroyContextIInv ==
  ASSUME IInv, DestroyContext
  PROVE  IInv'
<1>1. /\ alive /\ ~alive' /\ alive' \in BOOLEAN
      /\ \A t \in Threads : frames[t] = <<>>
      /\ Destroy(ToSet(m_function_queue))
      /\ UNCHANGED <<synchronized, m_function_queue, frames, own, finished, threw>>
      /\ UNCHANGED <<reported, lost>>
  BY DEF DestroyContext, Discarded
<1>2. UNCHANGED Posted /\ Posted \subseteq Tasks
  BY <1>1 DEF Posted, IInv, TypeOK
<1>3. \A x : x \in ToSet(m_function_queue) <=> InQueue(x)
  BY SetOfSeq DEF IInv, TypeOK, InQueue
<1>4. /\ destroyed' \in [Tasks -> 0..2]
      /\ \A x \in Tasks : ~InQueue(x) => destroyed'[x] = destroyed[x]
      /\ \A x \in Tasks : InQueue(x) /\ destroyed[x] = 0 => destroyed'[x] = 1
  BY <1>1, <1>3, Destroying DEF IInv
<1>5. \A x : InQueue(x) => x \in Posted /\ destroyed[x] = 0
  BY <1>1 DEF InQueue, IInv, Meaning, QueuedFresh
<1>6. TypeOK'
  BY <1>1, <1>4 DEF IInv, TypeOK
<1>7. Stacks' /\ Places'
  BY <1>1 DEF IInv, Stacks, Places, DistinctQueued, DistinctHeld, QueuedNotHeld
<1>8. \A t \in Threads : 1..Len(frames'[t]) = {}
  BY <1>1
<1>9. QueuedFresh' /\ HeldPosted' /\ NoneMissing'
  BY <1>1, <1>8 DEF QueuedFresh, HeldPosted, NoneMissing
<1>10. UnpostedFresh'
  BY <1>1, <1>2, <1>4, <1>5 DEF IInv, Meaning, UnpostedFresh
<1>11. AllOver'
  <2>1. ASSUME NEW x \in Posted PROVE destroyed'[x] = 1
    <3>1. ~InFrame(x)
      BY <1>1, <1>8 DEF InFrame
    <3>2. CASE InQueue(x)
      BY <1>2, <1>4, <1>5, <3>2
    <3>3. CASE ~InQueue(x)
      <4>1. Gone(x)
        BY <1>1, <3>1, <3>3 DEF IInv, Meaning, NoneMissing
      <4>2. QED
        BY <1>2, <1>4, <3>3, <4>1 DEF Gone
    <3>4. QED
      BY <3>2, <3>3
  <2>2. QED
    BY <1>1, <1>2, <2>1 DEF AllOver
<1>12. SeenEmpty'
  BY <1>1 DEF SeenEmpty, At
<1>13. QED
  BY <1>6, <1>7, <1>9, <1>10, <1>11, <1>12 DEF IInv, Meaning

LEMMA StutterIInv ==
  ASSUME IInv, UNCHANGED vars
  PROVE  IInv'
<1>1. /\ UNCHANGED <<synchronized, m_function_queue, alive, frames, own, finished>>
      /\ UNCHANGED <<threw, destroyed, reported, lost>> /\ UNCHANGED Posted
  BY DEF vars, context, history, Posted
<1>2. TypeOK' /\ Stacks' /\ Places'
  BY <1>1 DEF IInv, TypeOK, Stacks, Places, DistinctQueued, DistinctHeld, QueuedNotHeld
<1>3. QueuedFresh' /\ HeldPosted' /\ UnpostedFresh' /\ AllOver' /\ SeenEmpty'
  BY <1>1 DEF IInv, Meaning, QueuedFresh, HeldPosted, UnpostedFresh, AllOver, SeenEmpty, At, top
<1>4. \A x : (InQueue(x)' <=> InQueue(x)) /\ (InFrame(x)' <=> InFrame(x)) /\ (Gone(x)' <=> Gone(x))
  BY <1>1 DEF InQueue, InFrame, Gone
<1>5. NoneMissing'
  BY <1>1, <1>4 DEF IInv, Meaning, NoneMissing
<1>6. QED
  BY <1>2, <1>3, <1>5 DEF IInv, Meaning

LEMMA StepIInv == IInv /\ [Next]_vars => IInv'
<1> SUFFICES ASSUME IInv, [Next]_vars PROVE IInv'
  OBVIOUS
<1>1. CASE UNCHANGED vars
  BY <1>1, StutterIInv
<1>2. CASE DestroyContext
  BY <1>2, DestroyContextIInv
<1>3. ASSUME NEW t \in Threads, NEW x \in Tasks, Post(t, x) PROVE IInv'
  BY <1>3, PostIInv
<1>4. ASSUME NEW t \in Threads, Run(t) PROVE IInv'
  BY <1>4, RunIInv
<1>5. ASSUME NEW t \in Threads, Step(t) PROVE IInv'
  BY <1>5, MoveFrontIInv, IterationEndsIInv, TryPopIInv, FunctionReturnsIInv,
     LoopEndsIInv, RunReturnsIInv DEF Step
<1>6. ASSUME NEW t \in Threads, FunctionThrows(t) PROVE IInv'
  BY <1>6, FunctionThrowsIInv
<1>7. QED
  BY <1>1, <1>2, <1>3, <1>4, <1>5, <1>6 DEF Next

(* Everything below follows from this. *)
LEMMA IInvHolds == Spec => []IInv
BY InitIInv, StepIInv, PTL DEF Spec

-----------------------------------------------------------------------------
(* The theorems. *)

(* The variables keep their types; in particular a context never queues    *)
(* anything but a posted function, and never an empty storage              *)
(* (execution_context.hpp:22-28).                                          *)
THEOREM TypeCorrect == Spec => []TypeOK
<1>1. IInv => TypeOK
  BY DEF IInv
<1>2. QED
  BY <1>1, IInvHolds, PTL

(* Where a function is, it is once. *)
LEMMA OneHolder ==
  ASSUME IInv, NEW x \in Tasks
  PROVE  /\ InFrame(x) => \E a : Holders(x) = {a}
         /\ ~InFrame(x) => Holders(x) = {}
         /\ InQueue(x) => \E k : Queued(x) = {k}
         /\ ~InQueue(x) => Queued(x) = {}
<1>1. ASSUME NEW a PROVE a \in Holders(x) <=> \E t \in Threads : \E i \in 1..Len(frames[t]) :
                                               a = <<t, i>> /\ frames[t][i].f = x
  BY DEF Holders, Activations
<1>2. ASSUME InFrame(x) PROVE \E a : Holders(x) = {a}
  <2>0. PICK t \in Threads : \E i \in 1..Len(frames[t]) : frames[t][i].f = x
    BY <1>2 DEF InFrame
  <2>1. PICK i \in 1..Len(frames[t]) : frames[t][i].f = x
    BY <2>0
  <2>2. ASSUME NEW u \in Threads, NEW j \in 1..Len(frames[u]), frames[u][j].f = x
        PROVE  u = t /\ j = i
    BY <2>1, <2>2, ContextAssumption DEF IInv, Places, DistinctHeld
  <2>3. \A a : a \in Holders(x) <=> a = <<t, i>>
    BY <1>1, <2>1, <2>2, Zenon
  <2>4. Holders(x) = {<<t, i>>}
    BY <2>3
  <2>5. QED
    BY <2>4
<1>3. ~InFrame(x) => Holders(x) = {}
  BY <1>1, Zenon DEF InFrame
<1>4. ASSUME InQueue(x) PROVE \E k : Queued(x) = {k}
  <2>1. PICK k \in 1..Len(m_function_queue) : m_function_queue[k] = x
    BY <1>4 DEF InQueue
  <2>2. Queued(x) = {k}
    BY <2>1 DEF Queued, IInv, Places, DistinctQueued
  <2>3. QED
    BY <2>2
<1>5. ~InQueue(x) => Queued(x) = {}
  BY DEF InQueue, Queued
<1>6. QED
  BY <1>2, <1>3, <1>4, <1>5

(* Threads that run a context together, and activations nested to any      *)
(* depth, neither share a function nor lose one                            *)
(* (execution_context.cpp:8-10, 19-24).                                    *)
THEOREM FunctionsHaveOneOwner == Spec => []OneOwner
<1>1. IInv => OneOwner
  <2> SUFFICES ASSUME IInv, alive, NEW x \in Posted
               PROVE  Cardinality(Holders(x)) + Cardinality(Queued(x)) + destroyed[x] = 1
    BY DEF OneOwner
  <2>1. x \in Tasks /\ x # NoTask
    BY ContextAssumption DEF IInv, TypeOK, Posted
  <2>2. Cardinality({}) = 0 /\ \A a : Cardinality({a}) = 1
    BY FS_EmptySet, FS_Singleton
  <2>3. InFrame(x) => ~InQueue(x) /\ destroyed[x] = 0
    BY <2>1 DEF InFrame, InQueue, IInv, Places, QueuedNotHeld, Meaning, HeldPosted
  <2>4. InQueue(x) => destroyed[x] = 0
    BY DEF InQueue, IInv, Meaning, QueuedFresh
  <2>5. CASE InFrame(x)
    <3>1. Cardinality(Holders(x)) = 1 /\ Cardinality(Queued(x)) = 0
      BY <2>1, <2>2, <2>3, <2>5, OneHolder
    <3>2. QED
      BY <2>3, <2>5, <3>1
  <2>6. CASE InQueue(x)
    <3>1. Cardinality(Holders(x)) = 0 /\ Cardinality(Queued(x)) = 1
      BY <2>1, <2>2, <2>3, <2>6, OneHolder
    <3>2. QED
      BY <2>4, <2>6, <3>1
  <2>7. CASE ~InFrame(x) /\ ~InQueue(x)
    <3>1. Cardinality(Holders(x)) = 0 /\ Cardinality(Queued(x)) = 0
      BY <2>1, <2>2, <2>7, OneHolder
    <3>2. destroyed[x] = 1
      BY <2>7 DEF IInv, Meaning, NoneMissing, Gone
    <3>3. QED
      BY <3>1, <3>2
  <2>8. QED
    BY <2>5, <2>6, <2>7
<1>2. QED
  BY <1>1, IInvHolds, PTL

(* A function that has ended and is not destroyed is in an activation of   *)
(* the synchronized run(), between two calls (execution_context.cpp:8-12,  *)
(* 19-24).                                                                 *)
THEOREM EndedAreKeptBetweenCalls == Spec => []KeptBetweenCalls
<1>1. IInv => KeptBetweenCalls
  <2> SUFFICES ASSUME IInv, NEW x \in finished \cup threw, destroyed[x] = 0
               PROVE  /\ synchronized
                      /\ \E t \in Threads : \E i \in 1..Len(frames[t]) :
                           frames[t][i].f = x /\ frames[t][i].at # "call"
    BY DEF KeptBetweenCalls
  <2>1. x \in Posted /\ x # NoTask
    BY ContextAssumption DEF IInv, TypeOK, Meaning, UnpostedFresh
  <2>2. alive
    BY <2>1 DEF IInv, Meaning, AllOver
  <2>3. ~InQueue(x)
    BY <2>2 DEF InQueue, IInv, Meaning, QueuedFresh
  <2>4. InFrame(x)
    BY <2>1, <2>2, <2>3 DEF IInv, Meaning, NoneMissing, Gone
  <2>0. PICK t \in Threads : \E i \in 1..Len(frames[t]) : frames[t][i].f = x
    BY <2>4 DEF InFrame
  <2>5. PICK i \in 1..Len(frames[t]) : frames[t][i].f = x
    BY <2>0
  <2>6. frames[t][i].at # "call"
    BY <2>1, <2>5 DEF IInv, Meaning, HeldPosted
  <2>7. synchronized
    BY <2>1, <2>5, <2>6 DEF IInv, Stacks
  <2>8. QED
    BY <2>5, <2>6, <2>7
<1>2. QED
  BY <1>1, IInvHolds, PTL

(* The destructor leaves no function behind, and destroys none twice       *)
(* (synchronized_execution_context.hpp:32).                                *)
THEOREM ContextLeaksNothing == Spec => []NothingLeaks
<1>1. IInv => NothingLeaks
  BY DEF IInv, Meaning, AllOver, NothingLeaks
<1>2. QED
  BY <1>1, IInvHolds, PTL

(* When run() returns, nothing that its thread has posted is still queued, *)
(* whatever others posted meanwhile (execution_context.cpp:7, 21-26).      *)
THEOREM OwnPostsAreTaken == Spec => OwnPostsTaken
<1>1. ASSUME IInv, NEW t \in Threads, RunReturns(t)
      PROVE  own[t] \cap ToSet(m_function_queue) = {}
  <2>1. \A k \in 1..Len(m_function_queue) : m_function_queue[k] \notin own[t]
    BY <1>1 DEF RunReturns, IInv, SeenEmpty
  <2>2. QED
    BY <1>1, <2>1, SetOfSeq DEF IInv, TypeOK
<1>2. IInv => \A t \in Threads : RunReturns(t) => own[t] \cap ToSet(m_function_queue) = {}
  BY <1>1
<1>3. QED
  BY <1>2, IInvHolds, PTL DEF OwnPostsTaken

-----------------------------------------------------------------------------
(* Counting. *)

CountsOf(t, i, n) == {<<t, i>>} \X (1..n)

LEMMA RowSize ==
  ASSUME NEW t, NEW i, NEW n \in Nat
  PROVE  IsFiniteSet(CountsOf(t, i, n)) /\ Cardinality(CountsOf(t, i, n)) = n
<1>1. PICK a : a = <<t, i>>
  OBVIOUS
<1>2. IsFiniteSet({a}) /\ Cardinality({a}) = 1
  BY FS_Singleton
<1>3. IsFiniteSet(1..n) /\ Cardinality(1..n) = n
  BY FS_Interval
<1>4. /\ IsFiniteSet({a} \X (1..n))
      /\ Cardinality({a} \X (1..n)) = Cardinality({a}) * Cardinality(1..n)
  BY <1>2, <1>3, FS_Product, Zenon
<1>5. Cardinality({a}) * Cardinality(1..n) = 1 * n
  BY <1>2, <1>3, Zenon
<1>6. QED
  BY <1>1, <1>4, <1>5 DEF CountsOf

InCounts(z) == \E t \in Threads : \E i \in 1..Len(frames[t]) :
                 \E k \in 1..frames[t][i].count : z = <<<<t, i>>, k>>

LEMMA CountsIn == \A z : z \in Counts <=> InCounts(z)
BY DEF Counts, Activations, InCounts

LEMMA CountsInNext == \A z : z \in Counts' <=> InCounts(z)'
BY DEF Counts, Activations, InCounts

(* An activation that has counted as many functions as before, or one more. *)
LEMMA SameCounts ==
  ASSUME NEW t \in Threads, NEW frame \in Frame, TopBecomes(t, frame),
         frame.count = frames[t][Len(frames[t])].count
  PROVE  Counts' = Counts
<1>1. \A u \in Threads : /\ Len(frames'[u]) = Len(frames[u])
                         /\ \A i \in 1..Len(frames[u]) : frames'[u][i].count = frames[u][i].count
  BY DEF TopBecomes
<1>2. \A z : InCounts(z)' <=> InCounts(z)
  BY <1>1, Zenon DEF InCounts
<1>3. QED
  BY <1>2, CountsIn, CountsInNext

LEMMA OneMoreCount ==
  ASSUME NEW t \in Threads, NEW frame \in Frame, TopBecomes(t, frame),
         NEW n \in Nat, n = frames[t][Len(frames[t])].count, frame.count = n + 1
  PROVE  \E z : z \notin Counts /\ Counts' = Counts \cup {z}
<1>1. PICK l \in Nat \ {0} : l = Len(frames[t])
  BY DEF TopBecomes
<1>2. PICK z : z = <<<<t, l>>, n + 1>>
  OBVIOUS
<1>3. \A u \in Threads : /\ Len(frames'[u]) = Len(frames[u])
                         /\ \A i \in 1..Len(frames[u]) : ~(u = t /\ i = l) =>
                              frames'[u][i].count = frames[u][i].count
  BY <1>1 DEF TopBecomes
<1>4. l \in 1..Len(frames[t]) /\ frames'[t][l].count = n + 1 /\ frames[t][l].count = n
  BY <1>1 DEF TopBecomes
<1>5. ~InCounts(z)
  <2>1. SUFFICES ASSUME NEW u \in Threads, NEW i \in 1..Len(frames[u]),
                        NEW k \in 1..frames[u][i].count, z = <<<<u, i>>, k>>
                 PROVE  FALSE
    BY DEF InCounts
  <2>2. u = t /\ i = l /\ k = n + 1
    BY <1>2, <2>1
  <2>3. QED
    BY <1>4, <2>1, <2>2
<1>6. ASSUME NEW y, InCounts(y) PROVE InCounts(y)'
  <2>1. PICK u \in Threads : \E i \in 1..Len(frames[u]) :
                               \E k \in 1..frames[u][i].count : y = <<<<u, i>>, k>>
    BY <1>6 DEF InCounts
  <2>2. PICK i \in 1..Len(frames[u]) : \E k \in 1..frames[u][i].count : y = <<<<u, i>>, k>>
    BY <2>1
  <2>3. PICK k \in 1..frames[u][i].count : y = <<<<u, i>>, k>>
    BY <2>2
  <2>4. i \in 1..Len(frames'[u]) /\ k \in 1..frames'[u][i].count
    <3>1. i \in 1..Len(frames'[u])
      BY <1>3, Zenon
    <3>2. CASE u = t /\ i = l
      BY <1>4, <3>1, <3>2
    <3>3. CASE ~(u = t /\ i = l)
      BY <1>3, <3>1, <3>3, Zenon
    <3>4. QED
      BY <3>1, <3>2, <3>3
  <2>5. QED
    BY <2>3, <2>4 DEF InCounts
<1>7. InCounts(z)'
  <2>1. l \in 1..Len(frames'[t]) /\ n + 1 \in 1..frames'[t][l].count
    BY <1>3, <1>4
  <2>2. QED
    BY <1>2, <2>1 DEF InCounts
<1>8. ASSUME NEW y, InCounts(y)', y # z PROVE InCounts(y)
  <2>1. PICK u \in Threads : \E i \in 1..Len(frames'[u]) :
                               \E k \in 1..frames'[u][i].count : y = <<<<u, i>>, k>>
    BY <1>8 DEF InCounts
  <2>2. PICK i \in 1..Len(frames'[u]) : \E k \in 1..frames'[u][i].count : y = <<<<u, i>>, k>>
    BY <2>1
  <2>3. PICK k \in 1..frames'[u][i].count : y = <<<<u, i>>, k>>
    BY <2>2
  <2>4. i \in 1..Len(frames[u])
    BY <1>3
  <2>5. CASE u = t /\ i = l
    <3>1. k \in 1..n + 1 /\ k # n + 1
      BY <1>2, <1>4, <1>8, <2>3, <2>5
    <3>2. k \in 1..frames[u][i].count
      BY <1>4, <2>5, <3>1
    <3>3. QED
      BY <2>3, <2>4, <3>2 DEF InCounts
  <2>6. CASE ~(u = t /\ i = l)
    <3>1. k \in 1..frames[u][i].count
      BY <1>3, <2>4, <2>6
    <3>2. QED
      BY <2>3, <2>4, <3>1 DEF InCounts
  <2>7. QED
    BY <2>5, <2>6
<1>9. \A y : y \in Counts' <=> y \in Counts \/ y = z
  BY <1>6, <1>7, <1>8, CountsIn, CountsInNext, Zenon
<1>10. Counts' = Counts \cup {z} /\ z \notin Counts
  BY <1>5, <1>9, CountsIn
<1>11. QED
  BY <1>10

(* An activation is left, and what it has counted with it. *)
LEMMA CountsLeave ==
  ASSUME NEW t \in Threads, TopLeaves(t),
         NEW n \in Nat, n = frames[t][Len(frames[t])].count
  PROVE  \E row : /\ Counts = Counts' \cup row /\ Counts' \cap row = {}
                  /\ IsFiniteSet(row) /\ Cardinality(row) = n
<1>1. PICK l \in Nat \ {0} : l = Len(frames[t])
  BY DEF TopLeaves
<1>2. PICK row : row = CountsOf(t, l, n)
  OBVIOUS
<1>3. \A u \in Threads : \A i : i \in 1..Len(frames'[u]) <=> i \in 1..Len(frames[u]) /\ ~(u = t /\ i = l)
  BY <1>1 DEF TopLeaves
<1>4. \A u \in Threads : \A i \in 1..Len(frames'[u]) : frames'[u][i].count = frames[u][i].count
  BY <1>1 DEF TopLeaves
<1>5. l \in 1..Len(frames[t]) /\ frames[t][l].count = n
  BY <1>1
<1>6. \A y : y \in row <=> \E k \in 1..n : y = <<<<t, l>>, k>>
  BY <1>2 DEF CountsOf
<1>7. ASSUME NEW y, InCounts(y)' PROVE InCounts(y) /\ y \notin row
  <2>1. PICK u \in Threads : \E i \in 1..Len(frames'[u]) :
                               \E k \in 1..frames'[u][i].count : y = <<<<u, i>>, k>>
    BY <1>7 DEF InCounts
  <2>2. PICK i \in 1..Len(frames'[u]) : \E k \in 1..frames'[u][i].count : y = <<<<u, i>>, k>>
    BY <2>1
  <2>3. PICK k \in 1..frames'[u][i].count : y = <<<<u, i>>, k>>
    BY <2>2
  <2>4. i \in 1..Len(frames[u]) /\ ~(u = t /\ i = l) /\ k \in 1..frames[u][i].count
    BY <1>3, <1>4, <2>2, <2>3
  <2>5. InCounts(y)
    BY <2>3, <2>4 DEF InCounts
  <2>6. y \notin row
    BY <1>6, <2>3, <2>4
  <2>7. QED
    BY <2>5, <2>6
<1>8. ASSUME NEW y, y \in row PROVE InCounts(y)
  <2>1. PICK k \in 1..n : y = <<<<t, l>>, k>>
    BY <1>6, <1>8
  <2>2. k \in 1..frames[t][l].count
    BY <1>5
  <2>3. QED
    BY <1>5, <2>1, <2>2 DEF InCounts
<1>9. ASSUME NEW y, InCounts(y), y \notin row PROVE InCounts(y)'
  <2>1. PICK u \in Threads : \E i \in 1..Len(frames[u]) :
                               \E k \in 1..frames[u][i].count : y = <<<<u, i>>, k>>
    BY <1>9 DEF InCounts
  <2>2. PICK i \in 1..Len(frames[u]) : \E k \in 1..frames[u][i].count : y = <<<<u, i>>, k>>
    BY <2>1
  <2>3. PICK k \in 1..frames[u][i].count : y = <<<<u, i>>, k>>
    BY <2>2
  <2>4. ~(u = t /\ i = l)
    BY <1>5, <1>6, <1>9, <2>3
  <2>5. i \in 1..Len(frames'[u]) /\ k \in 1..frames'[u][i].count
    BY <1>3, <1>4, <2>3, <2>4
  <2>6. QED
    BY <2>3, <2>5 DEF InCounts
<1>10. \A y : /\ y \in Counts <=> y \in Counts' \/ y \in row
              /\ ~(y \in Counts' /\ y \in row)
  BY <1>7, <1>8, <1>9, CountsIn, CountsInNext, Zenon
<1>11. Counts = Counts' \cup row /\ Counts' \cap row = {}
  BY <1>10
<1>12. QED
  BY <1>2, <1>11, RowSize

(* CountsAgree is about finite sets, however many threads there are. *)
Counting == IsFiniteSet(Counts) /\ IsFiniteSet(finished) /\ CountsAgree

LEMMA InitCounting == Init => Counting
<1> SUFFICES ASSUME Init PROVE Counting
  OBVIOUS
<1>1. \A t \in Threads : frames[t] = <<>> /\ Len(frames[t]) = 0
  BY EmptySeq DEF Init
<1>2. \A z : ~InCounts(z)
  BY <1>1 DEF InCounts
<1>3. Counts = {}
  BY <1>2, CountsIn
<1>4. QED
  BY <1>3, FS_EmptySet DEF Init, Counting, CountsAgree

LEMMA NothingCounted ==
  ASSUME Counting, Counts' = Counts, UNCHANGED <<finished, reported, lost>>
  PROVE  Counting'
BY DEF Counting, CountsAgree

(* A function returns and is counted. *)
LEMMA ReturnCounted ==
  ASSUME IInv, Counting, NEW t \in Threads, At(t, "call"),
         NEW frame \in Frame, TopBecomes(t, frame), frame.count = top(t).count + 1,
         finished' = finished \cup {top(t).f}, UNCHANGED <<reported, lost>>
  PROVE  Counting'
<1>1. /\ frames[t] # <<>> /\ top(t) \in Frame /\ top(t).f # NoTask
      /\ top(t) = frames[t][Len(frames[t])] /\ top(t).at = "call"
  BY CalledFunction, TopType DEF IInv, At
<1>2. PICK n \in Nat : n = top(t).count
  BY <1>1 DEF Frame
<1>3. PICK z : z \notin Counts /\ Counts' = Counts \cup {z}
  BY <1>1, <1>2, OneMoreCount
<1>4. top(t).f \notin finished
  BY <1>1, TopFunction
<1>5. /\ IsFiniteSet(Counts') /\ Cardinality(Counts') = Cardinality(Counts) + 1
      /\ IsFiniteSet(finished') /\ Cardinality(finished') = Cardinality(finished) + 1
  BY <1>3, <1>4, FS_AddElement DEF Counting
<1>6. Cardinality(Counts) \in Nat /\ Cardinality(finished) \in Nat /\ reported \in Nat /\ lost \in Nat
  BY FS_CardinalityType DEF Counting, IInv, TypeOK
<1>7. QED
  BY <1>5, <1>6 DEF Counting, CountsAgree

(* An activation is left, and its count returned or lost. *)
LEMMA LeftCounted ==
  ASSUME IInv, Counting, NEW t \in Threads, frames[t] # <<>>, TopLeaves(t),
         reported' + lost' = reported + lost + top(t).count, UNCHANGED finished
  PROVE  Counting'
<1>1. top(t) \in Frame /\ top(t) = frames[t][Len(frames[t])]
  BY TopType DEF IInv
<1>2. PICK n \in Nat : n = top(t).count
  BY <1>1 DEF Frame
<1>3. PICK row : /\ Counts = Counts' \cup row /\ Counts' \cap row = {}
                 /\ IsFiniteSet(row) /\ Cardinality(row) = n
  BY <1>1, <1>2, CountsLeave
<1>4. IsFiniteSet(Counts')
  BY <1>3, FS_Subset DEF Counting
<1>5. Cardinality(Counts) = Cardinality(Counts') + n
  <2>1. Cardinality(Counts' \cup row) =
          Cardinality(Counts') + Cardinality(row) - Cardinality(Counts' \cap row)
    BY <1>3, <1>4, FS_Union
  <2>2. Cardinality(Counts' \cap row) = 0
    BY <1>3, FS_EmptySet
  <2>3. Cardinality(Counts') \in Nat
    BY <1>4, FS_CardinalityType
  <2>4. QED
    BY <1>3, <2>1, <2>2, <2>3
<1>6. Cardinality(Counts') \in Nat /\ reported \in Nat /\ lost \in Nat
  BY <1>4, FS_CardinalityType DEF IInv, TypeOK
<1>7. QED
  BY <1>2, <1>4, <1>5, <1>6 DEF Counting, CountsAgree

LEMMA StepCounting == IInv /\ Counting /\ [Next]_vars => Counting'
<1> SUFFICES ASSUME IInv, Counting, [Next]_vars PROVE Counting'
  OBVIOUS
<1>1. ASSUME UNCHANGED <<frames, finished, reported, lost>> PROVE Counting'
  <2>1. \A z : InCounts(z)' <=> InCounts(z)
    BY <1>1 DEF InCounts
  <2>2. Counts' = Counts
    BY <2>1, CountsIn, CountsInNext
  <2>3. QED
    BY <1>1, <2>2, NothingCounted
<1>2. CASE UNCHANGED vars
  BY <1>1, <1>2 DEF vars, history
<1>3. CASE DestroyContext
  BY <1>1, <1>3 DEF DestroyContext
<1>4. ASSUME NEW t \in Threads, NEW x \in Tasks, Post(t, x) PROVE Counting'
  BY <1>1, <1>4 DEF Post
<1>5. ASSUME NEW t \in Threads, Run(t) PROVE Counting'
  <2>1. TopEnters(t)
    BY <1>5, TopEntered
  <2>2. ASSUME NEW u \in Threads, NEW i \in 1..Len(frames[u])
        PROVE  i \in 1..Len(frames'[u]) /\ frames'[u][i].count = frames[u][i].count
    BY <2>1 DEF TopEnters
  <2>3. ASSUME NEW u \in Threads, NEW i \in 1..Len(frames'[u])
        PROVE  \/ i \in 1..Len(frames[u]) /\ frames'[u][i].count = frames[u][i].count
               \/ frames'[u][i].count = 0
    BY <2>1 DEF TopEnters, NewFrame
  <2>4. \A z : InCounts(z) => InCounts(z)'
    BY <2>2, Zenon DEF InCounts
  <2>5. \A k : k \notin 1..0
    OBVIOUS
  <2>6. \A z : InCounts(z)' => InCounts(z)
    BY <2>3, <2>5, Zenon DEF InCounts
  <2>7. Counts' = Counts
    BY <2>4, <2>6, CountsIn, CountsInNext
  <2>8. QED
    BY <1>5, <2>7, NothingCounted DEF Run, history
<1>6. ASSUME NEW t \in Threads, MoveFront(t) \/ TryPop(t) PROVE Counting'
  <2>1. Invoke(t)
    BY <1>6 DEF MoveFront, TryPop
  <2>2. PICK frame \in Frame : TopBecomes(t, frame) /\ frame.count = top(t).count
    BY <2>1, InvokeTop
  <2>3. Counts' = Counts
    BY <2>2, SameCounts DEF top
  <2>4. QED
    BY <2>1, <2>3, NothingCounted DEF Invoke
<1>7. ASSUME NEW t \in Threads, IterationEnds(t) PROVE Counting'
  BY <1>7, IterationEndsTop, ReturnCounted DEF IterationEnds
<1>8. ASSUME NEW t \in Threads, FunctionReturns(t) PROVE Counting'
  BY <1>8, FunctionReturnsTop, ReturnCounted DEF FunctionReturns
<1>9. ASSUME NEW t \in Threads, LoopEnds(t) PROVE Counting'
  <2>1. PICK frame \in Frame : TopBecomes(t, frame) /\ frame.count = top(t).count
    BY <1>9, LoopEndsTop
  <2>2. Counts' = Counts
    BY <2>1, SameCounts DEF top
  <2>3. QED
    BY <1>9, <2>2, NothingCounted DEF LoopEnds, history
<1>10. ASSUME NEW t \in Threads, RunReturns(t) \/ FunctionThrows(t) PROVE Counting'
  <2>1. frames[t] # <<>> /\ frames' = [frames EXCEPT ![t] = callers(t)] /\ UNCHANGED finished
    BY <1>10 DEF RunReturns, FunctionThrows, At
  <2>2. TopLeaves(t)
    BY <2>1, TopLeft DEF IInv
  <2>3. top(t).count \in Nat /\ reported \in Nat /\ lost \in Nat
    BY <2>1, TopType DEF IInv, TypeOK, Frame
  <2>4. reported' + lost' = reported + lost + top(t).count
    BY <1>10, <2>3 DEF RunReturns, FunctionThrows
  <2>5. QED
    BY <2>1, <2>2, <2>4, LeftCounted
<1>11. QED
  BY <1>2, <1>3, <1>4, <1>5, <1>6, <1>7, <1>8, <1>9, <1>10 DEF Next, Step

(* What the calls of run() return, with what is counted by the ones in     *)
(* progress and was by those an exception has ended, is the number of the  *)
(* functions that have returned: nested and concurrent calls count none    *)
(* twice and miss none (execution_context.cpp:6, 11-13, 18, 23-26).        *)
THEOREM RunCountsEachOnce == Spec => []CountsAgree
<1>1. Counting => CountsAgree
  BY DEF Counting
<1>2. QED
  BY <1>1, InitCounting, StepCounting, IInvHolds, PTL DEF Spec

-----------------------------------------------------------------------------
(* The refinement of TaskQueue. *)

Running == UNION {Calling(t) : t \in Threads}

Runs(x) == \E t \in Threads : \E i \in 1..Len(frames[t]) :
             frames[t][i].at = "call" /\ frames[t][i].f = x

LEMMA RunningRuns == \A x : x \in Running <=> Runs(x)
BY DEF Running, Runs, Calling

LEMMA RunningRunsNext == \A x : x \in Running' <=> Runs(x)'
BY DEF Running, Runs, Calling

(* A function is called. *)
LEMMA InvokeStarts ==
  ASSUME IInv, NEW t \in Threads, Invoke(t), m_function_queue' = Tail(m_function_queue)
  PROVE  Queue!Start
<1>1. PICK frame \in Frame : /\ TopBecomes(t, frame)
                             /\ frame.f = Head(m_function_queue)
                             /\ frame.at = "call"
  BY InvokeTop
<1>2. PICK h : h = Head(m_function_queue)
  OBVIOUS
<1>3. /\ frames[t] # <<>> /\ Len(frames[t]) \in 1..Len(frames[t])
      /\ frames[t][Len(frames[t])].at = "loop"
  BY TopType DEF Invoke, At, IInv
<1>4. ASSUME NEW x PROVE Runs(x)' <=> Runs(x) \/ x = h
  <2>1. Runs(h)'
    BY <1>1, <1>2, <1>3 DEF TopBecomes, Runs
  <2>2. Runs(x) => Runs(x)'
    BY <1>1, <1>3 DEF TopBecomes, Runs
  <2>3. Runs(x)' => Runs(x) \/ x = h
    BY <1>1, <1>2 DEF TopBecomes, Runs
  <2>4. QED
    BY <2>1, <2>2, <2>3
<1>5. Running' = Running \cup {Head(m_function_queue)}
  BY <1>2, <1>4, RunningRuns, RunningRunsNext
<1>6. m_function_queue # <<>> /\ UNCHANGED <<finished, threw>>
  BY DEF Invoke
<1>7. QED
  BY <1>5, <1>6 DEF Queue!Start, Running

(* A function ends: no other activation was executing it. *)
LEMMA EndEnds ==
  ASSUME IInv, NEW t \in Threads, At(t, "call"),
         m_function_queue' = m_function_queue,
         finished' \cup threw' = finished \cup threw \cup {top(t).f},
         \/ TopLeaves(t)
         \/ \E frame : TopBecomes(t, frame) /\ frame.at # "call"
  PROVE  \E x \in Tasks : Queue!End(x)
<1>1. PICK x \in Tasks : x = top(t).f /\ x # NoTask
  BY CalledFunction
<1>2. /\ frames[t] # <<>> /\ Len(frames[t]) \in 1..Len(frames[t])
      /\ frames[t][Len(frames[t])].at = "call"
      /\ frames[t][Len(frames[t])].f = x
  BY <1>1, CalledFunction, TopType DEF At, IInv
<1>3. \A u \in Threads : \A i \in 1..Len(frames[u]) :
        frames[u][i].f = x => u = t /\ i = Len(frames[t])
  BY <1>1, <1>2, TopFunction
<1>4. ASSUME NEW y PROVE Runs(y)' <=> Runs(y) /\ y # x
  <2>1. CASE TopLeaves(t)
    <3>1. Runs(y) /\ y # x => Runs(y)'
      BY <1>2, <2>1 DEF TopLeaves, Runs
    <3>2. Runs(y)' => Runs(y) /\ y # x
      BY <1>3, <2>1 DEF TopLeaves, Runs
    <3>3. QED
      BY <3>1, <3>2
  <2>2. CASE \E frame : TopBecomes(t, frame) /\ frame.at # "call"
    <3>1. PICK frame : TopBecomes(t, frame) /\ frame.at # "call"
      BY <2>2
    <3>2. Runs(y) /\ y # x => Runs(y)'
      BY <1>2, <3>1 DEF TopBecomes, Runs
    <3>3. Runs(y)' => Runs(y) /\ y # x
      BY <1>3, <3>1 DEF TopBecomes, Runs
    <3>4. QED
      BY <3>2, <3>3
  <2>3. QED
    BY <2>1, <2>2
<1>5. x \in Running /\ Running' = Running \ {x}
  <2>1. Runs(x)
    BY <1>2 DEF Runs
  <2>2. QED
    BY <1>4, <2>1, RunningRuns, RunningRunsNext
<1>6. Queue!End(x)
  BY <1>1, <1>5 DEF Queue!End, Running
<1>7. QED
  BY <1>6

(* Neither enters nor leaves a function. *)
LEMMA OtherStutters ==
  ASSUME \A x : Runs(x)' <=> Runs(x), m_function_queue' = m_function_queue,
         UNCHANGED <<finished, threw>>
  PROVE  UNCHANGED Queue!queueVars
<1>1. Running' = Running
  BY RunningRuns, RunningRunsNext
<1>2. QED
  BY <1>1 DEF Queue!queueVars, Running

LEMMA PostSubmits ==
  ASSUME IInv, NEW t \in Threads, NEW x \in Tasks, Post(t, x)
  PROVE  Queue!Submit(x)
<1>1. /\ alive /\ x \notin Posted /\ x # NoTask
      /\ m_function_queue' = Append(m_function_queue, x)
      /\ UNCHANGED <<frames, finished, threw>>
  BY ContextAssumption DEF Post, Active, Pushed
<1>2. ~Queue!Waits(x)
  BY <1>1 DEF Queue!Waits, IInv, Meaning, QueuedFresh
<1>3. x \notin finished \cup threw
  BY <1>1 DEF IInv, Meaning, UnpostedFresh
<1>4. ~Runs(x)
  BY <1>1 DEF Runs, IInv, Meaning, HeldPosted
<1>5. \A y : Runs(y)' <=> Runs(y)
  BY <1>1 DEF Runs
<1>6. Running' = Running /\ x \notin Running
  BY <1>4, <1>5, RunningRuns, RunningRunsNext
<1>7. QED
  BY <1>1, <1>2, <1>3, <1>6 DEF Queue!Submit, Running

LEMMA StepRefines == IInv /\ [Next]_vars => [Queue!QueueNext]_(Queue!queueVars)
<1> SUFFICES ASSUME IInv, [Next]_vars PROVE Queue!QueueNext \/ UNCHANGED Queue!queueVars
  OBVIOUS
<1>1. CASE UNCHANGED vars
  <2>1. UNCHANGED <<frames, m_function_queue, finished, threw>>
    BY <1>1 DEF vars, context, history
  <2>2. QED
    BY <2>1, OtherStutters DEF Runs
<1>2. CASE DestroyContext
  BY <1>2, OtherStutters DEF DestroyContext, Runs
<1>3. ASSUME NEW t \in Threads, NEW x \in Tasks, Post(t, x) PROVE Queue!QueueNext
  BY <1>3, PostSubmits DEF Queue!QueueNext
<1>4. ASSUME NEW t \in Threads, Run(t) PROVE UNCHANGED Queue!queueVars
  <2>1. TopEnters(t) /\ NewFrame.at = "loop"
    BY <1>4, TopEntered DEF NewFrame
  <2>2. ASSUME NEW x PROVE Runs(x)' <=> Runs(x)
    <3>1. Runs(x) => Runs(x)'
      BY <2>1 DEF TopEnters, Runs
    <3>2. Runs(x)' => Runs(x)
      BY <2>1 DEF TopEnters, Runs
    <3>3. QED
      BY <3>1, <3>2
  <2>3. QED
    BY <1>4, <2>2, OtherStutters DEF Run, context, history
<1>5. ASSUME NEW t \in Threads, MoveFront(t) \/ TryPop(t) PROVE Queue!QueueNext
  BY <1>5, InvokeStarts DEF MoveFront, TryPop, Popped, Remaining, Queue!QueueNext
<1>6. ASSUME NEW t \in Threads, IterationEnds(t) PROVE Queue!QueueNext
  <2>1. /\ At(t, "call") /\ m_function_queue' = m_function_queue
        /\ finished' \cup threw' = finished \cup threw \cup {top(t).f}
    BY <1>6 DEF IterationEnds, context
  <2>2. \E frame : TopBecomes(t, frame) /\ frame.at # "call"
    BY <1>6, IterationEndsTop
  <2>3. QED
    BY <2>1, <2>2, EndEnds DEF Queue!QueueNext
<1>7. ASSUME NEW t \in Threads, FunctionReturns(t) PROVE Queue!QueueNext
  <2>1. /\ At(t, "call") /\ m_function_queue' = m_function_queue
        /\ finished' \cup threw' = finished \cup threw \cup {top(t).f}
    BY <1>7 DEF FunctionReturns, context
  <2>2. \E frame : TopBecomes(t, frame) /\ frame.at # "call"
    BY <1>7, FunctionReturnsTop
  <2>3. QED
    BY <2>1, <2>2, EndEnds DEF Queue!QueueNext
<1>8. ASSUME NEW t \in Threads, FunctionThrows(t) PROVE Queue!QueueNext
  <2>1. /\ At(t, "call") /\ m_function_queue' = m_function_queue
        /\ finished' \cup threw' = finished \cup threw \cup {top(t).f}
    BY <1>8 DEF FunctionThrows, context
  <2>2. TopLeaves(t)
    BY <1>8, TopLeft DEF FunctionThrows, At, IInv
  <2>3. QED
    BY <2>1, <2>2, EndEnds DEF Queue!QueueNext
<1>9. ASSUME NEW t \in Threads, LoopEnds(t) PROVE UNCHANGED Queue!queueVars
  <2>1. PICK frame : TopBecomes(t, frame) /\ frame.at # "call"
    BY <1>9, LoopEndsTop
  <2>2. frames[t][Len(frames[t])].at # "call"
    BY <1>9 DEF LoopEnds, At, top
  <2>3. \A x : Runs(x)' <=> Runs(x)
    BY <2>1, <2>2 DEF TopBecomes, Runs
  <2>4. QED
    BY <1>9, <2>3, OtherStutters DEF LoopEnds, context, history
<1>10. ASSUME NEW t \in Threads, RunReturns(t) PROVE UNCHANGED Queue!queueVars
  <2>1. TopLeaves(t)
    BY <1>10, TopLeft DEF RunReturns, At, IInv
  <2>2. frames[t][Len(frames[t])].at # "call"
    BY <1>10 DEF RunReturns, At, top
  <2>3. ASSUME NEW x PROVE Runs(x)' <=> Runs(x)
    <3>1. ASSUME Runs(x) PROVE Runs(x)'
      <4>1. PICK u \in Threads : \E i \in 1..Len(frames[u]) : frames[u][i].at = "call" /\ frames[u][i].f = x
        BY <3>1 DEF Runs
      <4>2. PICK i \in 1..Len(frames[u]) : frames[u][i].at = "call" /\ frames[u][i].f = x
        BY <4>1
      <4>3. u = t => i # Len(frames[t])
        BY <2>2, <4>2
      <4>4. i \in 1..Len(frames'[u]) /\ frames'[u][i] = frames[u][i]
        BY <2>1, <4>2, <4>3 DEF TopLeaves
      <4>5. QED
        BY <4>2, <4>4 DEF Runs
    <3>2. Runs(x)' => Runs(x)
      BY <2>1, <2>2 DEF TopLeaves, Runs
    <3>3. QED
      BY <3>1, <3>2
  <2>4. QED
    BY <1>10, <2>3, OtherStutters DEF RunReturns, context
<1>11. QED
  BY <1>1, <1>2, <1>3, <1>4, <1>5, <1>6, <1>7, <1>8, <1>9, <1>10 DEF Next, Step

(* A context of either class starts functions once, in the order of their  *)
(* posts, and each ends once: execution_context.cpp:4-27 implements        *)
(* TaskQueue.                                                              *)
THEOREM ImplementsTaskQueue == Spec => QueueSpec
<1>1. Init => Queue!QueueInit
  <2> SUFFICES ASSUME Init PROVE Queue!QueueInit
    OBVIOUS
  <2>1. \A t \in Threads : Calling(t) = {}
    BY DEF Init, Calling
  <2>2. QED
    BY <2>1 DEF Init, Queue!QueueInit
<1>2. QED
  BY <1>1, StepRefines, IInvHolds, PTL DEF Spec, QueueSpec, Queue!QueueSpec
=============================================================================
