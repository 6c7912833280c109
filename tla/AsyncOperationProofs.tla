------------------------ MODULE AsyncOperationProofs ------------------------
(***************************************************************************)
(* Theorems about AsyncOperation, for any set of operations of any kinds,  *)
(* on one thread and on many.                                              *)
(*                                                                         *)
(* The argument: the handler of an operation is posted, taken and ended    *)
(* after the operation was concluded, and no step changes the result of an *)
(* operation after that.  What the handler stored is thus the result, and  *)
(* the coroutine is resumed by the step that ends the handler.             *)
(***************************************************************************)
EXTENDS AsyncOperation, SequenceTheorems, TLAPS

(* The handler of o was posted. *)
Posted(o) == Queue!Waits(o) \/ o \in running \/ o \in ended

(* A handler is in one place of the executor. *)
OnePlace ==
  /\ \A i, j \in 1..Len(waiting) : waiting[i] = waiting[j] => i = j
  /\ \A i \in 1..Len(waiting) : waiting[i] \notin running \cup ended
  /\ running \cap ended = {}

(* Entries, posted handlers and stored results are of concluded operations. *)
AfterConclusion ==
  /\ accepted \cap concluded = {}
  /\ \A i \in 1..Len(entries) : entries[i].op \in concluded
  /\ \A o \in Ops : Posted(o) \/ m_result[o] # 0 => o \in concluded

(* Where the coroutine is when the ring, or the executor, has its          *)
(* operation: on one thread, suspended before the handler is posted.       *)
CoroutineFollows ==
  \A o \in Ops :
    /\ o \in accepted \cup concluded => pc[o] \in {"called", "suspended", "resumed"}
    /\ pc[o] \in {"suspended", "resumed"} => m_coroutine[o]
    /\ pc[o] = "resumed" => o \in ended
    /\ SameThread /\ (Queue!Waits(o) \/ o \in running) => pc[o] = "suspended"

(* What is stored is the operation's result, and async_stat's struct is    *)
(* filled in before the handler is posted.                                 *)
Results ==
  \A o \in Ops :
    /\ m_result[o] \in {0, Argument(o)}
    /\ Posted(o) /\ kind[o] = "stat" => o \in statbuf
    /\ outcome[o] # "already_retrieved"

IInv ==
  /\ TypeOK /\ OnePlace /\ AfterConclusion /\ CoroutineFollows /\ Results
  /\ ThrowsOnFailureOnly /\ EndedMeansResumed

-----------------------------------------------------------------------------
(* The initial states, and one lemma per kind of step. *)

LEMMA InitIInv == Init => IInv
<1> SUFFICES ASSUME Init PROVE IInv
  OBVIOUS
<1>1. /\ accepted = {} /\ concluded = {} /\ entries = <<>> /\ Len(entries) = 0
      /\ waiting = <<>> /\ Len(waiting) = 0 /\ running = {} /\ ended = {}
  BY DEF Init, Ring!RingInit, Queue!QueueInit
<1>2. TypeOK
  BY <1>1, EmptySeq DEF Init, TypeOK
<1>3. \A o : ~Posted(o) /\ ~Queue!Waits(o)
  BY <1>1 DEF Posted, Queue!Waits
<1>4. OnePlace /\ AfterConclusion
  BY <1>1, <1>3 DEF Init, OnePlace, AfterConclusion
<1>5. CoroutineFollows
  BY <1>1, <1>3 DEF Init, CoroutineFollows
<1>6. Results
  BY <1>3 DEF Init, Results
<1>7. ThrowsOnFailureOnly /\ EndedMeansResumed
  BY <1>1 DEF Init, ThrowsOnFailureOnly, EndedMeansResumed
<1>8. QED
  BY <1>2, <1>4, <1>5, <1>6, <1>7 DEF IInv

(* wrap_op::call makes the awaitable, or async_open throws, or the         *)
(* operation is not started.                                               *)
LEMMA NotStartedIInv ==
  ASSUME IInv, NEW o \in Ops, UNCHANGED setting, AsyncStart(o) \/ OpRefused(o)
  PROVE  IInv'
<1>1. /\ UNCHANGED <<threading, kind, accepted, entries, concluded, waiting, running, ended>>
      /\ UNCHANGED <<res, m_result, m_coroutine, outcome, statbuf>>
  BY DEF setting, AsyncStart, AsyncOpen, AsyncRead, AsyncStat, AsyncClose, AsyncResult,
         AsyncOpenThrows, OpRefused, Called, ring, executor
<1>2. PICK label \in {"made", "threw", "called"} : pc' = [pc EXCEPT ![o] = label]
  BY DEF AsyncStart, AsyncOpen, AsyncRead, AsyncStat, AsyncClose, AsyncResult,
         AsyncOpenThrows, OpRefused, Called
<1>3. pc[o] \in {"idle", "made"}
  BY DEF AsyncStart, AsyncOpen, AsyncRead, AsyncStat, AsyncClose, AsyncResult,
         AsyncOpenThrows, OpRefused, Called
<1>4. /\ pc' \in [Ops -> {"idle", "made", "called", "suspended", "resumed", "threw"}]
      /\ pc'[o] = label /\ \A x \in Ops : x # o => pc'[x] = pc[x]
  BY <1>2 DEF IInv, TypeOK
<1>5. (\A x : Posted(x)' <=> Posted(x)) /\ (\A x : Queue!Waits(x)' <=> Queue!Waits(x))
  BY <1>1 DEF Posted, Queue!Waits
<1>6. TypeOK' /\ OnePlace' /\ AfterConclusion'
  BY <1>1, <1>4, <1>5 DEF IInv, TypeOK, OnePlace, AfterConclusion
<1>7. o \notin accepted \cup concluded /\ ~Posted(o)
  BY <1>3 DEF IInv, AfterConclusion, CoroutineFollows
<1>8. CoroutineFollows'
  BY <1>1, <1>4, <1>5, <1>7 DEF IInv, CoroutineFollows, SameThread, Posted
<1>9. Results'
  BY <1>1, <1>5 DEF IInv, Results, Argument
<1>10. ThrowsOnFailureOnly' /\ EndedMeansResumed'
  BY <1>1, <1>4, <1>7 DEF IInv, TypeOK, ThrowsOnFailureOnly, EndedMeansResumed, SameThread, Posted
<1>11. QED
  BY <1>6, <1>8, <1>9, <1>10 DEF IInv

LEMMA OpAcceptedIInv ==
  ASSUME IInv, NEW o \in Ops, UNCHANGED setting, OpAccepted(o)
  PROVE  IInv'
<1>1. /\ UNCHANGED <<threading, kind, entries, concluded, waiting, running, ended>>
      /\ UNCHANGED <<res, m_result, m_coroutine, outcome, statbuf>>
      /\ o \notin concluded /\ accepted' = accepted \cup {o}
      /\ pc[o] = "made" /\ pc' = [pc EXCEPT ![o] = "called"]
  BY DEF setting, OpAccepted, Called, Ring!Accept, executor
<1>2. /\ pc' \in [Ops -> {"idle", "made", "called", "suspended", "resumed", "threw"}]
      /\ pc'[o] = "called" /\ \A x \in Ops : x # o => pc'[x] = pc[x]
  BY <1>1 DEF IInv, TypeOK
<1>3. (\A x : Posted(x)' <=> Posted(x)) /\ (\A x : Queue!Waits(x)' <=> Queue!Waits(x))
  BY <1>1 DEF Posted, Queue!Waits
<1>4. TypeOK' /\ OnePlace' /\ AfterConclusion'
  BY <1>1, <1>2, <1>3 DEF IInv, TypeOK, OnePlace, AfterConclusion
<1>5. ~Posted(o)
  BY <1>1 DEF IInv, AfterConclusion
<1>6. CoroutineFollows'
  BY <1>1, <1>2, <1>3, <1>5 DEF IInv, CoroutineFollows, SameThread, Posted
<1>7. Results'
  BY <1>1, <1>3 DEF IInv, Results, Argument
<1>8. ThrowsOnFailureOnly' /\ EndedMeansResumed'
  BY <1>1, <1>2, <1>5 DEF IInv, TypeOK, ThrowsOnFailureOnly, EndedMeansResumed, SameThread, Posted
<1>9. QED
  BY <1>4, <1>6, <1>7, <1>8 DEF IInv

(* await_suspend (use_awaitable.hpp:55-58). *)
LEMMA AwaitSuspendIInv ==
  ASSUME IInv, NEW o \in Ops, UNCHANGED setting, AwaitSuspend(o)
  PROVE  IInv'
<1>1. /\ UNCHANGED <<threading, kind, accepted, entries, concluded, waiting, running, ended>>
      /\ UNCHANGED <<res, m_result, outcome, statbuf>>
      /\ pc[o] = "called" /\ pc' = [pc EXCEPT ![o] = "suspended"]
      /\ m_coroutine' = [m_coroutine EXCEPT ![o] = TRUE]
  BY DEF setting, AwaitSuspend, Suspended, executor, ring
<1>2. /\ pc' \in [Ops -> {"idle", "made", "called", "suspended", "resumed", "threw"}]
      /\ pc'[o] = "suspended" /\ \A x \in Ops : x # o => pc'[x] = pc[x]
  BY <1>1 DEF IInv, TypeOK
<1>3. /\ m_coroutine' \in [Ops -> BOOLEAN]
      /\ m_coroutine'[o] /\ \A x \in Ops : m_coroutine[x] => m_coroutine'[x]
  BY <1>1 DEF IInv, TypeOK
<1>4. (\A x : Posted(x)' <=> Posted(x)) /\ (\A x : Queue!Waits(x)' <=> Queue!Waits(x))
  BY <1>1 DEF Posted, Queue!Waits
<1>5. TypeOK' /\ OnePlace' /\ AfterConclusion'
  BY <1>1, <1>2, <1>3, <1>4 DEF IInv, TypeOK, OnePlace, AfterConclusion
<1>6. CoroutineFollows'
  BY <1>1, <1>2, <1>3, <1>4 DEF IInv, CoroutineFollows, SameThread
<1>7. Results'
  BY <1>1, <1>4 DEF IInv, Results, Argument
<1>8. ThrowsOnFailureOnly' /\ EndedMeansResumed'
  BY <1>1, <1>2 DEF IInv, TypeOK, ThrowsOnFailureOnly, EndedMeansResumed, SameThread
<1>9. QED
  BY <1>5, <1>6, <1>7, <1>8 DEF IInv

(* The kernel gives the result: nothing was posted or stored before. *)
LEMMA KernelFinishesIInv ==
  ASSUME IInv, NEW o \in Ops, NEW r \in {"success", "failure"}, UNCHANGED setting,
         KernelFinishes(o, r)
  PROVE  IInv'
<1>1. /\ UNCHANGED <<threading, kind, waiting, running, ended>>
      /\ UNCHANGED <<pc, m_result, m_coroutine, outcome, statbuf>>
      /\ o \in accepted /\ accepted' = accepted \ {o} /\ concluded' = concluded \cup {o}
      /\ entries' = Append(entries, [op |-> o, last |-> TRUE])
      /\ res' = [res EXCEPT ![o] = r]
  BY DEF setting, KernelFinishes, Ring!Conclude, executor
<1>2. /\ res' \in [Ops -> {"none", "success", "failure"}]
      /\ \A x \in Ops : x # o => res'[x] = res[x]
  BY <1>1 DEF IInv, TypeOK
<1>3. PICK e \in [op : Ops, last : {TRUE}] : e = [op |-> o, last |-> TRUE] /\ e.op = o
  <2>1. PICK e : e = [op |-> o, last |-> TRUE]
    OBVIOUS
  <2>2. e \in [op : Ops, last : {TRUE}] /\ e.op = o
    BY <2>1
  <2>3. QED
    BY <2>1, <2>2
<1>4. PICK n \in Nat : n = Len(entries)
  BY LenProperties DEF IInv, TypeOK
<1>5. /\ entries' \in Seq([op : Ops, last : {TRUE}]) /\ Len(entries') = n + 1
      /\ \A i \in 1..n : entries'[i] = entries[i]
      /\ entries'[n + 1] = e
  BY <1>1, <1>3, <1>4, AppendProperties DEF IInv, TypeOK
<1>6. (\A x : Posted(x)' <=> Posted(x)) /\ (\A x : Queue!Waits(x)' <=> Queue!Waits(x))
  BY <1>1 DEF Posted, Queue!Waits
<1>7. TypeOK' /\ OnePlace'
  BY <1>1, <1>2, <1>5 DEF IInv, TypeOK, OnePlace
<1>8. \A i \in 1..n + 1 : entries'[i].op \in concluded'
  BY <1>1, <1>3, <1>4, <1>5 DEF IInv, AfterConclusion
<1>9. AfterConclusion'
  BY <1>1, <1>5, <1>6, <1>8 DEF IInv, AfterConclusion
<1>10. CoroutineFollows'
  BY <1>1, <1>6 DEF IInv, CoroutineFollows, SameThread
<1>11. o \notin concluded /\ m_result[o] = 0 /\ ~Posted(o)
  BY <1>1 DEF IInv, AfterConclusion
<1>12. \A x \in Ops : m_result'[x] \in {0, Argument(x)'}
  BY <1>1, <1>2, <1>11 DEF IInv, Results, Argument
<1>13. Results'
  BY <1>1, <1>6, <1>12 DEF IInv, Results
<1>14. ThrowsOnFailureOnly' /\ EndedMeansResumed'
  BY <1>1, <1>2, <1>11 DEF IInv, TypeOK, ThrowsOnFailureOnly, EndedMeansResumed, SameThread, Posted,
                            CoroutineFollows
<1>15. QED
  BY <1>7, <1>9, <1>10, <1>13, <1>14 DEF IInv

(* async_stat's callback fills in the struct stat (stat.hpp:27-43). *)
LEMMA CallbackCopiesIInv ==
  ASSUME IInv, UNCHANGED setting, CallbackCopies
  PROVE  IInv'
<1>1. /\ UNCHANGED <<threading, kind, accepted, entries, concluded, waiting, running, ended>>
      /\ UNCHANGED <<pc, res, m_result, m_coroutine, outcome>>
      /\ entries # <<>> /\ statbuf' = statbuf \cup {Head(entries).op}
  BY DEF setting, CallbackCopies, coroutine, executor, ring
<1>2. Head(entries).op \in Ops
  <2>1. PICK e \in [op : Ops, last : {TRUE}] : e = Head(entries)
    BY <1>1, HeadTailProperties DEF IInv, TypeOK
  <2>2. QED
    BY <2>1
<1>3. (\A x : Posted(x)' <=> Posted(x)) /\ (\A x : Queue!Waits(x)' <=> Queue!Waits(x))
  BY <1>1 DEF Posted, Queue!Waits
<1>4. TypeOK' /\ OnePlace' /\ AfterConclusion'
  BY <1>1, <1>2, <1>3 DEF IInv, TypeOK, OnePlace, AfterConclusion
<1>5. CoroutineFollows'
  BY <1>1, <1>3 DEF IInv, CoroutineFollows, SameThread
<1>6. Results'
  BY <1>1, <1>3 DEF IInv, Results, Argument
<1>7. ThrowsOnFailureOnly' /\ EndedMeansResumed'
  BY <1>1 DEF IInv, ThrowsOnFailureOnly, EndedMeansResumed, SameThread
<1>8. QED
  BY <1>4, <1>5, <1>6, <1>7 DEF IInv

(* The ring's callback posts the handler, and does so after it has copied  *)
(* the struct stat; on one thread the coroutine is suspended by then.      *)
LEMMA CallbackIInv ==
  ASSUME IInv, UNCHANGED setting, Callback
  PROVE  IInv'
<1>1. /\ UNCHANGED <<threading, kind, accepted, concluded, running, ended>>
      /\ UNCHANGED <<pc, res, m_result, m_coroutine, outcome>>
      /\ entries # <<>> /\ entries' = Tail(entries) /\ Uninterrupted
  BY DEF setting, Callback, Ring!Dispatch, Queue!Submit, coroutine
<1>2. PICK n \in Nat \ {0} : n = Len(entries)
  BY <1>1, EmptySeq DEF IInv, TypeOK
<1>3. /\ entries' \in Seq([op : Ops, last : {TRUE}]) /\ Len(entries') = n - 1
      /\ \A i \in 1..n - 1 : i + 1 \in 1..n /\ entries'[i] = entries[i + 1]
  BY <1>1, <1>2, HeadTailProperties DEF IInv, TypeOK
<1>4. PICK e \in [op : Ops, last : {TRUE}] : e = Head(entries) /\ e = entries[1]
  <2>1. 1 \in 1..Len(entries) /\ entries \in Seq([op : Ops, last : {TRUE}])
    BY <1>2 DEF IInv, TypeOK
  <2>2. entries[1] \in [op : Ops, last : {TRUE}]
    BY <2>1, ElementOfSeq, Zenon
  <2>3. Head(entries) = entries[1]
    BY <1>1, <2>1
  <2>4. QED
    BY <2>2, <2>3
<1>5. PICK o \in Ops : o = Head(entries).op /\ o = entries[1].op
  BY <1>4
<1>6. /\ ~Queue!Waits(o) /\ o \notin running \cup ended /\ waiting' = Append(waiting, o)
      /\ statbuf' = statbuf /\ CopiedFirst(o)
  BY <1>5 DEF Callback, Queue!Submit
<1>7. PICK m \in Nat : m = Len(waiting)
  BY LenProperties DEF IInv, TypeOK
<1>8. /\ waiting' \in Seq(Ops) /\ Len(waiting') = m + 1
      /\ \A i \in 1..m : waiting'[i] = waiting[i]
      /\ waiting'[m + 1] = o
  BY <1>6, <1>7, AppendProperties DEF IInv, TypeOK
<1>9. statbuf' \subseteq Ops /\ statbuf \subseteq statbuf' /\ (kind[o] = "stat" => o \in statbuf')
  BY <1>6 DEF CopiedFirst, IInv, TypeOK
<1>10. \A x : Queue!Waits(x)' <=> Queue!Waits(x) \/ x = o
  <2>1. m + 1 \in 1..m + 1 /\ \A i \in 1..m : i \in 1..m + 1
    BY <1>7
  <2>2. \A i \in 1..m + 1 : i \in 1..m \/ i = m + 1
    BY <1>7
  <2>3. QED
    BY <1>7, <1>8, <2>1, <2>2 DEF Queue!Waits
<1>11. \A x : Posted(x)' <=> Posted(x) \/ x = o
  BY <1>1, <1>10 DEF Posted
<1>12. TypeOK'
  BY <1>1, <1>3, <1>8, <1>9 DEF IInv, TypeOK
<1>13. OnePlace'
  BY <1>1, <1>6, <1>7, <1>8 DEF IInv, OnePlace, Queue!Waits
<1>14. o \in concluded
  BY <1>2, <1>5 DEF IInv, AfterConclusion
<1>15. AfterConclusion'
  BY <1>1, <1>2, <1>3, <1>11, <1>14 DEF IInv, AfterConclusion
<1>16. SameThread => pc[o] = "suspended"
  BY <1>1, <1>6, <1>14 DEF Uninterrupted, BetweenExpressions, IInv, CoroutineFollows
<1>17. CoroutineFollows'
  BY <1>1, <1>10, <1>16 DEF IInv, CoroutineFollows, SameThread
<1>18. Results'
  BY <1>1, <1>9, <1>11 DEF IInv, Results, Argument
<1>19. ThrowsOnFailureOnly' /\ EndedMeansResumed'
  BY <1>1 DEF IInv, ThrowsOnFailureOnly, EndedMeansResumed, SameThread
<1>20. QED
  BY <1>12, <1>13, <1>15, <1>17, <1>18, <1>19 DEF IInv

(* run() of the executor takes the oldest handler. *)
LEMMA RunTakesIInv ==
  ASSUME IInv, UNCHANGED setting, RunTakes
  PROVE  IInv'
<1>1. /\ UNCHANGED <<threading, kind, accepted, entries, concluded, ended>>
      /\ UNCHANGED <<pc, res, m_result, m_coroutine, outcome, statbuf>>
      /\ waiting # <<>> /\ waiting' = Tail(waiting)
      /\ running' = running \cup {Head(waiting)}
  BY DEF setting, RunTakes, Queue!Start, coroutine, ring
<1>2. PICK n \in Nat \ {0} : n = Len(waiting)
  BY <1>1, EmptySeq DEF IInv, TypeOK
<1>3. /\ waiting' \in Seq(Ops) /\ Len(waiting') = n - 1
      /\ \A i \in 1..n - 1 : i + 1 \in 1..n /\ waiting'[i] = waiting[i + 1]
  BY <1>1, <1>2, HeadTailProperties DEF IInv, TypeOK
<1>4. PICK o \in Ops : o = Head(waiting) /\ o = waiting[1]
  BY <1>1, HeadTailProperties DEF IInv, TypeOK
<1>5. running' = running \cup {o}
  BY <1>1, <1>4
<1>6. \A i \in 2..n : waiting[i] # o
  BY <1>2, <1>4 DEF IInv, OnePlace
<1>7. ASSUME NEW x PROVE Queue!Waits(x)' <=> Queue!Waits(x) /\ x # o
  <2>1. ASSUME NEW i \in 1..n, waiting[i] = x, x # o PROVE Queue!Waits(x)'
    <3>1. i - 1 \in 1..n - 1 /\ (i - 1) + 1 = i
      BY <1>4, <2>1
    <3>2. waiting'[i - 1] = x
      BY <1>3, <2>1, <3>1
    <3>3. QED
      BY <1>3, <3>1, <3>2 DEF Queue!Waits
  <2>2. Queue!Waits(x) /\ x # o => Queue!Waits(x)'
    BY <1>2, <2>1 DEF Queue!Waits
  <2>3. ASSUME Queue!Waits(x)' PROVE Queue!Waits(x) /\ x # o
    <3>1. PICK i \in 1..n - 1 : waiting'[i] = x
      BY <1>3, <2>3 DEF Queue!Waits
    <3>2. waiting[i + 1] = x /\ i + 1 \in 1..n /\ i + 1 \in 2..n
      BY <1>3, <3>1
    <3>3. QED
      BY <1>2, <1>6, <3>2 DEF Queue!Waits
  <2>4. QED
    BY <2>2, <2>3
<1>8. Queue!Waits(o)
  BY <1>2, <1>4 DEF Queue!Waits
<1>9. \A x : Posted(x)' <=> Posted(x)
  BY <1>1, <1>5, <1>7, <1>8 DEF Posted
<1>10. TypeOK'
  BY <1>1, <1>3, <1>4 DEF IInv, TypeOK
<1>11. OnePlace'
  <2>1. \A i \in 1..n - 1 : i + 1 \in 2..n
    BY <1>2
  <2>2. \A i \in 1..n - 1 : waiting'[i] \notin running' \cup ended'
    BY <1>1, <1>2, <1>3, <1>5, <1>6, <2>1 DEF IInv, OnePlace
  <2>3. o \notin ended
    BY <1>2, <1>4 DEF IInv, OnePlace
  <2>4. \A i, j \in 1..n - 1 : waiting'[i] = waiting'[j] => i = j
    BY <1>2, <1>3 DEF IInv, OnePlace
  <2>5. QED
    BY <1>1, <1>3, <1>5, <2>2, <2>3, <2>4 DEF IInv, OnePlace
<1>12. AfterConclusion'
  BY <1>1, <1>9 DEF IInv, AfterConclusion
<1>13. CoroutineFollows'
  BY <1>1, <1>5, <1>7, <1>8 DEF IInv, CoroutineFollows, SameThread
<1>14. Results'
  BY <1>1, <1>9 DEF IInv, Results, Argument
<1>15. ThrowsOnFailureOnly' /\ EndedMeansResumed'
  BY <1>1 DEF IInv, ThrowsOnFailureOnly, EndedMeansResumed, SameThread
<1>16. QED
  BY <1>10, <1>11, <1>12, <1>13, <1>14, <1>15 DEF IInv

(* operator() stores the result (use_awaitable.hpp:104-111). *)
LEMMA StoreResultIInv ==
  ASSUME IInv, NEW o \in Ops, UNCHANGED setting, StoreResult(o)
  PROVE  IInv'
<1>1. /\ UNCHANGED <<threading, kind, accepted, entries, concluded, waiting, running, ended>>
      /\ UNCHANGED <<pc, res, m_coroutine, outcome, statbuf>>
      /\ o \in running /\ m_result' = [m_result EXCEPT ![o] = Argument(o)]
  BY DEF setting, StoreResult, executor, ring
<1>2. Argument(o) \in 0..2 /\ \A x \in Ops : Argument(x)' = Argument(x)
  BY <1>1 DEF Argument
<1>3. /\ m_result' \in [Ops -> 0..2] /\ m_result'[o] = Argument(o)
      /\ \A x \in Ops : x # o => m_result'[x] = m_result[x]
  BY <1>1, <1>2 DEF IInv, TypeOK
<1>4. (\A x : Posted(x)' <=> Posted(x)) /\ (\A x : Queue!Waits(x)' <=> Queue!Waits(x))
  BY <1>1 DEF Posted, Queue!Waits
<1>5. TypeOK' /\ OnePlace'
  BY <1>1, <1>3 DEF IInv, TypeOK, OnePlace
<1>6. o \in concluded
  BY <1>1 DEF IInv, AfterConclusion, Posted
<1>7. AfterConclusion'
  BY <1>1, <1>3, <1>4, <1>6 DEF IInv, AfterConclusion
<1>8. CoroutineFollows'
  BY <1>1, <1>4 DEF IInv, CoroutineFollows, SameThread
<1>9. Results'
  BY <1>1, <1>2, <1>3, <1>4 DEF IInv, Results
<1>10. ThrowsOnFailureOnly' /\ EndedMeansResumed'
  BY <1>1 DEF IInv, ThrowsOnFailureOnly, EndedMeansResumed, SameThread
<1>11. QED
  BY <1>5, <1>7, <1>8, <1>9, <1>10 DEF IInv

(* operator() resumes the coroutine, whose await_resume takes the result   *)
(* (use_awaitable.hpp:60-80, 112).                                         *)
LEMMA ResumeIInv ==
  ASSUME IInv, NEW o \in Ops, UNCHANGED setting, Resume(o)
  PROVE  IInv'
<1>1. /\ UNCHANGED <<threading, kind, accepted, entries, concluded, waiting>>
      /\ UNCHANGED <<res, m_coroutine, statbuf>>
      /\ o \in running /\ running' = running \ {o} /\ ended' = ended \cup {o}
      /\ m_result[o] # 0
  BY DEF setting, Resume, Ready, Queue!End, ring
<1>2. \A x : Queue!Waits(x)' <=> Queue!Waits(x)
  BY <1>1 DEF Queue!Waits
<1>3. \A x : Posted(x)' <=> Posted(x)
  BY <1>1, <1>2 DEF Posted
<1>4. ~Queue!Waits(o)
  BY <1>1 DEF IInv, OnePlace, Queue!Waits
<1>5. OnePlace'
  BY <1>1 DEF IInv, OnePlace
<1>6. \A x \in Ops : Argument(x)' = Argument(x)
  BY <1>1 DEF Argument
<1>7. m_result[o] = Argument(o) /\ m_result[o] \in {1, 2}
  BY <1>1 DEF IInv, TypeOK, Results
<1>8. CASE m_coroutine[o]
  <2>1. /\ pc' = [pc EXCEPT ![o] = "resumed"]
        /\ outcome' = [outcome EXCEPT ![o] = Resumption(o)]
        /\ m_result' = [m_result EXCEPT ![o] = 0]
    BY <1>8 DEF Resume
  <2>2. Resumption(o) = IF Argument(o) = 1 THEN "system_error" ELSE "value"
    BY <1>7 DEF Resumption
  <2>3. /\ pc' \in [Ops -> {"idle", "made", "called", "suspended", "resumed", "threw"}]
        /\ pc'[o] = "resumed" /\ \A x \in Ops : x # o => pc'[x] = pc[x]
    BY <2>1 DEF IInv, TypeOK
  <2>4. /\ m_result' \in [Ops -> 0..2] /\ m_result'[o] = 0
        /\ \A x \in Ops : x # o => m_result'[x] = m_result[x]
    BY <2>1 DEF IInv, TypeOK
  <2>5. /\ outcome' \in [Ops -> {"none", "value", "system_error", "already_retrieved"}]
        /\ outcome'[o] = IF Argument(o) = 1 THEN "system_error" ELSE "value"
        /\ \A x \in Ops : x # o => outcome'[x] = outcome[x]
    BY <2>1, <2>2 DEF IInv, TypeOK
  <2>6. TypeOK'
    BY <1>1, <2>3, <2>4, <2>5 DEF IInv, TypeOK
  <2>7. AfterConclusion'
    BY <1>1, <1>3, <2>4 DEF IInv, AfterConclusion
  <2>8. CoroutineFollows'
    BY <1>1, <1>2, <1>4, <1>8, <2>3 DEF IInv, CoroutineFollows, SameThread
  <2>9. Results'
    BY <1>1, <1>3, <1>6, <2>4, <2>5 DEF IInv, Results
  <2>10. kind[o] # "close" => (Argument(o) = 1 <=> res[o] = "failure")
    BY DEF Argument
  <2>11. ThrowsOnFailureOnly'
    BY <1>1, <2>3, <2>5, <2>10 DEF IInv, ThrowsOnFailureOnly
  <2>12. EndedMeansResumed'
    BY <1>1, <2>3 DEF IInv, TypeOK, EndedMeansResumed, SameThread
  <2>13. QED
    BY <1>5, <2>6, <2>7, <2>8, <2>9, <2>11, <2>12 DEF IInv
<1>9. CASE ~m_coroutine[o]
  <2>1. UNCHANGED <<pc, outcome, m_result>>
    BY <1>9 DEF Resume
  <2>2. ~SameThread
    BY <1>1, <1>9 DEF IInv, CoroutineFollows
  <2>3. TypeOK'
    BY <1>1, <2>1 DEF IInv, TypeOK
  <2>4. AfterConclusion'
    BY <1>1, <1>3, <2>1 DEF IInv, AfterConclusion
  <2>5. CoroutineFollows'
    BY <1>1, <2>1, <2>2 DEF IInv, CoroutineFollows, SameThread
  <2>6. Results'
    BY <1>1, <1>3, <1>6, <2>1 DEF IInv, Results
  <2>7. ThrowsOnFailureOnly' /\ EndedMeansResumed'
    BY <1>1, <2>1, <2>2 DEF IInv, ThrowsOnFailureOnly, EndedMeansResumed, SameThread
  <2>8. QED
    BY <1>5, <2>3, <2>4, <2>5, <2>6, <2>7 DEF IInv
<1>10. QED
  BY <1>8, <1>9

LEMMA StepIInv == IInv /\ [Next]_vars => IInv'
<1> SUFFICES ASSUME IInv, [Next]_vars PROVE IInv'
  OBVIOUS
<1>1. CASE UNCHANGED vars
  <2>1. /\ UNCHANGED <<threading, kind, accepted, entries, concluded, waiting, running, ended>>
        /\ UNCHANGED <<pc, res, m_result, m_coroutine, outcome, statbuf>>
    BY <1>1 DEF vars, setting, ring, executor, coroutine
  <2>2. (\A x : Posted(x)' <=> Posted(x)) /\ (\A x : Queue!Waits(x)' <=> Queue!Waits(x))
    BY <2>1 DEF Posted, Queue!Waits
  <2>3. TypeOK' /\ OnePlace' /\ AfterConclusion' /\ CoroutineFollows'
    BY <2>1, <2>2 DEF IInv, TypeOK, OnePlace, AfterConclusion, CoroutineFollows, SameThread
  <2>4. Results' /\ ThrowsOnFailureOnly' /\ EndedMeansResumed'
    BY <2>1, <2>2 DEF IInv, Results, Argument, ThrowsOnFailureOnly, EndedMeansResumed, SameThread
  <2>5. QED
    BY <2>3, <2>4 DEF IInv
<1>2. CASE Next
  <2>1. UNCHANGED setting
    BY <1>2 DEF Next
  <2>2. ASSUME NEW o \in Ops, AsyncStart(o) \/ CoroutineStep(o) PROVE IInv'
    BY <2>1, <2>2, NotStartedIInv, OpAcceptedIInv, AwaitSuspendIInv DEF CoroutineStep
  <2>3. ASSUME NEW o \in Ops, KernelStep(o) PROVE IInv'
    BY <2>1, <2>3, KernelFinishesIInv DEF KernelStep
  <2>4. ASSUME CallbackCopies \/ Callback \/ RunTakes PROVE IInv'
    BY <2>1, <2>4, CallbackCopiesIInv, CallbackIInv, RunTakesIInv
  <2>5. ASSUME NEW o \in Ops, StoreResult(o) \/ Resume(o) PROVE IInv'
    BY <2>1, <2>5, StoreResultIInv, ResumeIInv
  <2>6. QED
    BY <1>2, <2>2, <2>3, <2>4, <2>5 DEF Next, Step
<1>3. QED
  BY <1>1, <1>2

(* Everything below follows from this. *)
LEMMA IInvHolds == Spec => []IInv
BY InitIInv, StepIInv, PTL DEF Spec

-----------------------------------------------------------------------------
(* The theorems. *)

(* The variables keep their types; the index of the stored variant is one  *)
(* of its three (use_awaitable.hpp:33-45).                                 *)
THEOREM TypeCorrect == Spec => []TypeOK
<1>1. IInv => TypeOK
  BY DEF IInv
<1>2. QED
  BY <1>1, IInvHolds, PTL

(* A coroutine that is resumed finds the result, on one thread and on many *)
(* (use_awaitable.hpp:75-77, 108-112).                                     *)
THEOREM ResultIsThere == Spec => []NeverResumedEmpty
<1>1. IInv => NeverResumedEmpty
  BY DEF IInv, Results, NeverResumedEmpty
<1>2. QED
  BY <1>1, IInvHolds, PTL

(* The struct stat is filled in before the handler runs, on one thread and *)
(* on many (stat.hpp:27-45).                                               *)
THEOREM StatIsThere == Spec => []StatBeforeHandler
<1>1. IInv => StatBeforeHandler
  BY DEF IInv, TypeOK, Results, Posted, StatBeforeHandler
<1>2. QED
  BY <1>1, IInvHolds, PTL

(* co_await throws if the operation failed and only then, async_close      *)
(* excepted (use_awaitable.hpp:39-41, 96-97).                              *)
THEOREM ThrowsTheOperationsError == Spec => []ThrowsOnFailureOnly
<1>1. IInv => ThrowsOnFailureOnly
  BY DEF IInv
<1>2. QED
  BY <1>1, IInvHolds, PTL

(* On one thread a handler that has run has resumed its coroutine          *)
(* (use_awaitable.hpp:55-58, 112).                                         *)
THEOREM OneThreadResumes == Spec => []EndedMeansResumed
<1>1. IInv => EndedMeansResumed
  BY DEF IInv
<1>2. QED
  BY <1>1, IInvHolds, PTL

-----------------------------------------------------------------------------
(* The order of the handlers. *)

Entry == [op : Ops, last : {TRUE}]

(* The handlers that wait, followed by those of the entries. *)
Ordered(W, E) == W \o [i \in 1..Len(E) |-> E[i].op]

Joins(P, W, m, E, n) ==
  /\ P \in Seq(Ops) /\ Len(P) = m + n
  /\ \A i \in 1..m : P[i] = W[i]
  /\ \A i \in 1..n : P[m + i] = E[i].op

LEMMA Joined ==
  ASSUME NEW W \in Seq(Ops), NEW E \in Seq(Entry),
         NEW m \in Nat, m = Len(W), NEW n \in Nat, n = Len(E)
  PROVE  Joins(Ordered(W, E), W, m, E, n)
<1>0. PICK P : P = Ordered(W, E)
  OBVIOUS
<1>1. PICK T : T = [i \in 1..n |-> E[i].op]
  OBVIOUS
<1>2. \A i \in 1..n : E[i] \in Entry
  BY ElementOfSeq
<1>3. \A i \in 1..n : E[i].op \in Ops /\ T[i] = E[i].op
  BY <1>1, <1>2 DEF Entry
<1>4. T \in Seq(Ops) /\ Len(T) = n
  <2>1. T \in [1..n -> Ops]
    BY <1>1, <1>3
  <2>2. QED
    BY <2>1, IsASeq, LenProperties
<1>5. P = W \o T
  BY <1>0, <1>1 DEF Ordered
<1>6. /\ P \in Seq(Ops) /\ Len(P) = Len(W) + Len(T)
      /\ \A i \in 1..Len(W) + Len(T) : P[i] = IF i <= Len(W) THEN W[i] ELSE T[i - Len(W)]
  BY <1>4, <1>5, ConcatProperties
<1>7. Len(P) = m + n /\ \A i \in 1..m + n : P[i] = IF i <= m THEN W[i] ELSE T[i - m]
  BY <1>4, <1>6
<1>8. ASSUME NEW i \in 1..n PROVE P[m + i] = E[i].op
  <2>1. m + i \in 1..m + n /\ ~(m + i <= m) /\ (m + i) - m = i
    OBVIOUS
  <2>2. P[m + i] = T[i]
    BY <1>7, <2>1
  <2>3. QED
    BY <1>3, <2>2
<1>9. \A i \in 1..m : P[i] = W[i]
  BY <1>7
<1>10. QED
  BY <1>0, <1>6, <1>7, <1>8, <1>9 DEF Joins

(* The kernel ends an operation: its handler is the last. *)
LEMMA ConcludeIsSubmit ==
  ASSUME IInv, IInv', NEW o \in Ops, NEW r, KernelFinishes(o, r)
  PROVE  Pipe!Submit(o)
<1>1. /\ UNCHANGED <<waiting, running, ended>> /\ o \in accepted
      /\ entries' = Append(entries, [op |-> o, last |-> TRUE])
  BY DEF KernelFinishes, Ring!Conclude, executor
<1>2. PICK m \in Nat, n \in Nat : m = Len(waiting) /\ n = Len(entries)
  BY LenProperties DEF IInv, TypeOK
<1>3. PICK W \in Seq(Ops), E \in Seq(Entry),
           E2 \in Seq(Entry) :
        W = waiting /\ W = waiting' /\ E = entries /\ E2 = entries'
  BY <1>1 DEF IInv, TypeOK, Entry
<1>4. /\ m = Len(W) /\ n = Len(E) /\ Len(E2) = n + 1 /\ n + 1 \in Nat
      /\ \A i \in 1..n : E2[i] = E[i]
      /\ E2[n + 1].op = o
  <2>1. PICK e \in Entry : e = [op |-> o, last |-> TRUE] /\ e.op = o
    <3>1. PICK e : e = [op |-> o, last |-> TRUE]
      OBVIOUS
    <3>2. e \in Entry /\ e.op = o
      BY <3>1 DEF Entry
    <3>3. QED
      BY <3>1, <3>2
  <2>2. E2 = Append(E, e)
    BY <1>1, <1>3, <2>1
  <2>3. Len(E2) = Len(E) + 1 /\ (\A i \in 1..Len(E) : E2[i] = E[i]) /\ E2[Len(E) + 1] = e
    BY <2>2, AppendProperties
  <2>4. QED
    BY <1>2, <1>3, <2>1, <2>3
<1>5. PICK P, P2 : P = Pipeline /\ P2 = Pipeline'
  OBVIOUS
<1>6. P = Ordered(W, E) /\ P2 = Ordered(W, E2)
  BY <1>3, <1>4, <1>5 DEF Pipeline, Ordered
<1>7. /\ P \in Seq(Ops) /\ Len(P) = m + n
      /\ \A i \in 1..m : P[i] = W[i]
      /\ \A i \in 1..n : P[m + i] = E[i].op
  <2>1. Joins(P, W, m, E, n)
    BY <1>4, <1>6, Joined, Zenon
  <2>2. QED
    BY <2>1, Zenon DEF Joins
<1>8. /\ P2 \in Seq(Ops) /\ Len(P2) = m + (n + 1)
      /\ \A i \in 1..m : P2[i] = W[i]
      /\ \A i \in 1..n + 1 : P2[m + i] = E2[i].op
  <2>1. Joins(P2, W, m, E2, n + 1)
    BY <1>4, <1>6, Joined, Zenon
  <2>2. QED
    BY <2>1, Zenon DEF Joins
<1>9. ASSUME NEW i \in 1..m + n PROVE P[i] # o /\ P2[i] = P[i]
  <2>1. o \notin concluded
    BY <1>1 DEF IInv, AfterConclusion
  <2>2. CASE i \in 1..m
    <3>1. P[i] = waiting[i] /\ P2[i] = P[i] /\ i \in 1..Len(waiting)
      BY <1>2, <1>3, <1>7, <1>8, <2>2
    <3>2. waiting[i] = o => Posted(o)
      BY <3>1 DEF Posted, Queue!Waits
    <3>3. QED
      BY <2>1, <3>1, <3>2 DEF IInv, AfterConclusion
  <2>3. CASE i \in m + 1..m + n
    <3>1. PICK k \in 1..n : i = m + k
      <4>1. i - m \in 1..n /\ i = m + (i - m)
        BY <2>3
      <4>2. QED
        BY <4>1
    <3>2. P[i] = E[k].op /\ P2[i] = E[k].op
      <4>1. k \in 1..n + 1
        OBVIOUS
      <4>2. QED
        BY <1>4, <1>7, <1>8, <3>1, <4>1
    <3>3. E[k].op \in concluded
      BY <1>3, <1>4 DEF IInv, AfterConclusion
    <3>4. QED
      BY <2>1, <3>2, <3>3
  <2>4. QED
    BY <2>2, <2>3
<1>10. P2 = Append(P, o)
  <2>1. P2[m + n + 1] = o /\ m + n + 1 = Len(P) + 1
    <3>1. P2[m + (n + 1)] = E2[n + 1].op
      BY <1>8
    <3>2. m + (n + 1) = m + n + 1 /\ m + n + 1 = Len(P) + 1
      BY <1>7
    <3>3. QED
      BY <1>4, <3>1, <3>2
  <2>2. PICK A : A = Append(P, o)
    OBVIOUS
  <2>3. /\ A \in Seq(Ops) /\ Len(A) = m + n + 1
        /\ \A i \in 1..m + n : A[i] = P[i]
        /\ A[m + n + 1] = o
    <3>1. /\ A \in Seq(Ops) /\ Len(A) = Len(P) + 1
          /\ \A i \in 1..Len(P) : A[i] = P[i]
          /\ A[Len(P) + 1] = o
      <4>1. P \in Seq(Ops)
        BY <1>7
      <4>2. QED
        BY <2>2, <4>1, AppendProperties
    <3>2. QED
      BY <1>7, <3>1
  <2>4. Len(P2) = Len(A)
    BY <1>8, <2>3
  <2>5. ASSUME NEW i \in 1..Len(P2) PROVE P2[i] = A[i]
    <3>1. i \in 1..m + n \/ i = m + n + 1
      BY <1>8
    <3>2. QED
      BY <1>9, <2>1, <2>3, <3>1
  <2>6. P2 = A
    BY <1>8, <2>3, <2>4, <2>5, SeqEqual
  <2>7. QED
    BY <2>2, <2>6
<1>11. o \notin running \cup ended
  BY <1>1 DEF IInv, AfterConclusion, Posted
<1>12. QED
  BY <1>1, <1>5, <1>7, <1>9, <1>10, <1>11 DEF Pipe!Submit, Pipe!Waits

(* The callback moves a handler from the entries to the executor, and the  *)
(* order of all of them is the same.                                       *)
LEMMA CallbackKeepsOrder ==
  ASSUME IInv, IInv', Callback
  PROVE  UNCHANGED Pipe!queueVars
<1>1. /\ UNCHANGED <<running, ended>> /\ entries # <<>> /\ entries' = Tail(entries)
      /\ waiting' = Append(waiting, Head(entries).op)
  BY DEF Callback, Ring!Dispatch, Queue!Submit
<1>2. PICK m \in Nat, n \in Nat \ {0} : m = Len(waiting) /\ n = Len(entries)
  BY <1>1, LenProperties, EmptySeq DEF IInv, TypeOK
<1>3. PICK W \in Seq(Ops), W2 \in Seq(Ops) : W = waiting /\ W2 = waiting'
  BY DEF IInv, TypeOK
<1>4. PICK E \in Seq(Entry), E2 \in Seq(Entry) :
        E = entries /\ E2 = entries'
  BY DEF IInv, TypeOK, Entry
<1>5. /\ n = Len(E) /\ Len(E2) = n - 1 /\ n - 1 \in Nat
      /\ \A i \in 1..n - 1 : E2[i] = E[i + 1]
      /\ Head(E) = E[1]
  BY <1>1, <1>2, <1>4, HeadTailProperties
<1>6. PICK o \in Ops : o = Head(entries).op /\ o = E[1].op
  <2>1. 1 \in 1..Len(E)
    BY <1>5
  <2>2. E[1] \in Entry
    BY <2>1, ElementOfSeq
  <2>3. QED
    BY <1>4, <1>5, <2>2 DEF Entry
<1>7. /\ m = Len(W) /\ Len(W2) = m + 1 /\ m + 1 \in Nat
      /\ \A i \in 1..m : W2[i] = W[i]
      /\ W2[m + 1] = o
  BY <1>1, <1>2, <1>3, <1>6, AppendProperties
<1>8. PICK P, P2 : P = Pipeline /\ P2 = Pipeline'
  OBVIOUS
<1>9. P = Ordered(W, E) /\ P2 = Ordered(W2, E2)
  BY <1>3, <1>4, <1>5, <1>8 DEF Pipeline, Ordered
<1>10. /\ P \in Seq(Ops) /\ Len(P) = m + n
       /\ \A i \in 1..m : P[i] = W[i]
       /\ \A i \in 1..n : P[m + i] = E[i].op
  <2>1. Joins(P, W, m, E, n)
    BY <1>5, <1>7, <1>9, Joined, Zenon
  <2>2. QED
    BY <2>1, Zenon DEF Joins
<1>11. /\ P2 \in Seq(Ops) /\ Len(P2) = m + 1 + (n - 1)
       /\ \A i \in 1..m + 1 : P2[i] = W2[i]
       /\ \A i \in 1..n - 1 : P2[m + 1 + i] = E2[i].op
  <2>1. Joins(P2, W2, m + 1, E2, n - 1)
    BY <1>5, <1>7, <1>9, Joined, Zenon
  <2>2. QED
    BY <2>1, Zenon DEF Joins
<1>12. Len(P2) = m + n
  BY <1>11
<1>13. ASSUME NEW i \in 1..m + n PROVE P2[i] = P[i]
  <2>1. CASE i \in 1..m
    BY <1>7, <1>10, <1>11, <2>1
  <2>2. CASE i = m + 1
    <3>1. P2[m + 1] = o
      BY <1>7, <1>11
    <3>2. P[m + 1] = o
      BY <1>6, <1>10
    <3>3. QED
      BY <2>2, <3>1, <3>2
  <2>3. CASE i \in m + 2..m + n
    <3>1. PICK k \in 1..n - 1 : i = m + 1 + k /\ i = m + (k + 1) /\ k + 1 \in 1..n
      <4>1. /\ i - (m + 1) \in 1..n - 1 /\ i = m + 1 + (i - (m + 1))
            /\ i = m + ((i - (m + 1)) + 1) /\ (i - (m + 1)) + 1 \in 1..n
        BY <2>3
      <4>2. QED
        BY <4>1
    <3>2. P2[i] = E2[k].op
      BY <1>11, <3>1
    <3>3. P[i] = E[k + 1].op
      BY <1>10, <3>1
    <3>4. QED
      BY <1>5, <3>2, <3>3
  <2>4. QED
    BY <2>1, <2>2, <2>3
<1>14. P2 = P
  BY <1>10, <1>11, <1>12, <1>13, SeqEqual
<1>15. QED
  BY <1>1, <1>8, <1>14 DEF Pipe!queueVars

(* run() of the executor starts the oldest of them. *)
LEMMA RunTakesIsStart ==
  ASSUME IInv, IInv', RunTakes
  PROVE  Pipe!Start
<1>1. /\ UNCHANGED <<entries, ended>> /\ waiting # <<>> /\ waiting' = Tail(waiting)
      /\ running' = running \cup {Head(waiting)}
  BY DEF RunTakes, Queue!Start, ring
<1>2. PICK m \in Nat \ {0}, n \in Nat : m = Len(waiting) /\ n = Len(entries)
  BY <1>1, LenProperties, EmptySeq DEF IInv, TypeOK
<1>3. PICK W \in Seq(Ops), W2 \in Seq(Ops) : W = waiting /\ W2 = waiting'
  BY DEF IInv, TypeOK
<1>4. PICK E \in Seq(Entry) : E = entries /\ E = entries' /\ n = Len(E)
  BY <1>1, <1>2 DEF IInv, TypeOK, Entry
<1>5. /\ m = Len(W) /\ Len(W2) = m - 1 /\ m - 1 \in Nat
      /\ \A i \in 1..m - 1 : W2[i] = W[i + 1]
      /\ Head(W) = W[1]
  BY <1>1, <1>2, <1>3, HeadTailProperties
<1>6. PICK P, P2 : P = Pipeline /\ P2 = Pipeline'
  OBVIOUS
<1>7. P = Ordered(W, E) /\ P2 = Ordered(W2, E)
  BY <1>3, <1>4, <1>6 DEF Pipeline, Ordered
<1>8. /\ P \in Seq(Ops) /\ Len(P) = m + n
      /\ \A i \in 1..m : P[i] = W[i]
      /\ \A i \in 1..n : P[m + i] = E[i].op
  <2>1. Joins(P, W, m, E, n)
    BY <1>4, <1>5, <1>7, Joined, Zenon
  <2>2. QED
    BY <2>1, Zenon DEF Joins
<1>9. /\ P2 \in Seq(Ops) /\ Len(P2) = m - 1 + n
      /\ \A i \in 1..m - 1 : P2[i] = W2[i]
      /\ \A i \in 1..n : P2[m - 1 + i] = E[i].op
  <2>1. Joins(P2, W2, m - 1, E, n)
    BY <1>4, <1>5, <1>7, Joined, Zenon
  <2>2. QED
    BY <2>1, Zenon DEF Joins
<1>10. P # <<>> /\ Head(P) = Head(waiting)
  <2>1. P # <<>>
    BY <1>8, EmptySeq
  <2>2. Head(P) = P[1] /\ P[1] = W[1]
    BY <1>8, <2>1, HeadTailProperties
  <2>3. QED
    BY <1>3, <1>5, <2>1, <2>2
<1>11. PICK T : T = Tail(P)
  OBVIOUS
<1>12. T \in Seq(Ops) /\ Len(T) = m + n - 1 /\ \A i \in 1..m + n - 1 : T[i] = P[i + 1]
  <2>1. /\ T \in Seq(Ops) /\ Len(T) = Len(P) - 1
        /\ \A i \in 1..Len(P) - 1 : T[i] = P[i + 1]
    BY <1>8, <1>10, <1>11, HeadTailProperties
  <2>2. QED
    BY <1>8, <2>1
<1>13. ASSUME NEW i \in 1..m + n - 1 PROVE P2[i] = T[i]
  <2>1. T[i] = P[i + 1]
    BY <1>12
  <2>2. CASE i \in 1..m - 1
    <3>1. P2[i] = W[i + 1] /\ i + 1 \in 1..m
      BY <1>5, <1>9, <2>2
    <3>2. QED
      BY <1>8, <2>1, <3>1
  <2>3. CASE i \in m..m + n - 1
    <3>1. PICK k \in 1..n : i = m - 1 + k /\ i + 1 = m + k
      <4>1. i - (m - 1) \in 1..n /\ i = m - 1 + (i - (m - 1)) /\ i + 1 = m + (i - (m - 1))
        BY <2>3
      <4>2. QED
        BY <4>1
    <3>2. P2[i] = E[k].op
      BY <1>9, <3>1
    <3>3. P[i + 1] = E[k].op
      BY <1>8, <3>1
    <3>4. QED
      BY <2>1, <3>2, <3>3
  <2>4. QED
    BY <2>2, <2>3
<1>14. Len(P2) = m + n - 1
  BY <1>9
<1>15. P2 = T
  BY <1>9, <1>12, <1>13, <1>14, SeqEqual
<1>16. QED
  BY <1>1, <1>6, <1>10, <1>11, <1>15 DEF Pipe!Start

LEMMA PipelineStep ==
  ASSUME IInv, IInv', [Next]_vars
  PROVE  [Pipe!QueueNext]_(Pipe!queueVars)
<1>1. CASE UNCHANGED <<entries, waiting>> /\ UNCHANGED <<running, ended>>
  BY <1>1 DEF Pipe!queueVars, Pipeline
<1>2. CASE UNCHANGED vars
  BY <1>1, <1>2 DEF vars, ring, executor
<1>3. ASSUME NEW o \in Ops, AsyncStart(o) \/ CoroutineStep(o) \/ StoreResult(o)
      PROVE  UNCHANGED <<entries, waiting>> /\ UNCHANGED <<running, ended>>
  BY <1>3 DEF AsyncStart, AsyncOpen, AsyncRead, AsyncStat, AsyncClose, AsyncResult, AsyncOpenThrows,
              CoroutineStep, OpAccepted, OpRefused, AwaitSuspend, Called, Ring!Accept, StoreResult,
              ring, executor
<1>4. ASSUME NEW o \in Ops, KernelStep(o) PROVE Pipe!Submit(o)
  BY <1>4, ConcludeIsSubmit DEF KernelStep
<1>5. ASSUME NEW o \in Ops, Resume(o) PROVE Pipe!End(o)
  <2>1. UNCHANGED <<entries, waiting>> /\ Queue!End(o)
    BY <1>5 DEF Resume, ring, Queue!End
  <2>2. Pipeline' = Pipeline
    BY <2>1 DEF Pipeline
  <2>3. QED
    BY <2>1, <2>2 DEF Queue!End, Pipe!End
<1>6. ASSUME CallbackCopies PROVE UNCHANGED <<entries, waiting>> /\ UNCHANGED <<running, ended>>
  BY <1>6 DEF CallbackCopies, ring, executor
<1>7. ASSUME Next PROVE [Pipe!QueueNext]_(Pipe!queueVars)
  BY <1>1, <1>3, <1>4, <1>5, <1>6, <1>7, CallbackKeepsOrder, RunTakesIsStart DEF Next, Step, Pipe!QueueNext
<1>8. QED
  BY <1>2, <1>7, <1>1

(* Ring and executor together start each handler once, in the order in     *)
(* which the kernel ended the operations, and end it once (open.hpp:27-34, *)
(* read.hpp:25-32, stat.hpp:27-44, close.hpp:18-25).                       *)
THEOREM HandlersInOrder == Spec => PipelineSpec
<1>1. Init => Pipe!QueueInit
  <2>1. SUFFICES ASSUME Init PROVE Pipe!QueueInit
    OBVIOUS
  <2>2. waiting = <<>> /\ entries = <<>> /\ running = {} /\ ended = {}
    BY <2>1 DEF Init, Ring!RingInit, Queue!QueueInit
  <2>3. PICK P : P = Pipeline
    OBVIOUS
  <2>4. P = <<>> \o [i \in 1..0 |-> entries[i].op]
    BY <2>2, <2>3 DEF Pipeline
  <2>5. P = <<>>
    BY <2>4
  <2>6. QED
    BY <2>2, <2>3, <2>5 DEF Pipe!QueueInit
<1>2. IInv /\ IInv' /\ [Next]_vars => [Pipe!QueueNext]_(Pipe!queueVars)
  BY PipelineStep
<1>3. QED
  BY <1>1, <1>2, IInvHolds, PTL DEF Spec, PipelineSpec, Pipe!QueueSpec
=============================================================================
