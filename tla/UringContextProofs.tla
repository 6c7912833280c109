-------------------------- MODULE UringContextProofs --------------------------
(***************************************************************************)
(* Theorems about UringContext, for any set of operations, any size of the *)
(* submission queue, any spans and any error numbers.                      *)
(*                                                                         *)
(* The argument: an operation that was put into the submission queue is    *)
(* under way (in the submission queue or in the kernel), or its last entry *)
(* is on the way to complete(), or it has finished, and only one of these. *)
(* The entries on their way, in the span of wait_many and then in the      *)
(* completion queue, are one sequence: wait_many does not change it, the   *)
(* kernel appends to it and complete() takes from its head.                *)
(***************************************************************************)
EXTENDS UringContext, SequenceTheorems, FiniteSetTheorems, TLAPS

LastEntry(o) == [op |-> o, last |-> TRUE]

InQueue(o) == \E i \in 1..Len(sq) : sq[i] = o

UnderWay(o) == InQueue(o) \/ o \in kernel

HasLast(o) == \E i \in 1..Len(Pending) : Pending[i] = LastEntry(o)

(* No operation is in the submission queue twice, nor both there and in    *)
(* the kernel.                                                             *)
Distinct ==
  /\ \A i, j \in 1..Len(sq) : sq[i] = sq[j] => i = j
  /\ \A i \in 1..Len(sq) : sq[i] \notin kernel

(* What is under way has no last entry yet. *)
BeforeLast == \A o \in Ops : UnderWay(o) => ~HasLast(o) /\ o \notin finished /\ o \in stored

NoneLost == \A o \in stored : UnderWay(o) \/ HasLast(o) \/ o \in finished

OfStored ==
  /\ finished \subseteq stored
  /\ \A i \in 1..Len(Pending) : Pending[i].op \in stored

Stages == BeforeLast /\ NoneLost /\ OfStored /\ NothingAfterLast

(* An operation is stored or refused, once, after its Completion was       *)
(* allocated.                                                              *)
Submitting ==
  /\ stored \cap refused = {}
  /\ cur \notin stored \cup refused
  /\ \A o \in Ops : object[o] = "none" => o \notin stored \cup refused /\ o # cur

(* wait_many is called when all entries of the last call were completed. *)
SpanFree == waiting # None => batch = <<>>

IInv == TypeOK /\ Distinct /\ Stages /\ Submitting /\ SpanFree

-----------------------------------------------------------------------------
(* Sequences. *)

LEMMA ConcatAppend ==
  ASSUME NEW S, NEW s \in Seq(S), NEW t \in Seq(S), NEW e \in S
  PROVE  s \o Append(t, e) = Append(s \o t, e)
<1>1. <<e>> \in Seq(S) /\ s \o t \in Seq(S)
  BY ConcatProperties
<1>2. Append(t, e) = t \o <<e>> /\ Append(s \o t, e) = (s \o t) \o <<e>>
  BY <1>1, AppendIsConcat
<1>3. QED
  BY <1>1, <1>2, ConcatAssociative

LEMMA ConcatTail ==
  ASSUME NEW S, NEW s \in Seq(S), NEW t \in Seq(S), s # <<>>
  PROVE  /\ s \o t # <<>>
         /\ Head(s \o t) = Head(s)
         /\ Tail(s \o t) = Tail(s) \o t
<1>1. PICK m \in Nat \ {0}, n \in Nat : m = Len(s) /\ n = Len(t)
  BY EmptySeq, LenProperties
<1>2. /\ s \o t \in Seq(S)
      /\ Len(s \o t) = m + n
      /\ \A i \in 1..m + n : (s \o t)[i] = IF i <= m THEN s[i] ELSE t[i - m]
  BY <1>1, ConcatProperties
<1>3. s \o t # <<>>
  BY <1>1, <1>2, EmptySeq
<1>4. /\ Tail(s) \in Seq(S)
      /\ Len(Tail(s)) = m - 1
      /\ \A i \in 1..m - 1 : Tail(s)[i] = s[i + 1]
  BY <1>1, HeadTailProperties
<1>5. PICK u : u = Tail(s)
  OBVIOUS
<1>6. /\ u \o t \in Seq(S)
      /\ Len(u \o t) = (m - 1) + n
      /\ \A i \in 1..(m - 1) + n : (u \o t)[i] = IF i <= m - 1 THEN u[i] ELSE t[i - (m - 1)]
  BY <1>1, <1>4, <1>5, ConcatProperties
<1>7. /\ Tail(s \o t) \in Seq(S)
      /\ Len(Tail(s \o t)) = m + n - 1
      /\ \A i \in 1..m + n - 1 : Tail(s \o t)[i] = (s \o t)[i + 1]
  BY <1>2, <1>3, HeadTailProperties
<1>8. ASSUME NEW i \in 1..m + n - 1 PROVE Tail(s \o t)[i] = (u \o t)[i]
  <2>1. Tail(s \o t)[i] = (s \o t)[i + 1] /\ i + 1 \in 1..m + n
    BY <1>7
  <2>2. CASE i <= m - 1
    BY <1>2, <1>4, <1>5, <1>6, <2>1, <2>2
  <2>3. CASE ~(i <= m - 1)
    <3>1. (i + 1) - m = i - (m - 1) /\ ~(i + 1 <= m)
      BY <2>3
    <3>2. (s \o t)[i + 1] = t[(i + 1) - m]
      BY <1>2, <2>1, <3>1
    <3>3. (u \o t)[i] = t[i - (m - 1)]
      BY <1>6, <2>3
    <3>4. QED
      BY <2>1, <3>1, <3>2, <3>3
  <2>4. QED
    BY <2>2, <2>3
<1>9. Tail(s \o t) = u \o t
  <2>1. PICK v \in Seq(S), w \in Seq(S) : v = Tail(s \o t) /\ w = u \o t
    BY <1>6, <1>7, Zenon
  <2>2. m + n - 1 = (m - 1) + n
    BY <1>1
  <2>3. Len(v) = Len(w) /\ \A i \in 1..Len(v) : v[i] = w[i]
    BY <1>6, <1>7, <1>8, <2>1, <2>2, Zenon
  <2>4. QED
    BY <2>1, <2>3, SeqEqual, Zenon
<1>10. Head(s \o t) = (s \o t)[1] /\ Head(s) = s[1] /\ (s \o t)[1] = s[1]
  BY <1>1, <1>2
<1>11. QED
  BY <1>3, <1>5, <1>9, <1>10

LEMMA SplitSeq ==
  ASSUME NEW S, NEW s \in Seq(S), NEW k \in 0..Len(s)
  PROVE  /\ SubSeq(s, 1, k) \o SubSeq(s, k + 1, Len(s)) = s
         /\ SubSeq(s, 1, k) \in Seq(S) /\ Len(SubSeq(s, 1, k)) = k
         /\ SubSeq(s, k + 1, Len(s)) \in Seq(S)
         /\ Len(SubSeq(s, k + 1, Len(s))) = Len(s) - k
         /\ \A i \in 1..Len(s) - k : SubSeq(s, k + 1, Len(s))[i] = s[i + k]
<1>1. PICK n \in Nat : n = Len(s)
  BY LenProperties
<1>2. \A i \in 1..n : s[i] \in S
  BY <1>1, ElementOfSeq
<1>3. SubSeq(s, 1, k) \o SubSeq(s, k + 1, n) = s
  <2>1. 1 \in 1..n + 1 /\ k \in 1 - 1..n /\ n \in k..n
    BY <1>1
  <2>2. SubSeq(s, 1, k) \o SubSeq(s, k + 1, n) = SubSeq(s, 1, n)
    BY <1>1, <2>1, ConcatAdjacentSubSeq
  <2>3. QED
    BY <1>1, <2>2, SubSeqFull
<1>4. SubSeq(s, 1, k) \in Seq(S) /\ Len(SubSeq(s, 1, k)) = k
  <2>1. \A i \in 1..k : s[i] \in S
    BY <1>1, <1>2
  <2>2. /\ SubSeq(s, 1, k) \in Seq(S)
        /\ Len(SubSeq(s, 1, k)) = IF 1 <= k THEN k - 1 + 1 ELSE 0
    BY <1>1, <2>1, SubSeqProperties
  <2>3. QED
    BY <1>1, <2>2
<1>5. /\ SubSeq(s, k + 1, n) \in Seq(S)
      /\ Len(SubSeq(s, k + 1, n)) = n - k
      /\ \A i \in 1..n - k : SubSeq(s, k + 1, n)[i] = s[i + k]
  <2>1. \A i \in k + 1..n : s[i] \in S
    BY <1>1, <1>2
  <2>2. /\ SubSeq(s, k + 1, n) \in Seq(S)
        /\ Len(SubSeq(s, k + 1, n)) = IF k + 1 <= n THEN n - (k + 1) + 1 ELSE 0
        /\ \A i \in 1..n - (k + 1) + 1 : SubSeq(s, k + 1, n)[i] = s[(k + 1) + i - 1]
    BY <1>1, <2>1, SubSeqProperties
  <2>3. \A i \in 1..n - k : i \in 1..n - (k + 1) + 1 /\ (k + 1) + i - 1 = i + k
    BY <1>1
  <2>4. (IF k + 1 <= n THEN n - (k + 1) + 1 ELSE 0) = n - k
    BY <1>1
  <2>5. QED
    BY <2>2, <2>3, <2>4
<1>6. QED
  BY <1>1, <1>3, <1>4, <1>5

-----------------------------------------------------------------------------
(* The entries on their way. *)

LEMMA PendingType ==
  ASSUME TypeOK
  PROVE  /\ Pending \in Seq(Entry)
         /\ Len(Pending) \in Nat
         /\ \A i \in 1..Len(Pending) : Pending[i] \in Entry /\ Pending[i].op \in Ops
<1>1. Pending \in Seq(Entry)
  BY ConcatProperties DEF TypeOK, Pending
<1>2. \A e \in Entry : e.op \in Ops
  BY DEF Entry
<1>3. \A i \in 1..Len(Pending) : Pending[i] \in Entry
  BY <1>1, ElementOfSeq
<1>4. QED
  BY <1>1, <1>2, <1>3, LenProperties

(* A step that moves no operation between the stages. *)
LEMMA StagesKept ==
  ASSUME Stages, \A o \in Ops : UnderWay(o)' <=> UnderWay(o),
         Pending' = Pending, finished' = finished, stored' = stored, stored \subseteq Ops
  PROVE  Stages'
<1>1. \A o : HasLast(o)' <=> HasLast(o)
  BY DEF HasLast, LastEntry
<1>2. BeforeLast' /\ NoneLost'
  BY <1>1 DEF Stages, BeforeLast, NoneLost
<1>3. OfStored' /\ NothingAfterLast'
  BY DEF Stages, OfStored, NothingAfterLast
<1>4. QED
  BY <1>2, <1>3 DEF Stages

(* io_uring_submit moves the oldest entries to the kernel. *)
LEMMA EnterMoves ==
  ASSUME TypeOK, Distinct, NEW n \in 0..Len(sq), Enter(n)
  PROVE  /\ sq' \in Seq(Ops) /\ Len(sq') <= SQEntries
         /\ kernel' \subseteq Ops
         /\ Distinct'
         /\ \A o : UnderWay(o)' <=> UnderWay(o)
<1>1. PICK m \in Nat : m = Len(sq) /\ m <= SQEntries
  BY LenProperties DEF TypeOK
<1>2. /\ sq' \in Seq(Ops) /\ Len(sq') = m - n
      /\ \A i \in 1..m - n : sq'[i] = sq[i + n]
  BY <1>1, SplitSeq DEF Enter, TypeOK
<1>3. \A o : o \in kernel' <=> o \in kernel \/ \E i \in 1..n : sq[i] = o
  BY DEF Enter
<1>4. \A i \in 1..m : sq[i] \in Ops
  BY <1>1, ElementOfSeq DEF TypeOK
<1>5. Distinct'
  <2>1. \A i \in 1..m - n : i + n \in 1..m
    BY <1>1
  <2>2. \A i, j \in 1..m - n : sq'[i] = sq'[j] => i = j
    <3>1. \A i, j \in 1..m - n : sq[i + n] = sq[j + n] => i + n = j + n
      BY <1>1, <2>1 DEF Distinct
    <3>2. QED
      BY <1>1, <1>2, <3>1
  <2>3. ASSUME NEW i \in 1..m - n PROVE sq'[i] \notin kernel'
    <3>1. sq[i + n] \notin kernel
      BY <1>1, <2>1 DEF Distinct
    <3>2. \A j \in 1..n : j \in 1..m /\ j # i + n
      BY <1>1
    <3>3. \A j \in 1..n : sq[j] # sq[i + n]
      BY <1>1, <2>1, <3>2 DEF Distinct
    <3>4. QED
      BY <1>2, <1>3, <3>1, <3>3
  <2>4. QED
    BY <1>2, <2>2, <2>3 DEF Distinct
<1>6. ASSUME NEW o PROVE UnderWay(o)' <=> UnderWay(o)
  <2>1. ASSUME NEW i \in 1..m, sq[i] = o PROVE InQueue(o)' \/ o \in kernel'
    <3>1. CASE i <= n
      BY <1>1, <1>3, <2>1, <3>1
    <3>2. CASE i > n
      <4>1. i - n \in 1..m - n /\ (i - n) + n = i
        BY <1>1, <3>2
      <4>2. QED
        BY <1>2, <2>1, <4>1 DEF InQueue
    <3>3. QED
      BY <1>1, <3>1, <3>2
  <2>2. UnderWay(o) => UnderWay(o)'
    BY <1>1, <1>3, <2>1 DEF UnderWay, InQueue
  <2>3. UnderWay(o)' => UnderWay(o)
    <3>1. \A i \in 1..m - n : i + n \in 1..m
      BY <1>1
    <3>2. \A i \in 1..n : i \in 1..m
      BY <1>1
    <3>3. QED
      BY <1>1, <1>2, <1>3, <3>1, <3>2 DEF UnderWay, InQueue
  <2>4. QED
    BY <2>2, <2>3
<1>7. Len(sq') <= SQEntries
  BY <1>1, <1>2, UringAssumption
<1>8. kernel' \subseteq Ops
  BY <1>1, <1>3, <1>4 DEF TypeOK
<1>9. QED
  BY <1>2, <1>5, <1>6, <1>7, <1>8

-----------------------------------------------------------------------------
(* The initial states, and one lemma per action. *)

LEMMA InitIInv == Init => IInv
<1> SUFFICES ASSUME Init PROVE IInv
  OBVIOUS
<1>1. Pending = <<>> /\ Len(Pending) = 0 /\ Len(sq) = 0
  BY EmptySeq, ConcatEmptySeq DEF Init, Pending
<1>2. TypeOK
  BY EmptySeq, UringAssumption DEF Init, TypeOK
<1>3. Distinct /\ Stages
  BY <1>1 DEF Init, Distinct, Stages, BeforeLast, NoneLost, OfStored, NothingAfterLast,
              UnderWay, InQueue
<1>4. Submitting /\ SpanFree
  BY UringAssumption DEF Init, Submitting, SpanFree
<1>5. QED
  BY <1>2, <1>3, <1>4 DEF IInv

(* create, the destructor and what is undefined change nothing but state. *)
LEMMA StateIInv ==
  ASSUME IInv, UNCHANGED <<sq, cq, submission, kernelSide, dispatch>>,
         state' \in {"absent", "open", "closed", "aborted", "undefined"}
  PROVE  IInv'
<1>1. /\ UNCHANGED <<sq, cq, cur, object, stored, refused, kernel, doomed, more>>
      /\ UNCHANGED <<batch, waiting, finished>>
  BY DEF submission, kernelSide, dispatch
<1>2. TypeOK' /\ Distinct' /\ Submitting' /\ SpanFree'
  BY <1>1 DEF IInv, TypeOK, Distinct, Submitting, SpanFree
<1>3. (\A o \in Ops : UnderWay(o)' <=> UnderWay(o)) /\ Pending' = Pending
  BY <1>1 DEF UnderWay, InQueue, Pending
<1>4. Stages'
  BY <1>1, <1>3, StagesKept DEF IInv, TypeOK
<1>5. QED
  BY <1>2, <1>4 DEF IInv

(* submit (uring_service.hpp:765-780) allocates the Completion. *)
LEMMA AsyncBeginIInv ==
  ASSUME IInv, NEW o \in Ops, AsyncBegin(o)
  PROVE  IInv'
<1>1. /\ UNCHANGED <<state, sq, cq, stored, refused, kernel, doomed, more, batch, waiting, finished>>
      /\ object[o] = "none" /\ cur' = o /\ object' = [object EXCEPT ![o] = "live"]
  BY DEF AsyncBegin, kernelSide, dispatch
<1>2. TypeOK' /\ Distinct' /\ SpanFree'
  BY <1>1 DEF IInv, TypeOK, Distinct, SpanFree
<1>3. Submitting'
  BY <1>1 DEF IInv, TypeOK, Submitting
<1>4. (\A x \in Ops : UnderWay(x)' <=> UnderWay(x)) /\ Pending' = Pending
  BY <1>1 DEF UnderWay, InQueue, Pending
<1>5. Stages'
  BY <1>1, <1>4, StagesKept DEF IInv, TypeOK
<1>6. QED
  BY <1>2, <1>3, <1>5 DEF IInv

(* submit returns: the operation inside it is there no longer. *)
LEMMA SubmitReturned ==
  ASSUME IInv, cur # None, NEW result, SubmitReturns(result),
         \/ stored' = stored \cup {cur} /\ refused' = refused
         \/ refused' = refused \cup {cur} /\ stored' = stored
  PROVE  /\ Submitting' /\ cur' \in Ops \cup {None}
         /\ object' \in [Ops -> {"none", "live", "freed"}]
         /\ stored' \subseteq Ops /\ refused' \subseteq Ops
<1>1. cur \in Ops /\ cur' = None
  BY DEF IInv, TypeOK, SubmitReturns
<1>2. /\ object' \in [Ops -> {"none", "live", "freed"}]
      /\ \A o \in Ops : object'[o] = "none" => object[o] = "none"
  BY <1>1 DEF IInv, TypeOK, SubmitReturns
<1>3. QED
  BY <1>1, <1>2, UringAssumption DEF IInv, TypeOK, Submitting

(* submit_one stores the operation behind the others                       *)
(* (uring_service.hpp:839-866).                                            *)
LEMMA SubmitStoresIInv ==
  ASSUME IInv, SubmitStores
  PROVE  IInv'
<1>1. /\ UNCHANGED <<state, cq, refused, kernel, doomed, more, batch, waiting, finished>>
      /\ cur # None /\ sq' = Append(sq, cur) /\ stored' = stored \cup {cur}
      /\ Len(sq) < SQEntries
  BY DEF SubmitStores, kernelSide, dispatch, Queued
<1>2. PICK c \in Ops : c = cur
  BY <1>1 DEF IInv, TypeOK
<1>3. /\ Submitting' /\ cur' \in Ops \cup {None}
      /\ object' \in [Ops -> {"none", "live", "freed"}]
      /\ stored' \subseteq Ops
  BY <1>1, SubmitReturned DEF SubmitStores
<1>4. PICK m \in Nat : m = Len(sq) /\ m < SQEntries
  BY <1>1, LenProperties DEF IInv, TypeOK
<1>5. /\ sq' \in Seq(Ops) /\ Len(sq') = m + 1
      /\ \A i \in 1..m : sq'[i] = sq[i]
      /\ sq'[m + 1] = c
  BY <1>1, <1>2, <1>4, AppendProperties DEF IInv, TypeOK
<1>6. TypeOK' /\ SpanFree'
  BY <1>1, <1>3, <1>4, <1>5, UringAssumption DEF IInv, TypeOK, SpanFree
<1>7. c \notin stored /\ ~UnderWay(c)
  BY <1>2 DEF IInv, Submitting, Stages, BeforeLast
<1>8. Distinct'
  BY <1>1, <1>4, <1>5, <1>7 DEF IInv, Distinct, UnderWay, InQueue
<1>9. ASSUME NEW o PROVE UnderWay(o)' <=> UnderWay(o) \/ o = c
  BY <1>1, <1>4, <1>5 DEF UnderWay, InQueue
<1>10. Pending' = Pending /\ \A o : HasLast(o)' <=> HasLast(o)
  BY <1>1 DEF Pending, HasLast, LastEntry
<1>11. ~HasLast(c) /\ c \notin finished
  <2>1. \A i \in 1..Len(Pending) : Pending[i].op # c
    BY <1>7 DEF IInv, Stages, OfStored
  <2>2. LastEntry(c).op = c
    BY DEF LastEntry
  <2>3. QED
    BY <1>7, <2>1, <2>2 DEF HasLast, IInv, Stages, OfStored
<1>12. stored' = stored \cup {c}
  BY <1>1, <1>2
<1>13. BeforeLast' /\ NoneLost'
  BY <1>1, <1>9, <1>10, <1>11, <1>12 DEF IInv, Stages, BeforeLast, NoneLost
<1>14. OfStored' /\ NothingAfterLast'
  BY <1>1, <1>10, <1>12 DEF IInv, Stages, OfStored, NothingAfterLast
<1>15. QED
  BY <1>3, <1>6, <1>8, <1>13, <1>14 DEF IInv, Stages

(* submit_one found the queue full and has the kernel take n entries       *)
(* (uring_service.hpp:842-852), or wait_many does (:788).                  *)
LEMMA EnterIInv ==
  ASSUME IInv, NEW n \in 0..Len(sq), Enter(n),
         UNCHANGED <<cq, batch, finished, stored>>
  PROVE  Distinct' /\ Stages' /\ sq' \in Seq(Ops) /\ Len(sq') <= SQEntries /\ kernel' \subseteq Ops
<1>1. /\ sq' \in Seq(Ops) /\ Len(sq') <= SQEntries /\ kernel' \subseteq Ops
      /\ Distinct'
      /\ \A o : UnderWay(o)' <=> UnderWay(o)
  BY EnterMoves DEF IInv
<1>2. Pending' = Pending
  BY DEF Pending
<1>3. QED
  BY <1>1, <1>2, StagesKept DEF IInv, TypeOK

LEMMA SubmitRetriesIInv ==
  ASSUME IInv, NEW n \in 0..Len(sq), SubmitRetries(n) \/ SubmitAborts(n)
  PROVE  IInv'
<1>1. /\ UNCHANGED <<cq, cur, object, stored, refused, batch, waiting, finished, doomed, more>>
      /\ Enter(n) /\ state' \in {"open", "aborted"}
  BY DEF SubmitRetries, SubmitAborts, submission, dispatch, Enter
<1>2. Distinct' /\ Stages' /\ sq' \in Seq(Ops) /\ Len(sq') <= SQEntries /\ kernel' \subseteq Ops
  BY <1>1, EnterIInv
<1>3. TypeOK' /\ Submitting' /\ SpanFree'
  BY <1>1, <1>2 DEF IInv, TypeOK, Submitting, SpanFree
<1>4. QED
  BY <1>2, <1>3 DEF IInv

LEMMA SubmitRefusesIInv ==
  ASSUME IInv, NEW n \in (1..Len(sq)) \cup {-KernelError}, SubmitRefuses(n)
  PROVE  IInv'
<1>1. /\ UNCHANGED <<state, cq, stored, batch, waiting, finished>>
      /\ cur # None /\ refused' = refused \cup {cur} /\ SubmitReturns([first |-> -n])
      /\ IF n > 0 THEN Enter(n) ELSE UNCHANGED <<sq, kernelSide>>
  BY DEF SubmitRefuses, dispatch
<1>2. /\ Submitting' /\ cur' \in Ops \cup {None}
      /\ object' \in [Ops -> {"none", "live", "freed"}]
      /\ stored' \subseteq Ops /\ refused' \subseteq Ops
  BY <1>1, SubmitReturned
<1>3. /\ Distinct' /\ Stages' /\ sq' \in Seq(Ops) /\ Len(sq') <= SQEntries /\ kernel' \subseteq Ops
      /\ UNCHANGED <<doomed, more>>
  <2>1. CASE n > 0
    <3>1. Len(sq) \in Nat
      BY LenProperties DEF IInv, TypeOK
    <3>2. n \in 0..Len(sq)
      BY <2>1, <3>1, UringAssumption
    <3>3. QED
      BY <1>1, <2>1, <3>2, EnterIInv DEF Enter
  <2>2. CASE ~(n > 0)
    <3>1. UNCHANGED <<sq, kernel, doomed, more>>
      BY <1>1, <2>2 DEF kernelSide
    <3>2. (\A x \in Ops : UnderWay(x)' <=> UnderWay(x)) /\ Pending' = Pending
      BY <1>1, <3>1 DEF UnderWay, InQueue, Pending
    <3>3. QED
      BY <1>1, <3>1, <3>2, StagesKept DEF IInv, TypeOK, Distinct
  <2>3. QED
    BY <2>1, <2>2
<1>4. TypeOK' /\ SpanFree'
  BY <1>1, <1>2, <1>3 DEF IInv, TypeOK, SpanFree
<1>5. QED
  BY <1>2, <1>3, <1>4 DEF IInv

(* wait_many submits, and may block (uring_service.hpp:783-790). *)
LEMMA WaitBeginIInv ==
  ASSUME IInv, NEW n \in 0..Len(sq), NEW span \in Spans,
         NEW nr \in 0..Cardinality(Ops), WaitBegin(span, nr, n)
  PROVE  IInv'
<1>1. /\ UNCHANGED <<state, cq, batch, finished, cur, object, stored, refused, doomed, more>>
      /\ batch = <<>> /\ Enter(n)
      /\ waiting' = [span |-> span, nr |-> nr, sent |-> n, blocks |-> n = Len(sq)]
  BY DEF WaitBegin, submission, Enter
<1>2. Distinct' /\ Stages' /\ sq' \in Seq(Ops) /\ Len(sq') <= SQEntries /\ kernel' \subseteq Ops
  BY <1>1, EnterIInv
<1>3. nr \in Nat /\ n \in 0..SQEntries
  BY LenProperties, UringAssumption DEF IInv, TypeOK
<1>4. waiting' \in [span : Spans, nr : Nat, sent : 0..SQEntries, blocks : BOOLEAN]
  BY <1>1, <1>3
<1>5. TypeOK' /\ Submitting' /\ SpanFree'
  BY <1>1, <1>2, <1>4 DEF IInv, TypeOK, Submitting, SpanFree
<1>6. QED
  BY <1>2, <1>5 DEF IInv

(* wait_many ends without an entry. *)
LEMMA WaitFailsIInv ==
  ASSUME IInv, WaitReturnsError \/ WaitInterrupted
  PROVE  IInv'
<1>1. /\ UNCHANGED <<state, sq, cq, batch, finished, cur, object, stored, refused>>
      /\ UNCHANGED <<kernel, doomed, more>>
      /\ waiting' = None
  BY DEF WaitReturnsError, WaitInterrupted, submission, kernelSide
<1>2. TypeOK' /\ Distinct' /\ Submitting' /\ SpanFree'
  BY <1>1 DEF IInv, TypeOK, Distinct, Submitting, SpanFree
<1>3. (\A x \in Ops : UnderWay(x)' <=> UnderWay(x)) /\ Pending' = Pending
  BY <1>1 DEF UnderWay, InQueue, Pending
<1>4. Stages'
  BY <1>1, <1>3, StagesKept DEF IInv, TypeOK
<1>5. QED
  BY <1>2, <1>4 DEF IInv

(* wait_many moves the oldest entries to the span, which was empty: what   *)
(* is on the way to complete() stays what it is (uring_service.hpp:        *)
(* 795-812).                                                               *)
LEMMA WaitReturnsPending ==
  ASSUME IInv, WaitReturns
  PROVE  /\ Pending' = Pending
         /\ cq' \in Seq(Entry) /\ batch' \in Seq(Entry)
         /\ \E s \in Spans \cup {0} : Len(batch') <= s
<1>1. PICK k : k = Seen(waiting.span)
  OBVIOUS
<1>2. PICK span \in Spans : span = waiting.span
  BY DEF WaitReturns, WaitEnds, IInv, TypeOK
<1>3. batch = <<>>
  BY DEF WaitReturns, WaitEnds, IInv, SpanFree
<1>4. PICK n \in Nat : n = Len(cq)
  BY LenProperties DEF IInv, TypeOK
<1>5. k \in 0..n /\ k <= span
  BY <1>1, <1>2, <1>4, UringAssumption DEF Seen
<1>6. batch' = SubSeq(cq, 1, k) /\ cq' = SubSeq(cq, k + 1, n)
  BY <1>1, <1>4 DEF WaitReturns, Kept
<1>7. /\ batch' \o cq' = cq /\ batch' \in Seq(Entry) /\ Len(batch') = k
      /\ cq' \in Seq(Entry)
  BY <1>4, <1>5, <1>6, SplitSeq DEF IInv, TypeOK
<1>8. Pending = cq /\ Pending' = cq
  BY <1>3, <1>7, ConcatEmptySeq DEF Pending, IInv, TypeOK
<1>9. QED
  BY <1>2, <1>5, <1>7, <1>8

LEMMA WaitReturnsIInv ==
  ASSUME IInv, WaitReturns
  PROVE  IInv'
<1>1. /\ UNCHANGED <<state, sq, finished, cur, object, stored, refused, kernel, doomed, more>>
      /\ waiting' = None
  BY DEF WaitReturns, submission, kernelSide
<1>2. TypeOK' /\ Distinct' /\ Submitting' /\ SpanFree'
  BY <1>1, WaitReturnsPending DEF IInv, TypeOK, Distinct, Submitting, SpanFree
<1>3. \A x \in Ops : UnderWay(x)' <=> UnderWay(x)
  BY <1>1 DEF UnderWay, InQueue
<1>4. Stages'
  BY <1>1, <1>3, StagesKept, WaitReturnsPending DEF IInv, TypeOK
<1>5. QED
  BY <1>2, <1>4 DEF IInv

LEMMA LastIsLast ==
  /\ \A e \in Entry : e.last => e = LastEntry(e.op)
  /\ \A o \in Ops : LastEntry(o) \in Entry /\ LastEntry(o).op = o /\ LastEntry(o).last
BY DEF Entry, LastEntry

(* complete takes the oldest entry (uring_service.hpp:733-763). *)
LEMMA CompletePending ==
  ASSUME IInv, NEW throws, Complete(throws)
  PROVE  /\ Pending # <<>>
         /\ Head(Pending) = Head(batch)
         /\ Pending' = Tail(Pending)
         /\ batch' \in Seq(Entry)
         /\ Len(batch') = Len(batch) - 1
<1>1. /\ batch # <<>> /\ batch' = Tail(batch) /\ cq' = cq
      /\ batch \in Seq(Entry) /\ cq \in Seq(Entry)
  BY DEF Complete, IInv, TypeOK
<1>2. QED
  BY <1>1, ConcatTail, HeadTailProperties DEF Pending

LEMMA CompleteIInv ==
  ASSUME IInv, NEW throws \in BOOLEAN, Complete(throws)
  PROVE  IInv'
<1>1. /\ UNCHANGED <<state, sq, cq, waiting, cur, stored, refused, kernel, doomed, more>>
      /\ batch # <<>> /\ waiting = None
  BY DEF Complete, kernelSide, Idle
<1>2. /\ Pending # <<>> /\ Head(Pending) = Head(batch) /\ Pending' = Tail(Pending)
      /\ batch' \in Seq(Entry) /\ Len(batch') = Len(batch) - 1
  BY CompletePending
<1>3. PICK e \in Entry : e = Head(batch) /\ e = Pending[1] /\ e.op \in Ops
  BY <1>1, <1>2, HeadTailProperties, PendingType DEF IInv, TypeOK, Entry
<1>4. PICK m \in Nat \ {0} : m = Len(Pending)
  BY <1>2, PendingType, EmptySeq DEF IInv
<1>5. Len(Pending') = m - 1 /\ \A i \in 1..m - 1 : i + 1 \in 1..m /\ Pending'[i] = Pending[i + 1]
  BY <1>2, <1>4, HeadTailProperties, PendingType DEF IInv
<1>6. /\ object' = IF e.last /\ throws THEN [object EXCEPT ![e.op] = "freed"] ELSE object
      /\ finished' = IF e.last THEN finished \cup {e.op} ELSE finished
  BY <1>3 DEF Complete
<1>7. /\ object' \in [Ops -> {"none", "live", "freed"}]
      /\ \A o \in Ops : object'[o] = "none" => object[o] = "none"
  BY <1>3, <1>6 DEF IInv, TypeOK
<1>8. \E s \in Spans \cup {0} : Len(batch') <= s
  <2>1. PICK s \in Spans \cup {0} : Len(batch) <= s
    BY DEF IInv, TypeOK
  <2>2. Len(batch) \in Nat
    BY LenProperties DEF IInv, TypeOK
  <2>3. QED
    BY <1>2, <2>1, <2>2, UringAssumption
<1>9. TypeOK'
  BY <1>1, <1>2, <1>3, <1>6, <1>7, <1>8 DEF IInv, TypeOK
<1>10. Distinct' /\ Submitting' /\ SpanFree'
  BY <1>1, <1>7 DEF IInv, Distinct, Submitting, SpanFree
<1>11. \A x : UnderWay(x)' <=> UnderWay(x)
  BY <1>1 DEF UnderWay, InQueue
<1>12. \A x \in Ops : HasLast(x)' => HasLast(x)
  BY <1>4, <1>5 DEF HasLast, LastEntry
<1>13. ASSUME NEW x \in Ops, HasLast(x), ~HasLast(x)' PROVE e.last /\ e.op = x
  <2>1. PICK i \in 1..m : Pending[i] = LastEntry(x)
    BY <1>4, <1>13 DEF HasLast
  <2>2. i = 1
    <3>1. SUFFICES ASSUME i # 1 PROVE FALSE
      OBVIOUS
    <3>2. i - 1 \in 1..m - 1 /\ (i - 1) + 1 = i
      BY <3>1
    <3>3. Pending'[i - 1] = LastEntry(x)
      BY <1>5, <2>1, <3>2
    <3>4. QED
      BY <1>5, <1>13, <3>2, <3>3 DEF HasLast, LastEntry
  <2>3. QED
    BY <1>3, <2>1, <2>2, LastIsLast
<1>14. e.last => HasLast(e.op)
  BY <1>3, <1>4, LastIsLast DEF HasLast
<1>15. \A i \in 1..m - 1 : e.last => Pending[i + 1].op # e.op
  BY <1>3, <1>4, <1>5 DEF IInv, Stages, NothingAfterLast
<1>16. BeforeLast'
  BY <1>1, <1>6, <1>11, <1>12, <1>14 DEF IInv, Stages, BeforeLast
<1>17. NoneLost'
  BY <1>1, <1>6, <1>11, <1>13 DEF IInv, TypeOK, Stages, NoneLost
<1>18. e.op \in stored
  BY <1>3, <1>4 DEF IInv, Stages, OfStored
<1>19. OfStored'
  BY <1>1, <1>4, <1>5, <1>6, <1>18 DEF IInv, Stages, OfStored
<1>20. NothingAfterLast'
  <2>1. \A i \in 1..m - 1 : Pending'[i].op \notin finished'
    BY <1>4, <1>5, <1>6, <1>15 DEF IInv, Stages, NothingAfterLast
  <2>2. ASSUME NEW i \in 1..m - 1, NEW j \in 1..m - 1, i < j, Pending'[i].op = Pending'[j].op
        PROVE  ~Pending'[i].last
    <3>1. i + 1 < j + 1 /\ i + 1 \in 1..m /\ j + 1 \in 1..m
      BY <2>2
    <3>2. Pending[i + 1].op = Pending[j + 1].op
      BY <1>5, <2>2
    <3>3. ~Pending[i + 1].last
      BY <1>4, <3>1, <3>2 DEF IInv, Stages, NothingAfterLast
    <3>4. QED
      BY <1>5, <3>3
  <2>3. QED
    BY <1>5, <2>1, <2>2 DEF NothingAfterLast
<1>21. QED
  BY <1>9, <1>10, <1>16, <1>17, <1>19, <1>20 DEF IInv, Stages

(* The kernel adds an entry of an operation that is under way. *)
LEMMA EntryPosted ==
  ASSUME IInv, NEW e \in Entry, UnderWay(e.op), cq' = Append(cq, e),
         UNCHANGED <<batch, finished, stored>>
  PROVE  /\ cq' \in Seq(Entry)
         /\ Pending' = Append(Pending, e)
         /\ OfStored' /\ NothingAfterLast'
         /\ \A x \in Ops : HasLast(x)' <=> HasLast(x) \/ e = LastEntry(x)
<1>1. cq' \in Seq(Entry) /\ Pending' = Append(Pending, e)
  BY AppendProperties, ConcatAppend DEF IInv, TypeOK, Pending
<1>2. PICK m \in Nat : m = Len(Pending)
  BY PendingType DEF IInv
<1>3. /\ Len(Pending') = m + 1
      /\ \A i \in 1..m : Pending'[i] = Pending[i]
      /\ Pending'[m + 1] = e
  BY <1>1, <1>2, AppendProperties, PendingType DEF IInv
<1>4. e.op \in Ops /\ e.op \in stored /\ e.op \notin finished /\ ~HasLast(e.op)
  BY DEF Entry, IInv, Stages, BeforeLast
<1>5. OfStored'
  BY <1>2, <1>3, <1>4 DEF IInv, Stages, OfStored
<1>6. \A i \in 1..m : Pending[i].op = e.op => ~Pending[i].last
  BY <1>2, <1>4, LastIsLast, PendingType DEF HasLast, IInv
<1>7. NothingAfterLast'
  <2>1. \A i \in 1..m + 1 : Pending'[i].op \notin finished'
    BY <1>2, <1>3, <1>4 DEF IInv, Stages, NothingAfterLast
  <2>2. ASSUME NEW i \in 1..m + 1, NEW j \in 1..m + 1, i < j, Pending'[i].op = Pending'[j].op
        PROVE  ~Pending'[i].last
    <3>1. i \in 1..m /\ Pending'[i] = Pending[i]
      BY <1>3, <2>2
    <3>2. CASE j = m + 1
      BY <1>3, <1>6, <2>2, <3>1, <3>2
    <3>3. CASE j # m + 1
      <4>1. j \in 1..m /\ Pending'[j] = Pending[j]
        BY <1>3, <3>3
      <4>2. Pending[i].op = Pending[j].op
        BY <2>2, <3>1, <4>1
      <4>3. ~Pending[i].last
        BY <1>2, <2>2, <3>1, <4>1, <4>2 DEF IInv, Stages, NothingAfterLast
      <4>4. QED
        BY <3>1, <4>3
    <3>4. QED
      BY <3>2, <3>3
  <2>3. QED
    BY <1>3, <2>1, <2>2 DEF NothingAfterLast
<1>8. ASSUME NEW x \in Ops PROVE HasLast(x)' <=> HasLast(x) \/ e = LastEntry(x)
  <2>1. HasLast(x) => HasLast(x)'
    BY <1>2, <1>3 DEF HasLast, LastEntry
  <2>2. e = LastEntry(x) => HasLast(x)'
    <3>1. m + 1 \in 1..Len(Pending')
      BY <1>3
    <3>2. QED
      BY <1>3, <3>1 DEF HasLast, LastEntry
  <2>3. ASSUME HasLast(x)' PROVE HasLast(x) \/ e = LastEntry(x)
    <3>1. PICK i \in 1..m + 1 : Pending'[i] = LastEntry(x)
      BY <1>3, <2>3 DEF HasLast, LastEntry
    <3>2. CASE i = m + 1
      BY <1>3, <3>1, <3>2
    <3>3. CASE i # m + 1
      <4>1. i \in 1..m
        BY <3>3
      <4>2. QED
        BY <1>2, <1>3, <3>1, <4>1 DEF HasLast
    <3>4. QED
      BY <3>2, <3>3
  <2>4. QED
    BY <2>1, <2>2, <2>3
<1>9. QED
  BY <1>1, <1>5, <1>7, <1>8

LEMMA KernelProgressesIInv ==
  ASSUME IInv, NEW o \in Ops, KernelProgresses(o)
  PROVE  IInv'
<1>1. /\ UNCHANGED <<state, sq, kernel, doomed, cur, object, stored, refused>>
      /\ UNCHANGED <<batch, waiting, finished>>
      /\ o \in kernel /\ more' \in [Ops -> 0..MaxMore]
  BY UringAssumption DEF KernelProgresses, submission, dispatch, IInv, TypeOK
<1>2. PICK e \in Entry : e = [op |-> o, last |-> FALSE] /\ e.op = o /\ ~e.last
  <2>1. PICK e : e = [op |-> o, last |-> FALSE]
    OBVIOUS
  <2>2. e \in Entry /\ e.op = o /\ ~e.last
    BY <2>1 DEF Entry
  <2>3. QED
    BY <2>1, <2>2
<1>3. cq' = Append(cq, e) /\ UnderWay(e.op)
  BY <1>1, <1>2 DEF KernelProgresses, Post, UnderWay
<1>4. /\ cq' \in Seq(Entry) /\ OfStored' /\ NothingAfterLast'
      /\ \A x \in Ops : HasLast(x)' <=> HasLast(x) \/ e = LastEntry(x)
  BY <1>1, <1>3, EntryPosted
<1>5. \A x \in Ops : e # LastEntry(x)
  BY <1>2, LastIsLast
<1>6. \A x : UnderWay(x)' <=> UnderWay(x)
  BY <1>1 DEF UnderWay, InQueue
<1>7. BeforeLast' /\ NoneLost'
  BY <1>1, <1>4, <1>5, <1>6 DEF IInv, TypeOK, Stages, BeforeLast, NoneLost
<1>8. TypeOK' /\ Distinct' /\ Submitting' /\ SpanFree'
  BY <1>1, <1>4 DEF IInv, TypeOK, Distinct, Submitting, SpanFree
<1>9. QED
  BY <1>4, <1>7, <1>8 DEF IInv, Stages

LEMMA KernelFinishesIInv ==
  ASSUME IInv, NEW o \in Ops, KernelFinishes(o)
  PROVE  IInv'
<1>1. /\ UNCHANGED <<state, sq, more, cur, object, stored, refused>>
      /\ UNCHANGED <<batch, waiting, finished>>
      /\ o \in kernel /\ kernel' = kernel \ {o} /\ doomed' \subseteq Ops
  BY DEF KernelFinishes, submission, dispatch, IInv, TypeOK
<1>2. LastEntry(o) \in Entry /\ LastEntry(o).op = o
  BY LastIsLast
<1>3. PICK e \in Entry : e = LastEntry(o) /\ e.op = o
  BY <1>2
<1>4. cq' = Append(cq, e) /\ UnderWay(e.op)
  BY <1>1, <1>3 DEF KernelFinishes, Post, UnderWay, LastEntry
<1>5. /\ cq' \in Seq(Entry) /\ OfStored' /\ NothingAfterLast'
      /\ \A x \in Ops : HasLast(x)' <=> HasLast(x) \/ e = LastEntry(x)
  BY <1>1, <1>4, EntryPosted
<1>6. \A x \in Ops : e = LastEntry(x) <=> x = o
  BY <1>3, LastIsLast
<1>7. \A x : UnderWay(x)' <=> UnderWay(x) /\ x # o
  BY <1>1 DEF UnderWay, InQueue, IInv, Distinct
<1>8. BeforeLast' /\ NoneLost'
  BY <1>1, <1>5, <1>6, <1>7 DEF IInv, TypeOK, Stages, BeforeLast, NoneLost
<1>9. TypeOK' /\ Distinct' /\ Submitting' /\ SpanFree'
  BY <1>1, <1>5 DEF IInv, TypeOK, Distinct, Submitting, SpanFree
<1>10. QED
  BY <1>5, <1>8, <1>9 DEF IInv, Stages

LEMMA StepIInv == IInv /\ [Next]_vars => IInv'
<1> SUFFICES ASSUME IInv, [Next]_vars PROVE IInv'
  OBVIOUS
<1>1. CASE UNCHANGED vars
  BY <1>1, StateIInv DEF vars, IInv, TypeOK
<1>2. CASE CreateWithRing \/ CreateWithoutRing \/ Destroy \/ CompleteUndefined
  <2>1. /\ UNCHANGED <<sq, cq, submission, kernelSide, dispatch>>
        /\ state' \in {"absent", "open", "closed", "aborted", "undefined"}
    BY <1>2 DEF CreateWithRing, CreateWithoutRing, Destroy, CompleteUndefined
  <2>2. QED
    BY <2>1, StateIInv
<1>3. ASSUME NEW o \in Ops, AsyncBegin(o) PROVE IInv'
  BY <1>3, AsyncBeginIInv
<1>4. ASSUME SubmitGoesOn PROVE IInv'
  BY <1>4, SubmitStoresIInv, SubmitRetriesIInv, SubmitRefusesIInv DEF SubmitGoesOn
<1>5. ASSUME NEW n \in 0..Len(sq), WaitMany(n) PROVE IInv'
  BY <1>5, WaitBeginIInv DEF WaitMany
<1>6. CASE WaitReturnsError \/ WaitInterrupted
  BY <1>6, WaitFailsIInv
<1>7. CASE WaitReturns
  BY <1>7, WaitReturnsIInv
<1>8. ASSUME NEW throws \in BOOLEAN, Complete(throws) PROVE IInv'
  BY <1>8, CompleteIInv
<1>9. ASSUME NEW o \in Ops, KernelProgresses(o) \/ KernelFinishes(o) PROVE IInv'
  BY <1>9, KernelProgressesIInv, KernelFinishesIInv
<1>10. QED
  BY <1>1, <1>2, <1>3, <1>4, <1>5, <1>6, <1>7, <1>8, <1>9 DEF Next

(* Everything below follows from this. *)
LEMMA IInvHolds == Spec => []IInv
BY InitIInv, StepIInv, PTL DEF Spec

-----------------------------------------------------------------------------
(* The theorems. *)

(* The variables keep their types: neither the submission queue nor the    *)
(* span of wait_many overflows (uring_service.hpp:795-812, 839-866).       *)
THEOREM TypeCorrect == Spec => []TypeOK
<1>1. IInv => TypeOK
  BY DEF IInv
<1>2. QED
  BY <1>1, IInvHolds, PTL

(* complete() is handed no entry of an operation after its last one        *)
(* (uring_service.hpp:744-757).                                            *)
THEOREM NothingFollowsLast == Spec => []NothingAfterLast
<1>1. IInv => NothingAfterLast
  BY DEF IInv, Stages
<1>2. QED
  BY <1>1, IInvHolds, PTL

LEMMA LastEntriesOf ==
  ASSUME IInv, NEW o \in Ops
  PROVE  /\ HasLast(o) => \E i : LastEntries(o) = {i}
         /\ ~HasLast(o) => LastEntries(o) = {}
<1>1. LastEntries(o) = {i \in 1..Len(Pending) : Pending[i] = LastEntry(o)}
  BY DEF LastEntries, LastEntry
<1>2. ASSUME HasLast(o) PROVE \E i : LastEntries(o) = {i}
  <2>1. PICK i \in 1..Len(Pending) : Pending[i] = LastEntry(o)
    BY <1>2 DEF HasLast
  <2>2. ASSUME NEW j \in 1..Len(Pending), Pending[j] = LastEntry(o) PROVE j = i
    <3>1. Pending[j].op = Pending[i].op /\ Pending[j].last /\ Pending[i].last
      BY <2>1, <2>2, LastIsLast
    <3>2. ~(i < j) /\ ~(j < i)
      BY <3>1 DEF IInv, Stages, NothingAfterLast
    <3>3. QED
      BY <3>2, PendingType DEF IInv
  <2>3. LastEntries(o) = {i}
    BY <1>1, <2>1, <2>2
  <2>4. QED
    BY <2>3
<1>3. ~HasLast(o) => LastEntries(o) = {}
  BY <1>1 DEF HasLast
<1>4. QED
  BY <1>2, <1>3

(* Full queues, partial submissions, errors, short spans and interrupted   *)
(* waits neither lose nor duplicate an operation (uring_service.hpp:       *)
(* 783-866).                                                               *)
THEOREM OperationsConserved == Spec => []Conserved
<1>1. IInv => Conserved
  <2> SUFFICES ASSUME IInv, NEW o \in Ops
               PROVE  Cardinality({i \in 1..Len(sq) : sq[i] = o}) + Cardinality({o} \cap kernel)
                        + Cardinality(LastEntries(o)) + Cardinality({o} \cap finished)
                      = Cardinality({o} \cap (stored \ refused))
    BY DEF Conserved
  <2>1. Cardinality({}) = 0 /\ \A a : Cardinality({a}) = 1
    BY FS_EmptySet, FS_Singleton
  <2>2. ASSUME NEW S
        PROVE  Cardinality({o} \cap S) = IF o \in S THEN 1 ELSE 0
    <3>1. {o} \cap S = IF o \in S THEN {o} ELSE {}
      OBVIOUS
    <3>2. QED
      BY <2>1, <3>1
  <2>3. Cardinality({i \in 1..Len(sq) : sq[i] = o}) = IF InQueue(o) THEN 1 ELSE 0
    <3>1. CASE InQueue(o)
      <4>1. PICK i \in 1..Len(sq) : sq[i] = o
        BY <3>1 DEF InQueue
      <4>2. {j \in 1..Len(sq) : sq[j] = o} = {i}
        BY <4>1 DEF IInv, Distinct
      <4>3. QED
        BY <2>1, <3>1, <4>2
    <3>2. CASE ~InQueue(o)
      <4>1. {j \in 1..Len(sq) : sq[j] = o} = {}
        BY <3>2 DEF InQueue
      <4>2. QED
        BY <2>1, <3>2, <4>1
    <3>3. QED
      BY <3>1, <3>2
  <2>4. Cardinality(LastEntries(o)) = IF HasLast(o) THEN 1 ELSE 0
    BY <2>1, LastEntriesOf
  <2>5. ~(InQueue(o) /\ o \in kernel)
    BY DEF InQueue, IInv, Distinct
  <2>6. HasLast(o) => o \in stored /\ o \notin finished
    BY LastIsLast DEF HasLast, IInv, Stages, OfStored, NothingAfterLast
  <2>7. o \in stored => o \notin refused
    BY DEF IInv, Submitting
  <2>8. InQueue(o) \/ o \in kernel => ~HasLast(o) /\ o \notin finished /\ o \in stored
    BY DEF UnderWay, IInv, Stages, BeforeLast
  <2>9. o \in finished => o \in stored
    BY DEF IInv, Stages, OfStored
  <2>10. o \in stored => InQueue(o) \/ o \in kernel \/ HasLast(o) \/ o \in finished
    BY DEF UnderWay, IInv, Stages, NoneLost
  <2>11. Cardinality({o} \cap kernel) = IF o \in kernel THEN 1 ELSE 0
    BY <2>2
  <2>12. Cardinality({o} \cap finished) = IF o \in finished THEN 1 ELSE 0
    BY <2>2
  <2>13. Cardinality({o} \cap (stored \ refused)) = IF o \in stored THEN 1 ELSE 0
    BY <2>2, <2>7
  <2>14. QED
    BY <2>3, <2>4, <2>5, <2>6, <2>8, <2>9, <2>10, <2>11, <2>12, <2>13
<1>2. QED
  BY <1>1, IInvHolds, PTL

-----------------------------------------------------------------------------
(* The refinement of CompletionRing. *)

Accepted == kernel \cup ToSet(sq)

Concluded == finished \cup {o \in Ops : LastEntries(o) # {}}

(* What the ring has accepted is under way, and what it has concluded is   *)
(* the rest of what was stored.                                            *)
RingStages ==
  /\ \A o : o \in Accepted <=> UnderWay(o)
  /\ \A o : o \in Concluded <=> o \in stored /\ ~UnderWay(o)

LEMMA StagesOfRing == IInv => RingStages
<1> SUFFICES ASSUME IInv PROVE RingStages
  OBVIOUS
<1>1. \A o : o \in ToSet(sq) <=> InQueue(o)
  BY LenProperties DEF ToSet, InQueue, IInv, TypeOK
<1>2. \A o : o \in Accepted <=> UnderWay(o)
  BY <1>1 DEF Accepted, UnderWay
<1>3. \A o \in Ops : LastEntries(o) # {} <=> HasLast(o)
  BY LastEntriesOf
<1>4. \A o \in Ops : HasLast(o) => o \in stored
  BY LastIsLast DEF HasLast, IInv, Stages, OfStored
<1>5. ASSUME NEW o PROVE o \in Concluded <=> o \in stored /\ ~UnderWay(o)
  <2>1. o \in finished \/ o \in stored => o \in Ops
    BY DEF IInv, TypeOK
  <2>2. o \in Concluded <=> o \in finished \/ (o \in Ops /\ HasLast(o))
    BY <1>3 DEF Concluded
  <2>3. QED
    BY <1>4, <2>1, <2>2 DEF IInv, Stages, BeforeLast, NoneLost, OfStored
<1>6. QED
  BY <1>2, <1>5 DEF RingStages

LEMMA StagesOfRingNext == IInv' => RingStages'
BY StagesOfRing, PTL

LEMMA RingStutters ==
  ASSUME IInv, IInv', \A o : UnderWay(o)' <=> UnderWay(o), Pending' = Pending, stored' = stored
  PROVE  UNCHANGED Ring!ringVars
<1>1. Accepted' = Accepted /\ Concluded' = Concluded
  BY StagesOfRing, StagesOfRingNext DEF RingStages
<1>2. QED
  BY <1>1 DEF Ring!ringVars, Accepted, Concluded

LEMMA StoresAccepts ==
  ASSUME IInv, IInv', SubmitStores
  PROVE  \E o \in Ops : Ring!Accept(o)
<1>1. PICK c \in Ops : c = cur
  BY DEF SubmitStores, IInv, TypeOK
<1>2. /\ UNCHANGED <<kernel, batch, cq>> /\ sq' = Append(sq, c) /\ stored' = stored \cup {c}
  BY <1>1 DEF SubmitStores, kernelSide, dispatch, Queued
<1>3. c \notin stored
  BY <1>1 DEF IInv, Submitting
<1>4. PICK m \in Nat : m = Len(sq)
  BY LenProperties DEF IInv, TypeOK
<1>5. /\ Len(sq') = m + 1
      /\ \A i \in 1..m : sq'[i] = sq[i]
      /\ sq'[m + 1] = c
  BY <1>2, <1>4, AppendProperties DEF IInv, TypeOK
<1>6. ASSUME NEW o PROVE UnderWay(o)' <=> UnderWay(o) \/ o = c
  BY <1>2, <1>4, <1>5 DEF UnderWay, InQueue
<1>7. ~UnderWay(c)
  BY <1>3 DEF IInv, Stages, BeforeLast
<1>8. /\ c \notin Accepted \cup Concluded
      /\ Accepted' = Accepted \cup {c}
      /\ Concluded' = Concluded
  BY <1>2, <1>3, <1>6, <1>7, StagesOfRing, StagesOfRingNext DEF RingStages
<1>9. Pending' = Pending
  BY <1>2 DEF Pending
<1>10. Ring!Accept(c)
  BY <1>8, <1>9 DEF Ring!Accept, Accepted, Concluded
<1>11. QED
  BY <1>10

LEMMA CompleteDispatches ==
  ASSUME IInv, IInv', NEW throws \in BOOLEAN, Complete(throws)
  PROVE  Ring!Dispatch
<1>1. UNCHANGED <<sq, kernel, stored>>
  BY DEF Complete, kernelSide
<1>2. \A o : UnderWay(o)' <=> UnderWay(o)
  BY <1>1 DEF UnderWay, InQueue
<1>3. Accepted' = Accepted /\ Concluded' = Concluded
  BY <1>1, <1>2, StagesOfRing, StagesOfRingNext DEF RingStages
<1>4. QED
  BY <1>3, CompletePending DEF Ring!Dispatch, Accepted, Concluded

LEMMA ProgressesProgress ==
  ASSUME IInv, IInv', NEW o \in Ops, KernelProgresses(o)
  PROVE  Ring!Progress(o)
<1>1. UNCHANGED <<sq, kernel, stored, batch, finished>> /\ o \in kernel
  BY DEF KernelProgresses, submission, dispatch
<1>2. PICK e : e = [op |-> o, last |-> FALSE]
  OBVIOUS
<1>3. e \in Entry /\ UnderWay(e.op)
  BY <1>1, <1>2 DEF Entry, UnderWay
<1>4. Pending' = Append(Pending, [op |-> o, last |-> FALSE])
  BY <1>1, <1>2, <1>3, EntryPosted DEF KernelProgresses, Post
<1>5. \A x : UnderWay(x)' <=> UnderWay(x)
  BY <1>1 DEF UnderWay, InQueue
<1>6. o \in Accepted /\ Accepted' = Accepted /\ Concluded' = Concluded
  <2>1. UnderWay(o)
    BY <1>1 DEF UnderWay
  <2>2. QED
    BY <1>1, <1>5, <2>1, StagesOfRing, StagesOfRingNext DEF RingStages
<1>7. QED
  BY <1>4, <1>6 DEF Ring!Progress, Accepted, Concluded

LEMMA FinishesConcludes ==
  ASSUME IInv, IInv', NEW o \in Ops, KernelFinishes(o)
  PROVE  Ring!Conclude(o)
<1>1. UNCHANGED <<sq, stored, batch, finished>> /\ o \in kernel /\ kernel' = kernel \ {o}
  BY DEF KernelFinishes, submission, dispatch
<1>2. PICK e : e = LastEntry(o)
  OBVIOUS
<1>3. e \in Entry /\ e.op = o
  BY <1>2, LastIsLast
<1>4. UnderWay(e.op) /\ UnderWay(o) /\ o \in stored
  BY <1>1, <1>3 DEF UnderWay, IInv, Stages, BeforeLast
<1>5. Pending' = Append(Pending, [op |-> o, last |-> TRUE])
  BY <1>1, <1>2, <1>3, <1>4, EntryPosted DEF KernelFinishes, Post, LastEntry
<1>6. \A x : UnderWay(x)' <=> UnderWay(x) /\ x # o
  BY <1>1 DEF UnderWay, InQueue, IInv, Distinct
<1>7. o \in Accepted /\ Accepted' = Accepted \ {o} /\ Concluded' = Concluded \cup {o}
  BY <1>1, <1>4, <1>6, StagesOfRing, StagesOfRingNext DEF RingStages
<1>8. QED
  BY <1>5, <1>7 DEF Ring!Conclude, Accepted, Concluded

LEMMA StepRefines == IInv /\ IInv' /\ [Next]_vars => [Ring!RingNext]_(Ring!ringVars)
<1> SUFFICES ASSUME IInv, IInv', [Next]_vars PROVE Ring!RingNext \/ UNCHANGED Ring!ringVars
  OBVIOUS
<1>1. ASSUME UNCHANGED <<sq, kernel, cq, batch, stored>> PROVE UNCHANGED Ring!ringVars
  <2>1. Pending' = Pending /\ \A o : UnderWay(o)' <=> UnderWay(o)
    BY <1>1 DEF UnderWay, InQueue, Pending
  <2>2. QED
    BY <1>1, <2>1, RingStutters
<1>2. ASSUME NEW n \in 0..Len(sq), Enter(n), UNCHANGED <<cq, batch, stored>>
      PROVE  UNCHANGED Ring!ringVars
  <2>1. Pending' = Pending
    BY <1>2 DEF Pending
  <2>2. \A o : UnderWay(o)' <=> UnderWay(o)
    BY <1>2, EnterMoves DEF IInv
  <2>3. QED
    BY <1>2, <2>1, <2>2, RingStutters
<1>3. CASE UNCHANGED vars
  BY <1>1, <1>3 DEF vars, submission, kernelSide, dispatch
<1>4. CASE CreateWithRing \/ CreateWithoutRing \/ Destroy \/ CompleteUndefined
  BY <1>1, <1>4 DEF CreateWithRing, CreateWithoutRing, Destroy, CompleteUndefined,
                    submission, kernelSide, dispatch
<1>5. ASSUME NEW o \in Ops, AsyncBegin(o) PROVE UNCHANGED Ring!ringVars
  BY <1>1, <1>5 DEF AsyncBegin, kernelSide, dispatch
<1>6. CASE SubmitStores
  BY <1>6, StoresAccepts DEF Ring!RingNext
<1>7. ASSUME NEW n \in 0..Len(sq), SubmitRetries(n) \/ SubmitAborts(n)
      PROVE  UNCHANGED Ring!ringVars
  BY <1>2, <1>7 DEF SubmitRetries, SubmitAborts, submission, dispatch
<1>8. ASSUME NEW n \in (1..Len(sq)) \cup {-KernelError}, SubmitRefuses(n)
      PROVE  UNCHANGED Ring!ringVars
  <2>1. CASE n > 0
    <3>1. n \in 0..Len(sq)
      BY <2>1, UringAssumption
    <3>2. QED
      BY <1>2, <1>8, <2>1, <3>1 DEF SubmitRefuses, dispatch
  <2>2. CASE ~(n > 0)
    BY <1>1, <1>8, <2>2 DEF SubmitRefuses, dispatch, kernelSide
  <2>3. QED
    BY <2>1, <2>2
<1>9. ASSUME NEW n \in 0..Len(sq), WaitMany(n) PROVE UNCHANGED Ring!ringVars
  BY <1>2, <1>9 DEF WaitMany, WaitBegin, submission
<1>10. CASE WaitReturnsError \/ WaitInterrupted
  BY <1>1, <1>10 DEF WaitReturnsError, WaitInterrupted, submission, kernelSide
<1>11. CASE WaitReturns
  <2>1. UNCHANGED <<sq, kernel, stored>>
    BY <1>11 DEF WaitReturns, submission, kernelSide
  <2>2. \A o : UnderWay(o)' <=> UnderWay(o)
    BY <2>1 DEF UnderWay, InQueue
  <2>3. QED
    BY <1>11, <2>1, <2>2, WaitReturnsPending, RingStutters
<1>12. ASSUME NEW throws \in BOOLEAN, Complete(throws) PROVE Ring!RingNext
  BY <1>12, CompleteDispatches DEF Ring!RingNext
<1>13. ASSUME NEW o \in Ops, KernelProgresses(o) \/ KernelFinishes(o) PROVE Ring!RingNext
  BY <1>13, ProgressesProgress, FinishesConcludes DEF Ring!RingNext
<1>14. QED
  BY <1>3, <1>4, <1>5, <1>6, <1>7, <1>8, <1>9, <1>10, <1>11, <1>12, <1>13 DEF Next, SubmitGoesOn

(* The context dispatches each entry once, in the order in which the       *)
(* kernel made them, and every accepted operation concludes at most once:  *)
(* uring_service.hpp:733-866 implements CompletionRing.                    *)
THEOREM ImplementsCompletionRing == Spec => RingSpec
<1>1. Init => Ring!RingInit
  <2> SUFFICES ASSUME Init PROVE Ring!RingInit
    OBVIOUS
  <2>1. IInv /\ Len(sq) = 0 /\ kernel = {} /\ stored = {} /\ Pending = <<>>
    BY InitIInv, EmptySeq, ConcatEmptySeq DEF Init, Pending
  <2>2. \A o : ~UnderWay(o)
    BY <2>1 DEF UnderWay, InQueue
  <2>3. Accepted = {} /\ Concluded = {}
    BY <2>1, <2>2, StagesOfRing DEF RingStages
  <2>4. QED
    BY <2>1, <2>3 DEF Ring!RingInit, Accepted, Concluded
<1>2. QED
  BY <1>1, StepRefines, IInvHolds, PTL DEF Spec, RingSpec, Ring!RingSpec
=============================================================================
