-------------------------- MODULE SemaphoreProofs ---------------------------
(***************************************************************************)
(* Theorems about Semaphore, for any sets of threads and handlers, any     *)
(* initial count and any updates.                                          *)
(*                                                                         *)
(* The argument: Ledger says that the counter is always the permits put in *)
(* less those owned and those waited for, so NoOverAdmission comes down to *)
(* "the counter is below zero by no more than the number of waiting        *)
(* handlers".  That is ClaimsCovered, and it is inductive once the handler *)
(* in a thread's hands is known to be in no other place (InOnePlace).      *)
(***************************************************************************)
EXTENDS Semaphore, FiniteSetTheorems, TLAPS

(* What a thread's program counter says about its local variables. *)
Locals ==
  \A t \in Threads :
    /\ pc[t] = "enqueue" => f[t] # EMPTY /\ left[t] = 0
    /\ pc[t] \notin {"enqueue", "post"} => f[t] = EMPTY
    /\ pc[t] = "dequeue" => left[t] > 0
    /\ left[t] > 0 => pc[t] \in {"dequeue", "post"}
    /\ pc[t] = "cas" => old[t] > 0

(* A handler in a thread's hands, or stored, is nowhere else and was not   *)
(* posted; none is posted twice.                                           *)
InOnePlace ==
  /\ \A t \in Threads : f[t] # EMPTY =>
       /\ f[t] \notin m_functions
       /\ posted[f[t]] = 0
       /\ \A u \in Threads : u # t => f[u] # f[t]
  /\ \A h \in m_functions : posted[h] = 0
  /\ \A h \in Handlers : posted[h] <= 1

AllFinite ==
  /\ IsFiniteSet(Waiting)
  /\ IsFiniteSet(Admitted)
  /\ IsFiniteSet(Claims)

IInv == TypeOK /\ Locals /\ InOnePlace /\ AllFinite /\ Ledger /\ ClaimsCovered

-----------------------------------------------------------------------------
(* Sets of pairs that count the iterations left in a function like left. *)
ClaimsOf(L) == UNION {{t} \X (1..L[t]) : t \in Threads}

(* A row {t} \X (1..n) has n elements (release's loop, semaphore.hpp:119). *)
LEMMA RowSize ==
  ASSUME NEW t, NEW n \in Nat
  PROVE  IsFiniteSet({t} \X (1..n)) /\ Cardinality({t} \X (1..n)) = n
<1>1. IsFiniteSet({t}) /\ Cardinality({t}) = 1
  BY FS_Singleton
<1>2. IsFiniteSet(1..n) /\ Cardinality(1..n) = n
  BY FS_Interval
<1>3. /\ IsFiniteSet({t} \X (1..n))
      /\ Cardinality({t} \X (1..n)) = Cardinality({t}) * Cardinality(1..n)
  BY <1>1, <1>2, FS_Product, Zenon
<1>4. Cardinality({t}) * Cardinality(1..n) = 1 * n
  BY <1>1, <1>2, Zenon
<1>5. QED
  BY <1>3, <1>4

(* Changing one thread's count changes the total by as much: the effect of *)
(* entering release's loop and of each iteration (semaphore.hpp:119).      *)
LEMMA ClaimsChange ==
  ASSUME NEW L \in [Threads -> Nat], NEW M \in [Threads -> Nat],
         NEW t \in Threads, \A s \in Threads \ {t} : M[s] = L[s],
         IsFiniteSet(ClaimsOf(L))
  PROVE  /\ IsFiniteSet(ClaimsOf(M))
         /\ Cardinality(ClaimsOf(M)) = Cardinality(ClaimsOf(L)) - L[t] + M[t]
<1> DEFINE others == UNION {{s} \X (1..L[s]) : s \in Threads \ {t}}
           row(n) == {t} \X (1..n)
<1>1. ClaimsOf(L) = others \cup row(L[t]) /\ ClaimsOf(M) = others \cup row(M[t])
  BY DEF ClaimsOf
<1>2. \A n \in Nat : others \cap row(n) = {}
  OBVIOUS
<1>3. IsFiniteSet(others)
  BY <1>1, FS_Subset
<1>4. ASSUME NEW n \in Nat
      PROVE  /\ IsFiniteSet(others \cup row(n))
             /\ Cardinality(others \cup row(n)) = Cardinality(others) + n
  <2>1. IsFiniteSet(row(n)) /\ Cardinality(row(n)) = n
    BY RowSize
  <2>2. Cardinality(others \cap row(n)) = 0
    BY <1>2, FS_EmptySet
  <2>3. Cardinality(others) \in Nat
    BY <1>3, FS_CardinalityType
  <2> HIDE DEF others, row
  <2>4. /\ IsFiniteSet(others \cup row(n))
        /\ Cardinality(others \cup row(n)) =
             Cardinality(others) + Cardinality(row(n)) - Cardinality(others \cap row(n))
    BY <1>3, <2>1, FS_Union, Zenon
  <2>5. QED
    BY <2>1, <2>2, <2>3, <2>4
<1>5. Cardinality(others) \in Nat
  BY <1>3, FS_CardinalityType
<1>6. L[t] \in Nat /\ M[t] \in Nat
  OBVIOUS
<1> HIDE DEF others, row
<1>7. Cardinality(ClaimsOf(L)) = Cardinality(others) + L[t]
  BY <1>1, <1>4, <1>6
<1>8. IsFiniteSet(ClaimsOf(M)) /\ Cardinality(ClaimsOf(M)) = Cardinality(others) + M[t]
  BY <1>1, <1>4, <1>6
<1>9. QED
  BY <1>5, <1>6, <1>7, <1>8

-----------------------------------------------------------------------------
(* The invariant holds of a new semaphore (semaphore.hpp:59-63). *)
LEMMA InitIInv == Init => IInv
<1> SUFFICES ASSUME Init PROVE IInv
  OBVIOUS
<1> USE SemaphoreAssumption DEF Init
<1>1. TypeOK
  BY DEF TypeOK, PCs, Statuses
<1>2. Locals
  BY DEF Locals
<1>3. InOnePlace
  BY DEF InOnePlace
<1>4. Waiting = {} /\ Admitted = {} /\ Claims = {}
  BY DEF Waiting, Storing, Admitted, Posted, InHand, Claims
<1>5. AllFinite
  BY <1>4, FS_EmptySet DEF AllFinite
<1>6. Ledger /\ ClaimsCovered
  BY <1>4, FS_EmptySet DEF Ledger, ClaimsCovered, Deficit
<1>7. QED
  BY <1>1, <1>2, <1>3, <1>5, <1>6 DEF IInv

-----------------------------------------------------------------------------
(* The sizes of the sets of the invariant are numbers. *)
LEMMA Sizes ==
  ASSUME IInv
  PROVE  /\ Cardinality(Waiting) \in Nat
         /\ Cardinality(Admitted) \in Nat
         /\ Cardinality(Claims) \in Nat
         /\ m_count \in Int /\ issued \in Nat /\ taken \in Nat
BY FS_CardinalityType DEF IInv, AllFinite, TypeOK

(* async_acquire's fetch_sub preserves the invariant (semaphore.hpp:84). *)
LEMMA AsyncAcquireIInv ==
  ASSUME IInv, NEW t \in Threads, NEW h \in Handlers, AsyncAcquire(t, h)
  PROVE  IInv' /\ (Pool!AdmitAtOnce(h) \/ Pool!Ask(h))
<1> USE SemaphoreAssumption
<1> USE DEF IInv, AsyncAcquire, At, Goto, OwnsPermit, objectVars, historyVars
<1>1. TypeOK'
  BY DEF TypeOK, PCs, Statuses
<1>2. pc[t] = "idle" /\ left[t] = 0 /\ f[t] = EMPTY
  BY DEF Locals, TypeOK
<1>3. h \notin m_functions /\ posted[h] = 0 /\ \A u \in Threads : f[u] # h
  <2>1. h \notin m_functions /\ posted[h] = 0
    BY DEF TypeOK, Waiting, Admitted, Posted
  <2>2. ASSUME NEW u \in Threads, f[u] = h PROVE FALSE
    <3>1. pc[u] \in {"enqueue", "post"}
      BY <2>2 DEF Locals
    <3>2. h \in Storing \cup InHand
      BY <2>2, <3>1 DEF Storing, InHand
    <3>3. QED
      BY <3>2 DEF Waiting, Admitted
  <2>3. QED
    BY <2>1, <2>2
<1>4. Locals'
  BY <1>2 DEF Locals, TypeOK
<1>5. InOnePlace'
  BY <1>2, <1>3 DEF InOnePlace, TypeOK
<1>6. Claims' = Claims
  BY DEF Claims
<1>7. CASE m_count - 1 >= 0
  <2>1. Waiting' = Waiting
    BY <1>2, <1>7 DEF Waiting, Storing, TypeOK
  <2>2. Admitted' = Admitted \cup {h}
    <3>1. InHand' = InHand \cup {h}
      BY <1>2, <1>7 DEF InHand, TypeOK
    <3>2. QED
      BY <3>1 DEF Admitted, Posted
  <2>3. AllFinite' /\ Cardinality(Admitted') = Cardinality(Admitted) + 1
    BY <1>6, <2>1, <2>2, FS_AddElement DEF AllFinite
  <2>4. Ledger' /\ ClaimsCovered'
    BY <1>6, <1>7, <2>1, <2>3, Sizes DEF Ledger, ClaimsCovered, Deficit
  <2>5. Pool!AdmitAtOnce(h)
    BY <1>7, <2>1, <2>2, <2>3, Sizes DEF Pool!AdmitAtOnce, Ledger
  <2>6. QED
    BY <1>1, <1>4, <1>5, <2>3, <2>4, <2>5
<1>8. CASE ~ (m_count - 1 >= 0)
  <2>1. Admitted' = Admitted
    BY <1>2, <1>8 DEF Admitted, InHand, Posted, TypeOK
  <2>2. Waiting' = Waiting \cup {h}
    BY <1>2, <1>8 DEF Waiting, Storing, TypeOK
  <2>3. AllFinite' /\ Cardinality(Waiting') = Cardinality(Waiting) + 1
    BY <1>6, <2>1, <2>2, FS_AddElement DEF AllFinite
  <2>4. Ledger' /\ ClaimsCovered'
    BY <1>6, <1>8, <2>1, <2>3, Sizes DEF Ledger, ClaimsCovered, Deficit
  <2>5. Pool!Ask(h)
    BY <2>1, <2>2 DEF Pool!Ask
  <2>6. QED
    BY <1>1, <1>4, <1>5, <2>3, <2>4, <2>5
<1>9. QED
  BY <1>7, <1>8

(* Storing the handler preserves the invariant (semaphore.hpp:87). *)
LEMMA EnqueueIInv ==
  ASSUME IInv, NEW t \in Threads, Enqueue(t)
  PROVE  IInv' /\ UNCHANGED Pool!poolVars
<1> USE SemaphoreAssumption
<1> USE DEF IInv, Enqueue, At, Goto, historyVars
<1>1. f[t] # EMPTY /\ f[t] \in Handlers /\ left[t] = 0
  BY DEF Locals, TypeOK
<1>2. TypeOK'
  BY <1>1 DEF TypeOK, PCs, Statuses
<1>3. Locals'
  BY <1>1 DEF Locals, TypeOK
<1>4. InOnePlace'
  BY <1>1 DEF InOnePlace, TypeOK
<1>5. Claims' = Claims
  BY DEF Claims
<1>6. Admitted' = Admitted
  BY DEF Admitted, Posted, InHand, TypeOK
<1>7. Waiting' = Waiting
  <2>1. \A u \in Threads \ {t} : pc'[u] = pc[u] /\ f'[u] = f[u]
    BY DEF TypeOK
  <2>2. pc[t] = "enqueue" /\ pc'[t] = "idle"
    BY DEF TypeOK
  <2>3. Storing' \cup {f[t]} = Storing
    BY <2>1, <2>2 DEF Storing
  <2>4. QED
    BY <2>3 DEF Waiting
<1>8. AllFinite' /\ Ledger' /\ ClaimsCovered'
  BY <1>5, <1>6, <1>7 DEF AllFinite, Ledger, ClaimsCovered, Deficit
<1>9. UNCHANGED Pool!poolVars
  BY <1>6, <1>7 DEF Pool!poolVars
<1>10. QED
  BY <1>2, <1>3, <1>4, <1>8, <1>9

(* Posting preserves the invariant (semaphore.hpp:85, 123). *)
LEMMA PostIInv ==
  ASSUME IInv, NEW t \in Threads, Post(t)
  PROVE  IInv' /\ UNCHANGED Pool!poolVars
<1> USE SemaphoreAssumption
<1> USE DEF IInv, Post, At, Goto, historyVars
<1>1. TypeOK'
  BY DEF TypeOK, PCs, Statuses
<1>2. Locals'
  BY DEF Locals, TypeOK
<1>3. \A x \in Handlers \cup {EMPTY} : x # f[t] => posted'[x] = posted[x]
  BY DEF TypeOK
<1>4. f[t] \in Handlers => posted[f[t]] = 0 /\ posted'[f[t]] = 1
  BY DEF InOnePlace, TypeOK
<1>5. InOnePlace'
  BY <1>3, <1>4 DEF InOnePlace, TypeOK
<1>6. Claims' = Claims /\ Waiting' = Waiting
  BY DEF Claims, Waiting, Storing, TypeOK
<1>7. Admitted' = Admitted
  <2>1. \A u \in Threads \ {t} : pc'[u] = pc[u] /\ f'[u] = f[u]
    BY DEF TypeOK
  <2>2. pc[t] = "post" /\ pc'[t] # "post"
    BY DEF TypeOK
  <2>3. InHand' \cup ({f[t]} \ {EMPTY}) = InHand
    BY <2>1, <2>2 DEF InHand
  <2>4. Posted' = Posted \cup ({f[t]} \ {EMPTY})
    BY <1>3, <1>4 DEF Posted, TypeOK
  <2>5. QED
    BY <2>3, <2>4 DEF Admitted
<1>8. AllFinite' /\ Ledger' /\ ClaimsCovered'
  BY <1>6, <1>7 DEF AllFinite, Ledger, ClaimsCovered, Deficit
<1>9. UNCHANGED Pool!poolVars
  BY <1>6, <1>7 DEF Pool!poolVars
<1>10. QED
  BY <1>1, <1>2, <1>5, <1>8, <1>9

(* try_acquire's load preserves the invariant (semaphore.hpp:98-101). *)
LEMMA TryLoadIInv ==
  ASSUME IInv, NEW t \in Threads, TryLoad(t)
  PROVE  IInv' /\ UNCHANGED Pool!poolVars
<1> USE SemaphoreAssumption
<1> USE DEF IInv, TryLoad, At, Goto, objectVars, historyVars
<1>1. TypeOK'
  BY DEF TypeOK, PCs, Statuses
<1>2. Locals'
  BY DEF Locals, TypeOK
<1>3. InOnePlace'
  BY DEF InOnePlace, TypeOK
<1>4. Claims' = Claims /\ Waiting' = Waiting /\ Admitted' = Admitted
  BY DEF Claims, Waiting, Storing, Admitted, Posted, InHand, TypeOK
<1>5. AllFinite' /\ Ledger' /\ ClaimsCovered'
  BY <1>4 DEF AllFinite, Ledger, ClaimsCovered, Deficit
<1>6. UNCHANGED Pool!poolVars
  BY <1>4 DEF Pool!poolVars
<1>7. QED
  BY <1>1, <1>2, <1>3, <1>5, <1>6

(* try_acquire's exchange preserves the invariant (semaphore.hpp:100-103). *)
LEMMA TryCasIInv ==
  ASSUME IInv, NEW t \in Threads, TryCas(t)
  PROVE  IInv' /\ (Pool!Take \/ UNCHANGED Pool!poolVars)
<1> USE SemaphoreAssumption
<1> USE DEF IInv, TryCas, Exchanges, At, Goto
<1>1. /\ pc[t] = "cas"
      /\ pc' = [pc EXCEPT ![t] = "idle"] \/ pc' = [pc EXCEPT ![t] = "cas"]
      /\ UNCHANGED <<m_functions, posted, status, f, left, issued>>
  BY Zenon
<1>2. TypeOK'
  BY DEF TypeOK, PCs, Statuses
<1>3. Locals'
  BY DEF Locals, TypeOK
<1>4. InOnePlace'
  BY DEF InOnePlace, TypeOK
<1>5. Claims' = Claims
  BY DEF Claims
<1>6. Waiting' = Waiting
  BY <1>1 DEF Waiting, Storing, TypeOK
<1>7. Admitted' = Admitted
  BY <1>1 DEF Admitted, Posted, InHand, TypeOK
<1>8. AllFinite'
  BY <1>5, <1>6, <1>7 DEF AllFinite
<1>9. \/ m_count' = m_count /\ taken' = taken
      \/ m_count' = m_count - 1 /\ taken' = taken + 1 /\ m_count > 0
  BY DEF TypeOK, Locals
<1>10. Ledger' /\ ClaimsCovered'
  BY <1>1, <1>5, <1>6, <1>7, <1>9, Sizes DEF Ledger, ClaimsCovered, Deficit
<1>11. Pool!Take \/ UNCHANGED Pool!poolVars
  BY <1>1, <1>6, <1>7, <1>9, Sizes DEF Pool!Take, Pool!poolVars, Ledger
<1>12. QED
  BY <1>2, <1>3, <1>4, <1>8, <1>10, <1>11

(* release's fetch_add and the loop's bound preserve the invariant         *)
(* (semaphore.hpp:118-119).                                                *)
LEMMA ReleaseIInv ==
  ASSUME IInv, NEW t \in Threads, NEW u \in Updates, Release(t, u)
  PROVE  IInv' /\ Pool!Give(u)
<1> USE SemaphoreAssumption
<1> USE DEF IInv, Release, At, Goto
<1> DEFINE n == Iterations(u)
<1>1. u \in Nat /\ u > 0 /\ m_count \in Int /\ n \in Nat
  BY DEF TypeOK, Iterations
<1>2. pc[t] = "idle" /\ left[t] = 0
  BY DEF Locals, TypeOK
<1>3. TypeOK'
  BY <1>1, <1>2 DEF TypeOK, PCs, Statuses
<1>4. Locals'
  BY <1>1, <1>2 DEF Locals, TypeOK
<1>5. InOnePlace'
  BY DEF InOnePlace, TypeOK
<1>6. Waiting' = Waiting /\ Admitted' = Admitted
  BY <1>2 DEF Waiting, Storing, Admitted, Posted, InHand, TypeOK
<1>7. IsFiniteSet(Claims') /\ Cardinality(Claims') = Cardinality(Claims) + n
  <2>1. Claims = ClaimsOf(left) /\ Claims' = ClaimsOf(left')
    BY DEF Claims, ClaimsOf
  <2>2. left \in [Threads -> Nat] /\ left' \in [Threads -> Nat]
    BY <1>3 DEF TypeOK
  <2>3. left'[t] = n /\ \A s \in Threads \ {t} : left'[s] = left[s]
    BY <2>2
  <2>4. Cardinality(Claims) \in Nat /\ IsFiniteSet(ClaimsOf(left))
    BY <2>1, Sizes DEF AllFinite
  <2>5. /\ IsFiniteSet(ClaimsOf(left'))
        /\ Cardinality(ClaimsOf(left')) = Cardinality(ClaimsOf(left)) - left[t] + left'[t]
    BY <2>2, <2>3, <2>4, ClaimsChange
  <2> HIDE DEF n
  <2>6. QED
    BY <1>1, <1>2, <2>1, <2>3, <2>4, <2>5
<1>8. AllFinite'
  BY <1>6, <1>7 DEF AllFinite
<1>9. Ledger'
  BY <1>1, <1>6, Sizes DEF Ledger
<1>10. ClaimsCovered'
  BY <1>1, <1>6, <1>7, Sizes DEF ClaimsCovered, Deficit, Iterations
<1>11. Pool!Give(u)
  BY <1>1, <1>6, Sizes DEF Pool!Give
<1>12. QED
  BY <1>3, <1>4, <1>5, <1>8, <1>9, <1>10, <1>11

(* An iteration of release's loop leaves one claim fewer (semaphore.hpp:119). *)
LEMMA FewerClaims ==
  ASSUME IInv, NEW t \in Threads, left[t] > 0,
         left' = [left EXCEPT ![t] = left[t] - 1]
  PROVE  IsFiniteSet(Claims') /\ Cardinality(Claims') = Cardinality(Claims) - 1
<1>1. Claims = ClaimsOf(left) /\ Claims' = ClaimsOf(left')
  BY DEF Claims, ClaimsOf
<1>2. /\ left \in [Threads -> Nat] /\ left' \in [Threads -> Nat]
      /\ left[t] \in Nat /\ left'[t] = left[t] - 1
      /\ \A s \in Threads \ {t} : left'[s] = left[s]
  BY DEF IInv, TypeOK
<1>3. Cardinality(Claims) \in Nat /\ IsFiniteSet(ClaimsOf(left))
  BY <1>1, Sizes DEF IInv, AllFinite
<1>4. /\ IsFiniteSet(ClaimsOf(left'))
      /\ Cardinality(ClaimsOf(left')) = Cardinality(ClaimsOf(left)) - left[t] + left'[t]
  BY <1>2, <1>3, ClaimsChange
<1>5. QED
  BY <1>1, <1>2, <1>3, <1>4

(* A successful try_dequeue preserves the invariant (semaphore.hpp:121). *)
LEMMA DequeueIInv ==
  ASSUME IInv, NEW t \in Threads, Dequeue(t)
  PROVE  IInv' /\ \E h \in Handlers : Pool!Admit(h)
<1> USE SemaphoreAssumption
<1> USE DEF IInv, Dequeue, NextIteration, At, Goto, historyVars
<1>1. PICK h \in m_functions :
        m_functions' = m_functions \ {h} /\ f' = [f EXCEPT ![t] = h]
  BY DEF Without
<1>2. h \in Handlers /\ h # EMPTY /\ posted[h] = 0 /\ \A u \in Threads : f[u] # h
  BY <1>1 DEF TypeOK, InOnePlace
<1>3. pc[t] = "dequeue" /\ f[t] = EMPTY /\ left[t] \in Nat /\ left[t] > 0
  BY DEF Locals, TypeOK
<1>4. TypeOK'
  BY <1>1, <1>2, <1>3 DEF TypeOK, PCs, Statuses
<1>5. Locals'
  BY <1>1, <1>3 DEF Locals, TypeOK
<1>6. InOnePlace'
  BY <1>1, <1>2, <1>3 DEF InOnePlace, TypeOK
<1>7. h \in Waiting /\ h \notin Storing /\ h \notin Admitted
  BY <1>1, <1>2 DEF Waiting, Storing, Admitted, Posted, InHand
<1>8. Waiting' = Waiting \ {h}
  <2>1. Storing' = Storing
    BY <1>1, <1>3 DEF Storing, TypeOK
  <2>2. QED
    BY <1>1, <1>7, <2>1 DEF Waiting
<1>9. Admitted' = Admitted \cup {h}
  <2>1. InHand' = InHand \cup {h}
    BY <1>1, <1>2, <1>3 DEF InHand, TypeOK
  <2>2. QED
    BY <2>1 DEF Admitted, Posted
<1>10. IsFiniteSet(Claims') /\ Cardinality(Claims') = Cardinality(Claims) - 1
  BY <1>3, <1>4, FewerClaims
<1>11. /\ AllFinite'
       /\ Cardinality(Waiting') = Cardinality(Waiting) - 1
       /\ Cardinality(Admitted') = Cardinality(Admitted) + 1
  BY <1>7, <1>8, <1>9, <1>10, FS_AddElement, FS_RemoveElement DEF AllFinite
<1>12. Ledger' /\ ClaimsCovered'
  BY <1>10, <1>11, Sizes DEF Ledger, ClaimsCovered, Deficit
<1>13. Pool!Admit(h)
  <2>1. Cardinality(Claims) >= 1
    BY <1>10, Sizes, FS_CardinalityType
  <2>2. issued - taken - Cardinality(Admitted) > 0
    BY <2>1, Sizes DEF Ledger, ClaimsCovered, Deficit
  <2>3. issued' = issued /\ taken' = taken
    OBVIOUS
  <2>4. QED
    BY <1>7, <1>8, <1>9, <1>11, <2>2, <2>3, Sizes DEF Pool!Admit
<1>14. QED
  BY <1>2, <1>4, <1>5, <1>6, <1>11, <1>12, <1>13

(* A failed try_dequeue preserves the invariant (semaphore.hpp:121-122). *)
LEMMA DequeueFailsIInv ==
  ASSUME IInv, NEW t \in Threads, DequeueFails(t)
  PROVE  IInv' /\ UNCHANGED Pool!poolVars
<1> USE SemaphoreAssumption
<1> USE DEF IInv
<1>1. /\ pc[t] = "dequeue"
      /\ UNCHANGED <<m_count, m_functions, posted, f, old, issued, taken>>
      /\ \/ /\ left' = [left EXCEPT ![t] = left[t] - 1]
            /\ pc' = [pc EXCEPT ![t] = "post"]
            /\ status' = status
         \/ /\ left' = left
            /\ pc' = pc
            /\ status' = "release assertion"
  BY Zenon DEF DequeueFails, NextIteration, At, Goto, historyVars
<1>2. f[t] = EMPTY /\ left[t] \in Nat /\ left[t] > 0
  BY <1>1 DEF Locals, TypeOK
<1>3. TypeOK'
  <2>1. left' \in [Threads -> Nat]
    <3>1. CASE left' = left
      BY <3>1 DEF TypeOK
    <3>2. CASE left' = [left EXCEPT ![t] = left[t] - 1]
      BY <1>2, <3>2 DEF TypeOK
    <3>3. QED
      BY <1>1, <3>1, <3>2
  <2>2. pc' \in [Threads -> PCs] /\ status' \in Statuses
    BY <1>1 DEF TypeOK, PCs, Statuses
  <2>3. QED
    BY <1>1, <2>1, <2>2 DEF TypeOK
<1>4. Locals'
  BY <1>1, <1>2 DEF Locals, TypeOK
<1>5. InOnePlace'
  BY <1>1 DEF InOnePlace, TypeOK
<1>6. Waiting' = Waiting /\ Admitted' = Admitted
  <2>1. CASE pc' = pc
    BY <1>1, <2>1 DEF Waiting, Storing, Admitted, Posted, InHand
  <2>2. CASE pc' = [pc EXCEPT ![t] = "post"]
    <3>1. Storing' = Storing /\ InHand' = InHand
      BY <1>1, <1>2, <2>2 DEF Storing, InHand, TypeOK
    <3>2. QED
      BY <1>1, <3>1 DEF Waiting, Admitted, Posted
  <2>3. QED
    BY <1>1, <2>1, <2>2
<1>7. IsFiniteSet(Claims') /\ Cardinality(Claims') <= Cardinality(Claims)
  <2>1. CASE left' = left
    BY <2>1, Sizes DEF Claims, AllFinite
  <2>2. CASE left' = [left EXCEPT ![t] = left[t] - 1]
    <3>1. IsFiniteSet(Claims') /\ Cardinality(Claims') = Cardinality(Claims) - 1
      BY <1>2, <2>2, FewerClaims
    <3>2. QED
      BY <3>1, Sizes
  <2>3. QED
    BY <1>1, <2>1, <2>2
<1>8. AllFinite' /\ Ledger'
  BY <1>1, <1>6, <1>7 DEF AllFinite, Ledger
<1>9. ClaimsCovered'
  <2>1. m_count' = m_count
    BY <1>1
  <2>2. Deficit' = Deficit /\ Deficit \in Nat
    BY <2>1, Sizes DEF Deficit
  <2>3. Cardinality(Claims') \in Nat
    BY <1>7, FS_CardinalityType
  <2>4. QED
    BY <1>6, <1>7, <2>2, <2>3, Sizes DEF ClaimsCovered
<1>10. UNCHANGED Pool!poolVars
  BY <1>1, <1>6 DEF Pool!poolVars
<1>11. QED
  BY <1>3, <1>4, <1>5, <1>8, <1>9, <1>10

(* What the invariant says of a state depends on no more than this: used   *)
(* for stuttering and for the destructor (semaphore.hpp:147-151).          *)
LEMMA Frame ==
  ASSUME IInv, status' \in Statuses,
         UNCHANGED <<m_count, m_functions, posted, pc, f, old, left, issued, taken>>
  PROVE  IInv' /\ UNCHANGED Pool!poolVars
<1>1. TypeOK'
  BY DEF IInv, TypeOK
<1>2. Locals' /\ InOnePlace'
  BY DEF IInv, Locals, InOnePlace
<1>3. Waiting' = Waiting /\ Admitted' = Admitted /\ Claims' = Claims
  BY DEF Waiting, Storing, Admitted, Posted, InHand, Claims
<1>4. AllFinite' /\ Ledger' /\ ClaimsCovered'
  BY <1>3 DEF IInv, AllFinite, Ledger, ClaimsCovered, Deficit
<1>5. UNCHANGED Pool!poolVars
  BY <1>3 DEF Pool!poolVars
<1>6. QED
  BY <1>1, <1>2, <1>4, <1>5 DEF IInv

LEMMA DestroyIInv ==
  ASSUME IInv, Destroy
  PROVE  IInv' /\ UNCHANGED Pool!poolVars
<1>1. /\ status' \in Statuses
      /\ UNCHANGED <<m_count, m_functions, posted, pc, f, old, left, issued, taken>>
  BY DEF Destroy, threadVars, historyVars, Statuses
<1>2. QED
  BY <1>1, Frame

(* Every step of the semaphore preserves the invariant. *)
LEMMA NextIInv == IInv /\ [Next]_vars => IInv' /\ [Pool!PoolNext]_(Pool!poolVars)
<1> SUFFICES ASSUME IInv, [Next]_vars
             PROVE  IInv' /\ (Pool!PoolNext \/ UNCHANGED Pool!poolVars)
  OBVIOUS
<1> USE DEF Pool!PoolNext
<1>1. ASSUME NEW t \in Threads, NEW h \in Handlers, AsyncAcquire(t, h)
      PROVE  IInv' /\ Pool!PoolNext
  BY <1>1, AsyncAcquireIInv
<1>2. ASSUME NEW t \in Threads, NEW u \in Updates, Release(t, u)
      PROVE  IInv' /\ Pool!PoolNext
  BY <1>2, ReleaseIInv
<1>3. ASSUME NEW t \in Threads, Dequeue(t)
      PROVE  IInv' /\ Pool!PoolNext
  BY <1>3, DequeueIInv
<1>4. ASSUME NEW t \in Threads, TryCas(t)
      PROVE  IInv' /\ (Pool!PoolNext \/ UNCHANGED Pool!poolVars)
  BY <1>4, TryCasIInv
<1>5. ASSUME NEW t \in Threads,
             TryLoad(t) \/ Enqueue(t) \/ Post(t) \/ DequeueFails(t)
      PROVE  IInv' /\ UNCHANGED Pool!poolVars
  BY <1>5, TryLoadIInv, EnqueueIInv, PostIInv, DequeueFailsIInv
<1>6. ASSUME UNCHANGED vars
      PROVE  IInv' /\ UNCHANGED Pool!poolVars
  <2>1. /\ status' \in Statuses
        /\ UNCHANGED <<m_count, m_functions, posted, pc, f, old, left, issued, taken>>
    BY <1>6 DEF vars, objectVars, threadVars, historyVars, IInv, TypeOK
  <2>2. QED
    BY <2>1, Frame
<1> HIDE DEF Pool!PoolNext
<1>7. QED
  BY <1>1, <1>2, <1>3, <1>4, <1>5, <1>6, DestroyIInv DEF Next, Call, Step

-----------------------------------------------------------------------------
(* IInv holds in every state of every execution. *)
THEOREM Invariance == Spec => []IInv
<1>1. IInv /\ [Next]_vars => IInv'
  BY NextIInv
<1>2. QED
  BY InitIInv, <1>1, PTL DEF Spec

(* Type correctness: the counter stays an integer, release's loop never    *)
(* has a negative number of iterations left (semaphore.hpp:119), a thread  *)
(* holds one handler at most.                                              *)
THEOREM TypeCorrect == Spec => []TypeOK
<1>1. IInv => TypeOK
  BY DEF IInv
<1>2. QED
  BY Invariance, <1>1, PTL

(* No interleaving loses or repeats an update of the counter: it is the    *)
(* balance of permits at every moment (semaphore.hpp:84-88, 102-103,       *)
(* 118-124).                                                               *)
THEOREM CounterIsBalance == Spec => []Ledger
<1>1. IInv => Ledger
  BY DEF IInv
<1>2. QED
  BY Invariance, <1>1, PTL

(* However async_acquire, try_acquire and release interleave, no more      *)
(* callers own a permit than permits were put in (semaphore.hpp:82-126).   *)
THEOREM NeverOverAdmits == Spec => []NoOverAdmission
<1>1. IInv => NoOverAdmission
  <2> SUFFICES ASSUME IInv PROVE NoOverAdmission
    OBVIOUS
  <2>1. m_count + Cardinality(Waiting) >= 0
    BY Sizes DEF IInv, ClaimsCovered, Deficit
  <2>2. m_count = issued - taken - Cardinality(Admitted) - Cardinality(Waiting)
    BY DEF IInv, Ledger
  <2>3. QED
    BY <2>1, <2>2, Sizes DEF NoOverAdmission
<1>2. QED
  BY Invariance, <1>1, PTL

(* The loop of release has a handler, stored or on its way, for every      *)
(* iteration it will make (semaphore.hpp:119-121).                         *)
THEOREM EveryClaimCovered == Spec => []ClaimsCovered
<1>1. IInv => ClaimsCovered
  BY DEF IInv
<1>2. QED
  BY Invariance, <1>1, PTL

(* The executor gets a handler once at most, and not one that is still     *)
(* stored (semaphore.hpp:85, 87, 121-123).                                 *)
THEOREM NeverPostedTwice == Spec => []PostedOnce
<1>1. IInv => PostedOnce
  <2> SUFFICES ASSUME IInv PROVE PostedOnce
    OBVIOUS
  <2> USE DEF IInv
  <2>1. m_functions \cap Admitted = {}
    BY DEF InOnePlace, Admitted, Posted, InHand
  <2>2. Storing \cap Posted = {}
    BY DEF InOnePlace, Locals, Storing, Posted
  <2>3. Storing \cap InHand = {}
    BY DEF InOnePlace, Locals, Storing, InHand
  <2>4. QED
    BY <2>1, <2>2, <2>3 DEF PostedOnce, InOnePlace, Waiting, Admitted
<1>2. QED
  BY Invariance, <1>1, PTL

(* release's assertion can fail only while an async_acquire is between its *)
(* fetch_sub and its enqueue (semaphore.hpp:84-87, 122).                   *)
THEOREM EmptyMeansStoring == Spec => []EmptyOnlyWhileStoring
<1>1. IInv => EmptyOnlyWhileStoring
  <2> SUFFICES ASSUME IInv, NEW t \in Threads, pc[t] = "dequeue", m_functions = {}
               PROVE  Storing # {}
    BY DEF EmptyOnlyWhileStoring
  <2>1. <<t, 1>> \in Claims
    BY DEF IInv, Locals, TypeOK, Claims
  <2>2. Cardinality(Claims) # 0
    BY <2>1, FS_EmptySet DEF IInv, AllFinite
  <2>3. Cardinality(Waiting) # 0
    BY <2>2, Sizes DEF IInv, ClaimsCovered, Deficit
  <2>4. QED
    BY <2>3, FS_EmptySet DEF Waiting
<1>2. QED
  BY Invariance, <1>1, PTL

(* try_acquire succeeds only on a positive counter (semaphore.hpp:98-103). *)
THEOREM TryTakesFree == Spec => TryTakesFreePermit
<1>1. IInv /\ [Next]_vars => [taken' > taken => m_count > 0]_vars
  <2> SUFFICES ASSUME IInv, Next, taken' > taken PROVE m_count > 0
    OBVIOUS
  <2>1. taken \in Nat
    BY Sizes
  <2>2. ASSUME NEW t \in Threads, Call(t) PROVE taken' = taken
    BY <2>2, Zenon DEF Call, AsyncAcquire, TryLoad, Release, historyVars
  <2>3. ASSUME NEW t \in Threads, Enqueue(t) \/ Post(t) \/ Dequeue(t) \/ DequeueFails(t)
        PROVE  taken' = taken
    BY <2>3, Zenon DEF Enqueue, Post, Dequeue, DequeueFails, historyVars
  <2>4. Destroy => taken' = taken
    BY DEF Destroy, historyVars
  <2>5. PICK t \in Threads : TryCas(t)
    BY <2>1, <2>2, <2>3, <2>4 DEF Next, Step
  <2>6. m_count = old[t] /\ pc[t] = "cas"
    BY <2>1, <2>5 DEF TryCas, At, Exchanges
  <2>7. QED
    BY <2>6 DEF IInv, Locals
<1>2. QED
  BY Invariance, <1>1, PTL DEF Spec, TryTakesFreePermit

(* The semaphore, with its counter, its list and its races, implements the *)
(* pool of permits (semaphore.hpp:82-126).                                 *)
THEOREM Refinement == Spec => PoolSpec
<1>1. Init => Pool!PoolInit
  <2> SUFFICES ASSUME Init PROVE Pool!PoolInit
    OBVIOUS
  <2>1. Waiting = {} /\ Admitted = {}
    BY SemaphoreAssumption
       DEF Init, Waiting, Storing, Admitted, Posted, InHand
  <2>2. Desired \in Nat
    BY SemaphoreAssumption
  <2>3. QED
    BY <2>1, <2>2, FS_EmptySet DEF Init, Pool!PoolInit
<1>2. IInv /\ [Next]_vars => [Pool!PoolNext]_(Pool!poolVars)
  BY NextIInv
<1>3. QED
  BY Invariance, <1>1, <1>2, PTL DEF Spec, PoolSpec, Pool!PoolSpec
=============================================================================
