-------------------------- MODULE UniqueLockProofs --------------------------
(***************************************************************************)
(* Theorems about UniqueLock, for any sets of locks and handlers, any      *)
(* initial count and any number of copies.                                 *)
(*                                                                         *)
(* The argument: PermitsAccounted is inductive once handlers are known to  *)
(* be stored or posted and not both (Apart).  ExcludesOthers follows from  *)
(* it because the counter is below zero by no more than the number of      *)
(* stored handlers (Covered): a release that admits handlers takes out as  *)
(* many as the counter was below zero.                                     *)
(***************************************************************************)
EXTENDS UniqueLock, FiniteSetTheorems, TLAPS

(* No handler is both stored and posted. *)
Apart == m_functions \cap posted = {}

AllFinite ==
  /\ IsFiniteSet(m_functions)
  /\ IsFiniteSet(posted)
  /\ IsFiniteSet(Owning)

(* Every unit the counter is below zero stands for a stored handler. *)
Covered == m_count + Cardinality(m_functions) >= 0

IInv == TypeOK /\ Apart /\ AllFinite /\ Covered /\ PermitsAccounted

-----------------------------------------------------------------------------
(* Adding an element to a finite set, or removing one (guard.hpp:32-81     *)
(* does this to the locks that own a permit).                              *)
LEMMA WithElement ==
  ASSUME NEW S, IsFiniteSet(S), NEW x
  PROVE  /\ IsFiniteSet(S \cup {x})
         /\ IsFiniteSet(S \ {x})
         /\ Cardinality(S) \in Nat
         /\ Cardinality(S \cup {x}) = IF x \in S THEN Cardinality(S) ELSE Cardinality(S) + 1
         /\ Cardinality(S \ {x}) = IF x \in S THEN Cardinality(S) - 1 ELSE Cardinality(S)
BY FS_AddElement, FS_RemoveElement, FS_CardinalityType, Zenon

(* Writing a lock adds it to those that own a permit or removes it from    *)
(* them (unique_lock::owns_lock, guard.hpp:60-63).                         *)
LEMMA OwningAfter ==
  ASSUME TypeOK, NEW l \in Locks, NEW value, Set(l, value)
  PROVE  /\ value # NoLock /\ value.m_sem /\ value.m_locked => Owning' = Owning \cup {l}
         /\ ~(value # NoLock /\ value.m_sem /\ value.m_locked) => Owning' = Owning \ {l}
<1>1. /\ lock'[l] = value
      /\ \A k \in Locks \ {l} : lock'[k] = lock[k]
  BY DEF TypeOK, Set
<1>2. \A k \in Locks \ {l} : Owns(k)' <=> Owns(k)
  BY <1>1, Zenon DEF Owns, Exists
<1>3. Owns(l)' <=> value # NoLock /\ value.m_sem /\ value.m_locked
  BY <1>1, Zenon DEF Owns, Exists
<1>4. Owning' = {k \in Locks : Owns(k)'}
  BY DEF Owning
<1>5. ASSUME Owns(l)' PROVE Owning' = Owning \cup {l}
  BY <1>2, <1>4, <1>5 DEF Owning
<1>6. ASSUME ~Owns(l)' PROVE Owning' = Owning \ {l}
  BY <1>2, <1>4, <1>6 DEF Owning
<1>7. QED
  BY <1>3, <1>5, <1>6, Zenon

(* The sizes that are added up are numbers. *)
LEMMA Sizes ==
  ASSUME IInv
  PROVE  /\ Cardinality(m_functions) \in Nat
         /\ Cardinality(posted) \in Nat
         /\ Cardinality(Owning) \in Nat
         /\ m_count \in Int /\ loose \in Nat /\ extra \in Int /\ Desired \in Nat
BY FS_CardinalityType, UniqueLockAssumption DEF IInv, AllFinite, TypeOK

(* basic_semaphore::release in one step (semaphore.hpp:116-126): the       *)
(* counter and the handlers together grow by the permits put back.         *)
LEMMA ReleaseAdds ==
  ASSUME IInv, NEW update \in Nat \ {0}, SemaphoreRelease(update)
  PROVE  /\ m_count' \in Int /\ m_functions' \subseteq Handlers /\ posted' \subseteq Handlers
         /\ Apart'
         /\ IsFiniteSet(m_functions') /\ IsFiniteSet(posted')
         /\ Covered'
         /\ m_count' + Cardinality(m_functions') + Cardinality(posted')
              = m_count + Cardinality(m_functions) + Cardinality(posted) + update
<1>1. PICK S \in SUBSET m_functions :
        /\ Cardinality(S) = Admits(update)
        /\ m_functions' = m_functions \ S
        /\ posted' = posted \cup S
  BY DEF SemaphoreRelease
<1>2. m_count' = m_count + update
  BY DEF SemaphoreRelease
<1>3. m_functions' \subseteq Handlers /\ posted' \subseteq Handlers /\ Apart'
  BY <1>1 DEF IInv, TypeOK, Apart
<1>4. IsFiniteSet(S) /\ IsFiniteSet(m_functions) /\ IsFiniteSet(posted)
  BY FS_Subset DEF IInv, AllFinite
<1>5. /\ IsFiniteSet(m_functions')
      /\ Cardinality(m_functions') = Cardinality(m_functions) - Cardinality(m_functions \cap S)
  BY <1>1, <1>4, FS_Difference
<1>6. m_functions \cap S = S
  BY <1>1
<1>7. posted \cap S = {}
  BY <1>1 DEF IInv, Apart
<1>8. /\ IsFiniteSet(posted')
      /\ Cardinality(posted') = Cardinality(posted) + Cardinality(S) - Cardinality(posted \cap S)
  BY <1>1, <1>4, FS_Union
<1>9. Cardinality(posted \cap S) = 0
  BY <1>7, FS_EmptySet
<1>10. /\ Cardinality(m_functions') = Cardinality(m_functions) - Cardinality(S)
       /\ Cardinality(posted') = Cardinality(posted) + Cardinality(S) - 0
  BY <1>5, <1>6, <1>8, <1>9, Zenon
<1>11. Cardinality(S) \in Nat
  BY <1>4, FS_CardinalityType
<1>12. Covered'
  <2>1. CASE m_count + update > 0 /\ m_count < 0
    BY <2>1, <1>1, <1>2, <1>10, <1>11, Sizes DEF Admits, Covered, IInv
  <2>2. CASE ~(m_count + update > 0 /\ m_count < 0)
    BY <2>2, <1>1, <1>2, <1>10, <1>11, Sizes DEF Admits, Covered, IInv
  <2>3. QED
    BY <2>1, <2>2
<1>13. QED
  BY <1>2, <1>3, <1>5, <1>8, <1>10, <1>11, <1>12, Sizes

-----------------------------------------------------------------------------
(* The initial state (semaphore.hpp:59-63): all permits are in the counter. *)
LEMMA InitIInv == Init => IInv
<1> SUFFICES ASSUME Init PROVE IInv
  OBVIOUS
<1>1. TypeOK
  BY UniqueLockAssumption DEF Init, TypeOK
<1>2. m_functions = {} /\ posted = {} /\ Owning = {}
  BY DEF Init, Owning, Owns, Exists
<1>3. Apart /\ AllFinite
  BY <1>2, FS_EmptySet DEF Apart, AllFinite
<1>4. /\ Cardinality(m_functions) = 0
      /\ Cardinality(posted) = 0
      /\ Cardinality(Owning) = 0
  BY <1>2, FS_EmptySet
<1>5. Covered /\ PermitsAccounted
  BY <1>4, UniqueLockAssumption DEF Init, Covered, PermitsAccounted
<1>6. QED
  BY <1>1, <1>3, <1>5 DEF IInv

(* What a step has to show when it leaves the semaphore alone. *)
LEMMA SameSemaphore ==
  ASSUME IInv, UNCHANGED semaphore, TypeOK', IsFiniteSet(Owning'),
         Cardinality(Owning') + loose' - extra' = Cardinality(Owning) + loose - extra
  PROVE  IInv'
<1>1. Apart' /\ Covered' /\ AllFinite'
  BY DEF IInv, semaphore, Apart, Covered, AllFinite
<1>2. Cardinality(Owning') \in Nat /\ loose' \in Nat /\ extra' \in Int
  BY FS_CardinalityType DEF TypeOK
<1>3. /\ m_count' = m_count
      /\ Cardinality(m_functions') = Cardinality(m_functions)
      /\ Cardinality(posted') = Cardinality(posted)
  BY DEF semaphore
<1>4. PermitsAccounted
  BY DEF IInv
<1>5. PermitsAccounted'
  BY <1>2, <1>3, <1>4, Sizes DEF PermitsAccounted
<1>6. QED
  BY <1>1, <1>5 DEF IInv

(* The constructors without a permit (guard.hpp:28, 44-48). *)
LEMMA ConstructIInv ==
  ASSUME IInv, NEW l \in Locks, ConstructDefault(l) \/ ConstructDefer(l)
  PROVE  IInv'
<1>1. PICK value \in [m_sem : BOOLEAN, m_locked : BOOLEAN] :
        ~value.m_locked /\ Set(l, value)
  BY DEF ConstructDefault, ConstructDefer
<1>2. l \notin Owning
  BY DEF ConstructDefault, ConstructDefer, Owning, Owns
<1>3. Owning' = Owning
  BY <1>1, <1>2, OwningAfter DEF IInv
<1>4. UNCHANGED <<semaphore, called, loose, extra>>
  BY DEF ConstructDefault, ConstructDefer
<1>5. TypeOK'
  BY <1>1, <1>4 DEF IInv, TypeOK, Set, semaphore
<1>6. QED
  BY <1>3, <1>4, <1>5, SameSemaphore DEF IInv, AllFinite

(* try_to_lock (guard.hpp:38-42): a permit moves from the counter to the   *)
(* lock, if there is one.                                                  *)
LEMMA ConstructTryIInv ==
  ASSUME IInv, NEW l \in Locks, ConstructTry(l)
  PROVE  IInv'
<1> DEFINE value == [m_sem |-> TRUE, m_locked |-> Free]
<1>1. l \notin Owning
  BY DEF ConstructTry, Owning, Owns
<1>2. /\ Set(l, value)
      /\ m_count' = IF Free THEN m_count - 1 ELSE m_count
      /\ UNCHANGED <<m_functions, posted, called, loose, extra>>
  BY DEF ConstructTry
<1>3. value \in [m_sem : BOOLEAN, m_locked : BOOLEAN]
  BY DEF Free
<1>4. value # NoLock /\ value.m_sem /\ (value.m_locked <=> Free)
  BY <1>3, UniqueLockAssumption DEF Free
<1> HIDE DEF value
<1>5. TypeOK'
  BY <1>2, <1>3 DEF IInv, TypeOK, Set
<1>6. Apart'
  BY <1>2 DEF IInv, Apart
<1>7. CASE Free
  <2>1. Owning' = Owning \cup {l}
    BY <1>2, <1>4, <1>7, OwningAfter DEF IInv
  <2>2. IsFiniteSet(Owning') /\ Cardinality(Owning') = Cardinality(Owning) + 1
    BY <2>1, <1>1, WithElement DEF IInv, AllFinite
  <2>3. AllFinite'
    BY <2>2, <1>2 DEF IInv, AllFinite
  <2>4. m_count' = m_count - 1 /\ m_count > 0
    BY <1>2, <1>7 DEF Free
  <2>5. Covered' /\ PermitsAccounted'
    BY <2>2, <2>4, <1>2, Sizes DEF IInv, Covered, PermitsAccounted
  <2>6. QED
    BY <2>3, <2>5, <1>5, <1>6 DEF IInv
<1>8. CASE ~Free
  <2>1. Owning' = Owning
    BY <1>1, <1>2, <1>4, <1>8, OwningAfter DEF IInv
  <2>2. UNCHANGED semaphore
    BY <1>2, <1>8 DEF semaphore
  <2>3. QED
    BY <2>1, <2>2, <1>2, <1>5, SameSemaphore DEF IInv, AllFinite
<1>9. QED
  BY <1>7, <1>8

(* async_acquire with a lock (acquire.hpp:29-34): a permit is taken from   *)
(* the counter for the handler, or owed to it.                             *)
LEMMA AsyncAcquireIInv ==
  ASSUME IInv, NEW h \in Handlers, AsyncAcquire(h)
  PROVE  IInv'
<1>1. /\ h \notin m_functions /\ h \notin posted
      /\ m_count' = m_count - 1
      /\ UNCHANGED <<called, lock, loose, extra>>
  BY DEF AsyncAcquire
<1>2. Owning' = Owning
  BY <1>1 DEF Owning, Owns, Exists
<1>3. IsFiniteSet(m_functions) /\ IsFiniteSet(posted) /\ IsFiniteSet(Owning)
  BY DEF IInv, AllFinite
<1>4. CASE m_count > 0
  <2>1. posted' = posted \cup {h} /\ m_functions' = m_functions
    BY <1>4 DEF AsyncAcquire
  <2>2. IsFiniteSet(posted') /\ Cardinality(posted') = Cardinality(posted) + 1
    BY <2>1, <1>1, <1>3, WithElement
  <2>3. TypeOK' /\ Apart' /\ AllFinite'
    BY <2>1, <2>2, <1>1, <1>2, <1>3 DEF IInv, TypeOK, Apart, AllFinite
  <2>4. Covered' /\ PermitsAccounted'
    BY <2>1, <2>2, <1>1, <1>2, <1>4, Sizes DEF IInv, Covered, PermitsAccounted
  <2>5. QED
    BY <2>3, <2>4 DEF IInv
<1>5. CASE ~(m_count > 0)
  <2>1. m_functions' = m_functions \cup {h} /\ posted' = posted
    BY <1>5 DEF AsyncAcquire
  <2>2. /\ IsFiniteSet(m_functions')
        /\ Cardinality(m_functions') = Cardinality(m_functions) + 1
    BY <2>1, <1>1, <1>3, WithElement
  <2>3. TypeOK' /\ Apart' /\ AllFinite'
    BY <2>1, <2>2, <1>1, <1>2, <1>3 DEF IInv, TypeOK, Apart, AllFinite
  <2>4. Covered' /\ PermitsAccounted'
    BY <2>1, <2>2, <1>1, <1>2, Sizes DEF IInv, Covered, PermitsAccounted
  <2>5. QED
    BY <2>3, <2>4 DEF IInv
<1>6. QED
  BY <1>4, <1>5

(* The handler gets its lock (acquire.hpp:21-23): the permit moves from it *)
(* to the lock.                                                            *)
LEMMA CallWithLockIInv ==
  ASSUME IInv, NEW h \in Handlers, NEW l \in Locks, CallWithLock(h, l)
  PROVE  IInv'
<1>1. /\ h \in posted
      /\ posted' = posted \ {h}
      /\ called' = called \cup {h}
      /\ Set(l, Adopted)
      /\ UNCHANGED <<m_count, m_functions, loose, extra>>
  BY DEF CallWithLock
<1>2. l \notin Owning
  BY DEF CallWithLock, Owning, Owns
<1>3. Adopted \in [m_sem : BOOLEAN, m_locked : BOOLEAN]
  BY DEF Adopted
<1>4. Adopted # NoLock /\ Adopted.m_sem /\ Adopted.m_locked
  BY <1>3, UniqueLockAssumption DEF Adopted
<1>5. Owning' = Owning \cup {l}
  BY <1>1, <1>4, OwningAfter DEF IInv
<1>6. IsFiniteSet(m_functions) /\ IsFiniteSet(posted) /\ IsFiniteSet(Owning)
  BY DEF IInv, AllFinite
<1>7. /\ IsFiniteSet(Owning') /\ Cardinality(Owning') = Cardinality(Owning) + 1
      /\ IsFiniteSet(posted') /\ Cardinality(posted') = Cardinality(posted) - 1
  BY <1>1, <1>2, <1>5, <1>6, WithElement
<1>8. TypeOK' /\ Apart' /\ AllFinite'
  BY <1>1, <1>3, <1>6, <1>7 DEF IInv, TypeOK, Apart, AllFinite, Set
<1>9. Covered' /\ PermitsAccounted'
  BY <1>1, <1>7, Sizes DEF IInv, Covered, PermitsAccounted
<1>10. QED
  BY <1>8, <1>9 DEF IInv

(* The lock forgets its permit (guard.hpp:55-58), which the program has to *)
(* give back.                                                              *)
LEMMA ReleaseIInv ==
  ASSUME IInv, NEW l \in Locks, Release(l)
  PROVE  IInv'
<1> DEFINE value == [lock[l] EXCEPT !.m_sem = FALSE]
<1>1. lock[l] \in [m_sem : BOOLEAN, m_locked : BOOLEAN]
  BY DEF Release, Exists, IInv, TypeOK
<1>2. value \in [m_sem : BOOLEAN, m_locked : BOOLEAN] /\ ~value.m_sem
  BY <1>1
<1>3. /\ Set(l, value)
      /\ loose' = IF Owns(l) THEN loose + 1 ELSE loose
      /\ UNCHANGED <<semaphore, called, extra>>
  BY DEF Release
<1> HIDE DEF value
<1>4. Owning' = Owning \ {l}
  BY <1>2, <1>3, OwningAfter DEF IInv
<1>5. l \in Owning <=> Owns(l)
  BY DEF Owning
<1>6. IsFiniteSet(Owning)
  BY DEF IInv, AllFinite
<1>7. /\ IsFiniteSet(Owning')
      /\ Cardinality(Owning') = IF l \in Owning THEN Cardinality(Owning) - 1
                                ELSE Cardinality(Owning)
  BY <1>4, <1>6, WithElement
<1>8. loose' \in Nat
  BY <1>3, Sizes
<1>9. TypeOK'
  BY <1>2, <1>3, <1>8 DEF IInv, TypeOK, Set, semaphore
<1>10. Cardinality(Owning') + loose' - extra' = Cardinality(Owning) + loose - extra
  <2>1. CASE Owns(l)
    BY <2>1, <1>3, <1>5, <1>7, Sizes
  <2>2. CASE ~Owns(l)
    BY <2>2, <1>3, <1>5, <1>7, Sizes
  <2>3. QED
    BY <2>1, <2>2
<1>11. QED
  BY <1>3, <1>7, <1>9, <1>10, SameSemaphore

(* The program gives permits back to the semaphore (semaphore.hpp:116).    *)
LEMMA ReturnLooseIInv ==
  ASSUME IInv, NEW update \in 1..loose, ReturnLoose(update)
  PROVE  IInv'
<1>1. /\ SemaphoreRelease(update)
      /\ loose' = loose - update
      /\ UNCHANGED <<called, lock, extra>>
  BY DEF ReturnLoose
<1>2. update \in Nat \ {0} /\ update <= loose
  BY Sizes
<1>3. Owning' = Owning
  BY <1>1 DEF Owning, Owns, Exists
<1>4. /\ m_count' \in Int /\ m_functions' \subseteq Handlers /\ posted' \subseteq Handlers
      /\ Apart'
      /\ IsFiniteSet(m_functions') /\ IsFiniteSet(posted')
      /\ Covered'
      /\ m_count' + Cardinality(m_functions') + Cardinality(posted')
           = m_count + Cardinality(m_functions) + Cardinality(posted) + update
  BY <1>1, <1>2, ReleaseAdds
<1>5. TypeOK' /\ AllFinite'
  BY <1>1, <1>2, <1>3, <1>4, Sizes DEF IInv, TypeOK, AllFinite
<1>6. Cardinality(m_functions') \in Nat /\ Cardinality(posted') \in Nat
  BY <1>4, FS_CardinalityType
<1>7. PermitsAccounted'
  BY <1>1, <1>2, <1>3, <1>4, <1>6, Sizes DEF IInv, PermitsAccounted
<1>8. QED
  BY <1>4, <1>5, <1>7 DEF IInv

(* unlock() and the destructor (guard.hpp:70-81): a lock that owns a       *)
(* permit gives it back and does not own one afterwards.                   *)
LEMMA GivesBack ==
  ASSUME IInv, NEW l \in Locks, NEW value,
         value \in [m_sem : BOOLEAN, m_locked : BOOLEAN] \cup {NoLock},
         ~(value # NoLock /\ value.m_sem /\ value.m_locked),
         IF Owns(l) THEN SemaphoreRelease(1) ELSE UNCHANGED semaphore,
         Set(l, value),
         UNCHANGED <<called, loose, extra>>
  PROVE  IInv'
<1>1. Owning' = Owning \ {l}
  BY OwningAfter DEF IInv
<1>2. l \in Owning <=> Owns(l)
  BY DEF Owning
<1>3. IsFiniteSet(Owning)
  BY DEF IInv, AllFinite
<1>4. lock' \in [Locks -> [m_sem : BOOLEAN, m_locked : BOOLEAN] \cup {NoLock}]
  BY DEF IInv, TypeOK, Set
<1>5. CASE Owns(l)
  <2>1. /\ m_count' \in Int /\ m_functions' \subseteq Handlers /\ posted' \subseteq Handlers
        /\ Apart'
        /\ IsFiniteSet(m_functions') /\ IsFiniteSet(posted')
        /\ Covered'
        /\ m_count' + Cardinality(m_functions') + Cardinality(posted')
             = m_count + Cardinality(m_functions) + Cardinality(posted) + 1
    BY <1>5, ReleaseAdds
  <2>2. IsFiniteSet(Owning') /\ Cardinality(Owning') = Cardinality(Owning) - 1
    BY <1>1, <1>2, <1>3, <1>5, WithElement
  <2>3. TypeOK' /\ AllFinite'
    BY <2>1, <2>2, <1>4 DEF IInv, TypeOK, AllFinite
  <2>4. Cardinality(m_functions') \in Nat /\ Cardinality(posted') \in Nat
    BY <2>1, FS_CardinalityType
  <2>5. PermitsAccounted'
    BY <2>1, <2>2, <2>4, Sizes DEF IInv, PermitsAccounted
  <2>6. QED
    BY <2>1, <2>3, <2>5 DEF IInv
<1>6. CASE ~Owns(l)
  <2>1. Owning' = Owning
    BY <1>1, <1>2, <1>6
  <2>2. UNCHANGED semaphore
    BY <1>6
  <2>3. TypeOK'
    BY <2>2, <1>4 DEF IInv, TypeOK, semaphore
  <2>4. QED
    BY <2>1, <2>2, <2>3, <1>3, SameSemaphore
<1>7. QED
  BY <1>5, <1>6

(* The copies the compiler adds (guard.hpp:83-86): copying an owning lock  *)
(* is counted in extra, and so is overwriting one.                         *)
LEMMA CopyIInv ==
  ASSUME IInv, NEW l \in Locks, NEW from \in Locks, l # from, Exists(from),
         Set(l, lock[from]),
         extra' = extra + Cardinality({from} \cap Owning) - Cardinality({l} \cap Owning),
         UNCHANGED <<semaphore, called, loose>>
  PROVE  IInv'
<1>1. lock[from] \in [m_sem : BOOLEAN, m_locked : BOOLEAN] \cup {NoLock}
  BY DEF IInv, TypeOK
<1>2. lock[from] # NoLock /\ lock[from].m_sem /\ lock[from].m_locked <=> from \in Owning
  BY Zenon DEF Owning, Owns, Exists
<1>3. IsFiniteSet(Owning)
  BY DEF IInv, AllFinite
<1>4. \A k \in Locks : /\ k \in Owning => Cardinality({k} \cap Owning) = 1
                       /\ k \notin Owning => Cardinality({k} \cap Owning) = 0
  <2> SUFFICES ASSUME NEW k \in Locks
               PROVE  /\ k \in Owning => Cardinality({k} \cap Owning) = 1
                      /\ k \notin Owning => Cardinality({k} \cap Owning) = 0
    OBVIOUS
  <2>1. ASSUME k \in Owning PROVE Cardinality({k} \cap Owning) = 1
    <3>1. {k} \cap Owning = {k}
      BY <2>1
    <3>2. QED
      BY <3>1, FS_Singleton, Zenon
  <2>2. ASSUME k \notin Owning PROVE Cardinality({k} \cap Owning) = 0
    <3>1. {k} \cap Owning = {}
      BY <2>2
    <3>2. QED
      BY <3>1, FS_EmptySet, Zenon
  <2>3. QED
    BY <2>1, <2>2
<1>5. extra' \in Int
  BY <1>4, Sizes
<1>6. TypeOK'
  BY <1>1, <1>5 DEF IInv, TypeOK, Set, semaphore
<1>7. CASE from \in Owning
  <2>1. Owning' = Owning \cup {l}
    BY <1>2, <1>7, OwningAfter DEF IInv
  <2>2. /\ IsFiniteSet(Owning')
        /\ Cardinality(Owning') = IF l \in Owning THEN Cardinality(Owning)
                                  ELSE Cardinality(Owning) + 1
    BY <2>1, <1>3, WithElement
  <2>3. Cardinality(Owning') + loose' - extra' = Cardinality(Owning) + loose - extra
    BY <2>2, <1>4, <1>7, Sizes
  <2>4. QED
    BY <2>2, <2>3, <1>6, SameSemaphore
<1>8. CASE from \notin Owning
  <2>1. Owning' = Owning \ {l}
    BY <1>2, <1>8, OwningAfter DEF IInv
  <2>2. /\ IsFiniteSet(Owning')
        /\ Cardinality(Owning') = IF l \in Owning THEN Cardinality(Owning) - 1
                                  ELSE Cardinality(Owning)
    BY <2>1, <1>3, WithElement
  <2>3. Cardinality(Owning') + loose' - extra' = Cardinality(Owning) + loose - extra
    BY <2>2, <1>4, <1>8, Sizes
  <2>4. QED
    BY <2>2, <2>3, <1>6, SameSemaphore
<1>9. QED
  BY <1>7, <1>8

(* Every step keeps IInv. *)
LEMMA StepIInv == IInv /\ [Next]_vars => IInv'
<1> SUFFICES ASSUME IInv, [Next]_vars PROVE IInv'
  OBVIOUS
<1>1. ASSUME NEW h \in Handlers, AsyncAcquire(h) PROVE IInv'
  BY <1>1, AsyncAcquireIInv
<1>2. ASSUME NEW h \in Handlers, NEW l \in Locks, CallWithLock(h, l) PROVE IInv'
  BY <1>2, CallWithLockIInv
<1>3. ASSUME NEW l \in Locks, ConstructDefault(l) \/ ConstructDefer(l) PROVE IInv'
  BY <1>3, ConstructIInv
<1>4. ASSUME NEW l \in Locks, ConstructTry(l) PROVE IInv'
  BY <1>4, ConstructTryIInv
<1>5. ASSUME NEW l \in Locks, Release(l) PROVE IInv'
  BY <1>5, ReleaseIInv
<1>6. ASSUME NEW l \in Locks, Unlock(l) PROVE IInv'
  <2>1. lock[l] \in [m_sem : BOOLEAN, m_locked : BOOLEAN]
    BY <1>6 DEF Unlock, Exists, IInv, TypeOK
  <2>2. Unlocked(l) \in [m_sem : BOOLEAN, m_locked : BOOLEAN]
    BY <2>1 DEF Unlocked
  <2>3. ~(Unlocked(l) # NoLock /\ Unlocked(l).m_sem /\ Unlocked(l).m_locked)
    <3>1. CASE Owns(l)
      BY <3>1, <2>1 DEF Unlocked
    <3>2. CASE ~Owns(l)
      BY <3>2, Zenon DEF Unlocked, Owns, Exists
    <3>3. QED
      BY <3>1, <3>2
  <2>4. /\ IF Owns(l) THEN SemaphoreRelease(1) ELSE UNCHANGED semaphore
        /\ Set(l, Unlocked(l))
        /\ UNCHANGED <<called, loose, extra>>
    BY <1>6 DEF Unlock
  <2>5. QED
    BY <2>2, <2>3, <2>4, GivesBack
<1>7. ASSUME NEW l \in Locks, Destruct(l) PROVE IInv'
  <2>1. /\ IF Owns(l) THEN SemaphoreRelease(1) ELSE UNCHANGED semaphore
        /\ Set(l, NoLock)
        /\ UNCHANGED <<called, loose, extra>>
    BY <1>7 DEF Destruct
  <2>2. QED
    BY <2>1, GivesBack
<1>8. ASSUME NEW l \in Locks, NEW from \in Locks, CopyConstruct(l, from) PROVE IInv'
  <2>1. l # from /\ l \notin Owning
    BY <1>8 DEF CopyConstruct, Owning, Owns, Exists
  <2>2. {l} \cap Owning = {} /\ Cardinality({}) = 0
    BY <2>1, FS_EmptySet
  <2>3. Cardinality({l} \cap Owning) = 0
    BY <2>2, Zenon
  <2>4. extra' = IF Owns(from) THEN extra + 1 ELSE extra
    BY <1>8 DEF CopyConstruct
  <2>5. extra' = extra + Cardinality({from} \cap Owning) - Cardinality({l} \cap Owning)
    <3>1. CASE Owns(from)
      <4>1. {from} \cap Owning = {from}
        BY <3>1 DEF Owning
      <4>2. Cardinality({from} \cap Owning) = 1
        BY <4>1, FS_Singleton, Zenon
      <4>3. QED
        BY <4>2, <3>1, <2>3, <2>4, Sizes
    <3>2. CASE ~Owns(from)
      <4>1. {from} \cap Owning = {}
        BY <3>2 DEF Owning
      <4>2. Cardinality({from} \cap Owning) = 0
        BY <4>1, FS_EmptySet, Zenon
      <4>3. QED
        BY <4>2, <3>2, <2>3, <2>4, Sizes
    <3>3. QED
      BY <3>1, <3>2
  <2>6. Exists(from) /\ Set(l, lock[from]) /\ UNCHANGED <<semaphore, called, loose>>
    BY <1>8 DEF CopyConstruct
  <2>7. QED
    BY <2>1, <2>5, <2>6, CopyIInv
<1>9. ASSUME NEW l \in Locks, NEW from \in Locks, CopyAssign(l, from) PROVE IInv'
  BY <1>9, CopyIInv DEF CopyAssign
<1>10. ASSUME NEW update \in 1..loose, ReturnLoose(update) PROVE IInv'
  BY <1>10, ReturnLooseIInv
<1>11. CASE UNCHANGED vars
  BY <1>11 DEF vars, semaphore, IInv, TypeOK, Apart, AllFinite, Covered,
               PermitsAccounted, Owning, Owns, Exists
<1>12. QED
  BY <1>1, <1>2, <1>3, <1>4, <1>5, <1>6, <1>7, <1>8, <1>9, <1>10, <1>11 DEF Next

(* The inductive invariant holds in every state. *)
LEMMA Inductive == Spec => []IInv
BY InitIInv, StepIInv, PTL DEF Spec

-----------------------------------------------------------------------------
(* unique_lock and async_acquire neither make nor lose a permit, but for   *)
(* the copies the compiler adds (guard.hpp:32-81, acquire.hpp:21-23).      *)
THEOREM EveryPermitAccounted == Spec => []PermitsAccounted
<1>1. IInv => PermitsAccounted
  BY DEF IInv
<1>2. QED
  BY <1>1, Inductive, PTL

(* Locks exclude each other, up to the permits that copies of owning locks *)
(* have made (guard.hpp:60-81, semaphore.hpp:84, 100, 118-119).            *)
THEOREM LocksExclude == Spec => []ExcludesOthers
<1>1. IInv => ExcludesOthers
  BY Sizes DEF IInv, ExcludesOthers, PermitsAccounted, Covered
<1>2. QED
  BY <1>1, Inductive, PTL
=============================================================================
