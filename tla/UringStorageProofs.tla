------------------------- MODULE UringStorageProofs -------------------------
(***************************************************************************)
(* Theorems about UringStorage, for any number of storages, results and    *)
(* rings.                                                                  *)
(*                                                                         *)
(* The argument: with the types, OneHolder is inductive as it stands.  A   *)
(* step that takes a ring out of an object puts it into another, closes it *)
(* or notes it as dropped, and the object is the only one that had it.     *)
(***************************************************************************)
EXTENDS UringStorage, TLAPS

IInv == TypeOK /\ OneHolder

Live(x) == x \in open \ dropped

(* Who has the ring x is s and nobody else; r and nobody else; or nobody. *)
OnlyStorage(s, x) ==
  /\ \A u \in Storages : InStorage(u, x) <=> u = s
  /\ \A q \in Results : ~InResult(q, x)

OnlyResult(r, x) ==
  /\ \A u \in Storages : ~InStorage(u, x)
  /\ \A q \in Results : InResult(q, x) <=> q = r

Nobody(x) ==
  /\ \A u \in Storages : ~InStorage(u, x)
  /\ \A q \in Results : ~InResult(q, x)

(* OneHolder for one ring, as these three cases. *)
HolderOf(x) ==
  \/ Live(x) /\ \E s \in Storages : OnlyStorage(s, x)
  \/ Live(x) /\ \E r \in Results : OnlyResult(r, x)
  \/ ~Live(x) /\ Nobody(x)

(* The two ways to say that a ring has one holder agree. *)
LEMMA HolderCases == OneHolder <=> \A x \in Rings : HolderOf(x)
<1>1. ASSUME OneHolder, NEW x \in Rings PROVE HolderOf(x)
  <2>1. CASE \E s \in Storages : InStorage(s, x)
    BY <1>1, <2>1 DEF OneHolder, HolderOf, OnlyStorage, Live
  <2>2. CASE \E r \in Results : InResult(r, x)
    BY <1>1, <2>2 DEF OneHolder, HolderOf, OnlyResult, Live
  <2>3. CASE Nobody(x)
    BY <1>1, <2>3 DEF OneHolder, HolderOf, Nobody, Live
  <2>4. QED
    BY <2>1, <2>2, <2>3 DEF Nobody
<1>2. ASSUME \A x \in Rings : HolderOf(x) PROVE OneHolder
  <2>1. ASSUME NEW x \in Rings
        PROVE  /\ x \in open \ dropped <=> \/ \E s \in Storages : InStorage(s, x)
                                           \/ \E r \in Results : InResult(r, x)
               /\ \A s, u \in Storages : InStorage(s, x) /\ InStorage(u, x) => s = u
               /\ \A r, q \in Results : InResult(r, x) /\ InResult(q, x) => r = q
               /\ \A s \in Storages, r \in Results : ~(InStorage(s, x) /\ InResult(r, x))
    <3>1. CASE Live(x) /\ \E s \in Storages : OnlyStorage(s, x)
      BY <3>1 DEF OnlyStorage, Live
    <3>2. CASE Live(x) /\ \E r \in Results : OnlyResult(r, x)
      BY <3>2 DEF OnlyResult, Live
    <3>3. CASE ~Live(x) /\ Nobody(x)
      BY <3>3 DEF Nobody, Live
    <3>4. QED
      BY <1>2, <3>1, <3>2, <3>3 DEF HolderOf
  <2>2. QED
    BY <2>1 DEF OneHolder
<1>3. QED
  BY <1>1, <1>2

(* A step that changes neither who has the ring x nor whether it is open. *)
LEMMA SameHolder ==
  ASSUME NEW x, HolderOf(x), Live(x)' <=> Live(x),
         \A s \in Storages : InStorage(s, x)' <=> InStorage(s, x),
         \A r \in Results : InResult(r, x)' <=> InResult(r, x)
  PROVE  HolderOf(x)'
<1>1. CASE Live(x) /\ \E s \in Storages : OnlyStorage(s, x)
  <2>1. PICK s \in Storages : OnlyStorage(s, x)
    BY <1>1
  <2>2. OnlyStorage(s, x)'
    BY <2>1, Zenon DEF OnlyStorage
  <2>3. QED
    BY <1>1, <2>2, Zenon DEF HolderOf
<1>2. CASE Live(x) /\ \E r \in Results : OnlyResult(r, x)
  <2>1. PICK r \in Results : OnlyResult(r, x)
    BY <1>2
  <2>2. OnlyResult(r, x)'
    BY <2>1, Zenon DEF OnlyResult
  <2>3. QED
    BY <1>2, <2>2, Zenon DEF HolderOf
<1>3. CASE ~Live(x) /\ Nobody(x)
  <2>1. Nobody(x)'
    BY <1>3, Zenon DEF Nobody
  <2>2. QED
    BY <1>3, <2>1, Zenon DEF HolderOf
<1>4. QED
  BY <1>1, <1>2, <1>3 DEF HolderOf

(* Who has a ring is the only one who has it. *)
LEMMA ResultHas ==
  ASSUME NEW x, HolderOf(x), NEW r \in Results, InResult(r, x)
  PROVE  Live(x) /\ OnlyResult(r, x)
<1>1. ~Nobody(x) /\ \A s \in Storages : ~OnlyStorage(s, x)
  BY Zenon DEF Nobody, OnlyStorage
<1>2. PICK q \in Results : Live(x) /\ OnlyResult(q, x)
  BY <1>1, Zenon DEF HolderOf
<1>3. q = r
  BY <1>2, Zenon DEF OnlyResult
<1>4. QED
  BY <1>2, <1>3, Zenon

LEMMA StorageHas ==
  ASSUME NEW x, HolderOf(x), NEW s \in Storages, InStorage(s, x)
  PROVE  Live(x) /\ OnlyStorage(s, x)
<1>1. ~Nobody(x) /\ \A r \in Results : ~OnlyResult(r, x)
  BY Zenon DEF Nobody, OnlyResult
<1>2. PICK u \in Storages : Live(x) /\ OnlyStorage(u, x)
  BY <1>1, Zenon DEF HolderOf
<1>3. u = s
  BY <1>2, Zenon DEF OnlyStorage
<1>4. QED
  BY <1>2, <1>3, Zenon

(* Writing one result, or one storage, leaves the others alone. *)
LEMMA ResultWritten ==
  ASSUME TypeOK, NEW r \in Results, NEW value, result' = [result EXCEPT ![r] = value]
  PROVE  /\ \A q \in Results, x \in Rings : q # r => (InResult(q, x)' <=> InResult(q, x))
         /\ \A x \in Rings : InResult(r, x)' <=> value # Absent /\ value.second = x
<1>1. result'[r] = value /\ \A q \in Results : q # r => result'[q] = result[q]
  BY DEF TypeOK
<1>2. QED
  BY <1>1, Zenon DEF InResult

LEMMA StorageWritten ==
  ASSUME TypeOK, NEW s \in Storages, NEW value, storage' = [storage EXCEPT ![s] = value]
  PROVE  /\ \A u \in Storages, x \in Rings : u # s => (InStorage(u, x)' <=> InStorage(u, x))
         /\ \A x \in Rings : InStorage(s, x)' <=> value = x
BY DEF TypeOK, InStorage

(* Nothing exists at first. *)
LEMMA InitIInv == Init => IInv
<1> SUFFICES ASSUME Init PROVE IInv
  OBVIOUS
<1>1. TypeOK
  BY DEF Init, TypeOK
<1>2. OneHolder
  BY StorageAssumption DEF Init, OneHolder, InStorage, InResult
<1>3. QED
  BY <1>1, <1>2 DEF IInv

(* create (uring_service.hpp:57-65): a new ring, in a new result. *)
LEMMA CreateIInv ==
  ASSUME IInv, UNCHANGED NDEBUG, NEW r \in Results, NEW ring \in Rings, Create(r, ring)
  PROVE  IInv'
<1>1. TypeOK'
  BY DEF IInv, Create, TypeOK, FromValue
<1>2. /\ ring \notin open /\ ring \notin dropped
      /\ open' = open \cup {ring}
      /\ UNCHANGED <<storage, dropped>>
  BY DEF IInv, Create, TypeOK
<1>3. FromValue(ring) # Absent /\ FromValue(ring).second = ring
  BY StorageAssumption DEF FromValue
<1>4. /\ \A q \in Results, x \in Rings : q # r => (InResult(q, x)' <=> InResult(q, x))
      /\ \A x \in Rings : InResult(r, x)' <=> x = ring
  BY <1>3, ResultWritten, Zenon DEF IInv, Create
<1>5. \A x \in Rings : ~InResult(r, x)
  BY DEF Create, InResult
<1>6. \A s \in Storages, x \in Rings : InStorage(s, x)' <=> InStorage(s, x)
  BY <1>2, Zenon DEF InStorage
<1>7. \A x \in Rings : HolderOf(x)
  BY HolderCases DEF IInv
<1>8. ASSUME NEW x \in Rings, x # ring PROVE HolderOf(x)'
  <2>1. Live(x)' <=> Live(x)
    BY <1>2, <1>8 DEF Live
  <2>2. \A q \in Results : InResult(q, x)' <=> InResult(q, x)
    BY <1>4, <1>5, <1>8, Zenon
  <2>3. QED
    BY <1>6, <1>7, <2>1, <2>2, SameHolder, Zenon
<1>9. HolderOf(ring)'
  <2>1. ~Live(ring) /\ Live(ring)'
    BY <1>2 DEF Live
  <2>2. Nobody(ring)
    BY <1>7, <2>1, Zenon DEF HolderOf
  <2>3. OnlyResult(r, ring)'
    BY <1>4, <1>6, <2>2, Zenon DEF OnlyResult, Nobody
  <2>4. QED
    BY <2>1, <2>3, Zenon DEF HolderOf
<1>10. (\A x \in Rings : HolderOf(x))'
  BY <1>8, <1>9, Zenon
<1>11. OneHolder'
  BY <1>10, HolderCases, PTL
<1>12. QED
  BY <1>1, <1>11 DEF IInv


(* A step after which every ring is where it was. *)
LEMMA NothingMoves ==
  ASSUME IInv, TypeOK', UNCHANGED <<open, dropped>>,
         \A s \in Storages, x \in Rings : InStorage(s, x)' <=> InStorage(s, x),
         \A r \in Results, x \in Rings : InResult(r, x)' <=> InResult(r, x)
  PROVE  IInv'
<1>1. TypeOK'
  OBVIOUS
<1>2. \A x \in Rings : HolderOf(x)
  BY HolderCases DEF IInv
<1>3. ASSUME NEW x \in Rings PROVE HolderOf(x)'
  <2>1. Live(x)' <=> Live(x)
    BY DEF Live
  <2>2. QED
    BY <1>2, <2>1, SameHolder, Zenon
<1>4. (\A x \in Rings : HolderOf(x))'
  BY <1>3, Zenon
<1>5. OneHolder'
  BY <1>4, HolderCases, PTL
<1>6. QED
  BY <1>1, <1>5 DEF IInv

(* uring_context_storage(): a storage without a ring. *)
LEMMA DefaultConstructIInv ==
  ASSUME IInv, UNCHANGED NDEBUG, NEW s \in Storages, DefaultConstruct(s)
  PROVE  IInv'
<1>1. TypeOK'
  BY DEF IInv, DefaultConstruct, TypeOK
<1>2. \A x \in Rings : ~InStorage(s, x) /\ NoRing # x
  BY StorageAssumption DEF DefaultConstruct, InStorage
<1>3. \A u \in Storages, x \in Rings : InStorage(u, x)' <=> InStorage(u, x)
  BY <1>2, StorageWritten, Zenon DEF IInv, DefaultConstruct
<1>4. \A r \in Results, x \in Rings : InResult(r, x)' <=> InResult(r, x)
  BY Zenon DEF DefaultConstruct, InResult
<1>5. QED
  BY <1>1, <1>3, <1>4, NothingMoves DEF DefaultConstruct

(* create without a ring (uring_service.hpp:62-64): a result with an error. *)
LEMMA CreateFailsIInv ==
  ASSUME IInv, UNCHANGED NDEBUG, NEW r \in Results, CreateFails(r)
  PROVE  IInv'
<1>1. TypeOK'
  BY DEF IInv, CreateFails, TypeOK, FromError
<1>2. \A x \in Rings : ~InResult(r, x) /\ FromError(Error).second # x
  BY StorageAssumption DEF CreateFails, InResult, FromError
<1>3. \A q \in Results, x \in Rings : InResult(q, x)' <=> InResult(q, x)
  BY <1>2, ResultWritten, Zenon DEF IInv, CreateFails
<1>4. \A s \in Storages, x \in Rings : InStorage(s, x)' <=> InStorage(s, x)
  BY Zenon DEF CreateFails, InStorage
<1>5. QED
  BY <1>1, <1>3, <1>4, NothingMoves DEF CreateFails

(* std::move(result).value() (result.hpp:79-87): what the result has moves *)
(* to the new storage.                                                     *)
LEMMA TakeValueIInv ==
  ASSUME IInv, UNCHANGED NDEBUG, NEW s \in Storages, NEW r \in Results, TakeValue(s, r)
  PROVE  IInv'
<1> DEFINE left == [result[r] EXCEPT !.second = NoRing]
<1>1. TypeOK'
  BY DEF IInv, TakeValue, TypeOK, Exchanged
<1>2. /\ storage[s] = Absent /\ result[r] # Absent
      /\ storage' = [storage EXCEPT ![s] = result[r].second]
      /\ UNCHANGED <<open, dropped>>
  BY DEF TakeValue
<1>3. result' = [result EXCEPT ![r] = left] /\ left.second = NoRing
  BY <1>2 DEF TakeValue, Exchanged, IInv, TypeOK
<1> HIDE DEF left
<1>4. \A x \in Rings : ~InStorage(s, x) /\ NoRing # x
  BY <1>2, StorageAssumption DEF InStorage
<1>5. \A x \in Rings : InResult(r, x) <=> result[r].second = x
  BY <1>2, Zenon DEF InResult
<1>6. /\ \A u \in Storages, x \in Rings : u # s => (InStorage(u, x)' <=> InStorage(u, x))
      /\ \A x \in Rings : InStorage(s, x)' <=> result[r].second = x
  BY <1>2, StorageWritten, Zenon DEF IInv
<1>7. /\ \A q \in Results, x \in Rings : q # r => (InResult(q, x)' <=> InResult(q, x))
      /\ \A x \in Rings : ~InResult(r, x)'
  BY <1>3, <1>4, ResultWritten, Zenon DEF IInv
<1>8. \A x \in Rings : HolderOf(x) /\ (Live(x)' <=> Live(x))
  BY <1>2, HolderCases DEF IInv, Live
<1>9. ASSUME NEW x \in Rings PROVE HolderOf(x)'
  <2>1. CASE InResult(r, x)
    <3>1. Live(x) /\ OnlyResult(r, x)
      BY <1>8, <2>1, ResultHas
    <3>2. OnlyStorage(s, x)'
      BY <3>1, <2>1, <1>5, <1>6, <1>7, Zenon DEF OnlyResult, OnlyStorage
    <3>3. QED
      BY <3>1, <3>2, <1>8, Zenon DEF HolderOf
  <2>2. CASE ~InResult(r, x)
    <3>1. /\ \A u \in Storages : InStorage(u, x)' <=> InStorage(u, x)
          /\ \A q \in Results : InResult(q, x)' <=> InResult(q, x)
      BY <2>2, <1>4, <1>5, <1>6, <1>7, Zenon
    <3>2. QED
      BY <3>1, <1>8, SameHolder, Zenon
  <2>3. QED
    BY <2>1, <2>2
<1>10. (\A x \in Rings : HolderOf(x))'
  BY <1>9, Zenon
<1>11. OneHolder'
  BY <1>10, HolderCases, PTL
<1>12. QED
  BY <1>1, <1>11 DEF IInv

(* ~result (result.hpp:165-170): the ring is dropped. *)
LEMMA DestroyResultIInv ==
  ASSUME IInv, UNCHANGED NDEBUG, NEW r \in Results, DestroyResult(r)
  PROVE  IInv'
<1>1. TypeOK'
  <2>1. \A x \in Rings : InResult(r, x) => x \in used
    <3> SUFFICES ASSUME NEW x \in Rings, InResult(r, x) PROVE x \in used
      OBVIOUS
    <3>1. x \in open
      BY Zenon DEF IInv, OneHolder
    <3>2. QED
      BY <3>1 DEF IInv, TypeOK
  <2>2. Forgotten(r) \subseteq used
    BY <2>1 DEF Forgotten, InResult, DestroyResult
  <2>3. QED
    BY <2>2 DEF IInv, DestroyResult, TypeOK
<1>2. /\ result[r] # Absent
      /\ result' = [result EXCEPT ![r] = Absent]
      /\ dropped' = dropped \cup Forgotten(r)
      /\ UNCHANGED <<storage, open>>
  BY DEF DestroyResult
<1>3. \A x \in Rings : InResult(r, x) <=> x \in Forgotten(r)
  BY <1>2 DEF InResult, Forgotten
<1>4. /\ \A q \in Results, x \in Rings : q # r => (InResult(q, x)' <=> InResult(q, x))
      /\ \A x \in Rings : ~InResult(r, x)'
  BY <1>2, ResultWritten, Zenon DEF IInv
<1>5. \A s \in Storages, x \in Rings : InStorage(s, x)' <=> InStorage(s, x)
  BY <1>2, Zenon DEF InStorage
<1>6. \A x \in Rings : HolderOf(x)
  BY HolderCases DEF IInv
<1>7. ASSUME NEW x \in Rings PROVE HolderOf(x)'
  <2>1. CASE InResult(r, x)
    <3>1. OnlyResult(r, x)
      BY <1>6, <2>1, ResultHas
    <3>2. Nobody(x)'
      BY <3>1, <1>4, <1>5, Zenon DEF OnlyResult, Nobody
    <3>3. ~Live(x)'
      BY <2>1, <1>2, <1>3 DEF Live
    <3>4. QED
      BY <3>2, <3>3, Zenon DEF HolderOf
  <2>2. CASE ~InResult(r, x)
    <3>1. Live(x)' <=> Live(x)
      BY <2>2, <1>2, <1>3 DEF Live
    <3>2. \A q \in Results : InResult(q, x)' <=> InResult(q, x)
      BY <2>2, <1>4, Zenon
    <3>3. QED
      BY <3>1, <3>2, <1>5, <1>6, SameHolder, Zenon
  <2>3. QED
    BY <2>1, <2>2
<1>8. (\A x \in Rings : HolderOf(x))'
  BY <1>7, Zenon
<1>9. OneHolder'
  BY <1>8, HolderCases, PTL
<1>10. QED
  BY <1>1, <1>9 DEF IInv

(* result(result &&) (result.hpp:147-154): a result with an error hands    *)
(* its value on, one without keeps it.                                     *)
LEMMA MoveResultIInv ==
  ASSUME IInv, UNCHANGED NDEBUG, NEW r \in Results, NEW from \in Results, MoveResult(r, from)
  PROVE  IInv'
<1> DEFINE old == result[from]
           left == [old EXCEPT !.second = NoRing]
<1>2. /\ result[r] = Absent /\ old # Absent /\ r # from
      /\ UNCHANGED <<storage, open, used, dropped, status>>
  BY DEF MoveResult
<1>3. old \in [first : {0, Error}, second : Rings \cup {NoRing, Garbage}]
  BY <1>2 DEF IInv, TypeOK
<1>4. \A s \in Storages, x \in Rings : InStorage(s, x)' <=> InStorage(s, x)
  BY <1>2, Zenon DEF InStorage
<1>5. \A x \in Rings : ~InResult(r, x) /\ (InResult(from, x) <=> old.second = x)
  BY <1>2, Zenon DEF InResult
<1>6. \A x \in Rings : HolderOf(x) /\ (Live(x)' <=> Live(x))
  BY <1>2, HolderCases DEF IInv, Live
<1>7. CASE HasValue(old)
  <2>1. result' = [result EXCEPT ![r] = old, ![from] = left]
    BY <1>7 DEF MoveResult, ResultMoved, ResultLeft, Exchanged
  <2>2. left \in [first : {0, Error}, second : {NoRing}]
    BY <1>3
  <2>3. left # Absent /\ left.second = NoRing
    BY <2>2, StorageAssumption
  <2>4. TypeOK'
    BY <2>1, <2>2, <1>2, <1>3 DEF IInv, TypeOK
  <2> HIDE DEF old, left
  <2>5. /\ result'[r] = old /\ result'[from] = left
        /\ \A q \in Results \ {r, from} : result'[q] = result[q]
    BY <2>1, <1>2 DEF IInv, TypeOK
  <2>6. /\ \A x \in Rings : InResult(r, x)' <=> old.second = x
        /\ \A x \in Rings : InResult(from, x)' <=> NoRing = x
        /\ \A q \in Results \ {r, from}, x \in Rings : InResult(q, x)' <=> InResult(q, x)
    BY <2>3, <2>5, <1>2, Zenon DEF InResult
  <2>7. \A x \in Rings : NoRing # x
    BY StorageAssumption
  <2>8. ASSUME NEW x \in Rings PROVE HolderOf(x)'
    <3>1. CASE InResult(from, x)
      <4>1. Live(x) /\ OnlyResult(from, x)
        BY <3>1, <1>6, ResultHas
      <4>2. OnlyResult(r, x)'
        BY <4>1, <3>1, <2>6, <2>7, <1>2, <1>4, <1>5, Zenon DEF OnlyResult
      <4>3. QED
        BY <4>1, <4>2, <1>6, Zenon DEF HolderOf
    <3>2. CASE ~InResult(from, x)
      <4>1. \A q \in Results : InResult(q, x)' <=> InResult(q, x)
        BY <3>2, <2>6, <2>7, <1>5, Zenon
      <4>2. QED
        BY <4>1, <1>4, <1>6, SameHolder, Zenon
    <3>3. QED
      BY <3>1, <3>2
  <2>9. (\A x \in Rings : HolderOf(x))'
    BY <2>8, Zenon
  <2>10. OneHolder'
    BY <2>9, HolderCases, PTL
  <2>11. QED
    BY <2>4, <2>10 DEF IInv
<1>8. CASE ~HasValue(old)
  <2>1. result' = [result EXCEPT ![r] = FromError(old.first), ![from] = old]
    BY <1>8 DEF MoveResult, ResultMoved, ResultLeft
  <2>2. result' = [result EXCEPT ![r] = FromError(old.first)]
    BY <2>1, <1>2 DEF IInv, TypeOK
  <2>3. FromError(old.first) \in [first : {0, Error}, second : {Garbage}]
    BY <1>3 DEF FromError
  <2>4. TypeOK'
    BY <2>2, <2>3, <1>2 DEF IInv, TypeOK
  <2>5. \A x \in Rings : FromError(old.first).second # x
    BY <2>3, StorageAssumption
  <2>6. \A q \in Results, x \in Rings : InResult(q, x)' <=> InResult(q, x)
    <3>1. /\ \A q \in Results, x \in Rings : q # r => (InResult(q, x)' <=> InResult(q, x))
          /\ \A x \in Rings : InResult(r, x)' => FromError(old.first).second = x
      BY <2>2, ResultWritten DEF IInv
    <3>2. \A x \in Rings : ~InResult(r, x)' /\ ~InResult(r, x)
      BY <3>1, <2>5, <1>5, Zenon
    <3>3. QED
      BY <3>1, <3>2, Zenon
  <2>7. QED
    BY <2>4, <2>6, <1>2, <1>4, NothingMoves
<1>9. QED
  BY <1>7, <1>8

(* The move constructor (uring_service.hpp:89-92). *)
LEMMA MoveConstructIInv ==
  ASSUME IInv, UNCHANGED NDEBUG, NEW s \in Storages, NEW from \in Storages,
         MoveConstruct(s, from)
  PROVE  IInv'
<1>1. TypeOK'
  BY DEF IInv, MoveConstruct, TypeOK, Exchanged
<1>2. /\ s # from
      /\ storage'[s] = storage[from] /\ storage'[from] = NoRing
      /\ \A u \in Storages \ {s, from} : storage'[u] = storage[u]
      /\ UNCHANGED <<result, open, dropped>>
  BY DEF IInv, MoveConstruct, TypeOK, Exchanged
<1>3. \A x \in Rings : ~InStorage(s, x) /\ NoRing # x
  BY StorageAssumption DEF MoveConstruct, InStorage
<1>4. /\ \A x \in Rings : InStorage(s, x)' <=> InStorage(from, x)
      /\ \A x \in Rings : ~InStorage(from, x)'
      /\ \A u \in Storages \ {s, from}, x \in Rings : InStorage(u, x)' <=> InStorage(u, x)
  BY <1>2, <1>3, Zenon DEF InStorage
<1>5. \A r \in Results, x \in Rings : InResult(r, x)' <=> InResult(r, x)
  BY <1>2, Zenon DEF InResult
<1>6. \A x \in Rings : HolderOf(x) /\ (Live(x)' <=> Live(x))
  BY <1>2, HolderCases DEF IInv, Live
<1>7. ASSUME NEW x \in Rings PROVE HolderOf(x)'
  <2>1. CASE InStorage(from, x)
    <3>1. Live(x) /\ OnlyStorage(from, x)
      BY <2>1, <1>6, StorageHas
    <3>2. OnlyStorage(s, x)'
      BY <3>1, <2>1, <1>2, <1>4, <1>5, Zenon DEF OnlyStorage
    <3>3. QED
      BY <3>1, <3>2, <1>6, Zenon DEF HolderOf
  <2>2. CASE ~InStorage(from, x)
    <3>1. \A u \in Storages : InStorage(u, x)' <=> InStorage(u, x)
      BY <2>2, <1>3, <1>4, Zenon
    <3>2. QED
      BY <3>1, <1>5, <1>6, SameHolder, Zenon
  <2>3. QED
    BY <2>1, <2>2
<1>8. (\A x \in Rings : HolderOf(x))'
  BY <1>7, Zenon
<1>9. OneHolder'
  BY <1>8, HolderCases, PTL
<1>10. QED
  BY <1>1, <1>9 DEF IInv

(* The move assignment (uring_service.hpp:99-106): the ring that the       *)
(* storage had is closed, and it is not the one it takes.                  *)
LEMMA MoveAssignIInv ==
  ASSUME IInv, UNCHANGED NDEBUG, NEW s \in Storages, NEW from \in Storages,
         MoveAssign(s, from), storage[s] # NoRing
  PROVE  IInv'
<1>1. TypeOK'
  BY DEF IInv, MoveAssign, TypeOK, Exchanged
<1>2. /\ s # from /\ storage[s] \in Rings
      /\ storage'[s] = storage[from] /\ storage'[from] = NoRing
      /\ \A u \in Storages \ {s, from} : storage'[u] = storage[u]
      /\ open' = open \ {storage[s]}
      /\ UNCHANGED <<result, dropped>>
  BY DEF IInv, MoveAssign, TypeOK, Exchanged, Replaced
<1>3. \A x \in Rings : NoRing # x
  BY StorageAssumption
<1>4. /\ \A x \in Rings : InStorage(s, x)' <=> InStorage(from, x)
      /\ \A x \in Rings : ~InStorage(from, x)'
      /\ \A u \in Storages \ {s, from}, x \in Rings : InStorage(u, x)' <=> InStorage(u, x)
      /\ \A x \in Rings : InStorage(s, x) <=> x = storage[s]
  BY <1>2, <1>3, Zenon DEF InStorage
<1>5. \A r \in Results, x \in Rings : InResult(r, x)' <=> InResult(r, x)
  BY <1>2, Zenon DEF InResult
<1>6. \A x \in Rings : HolderOf(x)
  BY HolderCases DEF IInv
<1>7. ASSUME NEW x \in Rings PROVE HolderOf(x)'
  <2>1. CASE InStorage(s, x)
    <3>1. OnlyStorage(s, x)
      BY <2>1, <1>6, StorageHas
    <3>2. Nobody(x)'
      BY <3>1, <1>2, <1>4, <1>5, Zenon DEF OnlyStorage, Nobody
    <3>3. ~Live(x)'
      BY <2>1, <1>2, <1>4 DEF Live
    <3>4. QED
      BY <3>2, <3>3, Zenon DEF HolderOf
  <2>2. CASE ~InStorage(s, x) /\ InStorage(from, x)
    <3>1. Live(x) /\ OnlyStorage(from, x)
      BY <2>2, <1>6, StorageHas
    <3>2. OnlyStorage(s, x)'
      BY <3>1, <2>2, <1>2, <1>4, <1>5, Zenon DEF OnlyStorage
    <3>3. Live(x)'
      BY <3>1, <2>2, <1>2, <1>4 DEF Live
    <3>4. QED
      BY <3>2, <3>3, Zenon DEF HolderOf
  <2>3. CASE ~InStorage(s, x) /\ ~InStorage(from, x)
    <3>1. \A u \in Storages : InStorage(u, x)' <=> InStorage(u, x)
      BY <2>3, <1>4, Zenon
    <3>2. Live(x)' <=> Live(x)
      BY <2>3, <1>2, <1>4 DEF Live
    <3>3. QED
      BY <3>1, <3>2, <1>5, <1>6, SameHolder, Zenon
  <2>4. QED
    BY <2>1, <2>2, <2>3
<1>8. (\A x \in Rings : HolderOf(x))'
  BY <1>7, Zenon
<1>9. OneHolder'
  BY <1>8, HolderCases, PTL
<1>10. QED
  BY <1>1, <1>9 DEF IInv

(* The destructor (uring_service.hpp:108-114): the ring is closed. *)
LEMMA DestructIInv ==
  ASSUME IInv, UNCHANGED NDEBUG, NEW s \in Storages, Destruct(s)
  PROVE  IInv'
<1>1. TypeOK'
  BY DEF IInv, Destruct, TypeOK
<1>2. /\ storage' = [storage EXCEPT ![s] = Absent]
      /\ open' = open \ Exited(s)
      /\ UNCHANGED <<result, dropped>>
  BY DEF Destruct
<1>3. \A x \in Rings : Absent # x /\ (InStorage(s, x) <=> x \in Exited(s))
  BY StorageAssumption DEF InStorage, Exited
<1>4. /\ \A u \in Storages, x \in Rings : u # s => (InStorage(u, x)' <=> InStorage(u, x))
      /\ \A x \in Rings : ~InStorage(s, x)'
  BY <1>2, <1>3, StorageWritten, Zenon DEF IInv
<1>5. \A r \in Results, x \in Rings : InResult(r, x)' <=> InResult(r, x)
  BY <1>2, Zenon DEF InResult
<1>6. \A x \in Rings : HolderOf(x)
  BY HolderCases DEF IInv
<1>7. ASSUME NEW x \in Rings PROVE HolderOf(x)'
  <2>1. CASE InStorage(s, x)
    <3>1. OnlyStorage(s, x)
      BY <2>1, <1>6, StorageHas
    <3>2. Nobody(x)'
      BY <3>1, <1>4, <1>5, Zenon DEF OnlyStorage, Nobody
    <3>3. ~Live(x)'
      BY <2>1, <1>2, <1>3 DEF Live
    <3>4. QED
      BY <3>2, <3>3, Zenon DEF HolderOf
  <2>2. CASE ~InStorage(s, x)
    <3>1. Live(x)' <=> Live(x)
      BY <2>2, <1>2, <1>3 DEF Live
    <3>2. \A u \in Storages : InStorage(u, x)' <=> InStorage(u, x)
      BY <2>2, <1>4, Zenon
    <3>3. QED
      BY <3>1, <3>2, <1>5, <1>6, SameHolder, Zenon
  <2>3. QED
    BY <2>1, <2>2
<1>8. (\A x \in Rings : HolderOf(x))'
  BY <1>7, Zenon
<1>9. OneHolder'
  BY <1>8, HolderCases, PTL
<1>10. QED
  BY <1>1, <1>9 DEF IInv

(* Every step keeps IInv. *)
LEMMA StepIInv == IInv /\ [Next]_vars => IInv'
<1> SUFFICES ASSUME IInv, [Next]_vars PROVE IInv'
  OBVIOUS
<1>1. CASE UNCHANGED <<storage, result, open, used, dropped>> /\ TypeOK'
  <2>1. /\ \A s \in Storages, x \in Rings : InStorage(s, x)' <=> InStorage(s, x)
        /\ \A r \in Results, x \in Rings : InResult(r, x)' <=> InResult(r, x)
    BY <1>1, Zenon DEF InStorage, InResult
  <2>2. QED
    BY <1>1, <2>1, NothingMoves
<1>2. CASE UNCHANGED vars
  <2>1. TypeOK'
    BY <1>2 DEF IInv, TypeOK, vars
  <2>2. QED
    BY <1>1, <1>2, <2>1 DEF vars
<1>3. CASE Next
  <2>1. UNCHANGED NDEBUG
    BY <1>3 DEF Next
  <2>2. ASSUME NEW s \in Storages,
               DefaultConstruct(s) \/ Destruct(s) \/ ExitUndefined(s)
        PROVE  IInv'
    <3>1. CASE ExitUndefined(s)
      <4>1. TypeOK'
        BY <3>1, <2>1 DEF ExitUndefined, IInv, TypeOK
      <4>2. QED
        BY <4>1, <3>1, <1>1 DEF ExitUndefined
    <3>2. QED
      BY <3>1, <2>1, <2>2, DefaultConstructIInv, DestructIInv
  <2>3. ASSUME NEW s \in Storages, NEW r \in Results, TakeValue(s, r) PROVE IInv'
    BY <2>1, <2>3, TakeValueIInv
  <2>4. ASSUME NEW s \in Storages, NEW from \in Storages, MoveConstruct(s, from) PROVE IInv'
    BY <2>1, <2>4, MoveConstructIInv
  <2>5. ASSUME NEW s \in Storages, NEW from \in Storages, MoveAssign(s, from) PROVE IInv'
    <3>1. CASE storage[s] # NoRing
      BY <3>1, <2>1, <2>5, MoveAssignIInv
    <3>2. CASE storage[s] = NoRing
      <4>1. UNCHANGED <<status, storage, result, open, used, dropped>>
        BY <3>2, <2>5 DEF MoveAssign
      <4>2. TypeOK'
        BY <4>1, <2>1 DEF IInv, TypeOK
      <4>3. QED
        BY <4>1, <4>2, <1>1
    <3>3. QED
      BY <3>1, <3>2
  <2>6. ASSUME NEW r \in Results, NEW ring \in Rings, Create(r, ring) PROVE IInv'
    BY <2>1, <2>6, CreateIInv
  <2>7. ASSUME NEW r \in Results, CreateFails(r) \/ ValueAborts(r) \/ DestroyResult(r)
        PROVE  IInv'
    <3>1. CASE ValueAborts(r)
      <4>1. TypeOK'
        BY <3>1, <2>1 DEF ValueAborts, IInv, TypeOK
      <4>2. QED
        BY <4>1, <3>1, <1>1 DEF ValueAborts
    <3>2. QED
      BY <3>1, <2>1, <2>7, CreateFailsIInv, DestroyResultIInv
  <2>8. ASSUME NEW r \in Results, NEW from \in Results, MoveResult(r, from) PROVE IInv'
    BY <2>1, <2>8, MoveResultIInv
  <2>9. QED
    BY <1>3, <2>2, <2>3, <2>4, <2>5, <2>6, <2>7, <2>8 DEF Next
<1>4. QED
  BY <1>2, <1>3

-----------------------------------------------------------------------------
(* However storages and results are moved, assigned and destroyed, every   *)
(* open ring has one owner, unless a result was destroyed with it, and no  *)
(* object has a closed ring (uring_service.hpp:57-114,                     *)
(* result.hpp:129-170).                                                    *)
THEOREM EveryRingHasOneHolder == Spec => []OneHolder
<1>1. IInv => OneHolder
  BY DEF IInv
<1>2. QED
  BY <1>1, InitIInv, StepIInv, PTL DEF Spec
=============================================================================
