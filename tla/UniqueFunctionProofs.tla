------------------------ MODULE UniqueFunctionProofs -------------------------
(***************************************************************************)
(* Theorems about UniqueFunction, for any functions, any callables and any *)
(* alignments.                                                             *)
(*                                                                         *)
(* The argument: between two operations the whole memory is determined by  *)
(* which function holds which callable (MemoryOf).  An operation changes   *)
(* who holds what, and the memory it leaves is again the one that the new  *)
(* holders determine; the steps inside of swap, through tmp_buf or from    *)
(* one storage to another, are moves of one callable to a free storage     *)
(* (Relocates).                                                            *)
(***************************************************************************)
EXTENDS UniqueFunction, FiniteSetTheorems, TLAPS

Mem(S, O, P, b) == [m_state |-> S, objects |-> O, heap |-> P, bad |-> b]

Sound(S, O, P) == Mem(S, O, P, FALSE)

Address(f, c) ==
  IF c \in Inline THEN Place(f, Index[c])
  ELSE IF c \in Heap THEN OnHeap(c)
  ELSE IF c = Null THEN Null
  ELSE External(c)

Table(c) == IF c \in Inline \cup Heap THEN c ELSE Null

StateOf(f, c) == [vtable |-> Table(c), call |-> c, data |-> Address(f, c)]

Stored(c) == IF c \in Inline THEN Object(c, Index[c]) ELSE Null

StatesOf(H) == [f \in Functions |-> StateOf(f, H[f])]

Storages == Functions \cup {Buffer}

ObjectsOf(H) == [p \in Storages |-> IF p = Buffer THEN Null ELSE Stored(H[p])]

HeapOf(H) == {c \in Heap : \E f \in Functions : H[f] = c}

(* The memory in which each function f holds H[f], a callable or nothing. *)
MemoryOf(H) == Sound(StatesOf(H), ObjectsOf(H), HeapOf(H))

Holdings == [Functions -> Callables \cup {Null}]

Single(H) == \A f, g \in Functions : H[f] = H[g] /\ H[f] # Null => f = g

(* What each function holds. *)
HeldIn(m) == [f \in Functions |-> m.m_state[f].call]

held == HeldIn(mem)

Lists ==
  /\ exist \subseteq Functions
  /\ made \subseteq Callables
  /\ destroyed \subseteq made

Owners ==
  /\ Single(held)
  /\ \A f \in Functions : f \notin exist => held[f] = Null
  /\ \A f \in Functions : held[f] # Null => held[f] \in made \ destroyed

IInv == Lists /\ held \in Holdings /\ mem = MemoryOf(held) /\ Owners

-----------------------------------------------------------------------------
(* Memory. *)

(* Changes of one storage, of the heap, and of the m_state of functions. *)
Put(O, p, x) == [O EXCEPT ![p] = x]

SetStorage(m, p, x, y) == [m EXCEPT !.objects[p] = x, !.bad = y]

SetHeap(m, x, y) == [m EXCEPT !.heap = x, !.bad = y]

SetState(m, f, x) == [m EXCEPT !.m_state[f] = x]

SetStates(m, f, x, g, y) == [m EXCEPT !.m_state[f] = x, !.m_state[g] = y]

LEMMA Fields ==
  ASSUME NEW S, NEW O, NEW P, NEW b, NEW m, m = Mem(S, O, P, b)
  PROVE  m.m_state = S /\ m.objects = O /\ m.heap = P /\ m.bad = b
BY DEF Mem

LEMMA StorageChanges ==
  ASSUME NEW S, NEW O, NEW P, NEW b, NEW p, NEW x, NEW y
  PROVE  SetStorage(Mem(S, O, P, b), p, x, y) = Mem(S, Put(O, p, x), P, y)
<1>1. PICK m : m = Mem(S, O, P, b)
  OBVIOUS
<1>2. PICK r : r = [m EXCEPT !.objects[p] = x, !.bad = y]
  OBVIOUS
<1>3. m = [m_state |-> S, objects |-> O, heap |-> P, bad |-> b]
  BY <1>1 DEF Mem
<1>4. r.m_state = S /\ r.heap = P /\ r.bad = y
  BY <1>2, <1>3
<1>5. r.objects = [O EXCEPT ![p] = x]
  BY <1>2, <1>3
<1>6. r = [m_state |-> r.m_state, objects |-> r.objects, heap |-> r.heap, bad |-> r.bad]
  BY <1>2, <1>3
<1>7. QED
  BY <1>1, <1>2, <1>4, <1>5, <1>6, Zenon DEF Mem, SetStorage, Put

LEMMA HeapChanges ==
  ASSUME NEW S, NEW O, NEW P, NEW b, NEW x, NEW y
  PROVE  SetHeap(Mem(S, O, P, b), x, y) = Mem(S, O, x, y)
<1>1. PICK m : m = Mem(S, O, P, b)
  OBVIOUS
<1>2. PICK r : r = [m EXCEPT !.heap = x, !.bad = y]
  OBVIOUS
<1>3. m = [m_state |-> S, objects |-> O, heap |-> P, bad |-> b]
  BY <1>1 DEF Mem
<1>4. r.m_state = S /\ r.objects = O /\ r.heap = x /\ r.bad = y
  BY <1>2, <1>3
<1>5. r = [m_state |-> r.m_state, objects |-> r.objects, heap |-> r.heap, bad |-> r.bad]
  BY <1>2, <1>3
<1>6. QED
  BY <1>1, <1>2, <1>4, <1>5, Zenon DEF Mem, SetHeap

LEMMA StateChanges ==
  ASSUME NEW S, NEW O, NEW P, NEW b, NEW f, NEW x
  PROVE  SetState(Mem(S, O, P, b), f, x) = Mem(Put(S, f, x), O, P, b)
BY DEF Mem, SetState, Put

LEMMA StatesChange ==
  ASSUME NEW S, NEW O, NEW P, NEW b, NEW f, NEW x, NEW g, NEW y
  PROVE  SetStates(Mem(S, O, P, b), f, x, g, y) = Mem(Put(Put(S, f, x), g, y), O, P, b)
<1>1. PICK m : m = Mem(S, O, P, b)
  OBVIOUS
<1>2. PICK r : r = [m EXCEPT !.m_state[f] = x, !.m_state[g] = y]
  OBVIOUS
<1>3. m = [m_state |-> S, objects |-> O, heap |-> P, bad |-> b]
  BY <1>1 DEF Mem
<1>4. r.objects = O /\ r.heap = P /\ r.bad = b
  BY <1>2, <1>3
<1>5. r.m_state = [[S EXCEPT ![f] = x] EXCEPT ![g] = y]
  BY <1>2, <1>3
<1>6. r = [m_state |-> r.m_state, objects |-> r.objects, heap |-> r.heap, bad |-> r.bad]
  BY <1>2, <1>3
<1>7. QED
  BY <1>1, <1>2, <1>4, <1>5, <1>6, Zenon DEF Mem, SetStates, Put

LEMMA SoundStates ==
  ASSUME NEW S, NEW O, NEW P, NEW f, NEW x, NEW g, NEW y
  PROVE  /\ SetState(Sound(S, O, P), f, x) = Sound(Put(S, f, x), O, P)
         /\ SetStates(Sound(S, O, P), f, x, g, y) = Sound(Put(Put(S, f, x), g, y), O, P)
<1>1. PICK e : e = FALSE
  OBVIOUS
<1>2. /\ SetState(Mem(S, O, P, e), f, x) = Mem(Put(S, f, x), O, P, e)
      /\ SetStates(Mem(S, O, P, e), f, x, g, y) = Mem(Put(Put(S, f, x), g, y), O, P, e)
  BY StateChanges, StatesChange
<1>3. QED
  BY <1>1, <1>2, Zenon DEF Sound

LEMMA PutFunction ==
  ASSUME NEW D, NEW R, NEW O \in [D -> R], NEW p \in D, NEW x \in R
  PROVE  Put(O, p, x) \in [D -> R] /\ \A q \in D : Put(O, p, x)[q] = IF q = p THEN x ELSE O[q]
BY DEF Put

LEMMA PlaceFields == \A p, i : Place(p, i).at = p /\ Place(p, i).index = i
BY DEF Place

LEMMA ObjectFields == \A c, i : Object(c, i).c = c /\ Object(c, i).index = i
BY DEF Object

(* Offsets: where a callable is aligned, in a storage and in tmp_buf. *)
LEMMA Alignments ==
  ASSUME NEW c \in Inline
  PROVE  /\ Index[c] \in Offsets /\ Index[c] \in StorageOffsets
         /\ \A p : Aligned(p, c) \in Offsets
         /\ \A p \in Functions : Aligned(p, c) = Index[c]
         /\ Aligned(Buffer, c) = 24 + Index[c] /\ (24 + Index[c]) - 24 = Index[c]
<1>1. Index[c] \in {0, 8}
  BY UniqueFunctionAssumption
<1>2. QED
  BY <1>1, UniqueFunctionAssumption DEF Aligned, StateSize, Offsets, StorageOffsets

(* A callable is constructed in a storage that is free. *)
LEMMA Constructs ==
  ASSUME NEW S, NEW O, NEW P, NEW p, NEW c, NEW i, i = Aligned(p, c), O[p] = Null
  PROVE  ConstructAt(Sound(S, O, P), c, Place(p, i)) = Sound(S, Put(O, p, Object(c, i)), P)
<1>1. PICK b : b = FALSE
  OBVIOUS
<1>2. PICK m : m = Mem(S, O, P, b)
  OBVIOUS
<1>3. m.bad = b /\ m.objects = O
  BY <1>2, Fields
<1>4. PICK y : y = (m.bad \/ m.objects[p] # Null \/ i # Aligned(p, c))
  OBVIOUS
<1>5. y = FALSE
  BY <1>1, <1>3, <1>4, Zenon
<1>6. ConstructAt(m, c, Place(p, i)) = SetStorage(m, p, Object(c, i), y)
  <2>1. PICK d : d = Place(p, i) /\ d.at = p /\ d.index = i
    BY PlaceFields
  <2>2. QED
    BY <1>4, <2>1, Zenon DEF ConstructAt, SetStorage
<1>7. SetStorage(m, p, Object(c, i), y) = Mem(S, Put(O, p, Object(c, i)), P, y)
  <2>1. SetStorage(Mem(S, O, P, b), p, Object(c, i), y) = Mem(S, Put(O, p, Object(c, i)), P, y)
    BY StorageChanges
  <2>2. QED
    BY <1>2, <2>1, Zenon
<1>8. QED
  BY <1>1, <1>2, <1>5, <1>6, <1>7, Zenon DEF Sound

(* The storages after a callable went from a to b: move_construct at b,    *)
(* then destroy at a.                                                      *)
Relocation(O, x, a, b) ==
  [p \in Storages |-> IF p = b THEN x ELSE IF p = a THEN Null ELSE O[p]]

LEMMA InlineObject ==
  ASSUME NEW c \in Inline, NEW i \in Offsets
  PROVE  Object(c, i) \in Objects /\ Object(c, i) # Null
<1>1. Object(c, i) \in Objects
  BY DEF Object, Objects
<1>2. QED
  BY <1>1, NullAssumption

LEMMA MoveConstructs ==
  ASSUME NEW S, NEW O \in [Storages -> Objects \cup {Null}], NEW P, NEW c \in Inline,
         NEW a \in Storages, NEW b \in Storages, a # b,
         NEW i \in Offsets, NEW j \in Offsets, j = Aligned(b, c),
         O[a] = Object(c, i), O[b] = Null
  PROVE  \E z \in Objects :
           /\ z.c = c /\ z.index = i
           /\ vtable_move_construct(Sound(S, O, P), c, Place(b, j), Place(a, i)) =
                Sound(S, Put(Put(O, b, Object(c, j)), a, z), P)
<1>1. PICK e : e = FALSE
  OBVIOUS
<1>2. PICK x \in Objects, w \in Objects : x = Object(c, i) /\ w = Object(c, j)
  BY InlineObject
<1>3. PICK m : m = Mem(S, O, P, e)
  OBVIOUS
<1>4. PICK O2 : O2 = Put(O, b, w)
  OBVIOUS
<1>5. PICK n : n = Mem(S, O2, P, e)
  OBVIOUS
<1>6. ConstructAt(m, c, Place(b, j)) = n
  <2>1. ConstructAt(Sound(S, O, P), c, Place(b, j)) = Sound(S, Put(O, b, Object(c, j)), P)
    BY Constructs
  <2>2. QED
    BY <1>1, <1>2, <1>3, <1>4, <1>5, <2>1, Zenon DEF Sound
<1>7. O2[a] = x
  BY <1>2, <1>4 DEF Put
<1>8. m.objects = O /\ n.objects = O2 /\ n.bad = e
  BY <1>3, <1>5, Fields
<1>9. PICK z : z = [x EXCEPT !.moved = TRUE]
  OBVIOUS
<1>10. z \in Objects /\ z.c = c /\ z.index = i
  <2>1. z = [c |-> c, index |-> i, moved |-> TRUE]
    BY <1>2, <1>9 DEF Object
  <2>2. QED
    BY <2>1 DEF Objects
<1>11. PICK y : y = (n.bad \/ m.objects[a] # Object(c, i))
  OBVIOUS
<1>12. y = FALSE
  BY <1>1, <1>8, <1>11, Zenon
<1>13. vtable_move_construct(m, c, Place(b, j), Place(a, i)) = SetStorage(n, a, z, y)
  <2>1. vtable_move_construct(m, c, Place(b, j), Place(a, i)) =
          [n EXCEPT !.objects[a].moved = TRUE, !.bad = y]
    <3>1. Place(a, i).at = a /\ Place(a, i).index = i
      BY PlaceFields, Zenon
    <3>2. QED
      BY <1>6, <1>11, <3>1, Zenon DEF vtable_move_construct
  <2>2. n.objects[a] = x
    BY <1>7, <1>8
  <2>3. [n EXCEPT !.objects[a].moved = TRUE, !.bad = y] = [n EXCEPT !.objects[a] = z, !.bad = y]
    BY <1>9, <2>2
  <2>4. QED
    BY <2>1, <2>3, Zenon DEF SetStorage
<1>14. SetStorage(n, a, z, y) = Mem(S, Put(O2, a, z), P, y)
  <2>1. SetStorage(Mem(S, O2, P, e), a, z, y) = Mem(S, Put(O2, a, z), P, y)
    BY StorageChanges
  <2>2. QED
    BY <1>5, <2>1, Zenon
<1>15. QED
  BY <1>1, <1>2, <1>3, <1>4, <1>10, <1>12, <1>13, <1>14, Zenon DEF Sound

(* destroy of a callable in a storage, and of one on the heap. *)
LEMMA DestroysInline ==
  ASSUME NEW S, NEW O, NEW P, NEW c \in Inline, NEW a, NEW i,
         O[a] \in Objects, O[a].c = c, O[a].index = i
  PROVE  vtable_destroy(Sound(S, O, P), c, Place(a, i)) = Sound(S, Put(O, a, Null), P)
<1>1. PICK e : e = FALSE
  OBVIOUS
<1>2. PICK m : m = Mem(S, O, P, e)
  OBVIOUS
<1>3. m.bad = e /\ m.objects = O
  BY <1>2, Fields
<1>4. PICK y : y = (m.bad \/ m.objects[a] = Null \/ m.objects[a].c # c
                          \/ m.objects[a].index # i)
  OBVIOUS
<1>5. y = FALSE
  <2>1. O[a] # Null
    BY NullAssumption
  <2>2. QED
    BY <1>1, <1>3, <1>4, <2>1, Zenon
<1>6. vtable_destroy(m, c, Place(a, i)) = SetStorage(m, a, Null, y)
  <2>1. c \notin Heap
    BY UniqueFunctionAssumption
  <2>2. PICK d : d = Place(a, i) /\ d.at = a /\ d.index = i
    BY PlaceFields
  <2>3. vtable_destroy(m, c, d) =
          [m EXCEPT !.objects[d.at] = Null,
                    !.bad = @ \/ m.objects[d.at] = Null \/ m.objects[d.at].c # c
                              \/ m.objects[d.at].index # d.index]
    BY <2>1 DEF vtable_destroy, inline_destroy
  <2>4. QED
    BY <1>4, <2>2, <2>3, Zenon DEF SetStorage
<1>7. SetStorage(m, a, Null, y) = Mem(S, Put(O, a, Null), P, y)
  <2>1. SetStorage(Mem(S, O, P, e), a, Null, y) = Mem(S, Put(O, a, Null), P, y)
    BY StorageChanges
  <2>2. QED
    BY <1>2, <2>1, Zenon
<1>8. QED
  BY <1>1, <1>2, <1>5, <1>6, <1>7, Zenon DEF Sound

LEMMA DestroysOnHeap ==
  ASSUME NEW S, NEW O, NEW P, NEW c \in Heap, c \in P
  PROVE  vtable_destroy(Sound(S, O, P), c, OnHeap(c)) = Sound(S, O, P \ {c})
<1>1. PICK e : e = FALSE
  OBVIOUS
<1>2. PICK m : m = Mem(S, O, P, e)
  OBVIOUS
<1>3. m.bad = e /\ m.heap = P
  BY <1>2, Fields
<1>4. PICK y : y = (m.bad \/ OnHeap(c) # OnHeap(c) \/ c \notin m.heap)
  OBVIOUS
<1>5. y = FALSE
  BY <1>1, <1>3, <1>4, Zenon
<1>6. vtable_destroy(m, c, OnHeap(c)) = SetHeap(m, P \ {c}, y)
  BY <1>3, <1>4 DEF vtable_destroy, heap_destroy, SetHeap
<1>7. SetHeap(m, P \ {c}, y) = Mem(S, O, P \ {c}, y)
  <2>1. SetHeap(Mem(S, O, P, e), P \ {c}, y) = Mem(S, O, P \ {c}, y)
    BY HeapChanges
  <2>2. QED
    BY <1>2, <2>1, Zenon
<1>8. QED
  BY <1>1, <1>2, <1>5, <1>6, <1>7, Zenon DEF Sound

LEMMA Relocates ==
  ASSUME NEW S, NEW O \in [Storages -> Objects \cup {Null}], NEW P, NEW c \in Inline,
         NEW a \in Storages, NEW b \in Storages, a # b,
         NEW i \in Offsets, NEW j \in Offsets, j = Aligned(b, c),
         O[a] = Object(c, i), O[b] = Null
  PROVE  /\ Relocation(O, Object(c, j), a, b) \in [Storages -> Objects \cup {Null}]
         /\ vtable_destroy(vtable_move_construct(Sound(S, O, P), c, Place(b, j), Place(a, i)),
                           c, Place(a, i)) =
              Sound(S, Relocation(O, Object(c, j), a, b), P)
<1>1. PICK x \in Objects : x = Object(c, j)
  BY InlineObject
<1>2. PICK z \in Objects :
        /\ z.c = c /\ z.index = i
        /\ vtable_move_construct(Sound(S, O, P), c, Place(b, j), Place(a, i)) =
             Sound(S, Put(Put(O, b, Object(c, j)), a, z), P)
  BY MoveConstructs
<1>3. PICK O2 : O2 = Put(Put(O, b, Object(c, j)), a, z)
  OBVIOUS
<1>4. /\ O2 \in [Storages -> Objects \cup {Null}]
      /\ \A p \in Storages : O2[p] = IF p = a THEN z ELSE IF p = b THEN x ELSE O[p]
  BY <1>1, <1>3 DEF Put
<1>5. O2[a] \in Objects /\ O2[a].c = c /\ O2[a].index = i
  BY <1>2, <1>4
<1>6. vtable_destroy(Sound(S, O2, P), c, Place(a, i)) = Sound(S, Put(O2, a, Null), P)
  BY <1>5, DestroysInline
<1>7. Put(O2, a, Null) = Relocation(O, x, a, b)
  BY <1>4 DEF Put, Relocation
<1>8. Relocation(O, x, a, b) \in [Storages -> Objects \cup {Null}]
  BY DEF Relocation
<1>9. QED
  BY <1>1, <1>2, <1>3, <1>6, <1>7, <1>8, Zenon

-----------------------------------------------------------------------------
(* The memory of some holdings. *)

LEMMA Addresses ==
  ASSUME NEW f \in Functions, NEW c \in Callables \cup {Null}
  PROVE  /\ c \in Inline => Address(f, c) = Place(f, Index[c])
         /\ c \in Heap => Address(f, c) = OnHeap(c)
         /\ c \in Direct => Address(f, c) = External(c)
         /\ c = Null => Address(f, c) = Null
         /\ c \in Inline \/ c \in Heap \/ c \in Direct \/ c = Null
         /\ c \in Inline => c \notin Heap /\ c \notin Direct /\ c # Null /\ c \in Callables
         /\ c \in Heap => c \notin Direct /\ c # Null /\ c \in Callables
         /\ c \in Direct => c # Null /\ c \in Callables
BY UniqueFunctionAssumption DEF Address, Direct

LEMMA InlinePlace ==
  ASSUME NEW f \in Functions, NEW c \in Inline
  PROVE  Place(f, Index[c]) \in Places /\ Place(f, Index[c]) \in [at : {f}, index : StorageOffsets]
BY Alignments DEF Place, Places

LEMMA NotPlaces ==
  /\ \A c : OnHeap(c) \notin Places /\ External(c) \notin Places
  /\ \A c, d : OnHeap(c) # External(d)
  /\ \A c, d : OnHeap(c) = OnHeap(d) => c = d
  /\ \A c, d : External(c) = External(d) => c = d
<1>1. \A c : OnHeap(c) \notin Places
  BY DEF OnHeap, Places
<1>2. \A c : External(c) \notin Places
  BY DEF External, Places
<1>3. \A c, d : OnHeap(c) # External(d)
  BY DEF OnHeap, External
<1>4. \A c, d : OnHeap(c) = OnHeap(d) => c = d
  BY DEF OnHeap
<1>5. \A c, d : External(c) = External(d) => c = d
  BY DEF External
<1>6. QED
  BY <1>1, <1>2, <1>3, <1>4, <1>5

LEMMA MemoryFields ==
  ASSUME NEW H, NEW m, m = MemoryOf(H)
  PROVE  m.m_state = StatesOf(H) /\ m.objects = ObjectsOf(H) /\ m.heap = HeapOf(H) /\ m.bad = FALSE
<1>1. PICK e : e = FALSE
  OBVIOUS
<1>2. m = Mem(StatesOf(H), ObjectsOf(H), HeapOf(H), e)
  BY <1>1, Zenon DEF MemoryOf, Sound
<1>3. m.m_state = StatesOf(H) /\ m.objects = ObjectsOf(H) /\ m.heap = HeapOf(H) /\ m.bad = e
  BY <1>2, Fields
<1>4. QED
  BY <1>1, <1>3, Zenon

LEMMA StateFields ==
  ASSUME NEW H \in Holdings, NEW f \in Functions
  PROVE  /\ H[f] \in Callables \cup {Null}
         /\ StatesOf(H)[f] = StateOf(f, H[f])
         /\ StatesOf(H)[f].vtable = Table(H[f])
         /\ StatesOf(H)[f].call = H[f]
         /\ StatesOf(H)[f].data = Address(f, H[f])
<1>1. PICK s : s = StatesOf(H)[f]
  OBVIOUS
<1>2. s = StateOf(f, H[f])
  BY <1>1 DEF StatesOf
<1>3. s.vtable = Table(H[f]) /\ s.call = H[f] /\ s.data = Address(f, H[f])
  BY <1>2 DEF StateOf
<1>4. QED
  BY <1>1, <1>2, <1>3 DEF Holdings

LEMMA StoredObjects ==
  ASSUME NEW H \in Holdings
  PROVE  /\ ObjectsOf(H) \in [Storages -> Objects \cup {Null}]
         /\ ObjectsOf(H)[Buffer] = Null
         /\ \A f \in Functions : ObjectsOf(H)[f] = Stored(H[f])
<1>1. \A c : Stored(c) \in Objects \cup {Null}
  BY Alignments, InlineObject DEF Stored
<1>2. ObjectsOf(H) \in [Storages -> Objects \cup {Null}]
  BY <1>1 DEF ObjectsOf
<1>3. QED
  BY <1>2, UniqueFunctionAssumption DEF ObjectsOf, Storages

LEMMA Kinds ==
  ASSUME NEW H \in Holdings, NEW f \in Functions
  PROVE  IsInline(MemoryOf(H), f) <=> H[f] \in Inline
<1>1. PICK c \in Callables \cup {Null} : c = H[f]
  BY DEF Holdings
<1>2. MemoryOf(H).m_state[f].data = Address(f, c)
  <2>1. MemoryOf(H).m_state = StatesOf(H)
    BY MemoryFields, Zenon
  <2>2. StatesOf(H)[f].data = Address(f, c)
    BY <1>1, StateFields
  <2>3. QED
    BY <2>1, <2>2, Zenon
<1>3. \A x \in [at : {f}, index : StorageOffsets] : x \in Places
  <2>1. StorageOffsets \subseteq Offsets
    BY DEF StorageOffsets, Offsets, StateSize
  <2>2. QED
    BY <2>1 DEF Places
<1>4. c \in Inline => Address(f, c) \in [at : {f}, index : StorageOffsets]
  BY Addresses, InlinePlace
<1>5. c \notin Inline => Address(f, c) \notin Places
  <2>1. CASE c \in Heap
    BY <2>1, Addresses, NotPlaces
  <2>2. CASE c \in Direct
    BY <2>2, Addresses, NotPlaces
  <2>3. CASE c = Null
    BY <2>3, Addresses, NullAssumption
  <2>4. QED
    BY <2>1, <2>2, <2>3, Addresses
<1>6. QED
  BY <1>1, <1>2, <1>3, <1>4, <1>5, Zenon DEF IsInline

Exchanged(H, f, g) ==
  [r \in Functions |-> IF r = f THEN H[g] ELSE IF r = g THEN H[f] ELSE H[r]]

LEMMA Exchanges ==
  ASSUME NEW H \in Holdings, NEW f \in Functions, NEW g \in Functions, f # g
  PROVE  /\ Exchanged(H, f, g) \in Holdings
         /\ HeapOf(Exchanged(H, f, g)) = HeapOf(H)
         /\ Exchanged(H, f, g) = Exchanged(H, g, f)
         /\ Exchanged(H, f, g)[f] = H[g] /\ Exchanged(H, f, g)[g] = H[f]
         /\ \A r \in Functions \ {f, g} : Exchanged(H, f, g)[r] = H[r]
<1>1. PICK H2 : H2 = Exchanged(H, f, g)
  OBVIOUS
<1>2. H2 \in Holdings
  BY <1>1 DEF Exchanged, Holdings
<1>3. H2[f] = H[g] /\ H2[g] = H[f] /\ \A r \in Functions \ {f, g} : H2[r] = H[r]
  BY <1>1 DEF Exchanged
<1>4. \A c : (\E r \in Functions : H2[r] = c) <=> (\E r \in Functions : H[r] = c)
  BY <1>3
<1>5. HeapOf(H2) = HeapOf(H)
  BY <1>4 DEF HeapOf
<1>6. Exchanged(H, f, g) = Exchanged(H, g, f)
  BY DEF Exchanged
<1>7. QED
  BY <1>1, <1>2, <1>3, <1>5, <1>6

(* m_state of the two functions. *)
LEMMA StatesExchange ==
  ASSUME NEW H \in Holdings, NEW f \in Functions, NEW g \in Functions, f # g,
         NEW x, x = StateOf(f, H[g]), NEW y, y = StateOf(g, H[f])
  PROVE  /\ Put(Put(StatesOf(H), f, x), g, y) = StatesOf(Exchanged(H, f, g))
         /\ Put(Put(StatesOf(H), g, y), f, x) = StatesOf(Exchanged(H, f, g))
<1>1. PICK H2 : H2 = Exchanged(H, f, g)
  OBVIOUS
<1>2. H2[f] = H[g] /\ H2[g] = H[f] /\ \A r \in Functions \ {f, g} : H2[r] = H[r]
  BY <1>1, Exchanges
<1>3. PICK S : S = StatesOf(H)
  OBVIOUS
<1>4. DOMAIN S = Functions /\ \A r \in Functions : S[r] = StateOf(r, H[r])
  BY <1>3 DEF StatesOf
<1>5. \A r \in Functions : StateOf(r, H2[r]) = IF r = f THEN x ELSE IF r = g THEN y ELSE S[r]
  BY <1>2, <1>4
<1>6. StatesOf(H2) = [r \in Functions |-> IF r = f THEN x ELSE IF r = g THEN y ELSE S[r]]
  BY <1>5 DEF StatesOf
<1>7. S = [r \in Functions |-> S[r]]
  BY <1>3 DEF StatesOf
<1>8. /\ Put(Put(S, f, x), g, y) = [r \in Functions |-> IF r = f THEN x ELSE IF r = g THEN y ELSE S[r]]
      /\ Put(Put(S, g, y), f, x) = [r \in Functions |-> IF r = f THEN x ELSE IF r = g THEN y ELSE S[r]]
  BY <1>4, <1>7 DEF Put
<1>9. QED
  BY <1>1, <1>3, <1>6, <1>8, Zenon

-----------------------------------------------------------------------------
(* swap. *)

LEMMA PointersSwap ==
  ASSUME NEW H \in Holdings, NEW f \in Functions, NEW g \in Functions, f # g,
         H[f] \notin Inline, H[g] \notin Inline
  PROVE  SwapPointers(MemoryOf(H), f, g) = MemoryOf(Exchanged(H, f, g))
<1>1. PICK m : m = MemoryOf(H)
  OBVIOUS
<1>2. PICK S, O, P : S = StatesOf(H) /\ O = ObjectsOf(H) /\ P = HeapOf(H)
  OBVIOUS
<1>3. m = Sound(S, O, P) /\ m.m_state = S
  BY <1>1, <1>2, MemoryFields, Zenon DEF MemoryOf
<1>4. S[f] = StateOf(f, H[f]) /\ S[g] = StateOf(g, H[g])
  BY <1>2, StateFields
<1>5. S[g] = StateOf(f, H[g]) /\ S[f] = StateOf(g, H[f])
  BY <1>4 DEF StateOf, Address
<1>6. Put(Put(S, f, S[g]), g, S[f]) = StatesOf(Exchanged(H, f, g))
  BY <1>2, <1>5, StatesExchange
<1>7. O = ObjectsOf(Exchanged(H, f, g))
  <2>1. \A p \in Functions : Stored(Exchanged(H, f, g)[p]) = Stored(H[p])
    BY Exchanges DEF Stored
  <2>2. QED
    BY <1>2, <2>1 DEF ObjectsOf, Storages
<1>8. P = HeapOf(Exchanged(H, f, g))
  BY <1>2, Exchanges
<1>9. SwapPointers(m, f, g) = SetStates(m, f, S[g], g, S[f])
  BY <1>3, Zenon DEF SwapPointers, SetStates
<1>10. SetStates(m, f, S[g], g, S[f]) = Sound(Put(Put(S, f, S[g]), g, S[f]), O, P)
  BY <1>3, SoundStates
<1>11. QED
  BY <1>1, <1>6, <1>7, <1>8, <1>9, <1>10, Zenon DEF MemoryOf

LEMMA OneInlineSwaps ==
  ASSUME NEW H \in Holdings, NEW f \in Functions, NEW g \in Functions, f # g,
         H[f] \in Inline, H[g] \notin Inline
  PROVE  SwapOneInline(MemoryOf(H), f, g) = MemoryOf(Exchanged(H, f, g))
<1>1. PICK m : m = MemoryOf(H)
  OBVIOUS
<1>2. PICK S, O, P : S = StatesOf(H) /\ O = ObjectsOf(H) /\ P = HeapOf(H)
  OBVIOUS
<1>3. m = Sound(S, O, P) /\ m.m_state = S
  BY <1>1, <1>2, MemoryFields, Zenon DEF MemoryOf
<1>4. PICK c \in Inline : c = H[f]
  OBVIOUS
<1>5. PICK x : x = Object(c, Index[c])
  OBVIOUS
<1>6. /\ O \in [Storages -> Objects \cup {Null}]
      /\ O[f] = x /\ O[g] = Null /\ O[Buffer] = Null
      /\ \A p \in Functions : O[p] = Stored(H[p])
  BY <1>2, <1>4, <1>5, StoredObjects DEF Stored
<1>7. f \in Storages /\ g \in Storages /\ Index[c] \in Offsets /\ Index[c] = Aligned(g, c)
  BY Alignments DEF Storages
<1>8. S[f].vtable = c /\ S[f].data = Place(f, Index[c]) /\ S[f].data.index = Index[c]
  <2>1. S[f].vtable = Table(c) /\ S[f].data = Address(f, c)
    BY <1>2, <1>4, StateFields
  <2>2. Table(c) = c /\ Address(f, c) = Place(f, Index[c])
    BY DEF Table, Address
  <2>3. QED
    BY <2>1, <2>2, PlaceFields
<1>9. PICK O2 : O2 = Relocation(O, x, f, g)
  OBVIOUS
<1>10. Relocated(m, f, g) = Sound(S, O2, P)
  <2>1. Relocated(m, f, g) =
          vtable_destroy(vtable_move_construct(Sound(S, O, P), c, Place(g, Index[c]), Place(f, Index[c])),
                         c, Place(f, Index[c]))
    BY <1>3, <1>8, Zenon DEF Relocated
  <2>2. vtable_destroy(vtable_move_construct(Sound(S, O, P), c, Place(g, Index[c]), Place(f, Index[c])),
                       c, Place(f, Index[c])) = Sound(S, Relocation(O, Object(c, Index[c]), f, g), P)
    BY <1>5, <1>6, <1>7, Relocates
  <2>3. QED
    BY <1>5, <1>9, <2>1, <2>2, Zenon
<1>11. O2 = ObjectsOf(Exchanged(H, f, g))
  <2>1. PICK H2 : H2 = Exchanged(H, f, g)
    OBVIOUS
  <2>2. H2[f] = H[g] /\ H2[g] = c /\ \A r \in Functions \ {f, g} : H2[r] = H[r]
    BY <1>4, <2>1, Exchanges
  <2>3. Stored(H2[f]) = Null /\ Stored(H2[g]) = x
    BY <1>5, <2>2 DEF Stored
  <2>4. \A p \in Functions : (IF p = g THEN x ELSE IF p = f THEN Null ELSE O[p]) = Stored(H2[p])
    BY <1>6, <2>2, <2>3
  <2>5. Buffer # f /\ Buffer # g /\ \A p \in Storages : p = Buffer \/ p \in Functions
    BY UniqueFunctionAssumption DEF Storages
  <2>6. \A p \in Storages : (IF p = g THEN x ELSE IF p = f THEN Null ELSE O[p]) =
                             (IF p = Buffer THEN Null ELSE Stored(H2[p]))
    BY <1>6, <2>4, <2>5
  <2>7. QED
    BY <1>9, <2>1, <2>6 DEF Relocation, ObjectsOf
<1>12. PICK s : s = [S[f] EXCEPT !.data = Place(g, @.index)]
  OBVIOUS
<1>13. s = StateOf(g, c) /\ S[g] = StateOf(f, H[g])
  <2>1. S[f] = StateOf(f, c) /\ S[g] = StateOf(g, H[g])
    BY <1>2, <1>4, StateFields
  <2>2. S[g] = StateOf(f, H[g])
    BY <2>1 DEF StateOf, Address
  <2>3. s = [S[f] EXCEPT !.data = Place(g, Index[c])]
    BY <1>8, <1>12, Zenon
  <2>4. s = StateOf(g, c)
    BY <2>1, <2>3 DEF StateOf, Address
  <2>5. QED
    BY <2>2, <2>4
<1>14. Put(Put(S, f, S[g]), g, s) = StatesOf(Exchanged(H, f, g))
  BY <1>2, <1>4, <1>13, StatesExchange
<1>15. P = HeapOf(Exchanged(H, f, g))
  BY <1>2, Exchanges
<1>16. SwapOneInline(m, f, g) = SetStates(Sound(S, O2, P), f, S[g], g, s)
  BY <1>3, <1>10, <1>12, Zenon DEF SwapOneInline, SetStates
<1>17. SetStates(Sound(S, O2, P), f, S[g], g, s) = Sound(Put(Put(S, f, S[g]), g, s), O2, P)
  BY SoundStates
<1>18. QED
  BY <1>1, <1>11, <1>14, <1>15, <1>16, <1>17, Zenon DEF MemoryOf

LEMMA BothInlineSwap ==
  ASSUME NEW H \in Holdings, NEW f \in Functions, NEW g \in Functions, f # g,
         H[f] \in Inline, H[g] \in Inline
  PROVE  SwapInline(MemoryOf(H), f, g) = MemoryOf(Exchanged(H, f, g))
<1>1. PICK m : m = MemoryOf(H)
  OBVIOUS
<1>2. PICK S, O, P : S = StatesOf(H) /\ O = ObjectsOf(H) /\ P = HeapOf(H)
  OBVIOUS
<1>3. m = Sound(S, O, P) /\ m.m_state = S
  BY <1>1, <1>2, MemoryFields, Zenon DEF MemoryOf
<1>4. PICK c \in Inline, d \in Inline : c = H[f] /\ d = H[g]
  OBVIOUS
<1>5. PICK x, y, w : /\ x = Object(c, Index[c]) /\ y = Object(d, Index[d])
                    /\ w = Object(c, 24 + Index[c])
  OBVIOUS
<1>6. /\ O \in [Storages -> Objects \cup {Null}]
      /\ O[f] = x /\ O[g] = y /\ O[Buffer] = Null
      /\ \A p \in Functions : O[p] = Stored(H[p])
  BY <1>2, <1>4, <1>5, StoredObjects DEF Stored
<1>7. /\ f \in Storages /\ g \in Storages /\ Buffer \in Storages /\ f # Buffer /\ g # Buffer
      /\ \A p \in Storages : p = Buffer \/ p \in Functions
  BY UniqueFunctionAssumption DEF Storages
<1>8. /\ S[f].vtable = c /\ S[f].data = Place(f, Index[c]) /\ S[f].data.index = Index[c]
      /\ S[g].vtable = d /\ S[g].data = Place(g, Index[d]) /\ S[g].data.index = Index[d]
  <2>1. /\ S[f].vtable = Table(c) /\ S[f].data = Address(f, c)
        /\ S[g].vtable = Table(d) /\ S[g].data = Address(g, d)
    BY <1>2, <1>4, StateFields
  <2>2. /\ Table(c) = c /\ Address(f, c) = Place(f, Index[c])
        /\ Table(d) = d /\ Address(g, d) = Place(g, Index[d])
    BY DEF Table, Address
  <2>3. QED
    BY <2>1, <2>2, PlaceFields
<1>9. /\ Index[c] \in Offsets /\ Index[d] \in Offsets /\ 24 + Index[c] \in Offsets
       /\ 24 + Index[c] = Aligned(Buffer, c) /\ Index[c] = Aligned(g, c) /\ Index[d] = Aligned(f, d)
  BY Alignments
<1>10. /\ FromStart(S[f].data) = 24 + Index[c] /\ FromStart(S[g].data) = 24 + Index[d]
       /\ InStorage(g, 24 + Index[c]) = Place(g, Index[c])
       /\ InStorage(f, 24 + Index[d]) = Place(f, Index[d])
  <2>1. (24 + Index[c]) - 24 = Index[c] /\ (24 + Index[d]) - 24 = Index[d]
    BY Alignments
  <2>2. QED
    BY <1>8, <2>1, Zenon DEF FromStart, InStorage, StateSize
(* first to tmp_buf, second to first, tmp_buf to second. *)
<1>11. PICK O1 : O1 = Relocation(O, w, f, Buffer)
  OBVIOUS
<1>12. PICK O2 : O2 = Relocation(O1, y, g, f)
  OBVIOUS
<1>13. PICK O3 : O3 = Relocation(O2, x, Buffer, g)
  OBVIOUS
<1>14. /\ O1 \in [Storages -> Objects \cup {Null}]
       /\ vtable_destroy(
            vtable_move_construct(Sound(S, O, P), c, Place(Buffer, 24 + Index[c]), Place(f, Index[c])),
            c, Place(f, Index[c])) = Sound(S, O1, P)
  <2>1. PICK i \in Offsets, j \in Offsets : i = Index[c] /\ j = 24 + Index[c]
    BY <1>9
  <2>2. j = Aligned(Buffer, c) /\ O[f] = Object(c, i) /\ O[Buffer] = Null /\ w = Object(c, j)
    BY <1>5, <1>6, <1>9, <2>1, Zenon
  <2>3. /\ Relocation(O, Object(c, j), f, Buffer) \in [Storages -> Objects \cup {Null}]
        /\ vtable_destroy(vtable_move_construct(Sound(S, O, P), c, Place(Buffer, j), Place(f, i)),
                          c, Place(f, i)) =
             Sound(S, Relocation(O, Object(c, j), f, Buffer), P)
    BY <1>6, <1>7, <2>2, Relocates
  <2>4. QED
    BY <1>11, <2>1, <2>2, <2>3, Zenon
<1>15. O1[g] = y /\ O1[f] = Null /\ O1[Buffer] = w
  BY <1>6, <1>7, <1>11 DEF Relocation
<1>16. /\ O2 \in [Storages -> Objects \cup {Null}]
       /\ vtable_destroy(vtable_move_construct(Sound(S, O1, P), d, Place(f, Index[d]), Place(g, Index[d])),
                         d, Place(g, Index[d])) = Sound(S, O2, P)
  <2>1. PICK i \in Offsets : i = Index[d]
    BY <1>9
  <2>2. i = Aligned(f, d) /\ O1[g] = Object(d, i) /\ O1[f] = Null /\ y = Object(d, i)
    BY <1>5, <1>15, <1>9, <2>1, Zenon
  <2>3. O1 \in [Storages -> Objects \cup {Null}]
    BY <1>14, Zenon
  <2>4. g \in Storages /\ f \in Storages /\ g # f
    BY <1>7, Zenon
  <2>5. /\ Relocation(O1, Object(d, i), g, f) \in [Storages -> Objects \cup {Null}]
        /\ vtable_destroy(vtable_move_construct(Sound(S, O1, P), d, Place(f, i), Place(g, i)),
                          d, Place(g, i)) =
             Sound(S, Relocation(O1, Object(d, i), g, f), P)
    BY <2>2, <2>3, <2>4, Relocates
  <2>6. QED
    BY <1>12, <2>1, <2>2, <2>5, Zenon
<1>17. O2[g] = Null /\ O2[f] = y /\ O2[Buffer] = w
  BY <1>7, <1>12, <1>15 DEF Relocation
<1>18. vtable_destroy(
         vtable_move_construct(Sound(S, O2, P), c, Place(g, Index[c]), Place(Buffer, 24 + Index[c])),
         c, Place(Buffer, 24 + Index[c])) = Sound(S, O3, P)
  <2>1. PICK i \in Offsets, j \in Offsets : i = 24 + Index[c] /\ j = Index[c]
    BY <1>9
  <2>2. j = Aligned(g, c) /\ O2[Buffer] = Object(c, i) /\ O2[g] = Null /\ x = Object(c, j)
    BY <1>5, <1>17, <1>9, <2>1, Zenon
  <2>3. O2 \in [Storages -> Objects \cup {Null}]
    BY <1>16, Zenon
  <2>4. PICK b \in Storages : b = Buffer /\ b # g /\ O2[b] = Object(c, i)
    BY <1>7, <2>2, Zenon
  <2>5. vtable_destroy(vtable_move_construct(Sound(S, O2, P), c, Place(g, j), Place(b, i)),
                       c, Place(b, i)) =
          Sound(S, Relocation(O2, Object(c, j), b, g), P)
    BY <1>7, <2>2, <2>3, <2>4, Relocates
  <2>6. QED
    BY <1>13, <2>1, <2>2, <2>4, <2>5, Zenon
<1>19. O3 = ObjectsOf(Exchanged(H, f, g))
  <2>1. PICK H2 : H2 = Exchanged(H, f, g)
    OBVIOUS
  <2>2. H2[f] = d /\ H2[g] = c /\ \A r \in Functions \ {f, g} : H2[r] = H[r]
    BY <1>4, <2>1, Exchanges
  <2>3. Stored(H2[f]) = y /\ Stored(H2[g]) = x
    BY <1>5, <2>2 DEF Stored
  <2>4. /\ O3 = [p \in Storages |-> IF p = g THEN x ELSE IF p = Buffer THEN Null ELSE O2[p]]
        /\ \A p \in Storages \ {f, g, Buffer} : O2[p] = O[p]
    BY <1>11, <1>12, <1>13 DEF Relocation
  <2>5. \A p \in Storages : (IF p = g THEN x ELSE IF p = Buffer THEN Null ELSE O2[p]) =
                             (IF p = Buffer THEN Null ELSE Stored(H2[p]))
    <3>1. SUFFICES ASSUME NEW p \in Storages, p # g, p # Buffer
                   PROVE  O2[p] = Stored(H2[p])
      BY <1>7, <2>3
    <3>2. CASE p = f
      BY <1>17, <2>3, <3>2
    <3>3. CASE p # f
      BY <1>6, <1>7, <2>2, <2>4, <3>1, <3>3
    <3>4. QED
      BY <3>2, <3>3, Zenon
  <2>6. QED
    BY <2>1, <2>4, <2>5 DEF ObjectsOf
<1>20. PICK s, t : /\ t = [S[g] EXCEPT !.data = InStorage(f, FromStart(S[g].data))]
                   /\ s = [S[f] EXCEPT !.data = InStorage(g, FromStart(S[f].data))]
  OBVIOUS
<1>21. t = StateOf(f, d) /\ s = StateOf(g, c)
  <2>1. S[f] = StateOf(f, c) /\ S[g] = StateOf(g, d)
    BY <1>2, <1>4, StateFields
  <2>2. /\ t = [S[g] EXCEPT !.data = Place(f, Index[d])]
        /\ s = [S[f] EXCEPT !.data = Place(g, Index[c])]
    BY <1>20, <1>10, Zenon
  <2>3. t = StateOf(f, d)
    BY <2>1, <2>2 DEF StateOf, Address
  <2>4. s = StateOf(g, c)
    BY <2>1, <2>2 DEF StateOf, Address
  <2>5. QED
    BY <2>3, <2>4
<1>22. Put(Put(S, f, t), g, s) = StatesOf(Exchanged(H, f, g))
  BY <1>2, <1>4, <1>21, StatesExchange
<1>23. P = HeapOf(Exchanged(H, f, g))
  BY <1>2, Exchanges
<1>24. SwapInline(m, f, g) = SetStates(Sound(S, O3, P), f, t, g, s)
  <2> DEFINE tmp == Place(Buffer, FromStart(S[f].data))
  <2> DEFINE R1(r) ==
        vtable_destroy(vtable_move_construct(r, S[f].vtable, tmp, S[f].data), S[f].vtable, S[f].data)
  <2> DEFINE R2(r) ==
        vtable_destroy(
          vtable_move_construct(r, S[g].vtable, InStorage(f, FromStart(S[g].data)), S[g].data),
          S[g].vtable, S[g].data)
  <2> DEFINE R3(r) ==
        vtable_destroy(
          vtable_move_construct(r, S[f].vtable, InStorage(g, FromStart(S[f].data)), tmp),
          S[f].vtable, tmp)
  <2>1. SwapInline(m, f, g) = SetStates(R3(R2(R1(m))), f, t, g, s)
    BY <1>3, <1>20, Zenon DEF SwapInline, SetStates
  <2>2. R1(m) = Sound(S, O1, P)
    BY <1>3, <1>8, <1>14, <1>10, Zenon
  <2>3. R2(Sound(S, O1, P)) = Sound(S, O2, P)
    BY <1>8, <1>16, <1>10, Zenon
  <2>4. R3(Sound(S, O2, P)) = Sound(S, O3, P)
    BY <1>8, <1>18, <1>10, Zenon
  <2> HIDE DEF R1, R2, R3
  <2>5. QED
    BY <2>1, <2>2, <2>3, <2>4, Zenon
<1>25. SetStates(Sound(S, O3, P), f, t, g, s) = Sound(Put(Put(S, f, t), g, s), O3, P)
  BY SoundStates
<1>26. QED
  BY <1>1, <1>19, <1>22, <1>23, <1>24, <1>25, Zenon DEF MemoryOf

(* swap exchanges what the two functions hold. *)
LEMMA Swaps ==
  ASSUME NEW H \in Holdings, NEW f \in Functions, NEW g \in Functions, f # g
  PROVE  swap(MemoryOf(H), f, g) = MemoryOf(Exchanged(H, f, g))
<1>1. /\ IsInline(MemoryOf(H), f) <=> H[f] \in Inline
      /\ IsInline(MemoryOf(H), g) <=> H[g] \in Inline
  BY Kinds
<1>2. CASE H[f] \in Inline /\ H[g] \in Inline
  BY <1>1, <1>2, BothInlineSwap, Zenon DEF swap
<1>3. CASE H[f] \in Inline /\ H[g] \notin Inline
  BY <1>1, <1>3, OneInlineSwaps, Zenon DEF swap
<1>4. CASE H[f] \notin Inline /\ H[g] \in Inline
  <2>1. SwapOneInline(MemoryOf(H), g, f) = MemoryOf(Exchanged(H, g, f))
    BY <1>4, OneInlineSwaps
  <2>2. Exchanged(H, f, g) = Exchanged(H, g, f)
    BY Exchanges
  <2>3. QED
    BY <1>1, <1>4, <2>1, <2>2, Zenon DEF swap
<1>5. CASE H[f] \notin Inline /\ H[g] \notin Inline
  BY <1>1, <1>5, PointersSwap, Zenon DEF swap
<1>6. QED
  BY <1>2, <1>3, <1>4, <1>5, Zenon

-----------------------------------------------------------------------------
(* Constructors and the destructor. *)

Holding(H, f, c) == [r \in Functions |-> IF r = f THEN c ELSE H[r]]

LEMMA Holds ==
  ASSUME NEW H \in Holdings, NEW f \in Functions, NEW c \in Callables \cup {Null}
  PROVE  /\ Holding(H, f, c) \in Holdings
         /\ Holding(H, f, c)[f] = c
         /\ \A r \in Functions : r # f => Holding(H, f, c)[r] = H[r]
         /\ StatesOf(Holding(H, f, c)) = Put(StatesOf(H), f, StateOf(f, c))
         /\ ObjectsOf(Holding(H, f, c)) = Put(ObjectsOf(H), f, Stored(c))
<1>1. PICK H2 : H2 = Holding(H, f, c)
  OBVIOUS
<1>2. H2 \in Holdings /\ H2[f] = c /\ \A r \in Functions : r # f => H2[r] = H[r]
  BY <1>1 DEF Holding, Holdings
<1>3. StatesOf(H2) = Put(StatesOf(H), f, StateOf(f, c))
  BY <1>2 DEF StatesOf, Put
<1>4. f # Buffer /\ f \in Storages /\ \A p \in Storages : p = Buffer \/ p \in Functions
  BY UniqueFunctionAssumption DEF Storages
<1>5. ObjectsOf(H2) = Put(ObjectsOf(H), f, Stored(c))
  BY <1>2, <1>4 DEF ObjectsOf, Put
<1>6. QED
  BY <1>1, <1>2, <1>3, <1>5

(* Putting back what is there. *)
LEMMA Unmoved ==
  ASSUME NEW H \in Holdings, NEW f \in Functions, Stored(H[f]) = Null
  PROVE  ObjectsOf(H)[f] = Null /\ Put(ObjectsOf(H), f, Null) = ObjectsOf(H)
<1>1. f \in Storages /\ f # Buffer
  BY UniqueFunctionAssumption DEF Storages
<1>2. QED
  BY <1>1 DEF ObjectsOf, Put

LEMMA HoldsDirect ==
  ASSUME NEW H \in Holdings, NEW f \in Functions, H[f] = Null, NEW c \in Direct
  PROVE  [MemoryOf(H) EXCEPT !.m_state[f] = [vtable |-> Null, call |-> c, data |-> External(c)]] =
           MemoryOf(Holding(H, f, c))
<1>1. c \in Callables \cup {Null} /\ c \notin Inline /\ c \notin Heap /\ Null \notin Inline /\ Null \notin Heap
  BY UniqueFunctionAssumption DEF Direct
<1>2. StateOf(f, c) = [vtable |-> Null, call |-> c, data |-> External(c)]
  BY <1>1, UniqueFunctionAssumption DEF StateOf, Table, Address, Direct
<1>3. Stored(c) = Null /\ Stored(H[f]) = Null
  BY <1>1 DEF Stored
<1>4. ObjectsOf(Holding(H, f, c)) = ObjectsOf(H)
  <2>1. ObjectsOf(Holding(H, f, c)) = Put(ObjectsOf(H), f, Stored(c))
    BY <1>1, Holds
  <2>2. QED
    BY <1>3, <2>1, Unmoved, Zenon
<1>5. HeapOf(Holding(H, f, c)) = HeapOf(H)
  BY <1>1, Holds DEF HeapOf
<1>6. StatesOf(Holding(H, f, c)) = Put(StatesOf(H), f, StateOf(f, c))
  BY <1>1, Holds
<1>7. SetState(MemoryOf(H), f, StateOf(f, c)) =
        Sound(Put(StatesOf(H), f, StateOf(f, c)), ObjectsOf(H), HeapOf(H))
  BY SoundStates DEF MemoryOf
<1>8. SetState(MemoryOf(H), f, StateOf(f, c)) = MemoryOf(Holding(H, f, c))
  BY <1>4, <1>5, <1>6, <1>7, Zenon DEF MemoryOf
<1>9. QED
  BY <1>2, <1>8, Zenon DEF SetState

LEMMA HoldsInline ==
  ASSUME NEW H \in Holdings, NEW f \in Functions, H[f] = Null, NEW c \in Inline
  PROVE  [ConstructAt(MemoryOf(H), c, Place(f, Index[c])) EXCEPT
            !.m_state[f] = [vtable |-> c, call |-> c, data |-> Place(f, Index[c])]] =
           MemoryOf(Holding(H, f, c))
<1>1. c \in Callables \cup {Null} /\ c \notin Heap /\ Null \notin Inline /\ Null \notin Heap
  BY UniqueFunctionAssumption
<1>2. StateOf(f, c) = [vtable |-> c, call |-> c, data |-> Place(f, Index[c])]
  BY DEF StateOf, Table, Address
<1>3. ObjectsOf(H)[f] = Null
  BY <1>1, Unmoved DEF Stored
<1>4. ConstructAt(MemoryOf(H), c, Place(f, Index[c])) =
        Sound(StatesOf(H), Put(ObjectsOf(H), f, Stored(c)), HeapOf(H))
  <2>1. ConstructAt(Sound(StatesOf(H), ObjectsOf(H), HeapOf(H)), c, Place(f, Index[c])) =
          Sound(StatesOf(H), Put(ObjectsOf(H), f, Object(c, Index[c])), HeapOf(H))
    BY <1>3, Alignments, Constructs
  <2>2. Stored(c) = Object(c, Index[c])
    BY DEF Stored
  <2>3. QED
    BY <2>1, <2>2, Zenon DEF MemoryOf
<1>5. HeapOf(Holding(H, f, c)) = HeapOf(H)
  BY <1>1, Holds DEF HeapOf
<1>6. /\ StatesOf(Holding(H, f, c)) = Put(StatesOf(H), f, StateOf(f, c))
      /\ ObjectsOf(Holding(H, f, c)) = Put(ObjectsOf(H), f, Stored(c))
  BY <1>1, Holds
<1>7. PICK O : O = Put(ObjectsOf(H), f, Stored(c))
  OBVIOUS
<1>8. SetState(Sound(StatesOf(H), O, HeapOf(H)), f, StateOf(f, c)) =
        Sound(Put(StatesOf(H), f, StateOf(f, c)), O, HeapOf(H))
  BY SoundStates
<1>9. SetState(ConstructAt(MemoryOf(H), c, Place(f, Index[c])), f, StateOf(f, c)) =
        MemoryOf(Holding(H, f, c))
  BY <1>4, <1>5, <1>6, <1>7, <1>8, Zenon DEF MemoryOf
<1>10. QED
  BY <1>2, <1>9, Zenon DEF SetState

LEMMA HoldsOnHeap ==
  ASSUME NEW H \in Holdings, NEW f \in Functions, H[f] = Null, NEW c \in Heap
  PROVE  [MemoryOf(H) EXCEPT
            !.heap = @ \cup {c},
            !.m_state[f] = [vtable |-> c, call |-> c, data |-> OnHeap(c)]] =
           MemoryOf(Holding(H, f, c))
<1>1. c \in Callables \cup {Null} /\ c \notin Inline /\ Null \notin Inline /\ Null \notin Heap
  BY UniqueFunctionAssumption
<1>2. PICK x : x = StateOf(f, c)
  OBVIOUS
<1>3. x = [vtable |-> c, call |-> c, data |-> OnHeap(c)]
  BY <1>1, <1>2 DEF StateOf, Table, Address
<1>4. PICK S, O, P, e : S = StatesOf(H) /\ O = ObjectsOf(H) /\ P = HeapOf(H) /\ e = FALSE
  OBVIOUS
<1>5. PICK m : m = Mem(S, O, P, e)
  OBVIOUS
<1>6. m = MemoryOf(H)
  BY <1>4, <1>5, Zenon DEF MemoryOf, Sound
<1>7. [m EXCEPT !.heap = @ \cup {c}, !.m_state[f] = x] = Mem(Put(S, f, x), O, P \cup {c}, e)
  <2>1. PICK r : r = [m EXCEPT !.heap = @ \cup {c}, !.m_state[f] = x]
    OBVIOUS
  <2>2. m = [m_state |-> S, objects |-> O, heap |-> P, bad |-> e]
    BY <1>5 DEF Mem
  <2>3. r.objects = O /\ r.bad = e /\ r.heap = P \cup {c}
    BY <2>1, <2>2
  <2>4. r.m_state = [S EXCEPT ![f] = x]
    BY <2>1, <2>2
  <2>5. r = [m_state |-> r.m_state, objects |-> r.objects, heap |-> r.heap, bad |-> r.bad]
    BY <2>1, <2>2
  <2>6. QED
    BY <2>1, <2>3, <2>4, <2>5, Zenon DEF Mem, Put
<1>8. StatesOf(Holding(H, f, c)) = Put(S, f, x)
  BY <1>1, <1>2, <1>4, Holds
<1>9. ObjectsOf(Holding(H, f, c)) = O
  <2>1. ObjectsOf(Holding(H, f, c)) = Put(ObjectsOf(H), f, Stored(c))
    BY <1>1, Holds
  <2>2. Stored(c) = Null /\ Stored(H[f]) = Null
    BY <1>1 DEF Stored
  <2>3. QED
    BY <1>4, <2>1, <2>2, Unmoved, Zenon
<1>10. HeapOf(Holding(H, f, c)) = P \cup {c}
  <2>1. PICK H2 : H2 = Holding(H, f, c)
    OBVIOUS
  <2>2. H2[f] = c /\ \A r \in Functions : r # f => H2[r] = H[r]
    BY <1>1, <2>1, Holds
  <2>3. ASSUME NEW d \in Heap
        PROVE  (\E r \in Functions : H2[r] = d) <=> ((\E r \in Functions : H[r] = d) \/ d = c)
    BY <1>1, <2>2
  <2>4. QED
    BY <1>4, <2>1, <2>3 DEF HeapOf
<1>11. QED
  BY <1>3, <1>4, <1>6, <1>7, <1>8, <1>9, <1>10, Zenon DEF MemoryOf, Sound

LEMMA Destructs ==
  ASSUME NEW H \in Holdings, Single(H), NEW f \in Functions
  PROVE  Destructed(MemoryOf(H), f) = MemoryOf(Holding(H, f, Null))
<1>1. PICK c \in Callables \cup {Null} : c = H[f]
  BY DEF Holdings
<1>2. PICK m : m = MemoryOf(H)
  OBVIOUS
<1>3. PICK S, O, P : S = StatesOf(H) /\ O = ObjectsOf(H) /\ P = HeapOf(H)
  OBVIOUS
<1>4. m = Sound(S, O, P) /\ m.m_state = S
  BY <1>2, <1>3, MemoryFields, Zenon DEF MemoryOf
<1>5. S[f].vtable = Table(c) /\ S[f].data = Address(f, c)
  BY <1>1, <1>3, StateFields
<1>6. PICK n : n = IF S[f].vtable # Null /\ S[f].data # Null
                   THEN vtable_destroy(m, S[f].vtable, S[f].data) ELSE m
  OBVIOUS
<1>7. Destructed(m, f) = SetState(n, f, Empty)
  BY <1>4, <1>6, Zenon DEF Destructed, SetState
<1>8. PICK H2 : H2 = Holding(H, f, Null)
  OBVIOUS
<1>9. /\ H2[f] = Null /\ \A r \in Functions : r # f => H2[r] = H[r]
      /\ StatesOf(H2) = Put(S, f, StateOf(f, Null))
      /\ ObjectsOf(H2) = Put(O, f, Stored(Null))
  BY <1>3, <1>8, Holds
<1>10. Null \notin Inline /\ Null \notin Heap /\ Null \notin Direct
  BY UniqueFunctionAssumption DEF Direct
<1>11. StateOf(f, Null) = Empty /\ Stored(Null) = Null
  BY <1>10 DEF StateOf, Table, Address, Empty, Stored
<1>12. n = Sound(S, Put(O, f, Null), HeapOf(H2))
  <2>1. CASE c \in Inline
    <3>1. /\ Table(c) = c /\ Address(f, c) = Place(f, Index[c]) /\ c # Null
          /\ Place(f, Index[c]) # Null
      BY <1>10, <2>1, InlinePlace, NullAssumption DEF Table, Address
    <3>2. O[f] = Object(c, Index[c])
      BY <1>1, <1>3, <2>1, StoredObjects DEF Stored
    <3>3. O[f] \in Objects /\ O[f].c = c /\ O[f].index = Index[c]
      BY <2>1, <3>2, Alignments, InlineObject, ObjectFields
    <3>4. vtable_destroy(Sound(S, O, P), c, Place(f, Index[c])) = Sound(S, Put(O, f, Null), P)
      BY <2>1, <3>3, DestroysInline
    <3>5. P = HeapOf(H2)
      <4>1. c \notin Heap
        BY <2>1, UniqueFunctionAssumption
      <4>2. \A d \in Heap : (\E r \in Functions : H2[r] = d) <=> (\E r \in Functions : H[r] = d)
        BY <1>1, <1>9, <1>10, <4>1
      <4>3. QED
        BY <1>3, <4>2 DEF HeapOf
    <3>6. QED
      BY <1>4, <1>5, <1>6, <3>1, <3>4, <3>5, Zenon
  <2>2. CASE c \in Heap
    <3>1. c \notin Inline
      BY <2>2, UniqueFunctionAssumption
    <3>2. /\ Table(c) = c /\ Address(f, c) = OnHeap(c) /\ c # Null /\ OnHeap(c) # Null
      BY <1>10, <2>2, <3>1, NullAssumption, UniqueFunctionAssumption DEF Table, Address
    <3>3. c \in P
      BY <1>1, <1>3, <2>2 DEF HeapOf
    <3>4. vtable_destroy(Sound(S, O, P), c, OnHeap(c)) = Sound(S, O, P \ {c})
      BY <2>2, <3>3, DestroysOnHeap
    <3>5. P \ {c} = HeapOf(H2)
      <4>1. \A r \in Functions : H[r] = c => r = f
        BY <1>1, <3>2 DEF Single
      <4>2. ASSUME NEW d \in Heap
            PROVE  (\E r \in Functions : H2[r] = d) <=> ((\E r \in Functions : H[r] = d) /\ d # c)
        BY <1>1, <1>9, <1>10, <4>1
      <4>3. QED
        BY <1>3, <4>2 DEF HeapOf
    <3>6. Put(O, f, Null) = O
      BY <1>1, <1>3, <3>1, Unmoved DEF Stored
    <3>7. QED
      BY <1>4, <1>5, <1>6, <3>2, <3>4, <3>5, <3>6, Zenon
  <2>3. CASE c \notin Inline /\ c \notin Heap
    <3>1. Table(c) = Null
      BY <2>3 DEF Table
    <3>2. P = HeapOf(H2)
      <4>1. \A d \in Heap : (\E r \in Functions : H2[r] = d) <=> (\E r \in Functions : H[r] = d)
        BY <1>1, <1>9, <1>10, <2>3
      <4>2. QED
        BY <1>3, <4>1 DEF HeapOf
    <3>3. Put(O, f, Null) = O
      BY <1>1, <1>3, <2>3, Unmoved DEF Stored
    <3>4. QED
      BY <1>4, <1>5, <1>6, <3>1, <3>2, <3>3, Zenon
  <2>4. QED
    BY <2>1, <2>2, <2>3, Zenon
<1>13. PICK O2 : O2 = Put(O, f, Null)
  OBVIOUS
<1>14. SetState(Sound(S, O2, HeapOf(H2)), f, Empty) = Sound(Put(S, f, Empty), O2, HeapOf(H2))
  BY SoundStates
<1>15. QED
  BY <1>2, <1>7, <1>8, <1>9, <1>11, <1>12, <1>13, <1>14, Zenon DEF MemoryOf

-----------------------------------------------------------------------------
(* What an invocation finds. *)

LEMMA Reads ==
  ASSUME NEW H \in Holdings
  PROVE  HeldIn(MemoryOf(H)) = H
<1>1. MemoryOf(H).m_state = StatesOf(H)
  BY MemoryFields, Zenon
<1>2. \A f \in Functions : StatesOf(H)[f].call = H[f]
  BY StateFields
<1>3. \A f \in Functions : MemoryOf(H).m_state[f].call = H[f]
  BY <1>1, <1>2, Zenon
<1>4. H = [f \in Functions |-> H[f]]
  BY DEF Holdings
<1>5. QED
  BY <1>3, <1>4 DEF HeldIn

LEMMA Finds ==
  ASSUME NEW H \in Holdings, NEW f \in Functions
  PROVE  AtData(MemoryOf(H), f) = H[f]
<1>1. PICK c \in Callables \cup {Null} : c = H[f]
  BY DEF Holdings
<1>2. PICK m : m = MemoryOf(H)
  OBVIOUS
<1>3. m.m_state = StatesOf(H) /\ m.objects = ObjectsOf(H) /\ m.heap = HeapOf(H)
  BY <1>2, MemoryFields, Zenon
<1>4. PICK d : d = m.m_state[f].data
  OBVIOUS
<1>5. d = Address(f, c)
  <2>1. StatesOf(H)[f].data = Address(f, c)
    BY <1>1, StateFields
  <2>2. QED
    BY <1>3, <1>4, <2>1, Zenon
<1>6. AtData(m, f) =
        CASE d = Null                            -> Null
          [] d \in {OnHeap(x) : x \in m.heap}    -> d.heap
          [] d \in {External(x) : x \in Direct}  -> d.external
          [] d \in Places /\ m.objects[d.at] # Null -> m.objects[d.at].c
          [] OTHER                               -> Null
  BY <1>4, Zenon DEF AtData
<1>7. CASE c = Null
  <2>1. d = Null
    BY <1>5, <1>7, Addresses
  <2>2. d \notin {OnHeap(x) : x \in m.heap} /\ d \notin {External(x) : x \in Direct} /\ d \notin Places
    BY <1>3, <2>1, NullAssumption, UniqueFunctionAssumption DEF HeapOf, Direct
  <2>3. QED
    BY <1>1, <1>2, <1>6, <1>7, <2>1, <2>2
<1>8. CASE c \in Heap
  <2>1. d = OnHeap(c) /\ c \in m.heap
    BY <1>1, <1>3, <1>5, <1>8, Addresses DEF HeapOf
  <2>2. d # Null /\ d \notin {External(x) : x \in Direct} /\ d \notin Places
    BY <1>8, <2>1, NotPlaces, NullAssumption, UniqueFunctionAssumption
  <2>3. d \in {OnHeap(x) : x \in m.heap} /\ d.heap = c
    BY <2>1 DEF OnHeap
  <2>4. QED
    BY <1>1, <1>2, <1>6, <2>2, <2>3
<1>9. CASE c \in Direct
  <2>1. d = External(c) /\ c \in Callables
    BY <1>5, <1>9, Addresses
  <2>2. d # Null /\ d \notin {OnHeap(x) : x \in m.heap} /\ d \notin Places
    BY <2>1, NotPlaces, NullAssumption
  <2>3. d \in {External(x) : x \in Direct} /\ d.external = c
    BY <1>9, <2>1 DEF External
  <2>4. QED
    BY <1>1, <1>2, <1>6, <2>2, <2>3
<1>10. CASE c \in Inline
  <2>1. d = Place(f, Index[c]) /\ d \in Places /\ d.at = f
    BY <1>5, <1>10, Addresses, InlinePlace, PlaceFields
  <2>2. d # Null /\ d \notin {OnHeap(x) : x \in m.heap} /\ d \notin {External(x) : x \in Direct}
    BY <2>1, NotPlaces, NullAssumption
  <2>3. m.objects[d.at] = Object(c, Index[c])
    BY <1>1, <1>3, <1>10, <2>1, StoredObjects DEF Stored
  <2>4. m.objects[d.at] # Null /\ m.objects[d.at].c = c
    BY <1>10, <2>3, Alignments, InlineObject, ObjectFields
  <2>5. QED
    BY <1>1, <1>2, <1>6, <2>1, <2>2, <2>4
<1>11. QED
  BY <1>7, <1>8, <1>9, <1>10, Addresses

-----------------------------------------------------------------------------
(* The operations.  Each keeps the invariant and does what the             *)
(* corresponding operation of OwningSlots does.                            *)

view == [f \in exist |-> AtData(mem, f)]

LEMMA Views == IInv => view = [f \in exist |-> held[f]]
<1> SUFFICES ASSUME IInv PROVE view = [f \in exist |-> held[f]]
  OBVIOUS
<1>1. \A f \in exist : AtData(mem, f) = held[f]
  BY Finds DEF IInv, Lists
<1>2. QED
  BY <1>1 DEF view

LEMMA NextViews == IInv' => view' = [f \in exist' |-> held'[f]]
<1>1. (IInv => view = [f \in exist |-> held[f]])'
  BY Views, PTL
<1>2. QED
  BY <1>1

LEMMA Initial == Init => IInv /\ Owning!SlotsInit
<1> SUFFICES ASSUME Init PROVE IInv /\ Owning!SlotsInit
  OBVIOUS
<1>1. PICK H : H = [f \in Functions |-> Null]
  OBVIOUS
<1>2. H \in Holdings /\ \A f \in Functions : H[f] = Null
  BY <1>1 DEF Holdings
<1>3. Null \notin Inline /\ Null \notin Heap
  BY UniqueFunctionAssumption
<1>4. StatesOf(H) = [f \in Functions |-> Empty]
  BY <1>2, <1>3 DEF StatesOf, StateOf, Table, Address, Empty
<1>5. ObjectsOf(H) = [p \in Functions \cup {Buffer} |-> Null]
  BY <1>2, <1>3 DEF ObjectsOf, Stored, Storages
<1>6. HeapOf(H) = {}
  BY <1>2, <1>3 DEF HeapOf
<1>7. mem = MemoryOf(H)
  BY <1>4, <1>5, <1>6, Zenon DEF Init, MemoryOf, Sound, Mem
<1>8. held = H
  BY <1>2, <1>7, Reads DEF held
<1>9. IInv
  BY <1>2, <1>7, <1>8 DEF Init, IInv, Lists, Owners, Single
<1>10. Owning!SlotsInit
  BY DEF Init, Owning!SlotsInit
<1>11. QED
  BY <1>9, <1>10

(* The invariant, once the memory is that of other holdings. *)
LEMMA Keeps ==
  ASSUME NEW H \in Holdings, mem' = MemoryOf(H), Lists', Single(H),
         \A f \in Functions : f \notin exist' => H[f] = Null,
         \A f \in Functions : H[f] # Null => H[f] \in made' \ destroyed'
  PROVE  IInv' /\ held' = H
<1>1. held' = H
  BY Reads DEF held
<1>2. QED
  BY <1>1, Zenon DEF IInv, Owners

LEMMA Makes ==
  ASSUME IInv, NEW f \in Functions, f \notin exist, NEW c \in Callables \cup {Null}, c \notin made,
         mem' = MemoryOf(Holding(held, f, c)),
         exist' = exist \cup {f}, made' = made \cup ({c} \ {Null}), destroyed' = destroyed
  PROVE  IInv' /\ Owning!Make(f, c)
<1>1. PICK H \in Holdings : H = held
  BY DEF IInv
<1>2. PICK H2 \in Holdings : H2 = Holding(H, f, c) /\ mem' = MemoryOf(H2)
  BY <1>1, Holds
<1>3. H2[f] = c /\ \A r \in Functions : r # f => H2[r] = H[r]
  BY <1>1, <1>2, Holds
<1>4. /\ Lists /\ Single(H)
      /\ \A r \in Functions : r \notin exist => H[r] = Null
      /\ \A r \in Functions : H[r] # Null => H[r] \in made \ destroyed
  BY <1>1 DEF IInv, Owners
<1>5. Lists'
  BY <1>4 DEF Lists
<1>6. Single(H2)
  BY <1>3, <1>4 DEF Single
<1>7. \A r \in Functions : r \notin exist' => H2[r] = Null
  BY <1>3, <1>4
<1>8. \A r \in Functions : H2[r] # Null => H2[r] \in made' \ destroyed'
  BY <1>3, <1>4 DEF Lists
<1>9. IInv' /\ held' = H2
  BY <1>2, <1>5, <1>6, <1>7, <1>8, Keeps
<1>10. PICK v, w : v = view /\ w = view'
  OBVIOUS
<1>11. v = [r \in exist |-> H[r]] /\ w = [r \in exist \cup {f} |-> H2[r]]
  BY <1>1, <1>9, <1>10, Views, NextViews
<1>12. DOMAIN v = exist /\ f \notin DOMAIN v
  BY <1>11
<1>13. w = [r \in DOMAIN v \cup {f} |-> IF r = f THEN c ELSE v[r]]
  BY <1>3, <1>4, <1>11, <1>12 DEF Lists
<1>14. c \notin ({v[r] : r \in DOMAIN v} \ {Null}) \cup destroyed
  BY <1>4, <1>11, <1>12 DEF Lists
<1>15. Owning!Make(f, c)
  BY <1>10, <1>12, <1>13, <1>14, Zenon DEF Owning!Make, Owning!With, Owning!Held, view
<1>16. QED
  BY <1>9, <1>15

LEMMA MakesEmpty ==
  ASSUME IInv, NEW f \in Functions, ConstructEmpty(f)
  PROVE  IInv' /\ Owning!Make(f, Null)
<1>1. held[f] = Null
  BY DEF IInv, Owners, ConstructEmpty
<1>2. Holding(held, f, Null) = held
  BY <1>1 DEF IInv, Holdings, Holding
<1>3. mem' = MemoryOf(Holding(held, f, Null))
  BY <1>2 DEF IInv, ConstructEmpty
<1>4. Null \notin made
  BY UniqueFunctionAssumption DEF IInv, Lists
<1>5. /\ f \notin exist /\ exist' = exist \cup {f} /\ made' = made \cup ({Null} \ {Null})
      /\ destroyed' = destroyed
  BY DEF ConstructEmpty
<1>6. QED
  BY <1>3, <1>4, <1>5, Makes

LEMMA MakesCallable ==
  ASSUME IInv, NEW f \in Functions, NEW c \in Callables,
         ConstructDirect(f, c) \/ ConstructInPlace(f, c)
  PROVE  IInv' /\ Owning!Make(f, c)
<1>1. f \notin exist /\ exist' = exist \cup {f} /\ destroyed' = destroyed
  BY DEF ConstructDirect, ConstructInPlace
<1>2. c \notin made /\ made' = made \cup ({c} \ {Null})
  <2>1. c \notin made /\ made' = made \cup {c}
    BY DEF ConstructDirect, ConstructInPlace
  <2>2. c # Null
    BY UniqueFunctionAssumption
  <2>3. QED
    BY <2>1, <2>2
<1>3. held \in Holdings /\ held[f] = Null /\ mem = MemoryOf(held)
  BY <1>1 DEF IInv, Owners
<1>4. mem' = MemoryOf(Holding(held, f, c))
  <2>1. CASE ConstructDirect(f, c)
    <3>1. c \in Direct
      BY <2>1 DEF ConstructDirect
    <3>2. mem' = [MemoryOf(held) EXCEPT
                    !.m_state[f] = [vtable |-> Null, call |-> c, data |-> External(c)]]
      BY <1>3, <2>1, Zenon DEF ConstructDirect
    <3>3. QED
      BY <1>3, <3>1, <3>2, HoldsDirect, Zenon
  <2>2. CASE ConstructInPlace(f, c) /\ c \in Inline
    <3>1. mem' = [ConstructAt(MemoryOf(held), c, Place(f, Index[c])) EXCEPT
                    !.m_state[f] = [vtable |-> c, call |-> c, data |-> Place(f, Index[c])]]
      BY <1>3, <2>2, Zenon DEF ConstructInPlace
    <3>2. QED
      BY <1>3, <2>2, <3>1, HoldsInline, Zenon
  <2>3. CASE ConstructInPlace(f, c) /\ c \notin Inline
    <3>1. c \in Heap
      BY <2>3 DEF ConstructInPlace
    <3>2. mem' = [MemoryOf(held) EXCEPT
                    !.heap = @ \cup {c},
                    !.m_state[f] = [vtable |-> c, call |-> c, data |-> OnHeap(c)]]
      BY <1>3, <2>3, Zenon DEF ConstructInPlace
    <3>3. QED
      BY <1>3, <3>1, <3>2, HoldsOnHeap, Zenon
  <2>4. QED
    BY <2>1, <2>2, <2>3, Zenon
<1>5. c \in Callables \cup {Null}
  OBVIOUS
<1>6. QED
  BY <1>1, <1>2, <1>4, <1>5, Makes

(* MoveConstruct and MoveAssign both swap. *)
LEMMA Moves ==
  ASSUME IInv, NEW f \in Functions, NEW other \in Functions, f # other,
         mem' = swap(mem, f, other), f \in exist', other \in exist',
         exist \subseteq exist', exist' \subseteq Functions, UNCHANGED <<made, destroyed>>
  PROVE  IInv' /\ held' = Exchanged(held, f, other)
<1>1. PICK H \in Holdings : H = held /\ mem = MemoryOf(H)
  BY DEF IInv
<1>2. PICK H2 \in Holdings : H2 = Exchanged(H, f, other)
  BY Exchanges
<1>3. mem' = MemoryOf(H2)
  BY <1>1, <1>2, Swaps
<1>4. H2[f] = H[other] /\ H2[other] = H[f] /\ \A r \in Functions \ {f, other} : H2[r] = H[r]
  BY <1>2, Exchanges
<1>5. /\ Lists /\ Single(H)
      /\ \A r \in Functions : r \notin exist => H[r] = Null
      /\ \A r \in Functions : H[r] # Null => H[r] \in made \ destroyed
  BY <1>1 DEF IInv, Owners
<1>6. Lists'
  BY <1>5 DEF Lists
<1>7. Single(H2)
  BY <1>4, <1>5 DEF Single
<1>8. \A r \in Functions : r \notin exist' => H2[r] = Null
  BY <1>4, <1>5
<1>9. \A r \in Functions : H2[r] # Null => H2[r] \in made' \ destroyed'
  BY <1>4, <1>5
<1>10. IInv' /\ held' = H2
  BY <1>3, <1>6, <1>7, <1>8, <1>9, Keeps
<1>11. QED
  BY <1>1, <1>2, <1>10

LEMMA MovesToNew ==
  ASSUME IInv, NEW f \in Functions, NEW other \in Functions, MoveConstruct(f, other)
  PROVE  IInv' /\ Owning!TakeOver(f, other)
<1>1. /\ f \notin exist /\ other \in exist /\ f # other
      /\ exist' = exist \cup {f} /\ mem' = swap(mem, f, other) /\ UNCHANGED <<made, destroyed>>
  BY DEF MoveConstruct
<1>2. exist \subseteq Functions /\ held \in Holdings /\ held[f] = Null
  BY <1>1 DEF IInv, Lists, Owners
<1>3. IInv' /\ held' = Exchanged(held, f, other)
  BY <1>1, <1>2, Moves
<1>4. PICK H \in Holdings : H = held
  BY <1>2
<1>5. PICK H2 : H2 = held'
  OBVIOUS
<1>6. H2[f] = H[other] /\ H2[other] = Null /\ \A r \in Functions \ {f, other} : H2[r] = H[r]
  BY <1>1, <1>2, <1>3, <1>4, <1>5, Exchanges
<1>7. PICK v, w : v = view /\ w = view'
  OBVIOUS
<1>8. v = [r \in exist |-> H[r]] /\ w = [r \in exist \cup {f} |-> H2[r]]
  BY <1>1, <1>3, <1>4, <1>5, <1>7, Views, NextViews
<1>9. DOMAIN v = exist
  BY <1>8
<1>10. w = [[r \in DOMAIN v \cup {f} |-> IF r = f THEN v[other] ELSE v[r]] EXCEPT ![other] = Null]
  <2>1. \A r \in exist \cup {f} :
          H2[r] = IF r = other THEN Null ELSE IF r = f THEN v[other] ELSE v[r]
    BY <1>1, <1>2, <1>6, <1>8
  <2>2. QED
    BY <1>1, <1>8, <1>9, <2>1
<1>11. Owning!TakeOver(f, other)
  BY <1>1, <1>7, <1>9, <1>10, Zenon DEF Owning!TakeOver, Owning!With, view
<1>12. QED
  BY <1>3, <1>11

LEMMA MovesToOther ==
  ASSUME IInv, NEW f \in Functions, NEW other \in Functions, MoveAssign(f, other)
  PROVE  IInv' /\ Owning!Exchange(f, other)
<1>1. /\ f \in exist /\ other \in exist /\ f # other
      /\ exist' = exist /\ mem' = swap(mem, f, other) /\ UNCHANGED <<made, destroyed>>
  BY DEF MoveAssign
<1>2. exist \subseteq Functions /\ held \in Holdings
  BY DEF IInv, Lists
<1>3. IInv' /\ held' = Exchanged(held, f, other)
  BY <1>1, <1>2, Moves
<1>4. PICK H \in Holdings : H = held
  BY <1>2
<1>5. PICK H2 : H2 = held'
  OBVIOUS
<1>6. H2[f] = H[other] /\ H2[other] = H[f] /\ \A r \in Functions \ {f, other} : H2[r] = H[r]
  BY <1>1, <1>3, <1>4, <1>5, Exchanges
<1>7. PICK v, w : v = view /\ w = view'
  OBVIOUS
<1>8. v = [r \in exist |-> H[r]] /\ w = [r \in exist |-> H2[r]]
  BY <1>1, <1>3, <1>4, <1>5, <1>7, Views, NextViews
<1>9. DOMAIN v = exist
  BY <1>8
<1>10. w = [v EXCEPT ![f] = v[other], ![other] = v[f]]
  <2>1. \A r \in exist : H2[r] = IF r = other THEN v[f] ELSE IF r = f THEN v[other] ELSE v[r]
    BY <1>1, <1>2, <1>6, <1>8
  <2>2. QED
    BY <1>1, <1>8, <1>9, <2>1
<1>11. Owning!Exchange(f, other)
  <2>1. {f, other} \subseteq DOMAIN v
    BY <1>1, <1>9
  <2>2. QED
    BY <1>1, <1>7, <1>10, <2>1, Zenon DEF Owning!Exchange, view
<1>12. QED
  BY <1>3, <1>11

LEMMA Destroys ==
  ASSUME IInv, NEW f \in Functions, Destruct(f)
  PROVE  IInv' /\ Owning!Destroy(f)
<1>1. /\ f \in exist /\ exist' = exist \ {f} /\ mem' = Destructed(mem, f) /\ made' = made
      /\ destroyed' = destroyed \cup ({AtData(mem, f)} \ {Null})
  BY DEF Destruct
<1>2. PICK H \in Holdings : H = held /\ mem = MemoryOf(H)
  BY DEF IInv
<1>3. /\ Lists /\ Single(H)
      /\ \A r \in Functions : r \notin exist => H[r] = Null
      /\ \A r \in Functions : H[r] # Null => H[r] \in made \ destroyed
  BY <1>2 DEF IInv, Owners
<1>4. Null \in Callables \cup {Null}
  OBVIOUS
<1>5. PICK H2 \in Holdings : H2 = Holding(H, f, Null)
  BY <1>4, Holds
<1>6. mem' = MemoryOf(H2)
  BY <1>1, <1>2, <1>3, <1>5, Destructs
<1>7. H2[f] = Null /\ \A r \in Functions : r # f => H2[r] = H[r]
  BY <1>4, <1>5, Holds
<1>8. AtData(mem, f) = H[f]
  BY <1>2, Finds
<1>9. Lists'
  BY <1>1, <1>3, <1>8 DEF Lists
<1>10. Single(H2)
  BY <1>3, <1>7 DEF Single
<1>11. \A r \in Functions : r \notin exist' => H2[r] = Null
  BY <1>1, <1>3, <1>7
<1>12. \A r \in Functions : H2[r] # Null => H2[r] \in made' \ destroyed'
  <2>1. SUFFICES ASSUME NEW r \in Functions, H2[r] # Null PROVE H2[r] \in made' \ destroyed'
    OBVIOUS
  <2>2. r # f /\ H2[r] = H[r]
    BY <1>7, <2>1
  <2>3. H[r] # H[f]
    BY <1>3, <2>1, <2>2 DEF Single
  <2>4. QED
    BY <1>1, <1>3, <1>8, <2>1, <2>2, <2>3
<1>13. IInv' /\ held' = H2
  BY <1>6, <1>9, <1>10, <1>11, <1>12, Keeps
<1>14. PICK v, w : v = view /\ w = view'
  OBVIOUS
<1>15. v = [r \in exist |-> H[r]] /\ w = [r \in exist \ {f} |-> H2[r]]
  BY <1>1, <1>2, <1>13, <1>14, Views, NextViews
<1>16. DOMAIN v = exist /\ v[f] = AtData(mem, f)
  BY <1>1, <1>8, <1>15
<1>17. w = [r \in DOMAIN v \ {f} |-> v[r]]
  BY <1>3, <1>7, <1>15, <1>16 DEF Lists
<1>18. Owning!Destroy(f)
  BY <1>1, <1>14, <1>16, <1>17, Zenon DEF Owning!Destroy, Owning!Without, view
<1>19. QED
  BY <1>13, <1>18

LEMMA Steps == IInv /\ [Next]_vars => IInv' /\ [Owning!SlotsNext]_(Owning!slotVars)
<1> SUFFICES ASSUME IInv, [Next]_vars PROVE IInv' /\ [Owning!SlotsNext]_(Owning!slotVars)
  OBVIOUS
<1>1. ASSUME NEW f \in Functions, ConstructEmpty(f)
      PROVE  IInv' /\ Owning!SlotsNext
  <2>1. Null \in Callables \cup {Null}
    OBVIOUS
  <2>2. QED
    BY <1>1, <2>1, MakesEmpty, Zenon DEF Owning!SlotsNext
<1>2. ASSUME NEW f \in Functions, NEW c \in Callables,
             ConstructDirect(f, c) \/ ConstructInPlace(f, c)
      PROVE  IInv' /\ Owning!SlotsNext
  <2>1. IInv' /\ Owning!Make(f, c)
    BY <1>2, MakesCallable
  <2>2. c \in Callables \cup {Null}
    OBVIOUS
  <2>3. QED
    BY <2>1, <2>2, Zenon DEF Owning!SlotsNext
<1>3. ASSUME NEW f \in Functions, NEW other \in Functions, MoveConstruct(f, other)
      PROVE  IInv' /\ Owning!SlotsNext
  BY <1>3, MovesToNew, Zenon DEF Owning!SlotsNext
<1>4. ASSUME NEW f \in Functions, NEW other \in Functions, MoveAssign(f, other)
      PROVE  IInv' /\ Owning!SlotsNext
  BY <1>4, MovesToOther, Zenon DEF Owning!SlotsNext
<1>5. ASSUME NEW f \in Functions, Destruct(f)
      PROVE  IInv' /\ Owning!SlotsNext
  BY <1>5, Destroys, Zenon DEF Owning!SlotsNext
<1>6. CASE UNCHANGED vars
  <2>1. exist' = exist /\ mem' = mem /\ made' = made /\ destroyed' = destroyed
    BY <1>6 DEF vars
  <2>2. held' = held
    BY <2>1 DEF held
  <2>3. IInv'
    BY <2>1, <2>2, Zenon DEF IInv, Lists, Owners
  <2>4. UNCHANGED Owning!slotVars
    BY <2>1 DEF Owning!slotVars
  <2>5. QED
    BY <2>3, <2>4
<1>7. CASE Next
  BY <1>1, <1>2, <1>3, <1>4, <1>5, <1>7, Zenon DEF Next
<1>8. QED
  BY <1>6, <1>7, Zenon

LEMMA Always == Spec => []IInv
<1>1. Init => IInv
  BY Initial
<1>2. IInv /\ [Next]_vars => IInv'
  BY Steps, Zenon
<1>3. QED
  BY <1>1, <1>2, PTL DEF Spec

-----------------------------------------------------------------------------
(* The memory holds what its description says, and the histories are those *)
(* of callables (unique_function.hpp:116-126, 140-150).                    *)
THEOREM TypeCorrect == Spec => []TypeOK
<1>1. ASSUME IInv PROVE TypeOK
  <2>1. PICK H \in Holdings : H = held /\ mem = MemoryOf(H)
    BY <1>1 DEF IInv
  <2>2. /\ mem.m_state = StatesOf(H) /\ mem.objects = ObjectsOf(H)
        /\ mem.heap = HeapOf(H) /\ mem.bad = FALSE
    BY <2>1, MemoryFields, Zenon
  <2>3. ASSUME NEW f \in Functions
        PROVE  /\ mem.m_state[f].vtable \in Inline \cup Heap \cup {Null}
               /\ mem.m_state[f].call \in Callables \cup {Null}
               /\ mem.m_state[f].data \in
                    Places \cup {OnHeap(c) : c \in Heap} \cup {External(c) : c \in Direct} \cup {Null}
    <3>1. PICK c \in Callables \cup {Null} : c = H[f]
      BY DEF Holdings
    <3>2. /\ mem.m_state[f].vtable = Table(c) /\ mem.m_state[f].call = c
          /\ mem.m_state[f].data = Address(f, c)
      <4>1. /\ StatesOf(H)[f].vtable = Table(c) /\ StatesOf(H)[f].call = c
            /\ StatesOf(H)[f].data = Address(f, c)
        BY <3>1, StateFields
      <4>2. QED
        BY <2>2, <4>1, Zenon
    <3>3. Table(c) \in Inline \cup Heap \cup {Null}
      BY DEF Table
    <3>4. Address(f, c) \in
            Places \cup {OnHeap(d) : d \in Heap} \cup {External(d) : d \in Direct} \cup {Null}
      BY Addresses, InlinePlace
    <3>5. QED
      BY <3>2, <3>3, <3>4, Zenon
  <2>4. mem.objects \in [Functions \cup {Buffer} -> Objects \cup {Null}]
    BY <2>2, StoredObjects DEF Storages
  <2>5. mem.heap \subseteq Heap
    BY <2>2 DEF HeapOf
  <2>6. mem.bad \in BOOLEAN
    BY <2>2, Zenon
  <2>7. QED
    BY <1>1, <2>3, <2>4, <2>5, <2>6, Zenon DEF TypeOK, IInv, Lists
<1>2. QED
  BY <1>1, Always, PTL

(* A function only ever invokes the callable it holds, whole and where the *)
(* function says it is, after any sequence of constructions, moves and     *)
(* destructions (unique_function.hpp:118-124, 169-224).                    *)
THEOREM InvokesWhatItHolds == Spec => []InvokesItsOwn
<1>1. ASSUME IInv PROVE InvokesItsOwn
  <2>1. PICK H \in Holdings : H = held /\ mem = MemoryOf(H)
    BY <1>1 DEF IInv
  <2>2. mem.m_state = StatesOf(H) /\ mem.objects = ObjectsOf(H) /\ mem.heap = HeapOf(H)
    BY <2>1, MemoryFields, Zenon
  <2>3. SUFFICES ASSUME NEW f \in Functions, NEW s, s = mem.m_state[f]
                 PROVE  CASE s.call = Null      -> s = Empty
                          [] s.call \in Direct  -> s.data = External(s.call)
                          [] s.call \in Heap    -> s.data = OnHeap(s.call) /\ s.call \in mem.heap
                          [] OTHER              -> /\ IsInline(mem, f)
                                                   /\ mem.objects[f] = Object(s.call, s.data.index)
    BY <1>1, Zenon DEF InvokesItsOwn, IInv, Lists
  <2>4. PICK c \in Callables \cup {Null} : c = H[f]
    BY DEF Holdings
  <2>5. s = StateOf(f, c) /\ s.call = c /\ s.data = Address(f, c)
    <3>1. /\ StatesOf(H)[f] = StateOf(f, c) /\ StatesOf(H)[f].call = c
          /\ StatesOf(H)[f].data = Address(f, c)
      BY <2>4, StateFields
    <3>2. QED
      BY <2>2, <2>3, <3>1, Zenon
  <2>6. CASE c = Null
    <3>1. Null \notin Inline /\ Null \notin Heap /\ Null \notin Direct
      BY UniqueFunctionAssumption DEF Direct
    <3>2. s = Empty
      BY <2>5, <2>6, <3>1 DEF StateOf, Table, Address, Empty
    <3>3. QED
      BY <2>5, <2>6, <3>1, <3>2
  <2>7. CASE c \in Direct
    <3>1. c # Null /\ c \notin Heap /\ s.data = External(c)
      BY <2>5, <2>7, Addresses
    <3>2. QED
      BY <2>5, <2>7, <3>1
  <2>8. CASE c \in Heap
    <3>1. c # Null /\ c \notin Direct /\ s.data = OnHeap(c)
      BY <2>5, <2>8, Addresses
    <3>2. c \in mem.heap
      BY <2>2, <2>4, <2>8 DEF HeapOf
    <3>3. QED
      BY <2>5, <2>8, <3>1, <3>2
  <2>9. CASE c \in Inline
    <3>1. c # Null /\ c \notin Direct /\ c \notin Heap /\ s.data = Place(f, Index[c])
      BY <2>5, <2>9, Addresses
    <3>2. s.data.index = Index[c]
      BY <3>1, PlaceFields
    <3>3. mem.objects[f] = Object(c, Index[c])
      BY <2>2, <2>4, <2>9, StoredObjects DEF Stored
    <3>4. IsInline(mem, f)
      BY <2>1, <2>4, <2>9, Kinds
    <3>5. QED
      BY <2>5, <3>1, <3>2, <3>3, <3>4
  <2>10. QED
    BY <2>6, <2>7, <2>8, <2>9, Addresses
<1>2. QED
  BY <1>1, Always, PTL

(* No callable is constructed over another, moved from or destroyed where  *)
(* it is not, in any of the branches of swap (unique_function.hpp:184-213).*)
THEOREM MemoryIsSound == Spec => []NeverMisused
<1>1. ASSUME IInv PROVE NeverMisused
  <2>1. mem = MemoryOf(held)
    BY <1>1 DEF IInv
  <2>2. mem.bad = FALSE
    BY <2>1, MemoryFields, Zenon
  <2>3. QED
    BY <2>2, Zenon DEF NeverMisused
<1>2. QED
  BY <1>1, Always, PTL

(* A storage without a function of its own is empty, and a callable on the *)
(* heap has one owner (unique_function.hpp:179-224).                       *)
THEOREM NothingIsLeft == Spec => []NothingLeftBehind
<1>1. ASSUME IInv PROVE NothingLeftBehind
  <2>1. PICK H \in Holdings : H = held /\ mem = MemoryOf(H)
    BY <1>1 DEF IInv
  <2>2. mem.m_state = StatesOf(H) /\ mem.objects = ObjectsOf(H) /\ mem.heap = HeapOf(H)
    BY <2>1, MemoryFields, Zenon
  <2>3. /\ exist \subseteq Functions /\ Single(H)
        /\ \A r \in Functions : r \notin exist => H[r] = Null
    BY <1>1, <2>1 DEF IInv, Lists, Owners
  <2>4. ASSUME NEW p \in Functions \cup {Buffer}, mem.objects[p] # Null
        PROVE  p \in exist /\ IsInline(mem, p)
    <3>1. p \in Functions
      BY <2>2, <2>4, StoredObjects
    <3>2. H[p] \in Inline
      BY <2>2, <2>4, <3>1, StoredObjects DEF Stored
    <3>3. IsInline(mem, p)
      BY <2>1, <3>1, <3>2, Kinds
    <3>4. p \in exist
      BY <2>3, <3>1, <3>2, UniqueFunctionAssumption
    <3>5. QED
      BY <3>3, <3>4
  <2>5. ASSUME NEW c \in mem.heap
        PROVE  Cardinality({f \in exist : mem.m_state[f].data = OnHeap(c)}) = 1
    <3>1. c \in Heap /\ c # Null /\ c \notin Inline
      BY <2>2, UniqueFunctionAssumption DEF HeapOf
    <3>2. PICK f \in Functions : H[f] = c
      BY <2>2 DEF HeapOf
    <3>3. f \in exist
      BY <2>3, <3>1, <3>2
    <3>4. ASSUME NEW g \in Functions
          PROVE  mem.m_state[g].data = OnHeap(c) <=> H[g] = c
      <4>1. PICK d \in Callables \cup {Null} : d = H[g]
        BY DEF Holdings
      <4>2. StatesOf(H)[g].data = Address(g, d)
        BY <4>1, StateFields
      <4>3. mem.m_state[g].data = Address(g, d)
        BY <2>2, <4>2, Zenon
      <4>4. d = c => Address(g, d) = OnHeap(c)
        BY <3>1, Addresses
      <4>5. Address(g, d) = OnHeap(c) => d = c
        <5>1. CASE d \in Inline
          <6>1. Address(g, d) \in Places
            BY <5>1, Addresses, InlinePlace
          <6>2. QED
            BY <6>1, NotPlaces
        <5>2. CASE d \in Heap
          BY <5>2, Addresses, NotPlaces
        <5>3. CASE d \in Direct
          BY <5>3, Addresses, NotPlaces
        <5>4. CASE d = Null
          BY <3>1, <5>4, Addresses, NullAssumption, UniqueFunctionAssumption
        <5>5. QED
          BY <5>1, <5>2, <5>3, <5>4, Addresses
      <4>6. QED
        BY <4>1, <4>3, <4>4, <4>5, Zenon
    <3>5. \A g \in Functions : H[g] = c => g = f
      BY <2>3, <3>1, <3>2 DEF Single
    <3>6. {g \in exist : mem.m_state[g].data = OnHeap(c)} = {f}
      BY <2>3, <3>2, <3>3, <3>4, <3>5
    <3>7. QED
      BY <3>6, FS_Singleton
  <2>6. QED
    BY <2>4, <2>5 DEF NothingLeftBehind
<1>2. QED
  BY <1>1, Always, PTL

(* unique_function implements slots that own one callable each: moves      *)
(* exchange them, and each is destroyed once, with the function that holds *)
(* it (unique_function.hpp:156-167, 179-224).                              *)
THEOREM ImplementsOwningSlots == Spec => OwningSpec
<1>1. Init => IInv /\ Owning!SlotsInit
  BY Initial
<1>2. IInv /\ [Next]_vars => IInv' /\ [Owning!SlotsNext]_(Owning!slotVars)
  BY Steps
<1>3. QED
  BY <1>1, <1>2, PTL DEF Spec, OwningSpec, Owning!SlotsSpec
=============================================================================
