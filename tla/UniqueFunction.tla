--------------------------- MODULE UniqueFunction ---------------------------
(***************************************************************************)
(* tcx::unique_function (include/tcx/unique_function.hpp), down to the     *)
(* memory its callables live in.                                           *)
(*                                                                         *)
(* A callable lives in the storage of a function, at an index its          *)
(* alignment asks for, or on the heap, or it is a function pointer or a    *)
(* reference to an object that belongs to somebody else.  No function is   *)
(* moved to itself: nothing in src/ does it, and swap does not expect it.  *)
(***************************************************************************)
EXTENDS Naturals, FiniteSets

CONSTANTS
  Functions,  \* unique_function variables
  Callables,  \* each is made once; its type has a virtual_table of its own
  Inline,     \* those that fit the storage and do not throw when moved
  Heap,       \* those that do not
  Index,      \* where in a storage each inline callable is aligned
  Buffer,     \* tmp_buf of swap
  Null        \* nullptr

ASSUME UniqueFunctionAssumption ==
  /\ Inline \cup Heap \subseteq Callables
  /\ Inline \cap Heap = {}
  /\ Index \in [Inline -> {0, 8}]
  /\ Buffer \notin Functions
  /\ Null \notin Callables

VARIABLES
  exist,     \* functions constructed and not destroyed
  mem,       \* memory: m_state of each function, the object in each storage
             \* and in tmp_buf, the callables on the heap, and whether an
             \* object was used that was not there
  made,      \* history: callables made
  destroyed  \* history: callables destroyed with their function

vars == <<exist, mem, made, destroyed>>

Direct == Callables \ (Inline \cup Heap)

(* sizeof(virtual_state).  A function has 64 bytes, as has tmp_buf: first  *)
(* m_state, then m_storage.                                                *)
StateSize == 24

Offsets == 0..63

StorageOffsets == 0..(63 - StateSize)

(* An address: an index counts from the start of m_storage in a function,  *)
(* and from the start of tmp_buf there.                                    *)
Places == [at : Functions \cup {Buffer}, index : Offsets]

OnHeap(c) == [heap |-> c]

External(c) == [external |-> c]

Objects == [c : Inline, index : Offsets, moved : BOOLEAN]

(* nullptr is the address of nothing. *)
ASSUME NullAssumption ==
  /\ Null \notin Places \cup Objects
  /\ \A c \in Callables : Null # OnHeap(c) /\ Null # External(c)

Empty == [vtable |-> Null, call |-> Null, data |-> Null]

TypeOK ==
  /\ exist \subseteq Functions
  /\ \A f \in Functions :
       /\ mem.m_state[f].vtable \in Inline \cup Heap \cup {Null}
       /\ mem.m_state[f].call \in Callables \cup {Null}
       /\ mem.m_state[f].data \in
            Places \cup {OnHeap(c) : c \in Heap} \cup {External(c) : c \in Direct} \cup {Null}
  /\ mem.objects \in [Functions \cup {Buffer} -> Objects \cup {Null}]
  /\ mem.heap \subseteq Heap
  /\ mem.bad \in BOOLEAN
  /\ made \subseteq Callables
  /\ destroyed \subseteq made

Init ==
  /\ exist = {}
  /\ mem = [m_state |-> [f \in Functions |-> Empty],
            objects |-> [p \in Functions \cup {Buffer} |-> Null],
            heap |-> {},
            bad |-> FALSE]
  /\ made = {}
  /\ destroyed = {}

-----------------------------------------------------------------------------
(* Memory, and what the functions of a virtual_table do to it. *)

Object(c, index) == [c |-> c, index |-> index, moved |-> FALSE]

(* Where the alignment of a callable asks for it to be. *)
Aligned(p, c) == IF p = Buffer THEN StateSize + Index[c] ELSE Index[c]

ConstructAt(m, c, place) ==
  [m EXCEPT !.objects[place.at] = Object(c, place.index),
            !.bad = @ \/ m.objects[place.at] # Null \/ place.index # Aligned(place.at, c)]

vtable_move_construct(m, c, lhs, rhs) ==
  LET n == ConstructAt(m, c, lhs) IN
  [n EXCEPT !.objects[rhs.at].moved = TRUE,
            !.bad = @ \/ m.objects[rhs.at] # Object(c, rhs.index)]

inline_destroy(m, c, data) ==
  [m EXCEPT !.objects[data.at] = Null,
            !.bad = @ \/ m.objects[data.at] = Null
                      \/ m.objects[data.at].c # c
                      \/ m.objects[data.at].index # data.index]

heap_destroy(m, c, data) ==
  [m EXCEPT !.heap = @ \ {c}, !.bad = @ \/ data # OnHeap(c) \/ c \notin m.heap]

vtable_destroy(m, c, data) ==
  IF c \in Heap THEN heap_destroy(m, c, data) ELSE inline_destroy(m, c, data)

Place(p, index) == [at |-> p, index |-> index]

(* The callable at the address a function keeps. *)
AtData(m, f) ==
  LET d == m.m_state[f].data IN
  CASE d = Null                            -> Null
    [] d \in {OnHeap(c) : c \in m.heap}    -> d.heap
    [] d \in {External(c) : c \in Direct}  -> d.external
    [] d \in Places /\ m.objects[d.at] # Null -> m.objects[d.at].c
    [] OTHER                               -> Null

IsInline(m, f) == m.m_state[f].data \in [at : {f}, index : StorageOffsets]

-----------------------------------------------------------------------------
(* swap, both inline: first_index and second_index count from the start of *)
(* the function.                                                           *)
FromStart(data) == StateSize + data.index

(* swap, both inline: f.m_storage + index - sizeof(virtual_state). *)
InStorage_FromStart(f, index) == Place(f, index)

InStorage(f, index) == Place(f, index - StateSize)

(* swap, both inline: through tmp_buf. *)
SwapInline(m, first, second) ==
  LET s == m.m_state[first]
      t == m.m_state[second]
      first_index == FromStart(s.data)
      second_index == FromStart(t.data)
      tmp == Place(Buffer, first_index)
      m1 == vtable_move_construct(m, s.vtable, tmp, s.data)
      m2 == vtable_destroy(m1, s.vtable, s.data)
      m3 == vtable_move_construct(m2, t.vtable, InStorage(first, second_index), t.data)
      m4 == vtable_destroy(m3, t.vtable, t.data)
      m5 == vtable_move_construct(m4, s.vtable, InStorage(second, first_index), tmp)
      m6 == vtable_destroy(m5, s.vtable, tmp)
  IN [m6 EXCEPT !.m_state[first] = [t EXCEPT !.data = InStorage(first, second_index)],
                !.m_state[second] = [s EXCEPT !.data = InStorage(second, first_index)]]

(* swap, first inline only: the callable moves into the storage of second. *)
Relocated_NotDestroyed(m, first, second) ==
  LET s == m.m_state[first]
  IN vtable_move_construct(m, s.vtable, Place(second, s.data.index), s.data)

Relocated(m, first, second) ==
  LET s == m.m_state[first]
      m1 == vtable_move_construct(m, s.vtable, Place(second, s.data.index), s.data)
  IN vtable_destroy(m1, s.vtable, s.data)

SwapOneInline_Address(m, first, second) ==
  [Relocated(m, first, second) EXCEPT !.m_state[first] = m.m_state[second],
                                      !.m_state[second] = m.m_state[first]]

SwapOneInline(m, first, second) ==
  LET s == m.m_state[first] IN
  [Relocated(m, first, second) EXCEPT
     !.m_state[first] = m.m_state[second],
     !.m_state[second] = [s EXCEPT !.data = Place(second, @.index)]]

SwapPointers(m, first, second) ==
  [m EXCEPT !.m_state[first] = m.m_state[second], !.m_state[second] = m.m_state[first]]

swap(m, first, second) ==
  IF IsInline(m, first) /\ IsInline(m, second) THEN SwapInline(m, first, second)
  ELSE IF IsInline(m, first) THEN SwapOneInline(m, first, second)
  ELSE IF IsInline(m, second) THEN SwapOneInline(m, second, first)
  ELSE SwapPointers(m, first, second)

(* ~unique_function destroys what the table and the address say. *)
Destructed_InlineOnly(m, f) ==
  [(IF IsInline(m, f) THEN vtable_destroy(m, m.m_state[f].vtable, m.m_state[f].data) ELSE m)
     EXCEPT !.m_state[f] = Empty]

Destructed(m, f) ==
  LET s == m.m_state[f] IN
  [(IF s.vtable # Null /\ s.data # Null THEN vtable_destroy(m, s.vtable, s.data) ELSE m)
     EXCEPT !.m_state[f] = Empty]

-----------------------------------------------------------------------------
ConstructEmpty(f) ==
  /\ f \notin exist
  /\ exist' = exist \cup {f}
  /\ UNCHANGED <<mem, made, destroyed>>

(* From a reference_wrapper, or from what converts to a function pointer. *)
ConstructDirect(f, c) ==
  /\ f \notin exist
  /\ c \in Direct \ made
  /\ exist' = exist \cup {f}
  /\ made' = made \cup {c}
  /\ mem' = [mem EXCEPT !.m_state[f] = [vtable |-> Null, call |-> c, data |-> External(c)]]
  /\ UNCHANGED destroyed

(* From std::in_place_type<T>: in the storage if T fits and moves without  *)
(* throwing, else on the heap.                                             *)
ConstructInPlace(f, c) ==
  /\ f \notin exist
  /\ c \in (Inline \cup Heap) \ made
  /\ exist' = exist \cup {f}
  /\ made' = made \cup {c}
  /\ IF c \in Inline
       THEN mem' = [ConstructAt(mem, c, Place(f, Index[c])) EXCEPT
                      !.m_state[f] = [vtable |-> c, call |-> c, data |-> Place(f, Index[c])]]
       ELSE mem' = [mem EXCEPT
                      !.heap = @ \cup {c},
                      !.m_state[f] = [vtable |-> c, call |-> c, data |-> OnHeap(c)]]
  /\ UNCHANGED destroyed

MoveConstruct(f, other) ==
  /\ f \notin exist
  /\ other \in exist
  /\ exist' = exist \cup {f}
  /\ mem' = swap(mem, f, other)
  /\ UNCHANGED <<made, destroyed>>

MoveAssign(f, other) ==
  /\ f # other
  /\ {f, other} \subseteq exist
  /\ mem' = swap(mem, f, other)
  /\ UNCHANGED <<exist, made, destroyed>>

Destruct(f) ==
  /\ f \in exist
  /\ exist' = exist \ {f}
  /\ mem' = Destructed(mem, f)
  /\ destroyed' = destroyed \cup ({AtData(mem, f)} \ {Null})
  /\ UNCHANGED made

Next ==
  \E f \in Functions :
    \/ ConstructEmpty(f)
    \/ \E c \in Callables : ConstructDirect(f, c) \/ ConstructInPlace(f, c)
    \/ \E other \in Functions : MoveConstruct(f, other) \/ MoveAssign(f, other)
    \/ Destruct(f)

Spec == Init /\ [][Next]_vars

-----------------------------------------------------------------------------
(* Safety. *)

(* operator() invokes a callable through an address: it must be that       *)
(* callable, whole and in place (unique_function.hpp:118-124, 169-172).    *)
InvokesItsOwn ==
  \A f \in exist :
    LET s == mem.m_state[f] IN
    CASE s.call = Null      -> s = Empty
      [] s.call \in Direct  -> s.data = External(s.call)
      [] s.call \in Heap    -> s.data = OnHeap(s.call) /\ s.call \in mem.heap
      [] OTHER              -> /\ IsInline(mem, f)
                               /\ mem.objects[f] = Object(s.call, s.data.index)

(* No object is constructed over another one or out of alignment, moved    *)
(* from or destroyed where it is not (unique_function.hpp:184-199).        *)
NeverMisused == ~mem.bad

(* Nothing is left behind: a storage that no function uses is empty, and   *)
(* so is tmp_buf; what is on the heap has an owner, one                    *)
(* (unique_function.hpp:179-224).                                          *)
NothingLeftBehind ==
  /\ \A p \in Functions \cup {Buffer} :
       mem.objects[p] # Null => p \in exist /\ IsInline(mem, p)
  /\ \A c \in mem.heap : Cardinality({f \in exist : mem.m_state[f].data = OnHeap(c)}) = 1

(* Functions implement slots that own a callable each. *)
Owning == INSTANCE OwningSlots WITH
            Slots <- Functions,
            Targets <- Callables,
            Nothing <- Null,
            holds <- [f \in exist |-> AtData(mem, f)]

OwningSpec == Owning!SlotsSpec
=============================================================================
