-------------------------- MODULE PollServiceProofs --------------------------
(***************************************************************************)
(* Theorems about PollService, for any descriptors and completions and any *)
(* depth of nested calls of poll().                                        *)
(*                                                                         *)
(* The argument: an iteration of poll() removes one element from each      *)
(* list, whichever it is, and it leaves EMPTY in the place of the function *)
(* it calls.  While poll() only ever saw one descriptor, an activation     *)
(* that is about to call a function sees the lists as they were when it    *)
(* started: one descriptor and its completion.                             *)
(***************************************************************************)
EXTENDS PollService, SequenceTheorems, FiniteSetTheorems, TLAPS

Frame == [fds : Seq(FDs), ready : SUBSET FDs, i : Nat, f : Handlers \cup {EMPTY}]

Types ==
  /\ m_fds \in Seq(FDs)
  /\ m_completions \in Seq(Handlers \cup {EMPTY})
  /\ frames \in Seq(Frame)
  /\ owner \in [Handlers -> FDs \cup {NoFD}]
  /\ calls \in [Handlers -> 0..2]
  /\ crowded \in BOOLEAN

Parallel == Len(m_fds) = Len(m_completions)

(* A completion in the list is there once and was not called. *)
Fresh ==
  /\ \A i, j \in 1..Len(m_completions) :
       m_completions[i] = m_completions[j] /\ m_completions[i] # EMPTY => i = j
  /\ \A i \in 1..Len(m_completions) : m_completions[i] # EMPTY =>
       calls[m_completions[i]] = 0 /\ owner[m_completions[i]] # NoFD
  /\ \A h \in Handlers : owner[h] = NoFD => calls[h] = 0

OnlyOnce == \A h \in Handlers : calls[h] \in {0, 1}

(* An activation that has called another is in its function. *)
Stack == \A k \in 1..Len(frames) : k < Len(frames) => frames[k].f # EMPTY

(* What holds while poll() only saw one descriptor at a time. *)
Mirror ==
  \A i \in 1..Len(m_completions) :
    /\ m_completions[i] \in Handlers
    /\ owner[m_completions[i]] = m_fds[Len(m_fds) - i + 1]

Kept == \A h \in Handlers : owner[h] # NoFD =>
          (calls[h] = 0 <=> \E i \in 1..Len(m_completions) : m_completions[i] = h)

OneEach ==
  \A k \in 1..Len(frames) :
    Len(frames[k].fds) = 1 /\ frames[k].ready = {frames[k].fds[1]}

AsPolled == frames # <<>> /\ top.f = EMPTY /\ top.i = 0 => m_fds = top.fds

Alone == ~crowded => wrong = {} /\ Mirror /\ Kept /\ OneEach /\ AsPolled

IInv == Types /\ Parallel /\ Fresh /\ OnlyOnce /\ Stack /\ Alone

-----------------------------------------------------------------------------
(* Sequences. *)

(* t is s with e put in at position p; t is s with one element taken out. *)
WithAt(t, s, p, e) ==
  /\ Len(t) = Len(s) + 1
  /\ \A i \in 1..Len(s) + 1 : t[i] = IF i < p THEN s[i] ELSE IF i = p THEN e ELSE s[i - 1]

WithoutAt(t, s, p) ==
  /\ Len(t) = Len(s) - 1
  /\ \A i \in 1..Len(s) - 1 : t[i] = IF i < p THEN s[i] ELSE s[i + 1]

LEMMA FrontOf ==
  ASSUME NEW S, NEW s \in Seq(S), s # <<>>
  PROVE  /\ Front(s) \in Seq(S)
         /\ Len(s) \in Nat \ {0}
         /\ Len(Front(s)) = Len(s) - 1
         /\ \A i \in 1..Len(s) - 1 : Front(s)[i] = s[i]
<1>1. PICK n \in Nat \ {0} : n = Len(s)
  BY EmptySeq
<1>2. \A i \in 1..n - 1 : s[i] \in S
  BY <1>1, ElementOfSeq
<1>3. /\ SubSeq(s, 1, n - 1) \in Seq(S)
      /\ Len(SubSeq(s, 1, n - 1)) = IF 1 <= n - 1 THEN (n - 1) - 1 + 1 ELSE 0
      /\ \A i \in 1..(n - 1) - 1 + 1 : SubSeq(s, 1, n - 1)[i] = s[1 + i - 1]
  BY <1>2, SubSeqProperties
<1>4. /\ (IF 1 <= n - 1 THEN (n - 1) - 1 + 1 ELSE 0) = n - 1
      /\ \A i \in 1..n - 1 : i \in 1..(n - 1) - 1 + 1 /\ 1 + i - 1 = i
  OBVIOUS
<1>5. QED
  BY <1>1, <1>3, <1>4, Zenon DEF Front

(* The elements before a position, and the ones from it on. *)
LEMMA Before ==
  ASSUME NEW S, NEW s \in Seq(S), NEW p \in 1..Len(s) + 1
  PROVE  /\ SubSeq(s, 1, p - 1) \in Seq(S) /\ Len(SubSeq(s, 1, p - 1)) = p - 1
         /\ \A i \in 1..p - 1 : SubSeq(s, 1, p - 1)[i] = s[i]
<1>1. \A i \in 1..p - 1 : s[i] \in S
  BY ElementOfSeq
<1>2. /\ SubSeq(s, 1, p - 1) \in Seq(S)
      /\ Len(SubSeq(s, 1, p - 1)) = IF 1 <= p - 1 THEN (p - 1) - 1 + 1 ELSE 0
      /\ \A i \in 1..(p - 1) - 1 + 1 : SubSeq(s, 1, p - 1)[i] = s[1 + i - 1]
  BY <1>1, SubSeqProperties
<1>3. /\ (IF 1 <= p - 1 THEN (p - 1) - 1 + 1 ELSE 0) = p - 1
      /\ \A i \in 1..p - 1 : i \in 1..(p - 1) - 1 + 1 /\ 1 + i - 1 = i
  OBVIOUS
<1>4. QED
  BY <1>2, <1>3

LEMMA From ==
  ASSUME NEW S, NEW s \in Seq(S), NEW p \in 1..Len(s) + 1
  PROVE  /\ SubSeq(s, p, Len(s)) \in Seq(S) /\ Len(SubSeq(s, p, Len(s))) = Len(s) + 1 - p
         /\ \A i \in 1..Len(s) + 1 - p : SubSeq(s, p, Len(s))[i] = s[p + i - 1]
<1>1. PICK n \in Nat : n = Len(s)
  OBVIOUS
<1>2. \A i \in p..n : s[i] \in S
  BY <1>1, ElementOfSeq
<1>3. /\ SubSeq(s, p, n) \in Seq(S)
      /\ Len(SubSeq(s, p, n)) = IF p <= n THEN n - p + 1 ELSE 0
      /\ \A i \in 1..n - p + 1 : SubSeq(s, p, n)[i] = s[p + i - 1]
  BY <1>1, <1>2, SubSeqProperties
<1>4. (IF p <= n THEN n - p + 1 ELSE 0) = n + 1 - p /\ n - p + 1 = n + 1 - p
  BY <1>1
<1>5. QED
  BY <1>1, <1>3, <1>4, Zenon

LEMMA Inserted ==
  ASSUME NEW S, NEW s \in Seq(S), NEW p \in 1..Len(s) + 1, NEW e \in S
  PROVE  InsertAt(s, p, e) \in Seq(S) /\ WithAt(InsertAt(s, p, e), s, p, e)
<1>a. Len(s) \in Nat
  OBVIOUS
<1> SUFFICES ASSUME NEW n \in Nat, n = Len(s), p \in 1..n + 1
             PROVE  /\ InsertAt(s, p, e) \in Seq(S)
                    /\ Len(InsertAt(s, p, e)) = n + 1
                    /\ \A i \in 1..n + 1 : InsertAt(s, p, e)[i] =
                         IF i < p THEN s[i] ELSE IF i = p THEN e ELSE s[i - 1]
  BY <1>a, Zenon DEF WithAt
<1>1. PICK a, b : a = SubSeq(s, 1, p - 1) /\ b = SubSeq(s, p, n)
  OBVIOUS
<1>2. /\ a \in Seq(S) /\ Len(a) = p - 1
      /\ \A i \in 1..p - 1 : a[i] = s[i]
      /\ b \in Seq(S) /\ Len(b) = n + 1 - p
      /\ \A i \in 1..n + 1 - p : b[i] = s[p + i - 1]
  <2>1. a \in Seq(S) /\ Len(a) = p - 1 /\ \A i \in 1..p - 1 : a[i] = s[i]
    BY <1>1, Before, Zenon
  <2>2. /\ b \in Seq(S) /\ Len(b) = n + 1 - p
        /\ \A i \in 1..n + 1 - p : b[i] = s[p + i - 1]
    BY <1>1, From, Zenon
  <2>3. QED
    BY <2>1, <2>2, Zenon
<1>3. InsertAt(s, p, e) = (a \o <<e>>) \o b
  BY <1>1 DEF InsertAt
<1>4. PICK c : c = a \o <<e>>
  OBVIOUS
<1>5. /\ c \in Seq(S) /\ Len(c) = p
      /\ \A i \in 1..p : c[i] = IF i <= p - 1 THEN a[i] ELSE e
  <2>1. <<e>> \in Seq(S) /\ Len(<<e>>) = 1
    OBVIOUS
  <2>2. /\ c \in Seq(S) /\ Len(c) = p - 1 + 1
        /\ \A i \in 1..p - 1 + 1 : c[i] = IF i <= p - 1 THEN a[i] ELSE <<e>>[i - (p - 1)]
    BY <1>2, <1>4, <2>1, ConcatProperties
  <2>3. p - 1 + 1 = p
    OBVIOUS
  <2>4. QED
    BY <2>2, <2>3
<1>6. /\ c \o b \in Seq(S) /\ Len(c \o b) = p + (n + 1 - p)
      /\ \A i \in 1..p + (n + 1 - p) : (c \o b)[i] = IF i <= p THEN c[i] ELSE b[i - p]
  BY <1>2, <1>5, ConcatProperties
<1>7. p + (n + 1 - p) = n + 1
  OBVIOUS
<1>8. ASSUME NEW i \in 1..n + 1
      PROVE  (c \o b)[i] = IF i < p THEN s[i] ELSE IF i = p THEN e ELSE s[i - 1]
  <2>1. CASE i < p
    <3>1. i \in 1..p - 1 /\ i \in 1..p /\ i <= p /\ i <= p - 1
      BY <2>1
    <3>2. (c \o b)[i] = c[i]
      BY <1>6, <1>7, <3>1
    <3>3. c[i] = a[i] /\ a[i] = s[i]
      BY <1>2, <1>5, <3>1
    <3>4. QED
      BY <2>1, <3>2, <3>3, Zenon
  <2>2. CASE i = p
    BY <1>5, <1>6, <1>7, <2>2
  <2>3. CASE i > p
    <3>1. i - p \in 1..n + 1 - p /\ p + (i - p) - 1 = i - 1 /\ ~(i <= p) /\ ~(i < p) /\ i # p
      BY <2>3
    <3>2. QED
      BY <1>2, <1>6, <1>7, <3>1
  <2>4. i < p \/ i = p \/ i > p
    OBVIOUS
  <2>5. QED
    BY <2>1, <2>2, <2>3, <2>4, Zenon
<1>9. QED
  BY <1>3, <1>4, <1>6, <1>7, <1>8

LEMMA Removed ==
  ASSUME NEW S, NEW s \in Seq(S), NEW p \in 1..Len(s)
  PROVE  /\ RemoveAt(s, p) \in Seq(S)
         /\ Len(RemoveAt(s, p)) = Len(s) - 1
         /\ \A i \in 1..Len(s) - 1 : RemoveAt(s, p)[i] = IF i < p THEN s[i] ELSE s[i + 1]
<1> SUFFICES ASSUME NEW n \in Nat, n = Len(s), p \in 1..n
             PROVE  /\ RemoveAt(s, p) \in Seq(S)
                    /\ Len(RemoveAt(s, p)) = n - 1
                    /\ \A i \in 1..n - 1 : RemoveAt(s, p)[i] = IF i < p THEN s[i] ELSE s[i + 1]
  OBVIOUS
<1>1. PICK a, b : a = SubSeq(s, 1, p - 1) /\ b = SubSeq(s, p + 1, n)
  OBVIOUS
<1>2. p \in 1..n + 1
  OBVIOUS
<1>3. /\ a \in Seq(S) /\ Len(a) = p - 1
      /\ \A i \in 1..p - 1 : a[i] = s[i]
  BY <1>1, <1>2, Before, Zenon
<1>4. PICK q : q = p + 1
  OBVIOUS
<1>5. q \in 1..n + 1
  BY <1>4
<1>6. /\ b \in Seq(S) /\ Len(b) = n + 1 - q
      /\ \A i \in 1..n + 1 - q : b[i] = s[q + i - 1]
  <2>1. b = SubSeq(s, q, n)
    BY <1>1, <1>4, Zenon
  <2>2. QED
    BY <1>5, <2>1, From, Zenon
<1>7. n + 1 - q = n - p /\ \A i \in 1..n - p : q + i - 1 = p + i
  BY <1>4
<1>8. /\ a \o b \in Seq(S) /\ Len(a \o b) = (p - 1) + (n - p)
      /\ \A i \in 1..(p - 1) + (n - p) : (a \o b)[i] = IF i <= p - 1 THEN a[i] ELSE b[i - (p - 1)]
  <2>1. Len(b) = n - p
    BY <1>6, <1>7, Zenon
  <2>2. /\ a \o b \in Seq(S) /\ Len(a \o b) = Len(a) + Len(b)
        /\ \A i \in 1..Len(a) + Len(b) : (a \o b)[i] = IF i <= Len(a) THEN a[i] ELSE b[i - Len(a)]
    BY <1>3, <1>6, ConcatProperties, Zenon
  <2>3. QED
    BY <1>3, <2>1, <2>2, Zenon
<1>9. (p - 1) + (n - p) = n - 1
  OBVIOUS
<1>10. ASSUME NEW i \in 1..n - 1
       PROVE  (a \o b)[i] = IF i < p THEN s[i] ELSE s[i + 1]
  <2>1. CASE i < p
    <3>1. i <= p - 1 /\ i \in 1..p - 1
      BY <2>1
    <3>2. QED
      BY <1>3, <1>8, <1>9, <2>1, <3>1
  <2>2. CASE ~(i < p)
    <3>1. i - (p - 1) \in 1..n - p /\ p + (i - (p - 1)) = i + 1 /\ ~(i <= p - 1)
      BY <2>2
    <3>2. b[i - (p - 1)] = s[i + 1]
      BY <1>6, <1>7, <3>1
    <3>3. (a \o b)[i] = b[i - (p - 1)]
      BY <1>8, <1>9, <3>1
    <3>4. QED
      BY <2>2, <3>2, <3>3
  <2>3. QED
    BY <2>1, <2>2, Zenon
<1>11. RemoveAt(s, p) = a \o b
  BY <1>1 DEF RemoveAt
<1>12. QED
  BY <1>8, <1>9, <1>10, <1>11

(* Whatever the position is, vector::erase takes one element away and the  *)
(* others keep their order.                                                *)
LEMMA Erased ==
  ASSUME NEW S, NEW s \in Seq(S), Len(s) # 0, NEW p \in Nat \ {0}
  PROVE  Erase(s, p) \in Seq(S) /\ WithoutAt(Erase(s, p), s, p)
<1>a. Len(s) \in Nat
  OBVIOUS
<1> SUFFICES ASSUME NEW n \in Nat, n = Len(s), n # 0
             PROVE  /\ Erase(s, p) \in Seq(S)
                    /\ Len(Erase(s, p)) = n - 1
                    /\ \A i \in 1..n - 1 : Erase(s, p)[i] = IF i < p THEN s[i] ELSE s[i + 1]
  BY <1>a, Zenon DEF WithoutAt
<1>1. CASE p <= n
  <2>1. p \in 1..n
    BY <1>1
  <2>2. Erase(s, p) = RemoveAt(s, p)
    BY <1>1 DEF Erase
  <2>3. QED
    <3>1. /\ RemoveAt(s, p) \in Seq(S) /\ Len(RemoveAt(s, p)) = n - 1
          /\ \A i \in 1..n - 1 : RemoveAt(s, p)[i] = IF i < p THEN s[i] ELSE s[i + 1]
      BY <2>1, Removed, Zenon
    <3>2. QED
      BY <2>2, <3>1, Zenon
<1>2. CASE ~(p <= n)
  <2>1. Erase(s, p) = Front(s)
    BY <1>2 DEF Erase
  <2>2. s # <<>>
    OBVIOUS
  <2>3. /\ Front(s) \in Seq(S) /\ Len(Front(s)) = n - 1
        /\ \A i \in 1..n - 1 : Front(s)[i] = s[i]
    BY <2>2, FrontOf, Zenon
  <2>4. \A i \in 1..n - 1 : i < p
    BY <1>2
  <2>5. QED
    BY <2>1, <2>3, <2>4
<1>3. QED
  BY <1>1, <1>2, Zenon

(* std::lower_bound of anything is a position of the list, or its end. *)
LEMMA Bounded ==
  ASSUME NEW fd, NEW n \in Nat, n = Len(m_fds)
  PROVE  LowerBound(fd) \in 1..n + 1 /\ Distance(fd) \in 0..n
<1>1. PICK T : T = {i \in 1..n : m_fds[i] < fd}
  OBVIOUS
<1>2. IsFiniteSet(1..n) /\ Cardinality(1..n) = n
  <2>1. 1 \in Int /\ n \in Int
    OBVIOUS
  <2>2. /\ IsFiniteSet(1..n)
        /\ Cardinality(1..n) = IF 1 > n THEN 0 ELSE n - 1 + 1
    BY <2>1, FS_Interval, Zenon
  <2>3. (IF 1 > n THEN 0 ELSE n - 1 + 1) = n
    OBVIOUS
  <2>4. QED
    BY <2>2, <2>3, Zenon
<1>3. T \in SUBSET (1..n)
  BY <1>1
<1>4. IsFiniteSet(T) /\ Cardinality(T) <= n
  BY <1>2, <1>3, FS_Subset
<1>5. Cardinality(T) \in Nat
  BY <1>4, FS_CardinalityType
<1>6. LowerBound(fd) = 1 + Cardinality(T)
  BY <1>1 DEF LowerBound
<1>7. Distance(fd) = n + 1 - LowerBound(fd)
  BY DEF Distance
<1>8. QED
  BY <1>4, <1>5, <1>6, <1>7

(* The innermost activation changes. *)
LEMMA Replaced ==
  ASSUME NEW S, NEW s \in Seq(S), s # <<>>, NEW g \in S
  PROVE  /\ Append(Front(s), g) \in Seq(S)
         /\ Len(Append(Front(s), g)) = Len(s)
         /\ Append(Front(s), g)[Len(s)] = g
         /\ \A k \in 1..Len(s) : k < Len(s) => Append(Front(s), g)[k] = s[k]
<1>1. PICK n \in Nat \ {0} : n = Len(s)
  BY FrontOf
<1>2. PICK c : c = Front(s)
  OBVIOUS
<1>3. c \in Seq(S) /\ Len(c) = n - 1 /\ \A k \in 1..n - 1 : c[k] = s[k]
  BY <1>1, <1>2, FrontOf, Zenon
<1>4. /\ Append(c, g) \in Seq(S)
      /\ Len(Append(c, g)) = (n - 1) + 1
      /\ \A k \in 1..n - 1 : Append(c, g)[k] = c[k]
      /\ Append(c, g)[(n - 1) + 1] = g
  BY <1>3, AppendProperties
<1>5. (n - 1) + 1 = n /\ \A k \in 1..n : k < n => k \in 1..n - 1
  OBVIOUS
<1>6. QED
  BY <1>1, <1>2, <1>3, <1>4, <1>5, Zenon

-----------------------------------------------------------------------------
(* The initial state, and each operation. *)

LEMMA Initial == Init => IInv
<1> SUFFICES ASSUME Init PROVE IInv
  OBVIOUS
<1>1. PICK z : z = <<>>
  OBVIOUS
<1>2. z \in Seq(FDs) /\ z \in Seq(Handlers \cup {EMPTY}) /\ z \in Seq(Frame) /\ Len(z) = 0
  BY <1>1
<1>3. m_fds = z /\ m_completions = z /\ frames = z
  BY <1>1 DEF Init
<1>4. Types
  <2>1. owner \in [Handlers -> FDs \cup {NoFD}] /\ crowded \in BOOLEAN
    BY Zenon DEF Init
  <2>2. calls \in [Handlers -> 0..2]
    BY DEF Init
  <2>3. QED
    BY <1>2, <1>3, <2>1, <2>2, Zenon DEF Types
<1>5. Parallel /\ Stack
  BY <1>2, <1>3 DEF Parallel, Stack
<1>6. Fresh /\ OnlyOnce
  BY <1>2, <1>3 DEF Init, Fresh, OnlyOnce
<1>7. wrong = {} /\ Mirror /\ OneEach /\ AsPolled
  BY <1>1, <1>2, <1>3 DEF Init, Mirror, OneEach, AsPolled
<1>8. Kept
  BY <1>2, <1>3 DEF Init, Kept
<1>9. QED
  BY <1>4, <1>5, <1>6, <1>7, <1>8 DEF IInv, Alone

(* A step that leaves the lists alone and only takes the innermost         *)
(* activation away: poll() returns, or is left by an exception.            *)
LEMMA LeavesActivation ==
  ASSUME IInv, frames # <<>>, frames' = callers,
         UNCHANGED <<m_fds, m_completions, owner, calls, wrong, crowded>>
  PROVE  IInv'
<1>1. PICK n \in Nat \ {0} : n = Len(frames)
  BY FrontOf DEF IInv, Types
<1>2. frames' \in Seq(Frame) /\ Len(frames') = n - 1 /\ \A k \in 1..n - 1 : frames'[k] = frames[k]
  BY <1>1, FrontOf DEF IInv, Types, callers
<1>3. Types' /\ Parallel' /\ Fresh' /\ OnlyOnce'
  BY <1>2 DEF IInv, Types, Parallel, Fresh, OnlyOnce
<1>4. \A k \in 1..n - 1 : k \in 1..n /\ k < n
  OBVIOUS
<1>5. \A k \in 1..n - 1 : frames'[k].f # EMPTY
  BY <1>1, <1>2, <1>4 DEF IInv, Stack
<1>6. Stack'
  BY <1>2, <1>5 DEF Stack
<1>7. ASSUME ~crowded'
      PROVE  wrong' = {} /\ Mirror' /\ Kept' /\ OneEach' /\ AsPolled'
  <2>1. wrong = {} /\ Mirror /\ Kept /\ OneEach
    BY <1>7 DEF IInv, Alone
  <2>2. wrong' = {} /\ Mirror' /\ Kept'
    BY <2>1 DEF Mirror, Kept
  <2>3. OneEach'
    BY <1>1, <1>2, <1>4, <2>1 DEF OneEach
  <2>4. AsPolled'
    <3>1. SUFFICES ASSUME frames' # <<>> PROVE frames'[Len(frames')].f # EMPTY
      BY DEF AsPolled, top
    <3>2. n - 1 \in 1..n - 1
      BY <1>1, <1>2, <3>1, EmptySeq
    <3>3. QED
      BY <1>2, <1>5, <3>2
  <2>5. QED
    BY <2>2, <2>3, <2>4
<1>8. QED
  BY <1>3, <1>6, <1>7 DEF IInv, Alone

LEMMA ReturnsOrThrows ==
  ASSUME IInv, FunctionThrows \/ PollReturns
  PROVE  IInv'
<1>1. frames # <<>> /\ frames' = callers
  BY DEF FunctionThrows, PollReturns, InLoop, InFunction
<1>2. UNCHANGED <<m_fds, m_completions, owner, calls, wrong, crowded>>
  BY DEF FunctionThrows, PollReturns
<1>3. QED
  BY <1>1, <1>2, LeavesActivation

LEMMA Undefined ==
  ASSUME IInv, IterateUndefined \/ UNCHANGED vars
  PROVE  IInv'
<1>1. UNCHANGED <<m_fds, m_completions, frames, owner, calls, wrong, crowded>>
  BY DEF IterateUndefined, vars
<1>2. Types' /\ Parallel' /\ Fresh' /\ OnlyOnce' /\ Stack'
  BY <1>1 DEF IInv, Types, Parallel, Fresh, OnlyOnce, Stack
<1>3. Alone'
  BY <1>1 DEF IInv, Alone, Mirror, Kept, OneEach, AsPolled, top
<1>4. QED
  BY <1>2, <1>3 DEF IInv

LEMMA Returns ==
  ASSUME IInv, FunctionReturns
  PROVE  IInv'
<1>1. frames # <<>> /\ frames \in Seq(Frame)
  BY DEF FunctionReturns, InFunction, IInv, Types
<1>2. PICK n \in Nat \ {0} : n = Len(frames)
  BY <1>1, FrontOf
<1>3. PICK t \in Frame : t = frames[n]
  BY <1>1, <1>2, ElementOfSeq
<1>4. PICK g : g = [t EXCEPT !.f = EMPTY, !.i = @ + 1]
  OBVIOUS
<1>5. g \in Frame /\ g.fds = t.fds /\ g.ready = t.ready /\ g.i # 0
  <2>1. /\ t = [fds |-> t.fds, ready |-> t.ready, i |-> t.i, f |-> t.f]
        /\ t.fds \in Seq(FDs) /\ t.ready \in SUBSET FDs /\ t.i \in Nat
    BY DEF Frame
  <2>2. PICK j \in Nat : j = t.i + 1 /\ j # 0
    BY <2>1
  <2>3. g = [fds |-> t.fds, ready |-> t.ready, i |-> j, f |-> EMPTY]
    BY <1>4, <2>1, <2>2
  <2>4. QED
    BY <2>1, <2>2, <2>3 DEF Frame
<1>6. frames' = Append(Front(frames), g)
  BY <1>2, <1>3, <1>4 DEF FunctionReturns, top, callers
<1>7. /\ frames' \in Seq(Frame) /\ Len(frames') = n /\ frames'[n] = g
      /\ \A k \in 1..n : k < n => frames'[k] = frames[k]
  BY <1>1, <1>2, <1>5, <1>6, Replaced
<1>8. UNCHANGED <<m_fds, m_completions, owner, calls, wrong, crowded>>
  BY DEF FunctionReturns
<1>9. Types' /\ Parallel' /\ Fresh' /\ OnlyOnce'
  BY <1>7, <1>8 DEF IInv, Types, Parallel, Fresh, OnlyOnce
<1>10. Stack'
  BY <1>2, <1>7 DEF IInv, Stack
<1>11. ASSUME ~crowded'
       PROVE  wrong' = {} /\ Mirror' /\ Kept' /\ OneEach' /\ AsPolled'
  <2>1. wrong = {} /\ Mirror /\ Kept /\ OneEach
    BY <1>8, <1>11 DEF IInv, Alone
  <2>2. wrong' = {} /\ Mirror' /\ Kept'
    BY <1>8, <2>1 DEF Mirror, Kept
  <2>3. ASSUME NEW k \in 1..n
        PROVE  Len(frames'[k].fds) = 1 /\ frames'[k].ready = {frames'[k].fds[1]}
    <3>1. Len(frames[k].fds) = 1 /\ frames[k].ready = {frames[k].fds[1]}
      BY <1>2, <2>1 DEF OneEach
    <3>2. k < n \/ k = n
      OBVIOUS
    <3>3. frames'[k].fds = frames[k].fds /\ frames'[k].ready = frames[k].ready
      BY <1>3, <1>5, <1>7, <3>2
    <3>4. QED
      BY <3>1, <3>3
  <2>4. OneEach'
    BY <1>7, <2>3 DEF OneEach
  <2>5. AsPolled'
    BY <1>5, <1>7 DEF AsPolled, top
  <2>6. QED
    BY <2>2, <2>4, <2>5
<1>12. QED
  BY <1>9, <1>10, <1>11 DEF IInv, Alone

LEMMA Polls ==
  ASSUME IInv, NEW ready \in SUBSET FDs, Poll(ready)
  PROVE  IInv'
<1>1. PICK n \in Nat : n = Len(frames)
  BY DEF IInv, Types
<1>2. PICK g : g = [fds |-> m_fds, ready |-> ready, i |-> 0, f |-> EMPTY]
  OBVIOUS
<1>3. g \in Frame /\ g.fds = m_fds /\ g.ready = ready
  BY <1>2 DEF IInv, Types, Frame
<1>4. frames' = Append(frames, g)
  BY <1>2 DEF Poll
<1>5. /\ frames' \in Seq(Frame) /\ Len(frames') = n + 1 /\ frames'[n + 1] = g
      /\ \A k \in 1..n : frames'[k] = frames[k]
  BY <1>1, <1>3, <1>4, AppendProperties DEF IInv, Types
<1>6. UNCHANGED <<m_fds, m_completions, owner, calls, wrong>>
  BY DEF Poll
<1>7. crowded' = (crowded \/ Len(m_fds) > 1)
  BY DEF Poll
<1>8. Types' /\ Parallel' /\ Fresh' /\ OnlyOnce'
  <2>1. crowded' \in BOOLEAN
    BY <1>7, Zenon
  <2>2. QED
    BY <1>5, <1>6, <2>1 DEF IInv, Types, Parallel, Fresh, OnlyOnce
<1>9. \A k \in 1..n + 1 : k < n + 1 => k \in 1..n /\ (k < n \/ k = n)
  OBVIOUS
<1>10. Stack'
  <2>1. \A k \in 1..n : k < n => frames[k].f # EMPTY
    BY <1>1 DEF IInv, Stack
  <2>2. n \in 1..n => frames[n].f # EMPTY
    <3>1. n \in 1..n => frames # <<>>
      BY <1>1, EmptySeq
    <3>2. QED
      BY <1>1, <3>1 DEF Poll, Active, InLoop, top
  <2>3. QED
    BY <1>5, <1>9, <2>1, <2>2 DEF Stack
<1>11. ASSUME ~crowded'
       PROVE  wrong' = {} /\ Mirror' /\ Kept' /\ OneEach' /\ AsPolled'
  <2>1. wrong = {} /\ Mirror /\ Kept /\ OneEach
    BY <1>7, <1>11 DEF IInv, Alone
  <2>2. wrong' = {} /\ Mirror' /\ Kept'
    BY <1>6, <2>1 DEF Mirror, Kept
  <2>3. Len(m_fds) = 1 /\ ready = {m_fds[1]}
    <3>1. m_fds \in Seq(FDs) /\ ready # {} /\ ready \subseteq ToSet(m_fds)
      BY DEF IInv, Types, Poll
    <3>2. PICK m \in Nat : m = Len(m_fds)
      BY <3>1
    <3>3. ~(m > 1)
      BY <1>7, <1>11, <3>2
    <3>4. \A fd \in ready : \E i \in 1..m : fd = m_fds[i]
      BY <3>1, <3>2 DEF ToSet
    <3>5. m = 1
      BY <3>1, <3>3, <3>4
    <3>6. QED
      BY <3>1, <3>2, <3>4, <3>5
  <2>4. OneEach'
    <3>1. Len(g.fds) = 1 /\ g.ready = {g.fds[1]}
      BY <1>3, <2>3
    <3>2. \A k \in 1..n + 1 : k \in 1..n \/ k = n + 1
      OBVIOUS
    <3>3. QED
      BY <1>1, <1>5, <2>1, <3>1, <3>2 DEF OneEach
  <2>5. AsPolled'
    BY <1>3, <1>5, <1>6 DEF AsPolled, top
  <2>6. QED
    BY <2>2, <2>4, <2>5
<1>12. QED
  BY <1>8, <1>10, <1>11 DEF IInv, Alone

LEMMA Adds ==
  ASSUME IInv, NEW fd \in FDs, NEW h \in Handlers, AsyncPollAdd(fd, h)
  PROVE  IInv'
<1> DEFINE H == Handlers \cup {EMPTY}
<1>1. PICK n \in Nat : n = Len(m_fds)
  BY DEF IInv, Types
<1>2. PICK F \in Seq(FDs), C \in Seq(H) : F = m_fds /\ C = m_completions
  BY DEF IInv, Types
<1>3. Len(F) = n /\ Len(C) = n
  BY <1>1, <1>2 DEF IInv, Parallel
<1>4. PICK p \in 1..n + 1 : p = LowerBound(fd)
  BY <1>1, Bounded
<1>5. PICK q \in 1..n + 1 : q = n + 2 - p
  BY <1>4
<1>6. Place(fd) = q
  BY <1>1, <1>4, <1>5 DEF Place, Distance
<1>7. PICK F2, C2 : F2 = m_fds' /\ C2 = m_completions'
  OBVIOUS
<1>8. /\ F2 \in Seq(FDs) /\ Len(F2) = n + 1
      /\ \A i \in 1..n + 1 : F2[i] = IF i < p THEN F[i] ELSE IF i = p THEN fd ELSE F[i - 1]
  <2>1. F2 = InsertAt(F, p, fd)
    BY <1>2, <1>4, <1>7 DEF AsyncPollAdd
  <2>2. p \in 1..Len(F) + 1
    BY <1>3
  <2>3. F2 \in Seq(FDs) /\ WithAt(F2, F, p, fd)
    BY <1>2, <2>1, <2>2, Inserted, Zenon
  <2>4. QED
    BY <1>3, <2>3, Zenon DEF WithAt
<1>9. /\ C2 \in Seq(H) /\ Len(C2) = n + 1
      /\ \A i \in 1..n + 1 : C2[i] = IF i < q THEN C[i] ELSE IF i = q THEN h ELSE C[i - 1]
  <2>1. C2 = InsertAt(C, q, h)
    BY <1>2, <1>6, <1>7 DEF AsyncPollAdd
  <2>2. q \in 1..Len(C) + 1 /\ h \in H
    BY <1>3
  <2>3. C2 \in Seq(H) /\ WithAt(C2, C, q, h)
    BY <1>2, <2>1, <2>2, Inserted, Zenon
  <2>4. QED
    BY <1>3, <2>3, Zenon DEF WithAt
<1>10. /\ owner \in [Handlers -> FDs \cup {NoFD}] /\ owner[h] = NoFD
       /\ owner' = [owner EXCEPT ![h] = fd] /\ fd # NoFD
  BY PollAssumption DEF IInv, Types, AsyncPollAdd
<1>11. /\ owner' \in [Handlers -> FDs \cup {NoFD}] /\ owner'[h] # NoFD /\ owner'[h] = fd
       /\ \A g \in Handlers : g # h => owner'[g] = owner[g]
  BY <1>10
<1>12. UNCHANGED <<frames, calls, wrong, crowded>>
  BY DEF AsyncPollAdd
<1>13. Types'
  BY <1>7, <1>8, <1>9, <1>11, <1>12 DEF IInv, Types
<1>14. Parallel'
  BY <1>7, <1>8, <1>9 DEF Parallel
<1>15. OnlyOnce' /\ Stack'
  BY <1>12 DEF IInv, OnlyOnce, Stack
(* Each element of the new list is h, or one of the old list. *)
<1>16. ASSUME NEW i \in 1..n + 1
       PROVE  \/ i < q /\ i \in 1..n /\ C2[i] = C[i]
              \/ i = q /\ C2[i] = h
              \/ i > q /\ i - 1 \in 1..n /\ C2[i] = C[i - 1]
  <2>1. CASE i < q
    BY <1>9, <2>1
  <2>2. CASE i = q
    BY <1>9, <2>2
  <2>3. CASE i > q
    BY <1>9, <2>3
  <2>4. i < q \/ i = q \/ i > q
    OBVIOUS
  <2>5. QED
    BY <2>1, <2>2, <2>3, <2>4, Zenon
<1>17. \A i \in 1..n : C[i] \in H /\ C[i] # h
  <2>1. \A i \in 1..n : C[i] # EMPTY => owner[C[i]] # NoFD
    BY <1>2, <1>3 DEF IInv, Fresh
  <2>2. \A i \in 1..n : C[i] \in H
    BY <1>3, ElementOfSeq
  <2>3. h # EMPTY
    BY PollAssumption
  <2>4. QED
    BY <1>10, <2>1, <2>2, <2>3
<1>18. h # EMPTY /\ calls[h] = 0
  BY <1>10, PollAssumption DEF IInv, Fresh
<1>19. Fresh'
  <2>1. ASSUME NEW i \in 1..n + 1, NEW j \in 1..n + 1, C2[i] = C2[j], C2[i] # EMPTY
        PROVE  i = j
    <3>1. \A k, l \in 1..n : C[k] = C[l] /\ C[k] # EMPTY => k = l
      BY <1>2, <1>3 DEF IInv, Fresh
    <3>2. CASE i = q
      BY <1>16, <1>17, <2>1, <3>2
    <3>3. CASE i < q
      BY <1>16, <1>17, <2>1, <3>1, <3>3
    <3>4. CASE i > q
      BY <1>16, <1>17, <2>1, <3>1, <3>4
    <3>5. i < q \/ i = q \/ i > q
      OBVIOUS
    <3>6. QED
      BY <3>2, <3>3, <3>4, <3>5, Zenon
  <2>2. ASSUME NEW i \in 1..n + 1, C2[i] # EMPTY
        PROVE  calls[C2[i]] = 0 /\ owner'[C2[i]] # NoFD
    <3>1. \A k \in 1..n : C[k] # EMPTY => calls[C[k]] = 0 /\ owner[C[k]] # NoFD
      BY <1>2, <1>3 DEF IInv, Fresh
    <3>2. \A k \in 1..n : C[k] # EMPTY => calls[C[k]] = 0 /\ owner'[C[k]] # NoFD
      BY <1>11, <1>17, <3>1
    <3>3. QED
      BY <1>11, <1>16, <1>18, <2>2, <3>2
  <2>3. \A g \in Handlers : owner'[g] = NoFD => calls[g] = 0
    <3>1. \A g \in Handlers : owner[g] = NoFD => calls[g] = 0
      BY DEF IInv, Fresh
    <3>2. QED
      BY <1>11, <3>1
  <2>4. QED
    BY <1>7, <1>9, <1>12, <2>1, <2>2, <2>3 DEF Fresh
<1>20. ASSUME ~crowded'
       PROVE  wrong' = {} /\ Mirror' /\ Kept' /\ OneEach' /\ AsPolled'
  <2>1. wrong = {} /\ Mirror /\ Kept /\ OneEach
    BY <1>12, <1>20 DEF IInv, Alone
  <2>2. wrong' = {} /\ OneEach'
    BY <1>12, <2>1 DEF OneEach
  <2>3. AsPolled'
    BY <1>12 DEF AsyncPollAdd, Active, InLoop, AsPolled, top
  <2>4. \A k \in 1..n : C[k] \in Handlers /\ owner[C[k]] = F[n - k + 1]
    BY <1>2, <1>3, <2>1 DEF Mirror
  <2>5. \A k \in 1..n : C[k] \in Handlers /\ owner'[C[k]] = F[n - k + 1]
    BY <1>11, <1>17, <2>4
  <2>6. ASSUME NEW i \in 1..n + 1
        PROVE  C2[i] \in Handlers /\ owner'[C2[i]] = F2[(n + 1) - i + 1]
    <3>1. (n + 1) - i + 1 = n + 2 - i /\ n + 2 - i \in 1..n + 1
      OBVIOUS
    <3>2. CASE i < q
      <4>1. ~(n + 2 - i < p) /\ n + 2 - i # p /\ n + 2 - i - 1 = n - i + 1
        BY <1>5, <3>2
      <4>2. F2[n + 2 - i] = F[n - i + 1]
        BY <1>8, <3>1, <4>1
      <4>3. C2[i] = C[i] /\ i \in 1..n
        BY <1>16, <3>2
      <4>4. QED
        BY <2>5, <3>1, <4>2, <4>3
    <3>3. CASE i = q
      <4>1. n + 2 - i = p
        BY <1>5, <3>3
      <4>2. F2[n + 2 - i] = fd
        BY <1>8, <3>1, <4>1
      <4>3. C2[i] = h
        BY <1>16, <3>3
      <4>4. QED
        BY <1>11, <3>1, <4>2, <4>3, Zenon
    <3>4. CASE i > q
      <4>1. n + 2 - i < p /\ n + 2 - i = n - (i - 1) + 1
        BY <1>5, <3>4
      <4>2. F2[n + 2 - i] = F[n - (i - 1) + 1]
        BY <1>8, <3>1, <4>1
      <4>3. C2[i] = C[i - 1] /\ i - 1 \in 1..n
        BY <1>16, <3>4
      <4>4. QED
        BY <2>5, <3>1, <4>2, <4>3
    <3>5. i < q \/ i = q \/ i > q
      OBVIOUS
    <3>6. QED
      BY <3>2, <3>3, <3>4, <3>5, Zenon
  <2>7. Mirror'
    BY <1>7, <1>8, <1>9, <2>6 DEF Mirror
  <2>8. ASSUME NEW g \in Handlers, owner'[g] # NoFD
        PROVE  calls[g] = 0 <=> \E i \in 1..n + 1 : C2[i] = g
    <3>1. CASE g = h
      <4>1. C2[q] = h
        BY <1>16
      <4>2. QED
        BY <1>18, <3>1, <4>1
    <3>2. CASE g # h
      <4>1. calls[g] = 0 <=> \E i \in 1..n : C[i] = g
        BY <1>2, <1>3, <1>11, <2>1, <2>8, <3>2 DEF Kept
      <4>2. ASSUME NEW i \in 1..n PROVE \E j \in 1..n + 1 : C2[j] = C[i]
        <5>1. CASE i < q
          BY <1>9, <5>1
        <5>2. CASE ~(i < q)
          <6>1. i + 1 \in 1..n + 1 /\ ~(i + 1 < q) /\ i + 1 # q /\ i + 1 - 1 = i
            BY <5>2
          <6>2. C2[i + 1] = C[i]
            BY <1>9, <6>1
          <6>3. QED
            BY <6>1, <6>2
        <5>3. QED
          BY <5>1, <5>2, Zenon
      <4>3. ASSUME NEW i \in 1..n + 1, C2[i] = g PROVE \E j \in 1..n : C[j] = g
        BY <1>16, <3>2, <4>3
      <4>4. QED
        BY <4>1, <4>2, <4>3
    <3>3. QED
      BY <3>1, <3>2, Zenon
  <2>9. Kept'
    BY <1>7, <1>9, <1>12, <2>8 DEF Kept
  <2>10. QED
    BY <2>2, <2>3, <2>7, <2>9
<1>21. QED
  BY <1>13, <1>14, <1>15, <1>19, <1>20 DEF IInv, Alone

LEMMA Iterates ==
  ASSUME IInv, Iterate
  PROVE  IInv'
<1> DEFINE H == Handlers \cup {EMPTY}
<1>1. frames # <<>> /\ frames \in Seq(Frame)
  BY DEF Iterate, InLoop, IInv, Types
<1>2. PICK d \in Nat \ {0} : d = Len(frames)
  BY <1>1, FrontOf
<1>3. PICK t \in Frame : t = frames[d] /\ t = top
  BY <1>1, <1>2, ElementOfSeq DEF top
<1>4. /\ t = [fds |-> t.fds, ready |-> t.ready, i |-> t.i, f |-> t.f]
      /\ t.fds \in Seq(FDs) /\ t.ready \in SUBSET FDs /\ t.i \in Nat /\ t.f = EMPTY
  BY <1>3 DEF Frame, Iterate, InLoop
<1>5. PICK F \in Seq(FDs), C \in Seq(H) : F = m_fds /\ C = m_completions
  BY DEF IInv, Types
<1>6. PICK n \in Nat : n = Len(F) /\ n = Len(C)
  BY <1>5 DEF IInv, Parallel
<1>7. n # 0
  BY <1>5, <1>6, EmptySeq DEF Iterate
<1>8. PICK j \in Nat : j = t.i + 1
  BY <1>4
<1>9. j \in 1..n /\ C[j] # EMPTY /\ j = top.i + 1
  BY <1>3, <1>4, <1>5, <1>6, <1>8 DEF Iterate, HasFunction
<1>10. PICK h \in Handlers : h = C[j]
  <2>1. C[j] \in H
    BY <1>6, <1>9, ElementOfSeq
  <2>2. QED
    BY <1>9, <2>1
<1>11. PICK g : g = [t EXCEPT !.f = h]
  OBVIOUS
<1>12. g \in Frame /\ g.fds = t.fds /\ g.ready = t.ready /\ g.f = h /\ h # EMPTY
  <2>1. g = [fds |-> t.fds, ready |-> t.ready, i |-> t.i, f |-> h]
    BY <1>4, <1>11
  <2>2. QED
    BY <1>4, <1>9, <1>10, <2>1 DEF Frame
<1>13. frames' = Append(Front(frames), g)
  BY <1>3, <1>5, <1>9, <1>10, <1>11 DEF Iterate, callers
<1>14. /\ frames' \in Seq(Frame) /\ Len(frames') = d /\ frames'[d] = g
       /\ \A k \in 1..d : k < d => frames'[k] = frames[k]
  BY <1>1, <1>2, <1>12, <1>13, Replaced
<1>15. PICK T \in Seq(H) : /\ T = Taken /\ Len(T) = n
                            /\ \A i \in 1..n : T[i] = IF i = j THEN EMPTY ELSE C[i]
  <2>1. Taken = [C EXCEPT ![j] = EMPTY]
    BY <1>5, <1>9 DEF Taken
  <2>2. EMPTY \in H
    OBVIOUS
  <2>3. /\ [C EXCEPT ![j] = EMPTY] \in Seq(H)
        /\ Len([C EXCEPT ![j] = EMPTY]) = n
        /\ \A i \in 1..n : [C EXCEPT ![j] = EMPTY][i] = IF i = j THEN EMPTY ELSE C[i]
    BY <1>5, <1>6, <1>9, <2>2, ExceptSeq
  <2>4. QED
    BY <2>1, <2>3, Zenon
<1>16. PICK q \in Nat \ {0}, p \in Nat \ {0} :
         /\ m_completions' = Erase(T, q)
         /\ m_fds' = Erase(F, p)
  <2>1. PICK l \in 0..n, p \in 1..n + 1 : l = Distance(Current) /\ p = LowerBound(Current)
    BY <1>5, <1>6, Bounded
  <2>2. m_completions' = Erase(T, l + 1)
    BY <1>15, <2>1 DEF Iterate, Remaining
  <2>3. m_fds' = Erase(F, p)
    BY <1>5, <2>1 DEF Iterate
  <2>4. l + 1 \in Nat \ {0} /\ p \in Nat \ {0}
    BY <2>1
  <2>5. QED
    BY <2>2, <2>3, <2>4, Zenon
<1>17. PICK C2 \in Seq(H) : C2 = m_completions' /\ Len(C2) = n - 1
                             /\ \A i \in 1..n - 1 : C2[i] = IF i < q THEN T[i] ELSE T[i + 1]
  <2>1. Len(T) # 0
    BY <1>7, <1>15
  <2>2. Erase(T, q) \in Seq(H) /\ WithoutAt(Erase(T, q), T, q)
    BY <1>15, <1>16, <2>1, Erased, Zenon
  <2>3. QED
    BY <1>15, <1>16, <2>2, Zenon DEF WithoutAt
<1>18. m_fds' \in Seq(FDs) /\ Len(m_fds') = n - 1
  <2>1. Len(F) # 0
    BY <1>6, <1>7
  <2>2. Erase(F, p) \in Seq(FDs) /\ WithoutAt(Erase(F, p), F, p)
    BY <1>5, <1>16, <2>1, Erased, Zenon
  <2>3. QED
    BY <1>6, <1>16, <2>2, Zenon DEF WithoutAt
<1>19. /\ calls \in [Handlers -> 0..2]
       /\ calls' = [calls EXCEPT ![h] = IF calls[h] = 0 THEN 1 ELSE 2]
  BY <1>5, <1>9, <1>10 DEF Iterate, IInv, Types
<1>20. calls[h] = 0 /\ owner[h] # NoFD
  BY <1>5, <1>6, <1>9, <1>10 DEF IInv, Fresh
<1>21. /\ calls' \in [Handlers -> 0..2] /\ calls'[h] = 1
       /\ \A x \in Handlers : x # h => calls'[x] = calls[x]
  <2>1. calls' = [calls EXCEPT ![h] = 1]
    BY <1>19, <1>20
  <2>2. QED
    BY <1>19, <2>1
<1>22. UNCHANGED <<owner, crowded>>
  BY DEF Iterate
<1>23. Types'
  BY <1>14, <1>17, <1>18, <1>21, <1>22 DEF IInv, Types
<1>24. Parallel'
  BY <1>17, <1>18 DEF Parallel
<1>25. OnlyOnce'
  BY <1>21 DEF IInv, OnlyOnce
<1>26. Stack'
  BY <1>2, <1>14 DEF IInv, Stack
(* Where an element of the new list was before; it was not h. *)
<1>27. ASSUME NEW i \in 1..n - 1, C2[i] # EMPTY
       PROVE  /\ i < q => i \in 1..n /\ C2[i] = C[i]
              /\ ~(i < q) => i + 1 \in 1..n /\ C2[i] = C[i + 1]
              /\ C2[i] # h
  <2>1. \A k, l \in 1..n : C[k] = C[l] /\ C[k] # EMPTY => k = l
    BY <1>5, <1>6 DEF IInv, Fresh
  <2>2. \A k \in 1..n : T[k] # EMPTY => T[k] = C[k] /\ T[k] # h
    BY <1>9, <1>10, <1>15, <2>1
  <2>3. i \in 1..n /\ i + 1 \in 1..n
    OBVIOUS
  <2>4. CASE i < q
    BY <1>17, <1>27, <2>2, <2>3, <2>4
  <2>5. CASE ~(i < q)
    BY <1>17, <1>27, <2>2, <2>3, <2>5
  <2>6. QED
    BY <2>4, <2>5, Zenon
<1>28. Fresh'
  <2>1. ASSUME NEW i \in 1..n - 1, NEW l \in 1..n - 1, C2[i] = C2[l], C2[i] # EMPTY
        PROVE  i = l
    <3>1. \A k, m \in 1..n : C[k] = C[m] /\ C[k] # EMPTY => k = m
      BY <1>5, <1>6 DEF IInv, Fresh
    <3>2. CASE i < q /\ l < q
      BY <1>27, <2>1, <3>1, <3>2
    <3>3. CASE ~(i < q) /\ ~(l < q)
      <4>1. i + 1 = l + 1
        BY <1>27, <2>1, <3>1, <3>3
      <4>2. QED
        BY <4>1
    <3>4. CASE i < q /\ ~(l < q)
      <4>1. i = l + 1
        BY <1>27, <2>1, <3>1, <3>4
      <4>2. QED
        BY <1>16, <3>4, <4>1
    <3>5. CASE ~(i < q) /\ l < q
      <4>1. i + 1 = l
        BY <1>27, <2>1, <3>1, <3>5
      <4>2. QED
        BY <1>16, <3>5, <4>1
    <3>6. QED
      BY <3>2, <3>3, <3>4, <3>5, Zenon
  <2>2. ASSUME NEW i \in 1..n - 1, C2[i] # EMPTY
        PROVE  calls'[C2[i]] = 0 /\ owner[C2[i]] # NoFD
    <3>1. \A k \in 1..n : C[k] # EMPTY => calls[C[k]] = 0 /\ owner[C[k]] # NoFD
      BY <1>5, <1>6 DEF IInv, Fresh
    <3>2. calls[C2[i]] = 0 /\ owner[C2[i]] # NoFD /\ C2[i] # h
      BY <1>27, <2>2, <3>1
    <3>3. C2[i] \in Handlers
      <4>1. C2[i] \in H
        BY <1>17, ElementOfSeq
      <4>2. QED
        BY <2>2, <4>1
    <3>4. QED
      BY <1>21, <3>2, <3>3
  <2>3. \A x \in Handlers : owner[x] = NoFD => calls'[x] = 0
    <3>1. \A x \in Handlers : owner[x] = NoFD => calls[x] = 0
      BY DEF IInv, Fresh
    <3>2. QED
      BY <1>20, <1>21, <3>1
  <2>4. QED
    BY <1>17, <1>22, <2>1, <2>2, <2>3 DEF Fresh
<1>29. ASSUME ~crowded'
       PROVE  wrong' = {} /\ Mirror' /\ Kept' /\ OneEach' /\ AsPolled'
  <2>1. wrong = {} /\ Mirror /\ Kept /\ OneEach /\ AsPolled
    BY <1>22, <1>29 DEF IInv, Alone
  <2>2. Len(t.fds) = 1 /\ t.ready = {t.fds[1]}
    <3>1. d \in 1..d
      BY <1>2
    <3>2. QED
      BY <1>2, <1>3, <2>1, <3>1 DEF OneEach
  <2>3. t.i = 0
    <3>1. Cardinality(t.ready) = 1
      BY <2>2, FS_Singleton
    <3>2. QED
      BY <1>3, <1>4, <3>1 DEF Iterate, MoreToDo
  <2>4. F = t.fds /\ n = 1 /\ j = 1
    <3>1. F = t.fds
      BY <1>1, <1>3, <1>4, <1>5, <2>1, <2>3 DEF AsPolled
    <3>2. n = 1
      BY <1>6, <2>2, <3>1
    <3>3. j = 1
      BY <1>8, <2>3
    <3>4. QED
      BY <3>1, <3>2, <3>3, Zenon
  <2>5. Current = t.fds[1]
    BY <1>3, <2>3 DEF Current
  <2>6. owner[h] = Current /\ Current \in t.ready
    <3>1. owner[C[1]] = F[1 - 1 + 1]
      BY <1>5, <1>6, <2>1, <2>4 DEF Mirror
    <3>2. owner[h] = F[1]
      BY <1>10, <2>4, <3>1
    <3>3. QED
      BY <2>2, <2>4, <2>5, <3>2
  <2>7. wrong' = {}
    <3>1. wrong' = IF owner[h] = Current /\ Current \in t.ready THEN wrong ELSE wrong \cup {h}
      BY <1>3, <1>5, <1>9, <1>10 DEF Iterate
    <3>2. QED
      BY <2>1, <2>6, <3>1
  <2>8. Mirror'
    BY <1>17, <2>4 DEF Mirror
  <2>9. Kept'
    <3>1. ASSUME NEW x \in Handlers, owner[x] # NoFD
          PROVE  calls'[x] # 0
      <4>1. CASE x = h
        BY <1>21, <4>1
      <4>2. CASE x # h
        <5>1. calls[x] = 0 <=> \E i \in 1..1 : C[i] = x
          BY <1>5, <1>6, <2>1, <2>4, <3>1 DEF Kept
        <5>2. \A i \in 1..1 : C[i] # x
          BY <1>10, <2>4, <4>2
        <5>3. QED
          BY <1>21, <4>2, <5>1, <5>2
      <4>3. QED
        BY <4>1, <4>2, Zenon
    <3>2. Len(m_completions') = 0
      BY <1>17, <2>4
    <3>3. QED
      BY <1>22, <3>1, <3>2 DEF Kept
  <2>10. ASSUME NEW k \in 1..d
         PROVE  Len(frames'[k].fds) = 1 /\ frames'[k].ready = {frames'[k].fds[1]}
    <3>1. Len(frames[k].fds) = 1 /\ frames[k].ready = {frames[k].fds[1]}
      BY <1>2, <2>1 DEF OneEach
    <3>2. k < d \/ k = d
      OBVIOUS
    <3>3. frames'[k].fds = frames[k].fds /\ frames'[k].ready = frames[k].ready
      BY <1>3, <1>12, <1>14, <3>2
    <3>4. QED
      BY <3>1, <3>3
  <2>11. OneEach'
    BY <1>14, <2>10 DEF OneEach
  <2>12. AsPolled'
    BY <1>12, <1>14 DEF AsPolled, top
  <2>13. QED
    BY <2>7, <2>8, <2>9, <2>11, <2>12
<1>30. QED
  BY <1>23, <1>24, <1>25, <1>26, <1>28, <1>29 DEF IInv, Alone

LEMMA Inductive == IInv /\ [Next]_vars => IInv'
<1> SUFFICES ASSUME IInv, [Next]_vars PROVE IInv'
  OBVIOUS
<1>1. CASE \E fd \in FDs, h \in Handlers : AsyncPollAdd(fd, h)
  BY <1>1, Adds
<1>2. CASE \E ready \in SUBSET FDs : Poll(ready)
  BY <1>2, Polls
<1>3. CASE Iterate
  BY <1>3, Iterates
<1>4. CASE IterateUndefined \/ UNCHANGED vars
  BY <1>4, Undefined
<1>5. CASE FunctionReturns
  BY <1>5, Returns
<1>6. CASE FunctionThrows \/ PollReturns
  BY <1>6, ReturnsOrThrows
<1>7. QED
  BY <1>1, <1>2, <1>3, <1>4, <1>5, <1>6, Zenon DEF Next

LEMMA Always == Spec => []IInv
<1>1. QED
  BY Initial, Inductive, PTL DEF Spec

-----------------------------------------------------------------------------
(* The order of the descriptors. *)

(* In a sorted list the elements before std::lower_bound are the smaller   *)
(* ones: these are as many as their positions, so the positions are the    *)
(* first ones.                                                             *)
LEMMA BoundSplits ==
  ASSUME FdsSorted, m_fds \in Seq(FDs), NEW n \in Nat, n = Len(m_fds), NEW fd \in FDs,
         NEW p \in 1..n + 1, p = LowerBound(fd)
  PROVE  \A i \in 1..n : i < p <=> m_fds[i] < fd
<1>1. PICK T : T = {i \in 1..n : m_fds[i] < fd}
  OBVIOUS
<1>2. p = 1 + Cardinality(T)
  BY <1>1 DEF LowerBound
<1>3. \A k \in Nat : IsFiniteSet(1..k) /\ Cardinality(1..k) = k
  <2>1. TAKE k \in Nat
  <2>2. 1 \in Int /\ k \in Int
    OBVIOUS
  <2>3. /\ IsFiniteSet(1..k)
        /\ Cardinality(1..k) = IF 1 > k THEN 0 ELSE k - 1 + 1
    BY <2>2, FS_Interval, Zenon
  <2>4. QED
    BY <2>3
<1>4. IsFiniteSet(T)
  <2>1. T \in SUBSET (1..n)
    BY <1>1
  <2>2. QED
    BY <1>3, <2>1, FS_Subset
<1>5. PICK c \in Nat : c = Cardinality(T)
  BY <1>4, FS_CardinalityType
<1>6. ASSUME NEW i \in T PROVE i \in 1..c
  <2>1. i \in 1..n /\ m_fds[i] < fd /\ i \in Nat
    BY <1>1
  <2>2. \A k \in 1..n : m_fds[k] \in Nat
    BY ElementOfSeq, PollAssumption
  <2>3. fd \in Nat
    BY PollAssumption
  <2>4. ASSUME NEW k \in 1..i PROVE k \in T
    <3>1. k \in 1..n /\ (k < i \/ k = i)
      BY <2>1
    <3>2. m_fds[k] < m_fds[i] \/ m_fds[k] = m_fds[i]
      BY <2>1, <3>1 DEF FdsSorted
    <3>3. m_fds[k] < fd
      BY <2>1, <2>2, <2>3, <3>1, <3>2
    <3>4. QED
      BY <1>1, <3>1, <3>3
  <2>5. (1..i) \in SUBSET T
    BY <2>4
  <2>6. Cardinality(1..i) <= Cardinality(T)
    BY <1>4, <2>5, FS_Subset
  <2>7. QED
    BY <1>3, <1>5, <2>1, <2>6
<1>7. T = 1..c
  <2>1. T \in SUBSET (1..c)
    BY <1>6
  <2>2. QED
    BY <1>3, <1>5, <2>1, FS_Subset
<1>8. \A i \in 1..n : i < p <=> i \in T
  <2>1. p = 1 + c
    BY <1>2, <1>5, Zenon
  <2>2. \A i \in 1..n : i < 1 + c <=> i \in 1..c
    BY <1>5
  <2>3. QED
    BY <1>7, <2>1, <2>2, Zenon
<1>9. QED
  BY <1>1, <1>8

LEMMA AddsInOrder ==
  ASSUME IInv, FdsSorted, NEW fd \in FDs, NEW h \in Handlers, AsyncPollAdd(fd, h)
  PROVE  FdsSorted'
<1>1. PICK n \in Nat : n = Len(m_fds)
  BY DEF IInv, Types
<1>2. PICK F \in Seq(FDs) : F = m_fds /\ Len(F) = n
  BY <1>1 DEF IInv, Types
<1>3. PICK p \in 1..n + 1 : p = LowerBound(fd)
  BY <1>1, Bounded
<1>4. PICK F2 : F2 = m_fds'
  OBVIOUS
<1>5. /\ Len(F2) = n + 1
      /\ \A i \in 1..n + 1 : F2[i] = IF i < p THEN F[i] ELSE IF i = p THEN fd ELSE F[i - 1]
  <2>1. F2 = InsertAt(F, p, fd)
    BY <1>2, <1>3, <1>4 DEF AsyncPollAdd
  <2>2. p \in 1..Len(F) + 1
    BY <1>2
  <2>3. WithAt(F2, F, p, fd)
    BY <1>2, <2>1, <2>2, Inserted, Zenon
  <2>4. QED
    BY <1>2, <2>3, Zenon DEF WithAt
<1>6. \A i \in 1..n : F[i] \in Nat
  BY <1>2, ElementOfSeq, PollAssumption
<1>7. fd \in Nat
  BY PollAssumption
<1>8. \A i, j \in 1..n : i < j => F[i] < F[j]
  BY <1>2 DEF FdsSorted
<1>9. \A i \in 1..n : i < p <=> F[i] < fd
  BY <1>1, <1>2, <1>3, BoundSplits
<1>10. p \in 1..n => F[p] # fd
  BY <1>1, <1>2, <1>3 DEF AsyncPollAdd, AlreadyPolled
<1>11. ASSUME NEW i \in 1..n, ~(i < p) PROVE fd < F[i]
  <2>1. p \in 1..n
    BY <1>11
  <2>2. fd < F[p]
    BY <1>6, <1>7, <1>9, <1>10, <2>1
  <2>3. i = p \/ F[p] < F[i]
    BY <1>8, <1>11, <2>1
  <2>4. QED
    BY <1>6, <1>7, <2>1, <2>2, <2>3
<1>12. ASSUME NEW i \in 1..n + 1, NEW j \in 1..n + 1, i < j PROVE F2[i] < F2[j]
  <2>1. CASE j < p
    <3>1. i \in 1..n /\ j \in 1..n /\ i < p
      BY <1>12, <2>1
    <3>2. F2[i] = F[i] /\ F2[j] = F[j]
      BY <1>5, <2>1, <3>1
    <3>3. QED
      BY <1>8, <1>12, <3>1, <3>2
  <2>2. CASE j = p
    <3>1. i \in 1..n /\ i < p
      BY <1>12, <2>2
    <3>2. F2[i] = F[i] /\ F2[j] = fd
      BY <1>5, <2>2, <3>1
    <3>3. QED
      BY <1>9, <3>1, <3>2
  <2>3. CASE j > p
    <3>1. j - 1 \in 1..n /\ ~(j - 1 < p) /\ ~(j < p) /\ j # p
      BY <1>12, <2>3
    <3>2. F2[j] = F[j - 1] /\ fd < F[j - 1]
      BY <1>5, <1>11, <3>1
    <3>3. CASE i < p
      <4>1. i \in 1..n /\ F2[i] = F[i] /\ F[i] < fd
        BY <1>5, <1>9, <3>3
      <4>2. QED
        BY <1>6, <1>7, <3>1, <3>2, <4>1
    <3>4. CASE i = p
      BY <1>5, <3>2, <3>4
    <3>5. CASE i > p
      <4>1. i - 1 \in 1..n /\ i - 1 < j - 1 /\ ~(i < p) /\ i # p
        BY <1>12, <3>5
      <4>2. F2[i] = F[i - 1]
        BY <1>5, <4>1
      <4>3. QED
        BY <1>8, <3>1, <3>2, <4>1, <4>2
    <3>6. QED
      BY <3>3, <3>4, <3>5
  <2>4. QED
    BY <2>1, <2>2, <2>3
<1>13. QED
  BY <1>4, <1>5, <1>12 DEF FdsSorted

LEMMA IteratesInOrder ==
  ASSUME IInv, FdsSorted, Iterate
  PROVE  FdsSorted'
<1>1. PICK n \in Nat : n = Len(m_fds)
  BY DEF IInv, Types
<1>2. PICK F \in Seq(FDs) : F = m_fds /\ Len(F) = n
  BY <1>1 DEF IInv, Types
<1>3. n # 0
  BY <1>2, EmptySeq DEF Iterate
<1>4. PICK p \in Nat \ {0} : m_fds' = Erase(F, p)
  <2>1. LowerBound(Current) \in 1..n + 1
    BY <1>1, Bounded
  <2>2. QED
    BY <1>2, <2>1 DEF Iterate
<1>5. PICK F2 : F2 = m_fds'
  OBVIOUS
<1>6. Len(F2) = n - 1 /\ \A i \in 1..n - 1 : F2[i] = IF i < p THEN F[i] ELSE F[i + 1]
  <2>1. Len(F) # 0
    BY <1>2, <1>3
  <2>2. WithoutAt(Erase(F, p), F, p)
    BY <1>2, <1>4, <2>1, Erased, Zenon
  <2>3. QED
    BY <1>2, <1>4, <1>5, <2>2, Zenon DEF WithoutAt
<1>7. \A i, j \in 1..n : i < j => F[i] < F[j]
  BY <1>2 DEF FdsSorted
<1>8. ASSUME NEW i \in 1..n - 1, NEW j \in 1..n - 1, i < j PROVE F2[i] < F2[j]
  <2>1. PICK k \in 1..n, l \in 1..n : F2[i] = F[k] /\ F2[j] = F[l] /\ k < l
    <3>1. CASE j < p
      BY <1>6, <1>8, <3>1
    <3>2. CASE i < p /\ ~(j < p)
      <4>1. F2[i] = F[i] /\ F2[j] = F[j + 1] /\ i \in 1..n /\ j + 1 \in 1..n /\ i < j + 1
        BY <1>6, <1>8, <3>2
      <4>2. QED
        BY <4>1
    <3>3. CASE ~(i < p) /\ ~(j < p)
      <4>1. /\ F2[i] = F[i + 1] /\ F2[j] = F[j + 1]
            /\ i + 1 \in 1..n /\ j + 1 \in 1..n /\ i + 1 < j + 1
        BY <1>6, <1>8, <3>3
      <4>2. QED
        BY <4>1
    <3>4. QED
      BY <1>8, <3>1, <3>2, <3>3
  <2>2. QED
    BY <1>7, <2>1
<1>9. QED
  BY <1>5, <1>6, <1>8 DEF FdsSorted

(* Both binary searches work on a sorted list without duplicates, whatever *)
(* was added, polled and erased before, nested and with copies that are    *)
(* out of date (poll_service.hpp:20-24, 38-40).                            *)
THEOREM DescriptorsStaySorted == Spec => []FdsSorted
<1>1. Init => FdsSorted
  <2>1. Init => Len(m_fds) = 0
    BY EmptySeq DEF Init
  <2>2. QED
    BY <2>1 DEF FdsSorted
<1>2. IInv /\ FdsSorted /\ [Next]_vars => FdsSorted'
  <2> SUFFICES ASSUME IInv, FdsSorted, [Next]_vars PROVE FdsSorted'
    OBVIOUS
  <2>1. CASE \E fd \in FDs, h \in Handlers : AsyncPollAdd(fd, h)
    BY <2>1, AddsInOrder
  <2>2. CASE Iterate
    BY <2>2, IteratesInOrder
  <2>3. CASE UNCHANGED m_fds
    BY <2>3 DEF FdsSorted
  <2>4. QED
    BY <2>1, <2>2, <2>3
    DEF Next, Poll, IterateUndefined, FunctionReturns, FunctionThrows, PollReturns, vars
<1>3. QED
  BY <1>1, <1>2, Always, PTL DEF Spec

-----------------------------------------------------------------------------
(* What is lost.  Each completion that waits for its call has an entry,    *)
(* its own or an empty one.                                                *)
Uncalled == {h \in Handlers : owner[h] # NoFD /\ calls[h] = 0}

Entries == IsFiniteSet(Uncalled) /\ Cardinality(Uncalled) = Len(m_fds)

LEMMA AddsEntry ==
  ASSUME IInv, Entries, NEW fd \in FDs, NEW h \in Handlers, AsyncPollAdd(fd, h)
  PROVE  Entries'
<1>1. PICK F \in Seq(FDs), n \in Nat : F = m_fds /\ n = Len(F)
  BY DEF IInv, Types
<1>2. Len(m_fds') = n + 1
  <2>1. PICK p \in 1..n + 1 : p = LowerBound(fd)
    BY <1>1, Bounded
  <2>2. WithAt(InsertAt(F, p, fd), F, p, fd)
    BY <1>1, Inserted
  <2>3. m_fds' = InsertAt(F, p, fd)
    BY <1>1, <2>1 DEF AsyncPollAdd
  <2>4. QED
    BY <1>1, <2>2, <2>3, Zenon DEF WithAt
<1>3. /\ owner[h] = NoFD /\ fd # NoFD /\ calls[h] = 0 /\ calls' = calls /\ owner'[h] = fd
      /\ \A x \in Handlers : x # h => owner'[x] = owner[x]
  BY PollAssumption DEF AsyncPollAdd, IInv, Types, Fresh
<1>4. PICK U : U = Uncalled
  OBVIOUS
<1>5. IsFiniteSet(U) /\ Cardinality(U) = n
  BY <1>1, <1>4, Zenon DEF Entries
<1>6. h \notin U /\ Uncalled' = U \cup {h}
  BY <1>3, <1>4 DEF Uncalled
<1>7. IsFiniteSet(U \cup {h}) /\ Cardinality(U \cup {h}) = n + 1
  BY <1>5, <1>6, FS_AddElement
<1>8. QED
  BY <1>2, <1>6, <1>7, Zenon DEF Entries

LEMMA IteratesEntry ==
  ASSUME IInv, Entries, Iterate
  PROVE  Entries'
<1>1. PICK F \in Seq(FDs), n \in Nat : F = m_fds /\ n = Len(F)
  BY DEF IInv, Types
<1>2. Len(m_fds') = n - 1
  <2>1. PICK p \in 1..n + 1 : p = LowerBound(Current)
    BY <1>1, Bounded
  <2>2. p \in Nat \ {0} /\ Len(F) # 0
    BY <1>1, EmptySeq DEF Iterate
  <2>3. WithoutAt(Erase(F, p), F, p)
    BY <1>1, <2>2, Erased
  <2>4. m_fds' = Erase(F, p)
    BY <1>1, <2>1 DEF Iterate
  <2>5. QED
    BY <1>1, <2>3, <2>4, Zenon DEF WithoutAt
<1>3. PICK j \in 1..Len(m_completions) : j = top.i + 1 /\ m_completions[j] # EMPTY
  <2>1. frames # <<>> /\ frames \in Seq(Frame)
    BY DEF Iterate, InLoop, IInv, Types
  <2>2. top \in Frame
    BY <2>1, FrontOf, ElementOfSeq DEF top
  <2>3. top.i \in Nat
    BY <2>2 DEF Frame
  <2>4. PICK m \in Nat : m = Len(m_completions)
    BY DEF IInv, Types
  <2>5. QED
    BY <2>3, <2>4 DEF Iterate, HasFunction
<1>4. PICK h \in Handlers : h = m_completions[j]
  BY <1>3, ElementOfSeq DEF IInv, Types
<1>5. calls[h] = 0 /\ owner[h] # NoFD
  BY <1>3, <1>4 DEF IInv, Fresh
<1>6. /\ owner' = owner /\ calls'[h] = 1
      /\ \A x \in Handlers : x # h => calls'[x] = calls[x]
  <2>1. calls' = [calls EXCEPT ![h] = IF calls[h] = 0 THEN 1 ELSE 2] /\ owner' = owner
    BY <1>3, <1>4 DEF Iterate
  <2>2. calls' = [calls EXCEPT ![h] = 1]
    BY <1>5, <2>1
  <2>3. QED
    BY <2>1, <2>2 DEF IInv, Types
<1>7. PICK U : U = Uncalled
  OBVIOUS
<1>8. IsFiniteSet(U) /\ Cardinality(U) = n
  BY <1>1, <1>7, Zenon DEF Entries
<1>9. h \in U /\ Uncalled' = U \ {h}
  BY <1>5, <1>6, <1>7 DEF Uncalled
<1>10. IsFiniteSet(U \ {h}) /\ Cardinality(U \ {h}) = n - 1
  BY <1>8, <1>9, FS_RemoveElement
<1>11. QED
  BY <1>2, <1>9, <1>10, Zenon DEF Entries

(* The entries that are not empty hold different completions, which were   *)
(* added and not called: what is left of the uncalled ones is lost, what   *)
(* is left of the entries is hollow.                                       *)
LEMMA LostAsHollow ==
  ASSUME IInv, Entries
  PROVE  LostLeavesHollow
<1>1. PICK C \in Seq(Handlers \cup {EMPTY}), n \in Nat :
        C = m_completions /\ n = Len(C) /\ n = Len(m_fds) /\ DOMAIN C = 1..n
  <2>1. m_completions \in Seq(Handlers \cup {EMPTY}) /\ Len(m_completions) = Len(m_fds)
    BY DEF IInv, Types, Parallel
  <2>2. Len(m_completions) \in Nat /\ DOMAIN m_completions = 1..Len(m_completions)
    BY <2>1
  <2>3. QED
    BY <2>1, <2>2, Zenon
<1>2. PICK U, N, E : U = Uncalled /\ N = 1..n /\ E = Hollow
  OBVIOUS
<1>3. PICK T : T = {C[i] : i \in N \ E}
  OBVIOUS
<1>4. \A i \in N : i \in E <=> C[i] = EMPTY
  BY <1>1, <1>2 DEF Hollow
<1>5. E \in SUBSET N
  BY <1>1, <1>2 DEF Hollow
<1>6. \A i \in N : C[i] \in Handlers \cup {EMPTY}
  BY <1>1, <1>2, ElementOfSeq
<1>7. \A i \in N : C[i] # EMPTY => calls[C[i]] = 0 /\ owner[C[i]] # NoFD
  BY <1>1, <1>2 DEF IInv, Fresh
<1>8. T \in SUBSET U
  <2>1. SUFFICES ASSUME NEW i \in N, i \notin E PROVE C[i] \in U
    BY <1>3
  <2>2. QED
    BY <1>2, <1>4, <1>6, <1>7, <2>1 DEF Uncalled
<1>9. Lost = U \ T
  <2>1. \A h \in Handlers : Stored(h) <=> h \in T
    <3>1. \A h : Stored(h) <=> \E i \in N : C[i] = h
      <4>1. DOMAIN C = N
        BY <1>1, <1>2, Zenon
      <4>2. QED
        BY <1>1, <4>1 DEF Stored, ToSet
    <3>2. \A h \in Handlers : h # EMPTY
      BY PollAssumption
    <3>3. \A h \in Handlers : h \in T <=> \E i \in N : C[i] = h
      BY <1>3, <1>4, <3>2
    <3>4. QED
      BY <3>1, <3>3, Zenon
  <2>2. QED
    BY <1>2, <2>1 DEF Lost, Uncalled
<1>10. IsFiniteSet(N) /\ Cardinality(N) = n
  BY <1>2, FS_Interval
<1>11. PICK e \in Nat : e = Cardinality(E) /\ IsFiniteSet(E)
  BY <1>5, <1>10, FS_Subset, FS_CardinalityType
<1>12. IsFiniteSet(N \ E) /\ Cardinality(N \ E) = n - e
  <2>1. N \cap E = E
    BY <1>5
  <2>2. /\ IsFiniteSet(N \ E)
        /\ Cardinality(N \ E) = Cardinality(N) - Cardinality(N \cap E)
    BY <1>10, FS_Difference, Zenon
  <2>3. QED
    BY <1>10, <1>11, <2>1, <2>2, Zenon
<1>13. IsFiniteSet(T) /\ Cardinality(T) = n - e
  <2>1. PICK f : f = [i \in N \ E |-> C[i]]
    OBVIOUS
  <2>2. f \in [N \ E -> T] /\ \A t \in T : \E i \in N \ E : f[i] = t
    BY <1>3, <2>1
  <2>3. \A i, k \in N \ E : f[i] = f[k] => i = k
    <3>1. \A i, k \in N : C[i] = C[k] /\ C[i] # EMPTY => i = k
      BY <1>1, <1>2 DEF IInv, Fresh
    <3>2. QED
      BY <1>4, <2>1, <3>1
  <2>4. f \in Bijection(N \ E, T)
    <3>1. f \in Injection(N \ E, T)
      BY <2>2, <2>3 DEF Injection, IsInjective
    <3>2. f \in Surjection(N \ E, T)
      BY <2>2 DEF Surjection
    <3>3. QED
      BY <3>1, <3>2, Zenon DEF Bijection
  <2>5. ExistsBijection(N \ E, T)
    BY <2>4, Zenon DEF ExistsBijection
  <2>6. QED
    BY <1>12, <2>5, FS_Bijection
<1>14. IsFiniteSet(U) /\ Cardinality(U) = n
  BY <1>1, <1>2, Zenon DEF Entries
<1>15. Cardinality(U \ T) = n - (n - e)
  <2>1. U \cap T = T
    BY <1>8
  <2>2. Cardinality(U \ T) = Cardinality(U) - Cardinality(U \cap T)
    BY <1>14, FS_Difference, Zenon
  <2>3. QED
    BY <1>13, <1>14, <2>1, <2>2, Zenon
<1>16. n - (n - e) = e
  OBVIOUS
<1>17. QED
  BY <1>2, <1>9, <1>11, <1>15, <1>16, Zenon DEF LostLeavesHollow

(* As many completions are lost as m_completions has entries with nothing  *)
(* to call, whichever poll() takes and erases; each loss is one of those   *)
(* erasures, each such entry its trace (poll_service.hpp:39-42).           *)
THEOREM LossesAreHollowEntries == Spec => []LostLeavesHollow
<1>1. Init => Entries
  <2> SUFFICES ASSUME Init PROVE Entries
    OBVIOUS
  <2>1. Len(m_fds) = 0
    BY EmptySeq DEF Init
  <2>2. Uncalled = {}
    BY DEF Init, Uncalled
  <2>3. QED
    BY <2>1, <2>2, FS_EmptySet, Zenon DEF Entries
<1>2. IInv /\ Entries /\ [Next]_vars => Entries'
  <2> SUFFICES ASSUME IInv, Entries, [Next]_vars PROVE Entries'
    OBVIOUS
  <2>1. CASE \E fd \in FDs, h \in Handlers : AsyncPollAdd(fd, h)
    BY <2>1, AddsEntry
  <2>2. CASE Iterate
    BY <2>2, IteratesEntry
  <2>3. CASE UNCHANGED <<m_fds, owner, calls>>
    BY <2>3 DEF Entries, Uncalled
  <2>4. QED
    BY <2>1, <2>2, <2>3
    DEF Next, Poll, IterateUndefined, FunctionReturns, FunctionThrows, PollReturns, vars
<1>3. IInv /\ Entries => LostLeavesHollow
  BY LostAsHollow
<1>4. QED
  BY <1>1, <1>2, <1>3, Always, PTL DEF Spec

-----------------------------------------------------------------------------
(* The two lists have the same length at every moment, undefined behaviour *)
(* of vector::erase included, so async_poll_add inserts within             *)
(* m_completions (poll_service.hpp:23-25, 40-42).                          *)
THEOREM ListsAreParallel == Spec => []SameLength
<1>1. IInv => SameLength
  BY DEF IInv, Parallel, SameLength
<1>2. QED
  BY <1>1, Always, PTL

(* No completion is called twice (poll_service.hpp:41-43). *)
THEOREM NoSecondCall == Spec => []CalledOnce
<1>1. IInv => CalledOnce
  BY DEF IInv, OnlyOnce, CalledOnce
<1>2. QED
  BY <1>1, Always, PTL

(* A service whose poll() never saw several descriptors at once calls each *)
(* completion with the event of its own descriptor and loses none          *)
(* (poll_service.hpp:20-25, 37-43).                                        *)
THEOREM OneAtATimeIsServed == Spec => []ServedWhileAlone
<1>1. ASSUME IInv, ~crowded
      PROVE  /\ wrong = {}
             /\ [i \in DOMAIN m_completions |-> owner[m_completions[i]]] = Reverse(m_fds)
             /\ \A h \in Handlers : owner[h] # NoFD => (Stored(h) <=> calls[h] = 0)
  <2>1. wrong = {} /\ Mirror /\ Kept
    BY <1>1 DEF IInv, Alone
  <2>2. PICK n \in Nat : n = Len(m_fds) /\ n = Len(m_completions)
    BY <1>1 DEF IInv, Types, Parallel
  <2>3. DOMAIN m_completions = 1..n
    BY <1>1, <2>2 DEF IInv, Types
  <2>4. [i \in DOMAIN m_completions |-> owner[m_completions[i]]] = Reverse(m_fds)
    <3>1. Reverse(m_fds) = [i \in 1..n |-> m_fds[(n - i) + 1]]
      BY <2>2 DEF Reverse
    <3>2. \A i \in 1..n : owner[m_completions[i]] = m_fds[(n - i) + 1]
      BY <2>1, <2>2 DEF Mirror
    <3>3. QED
      BY <2>3, <3>1, <3>2
  <2>5. \A h \in Handlers : owner[h] # NoFD => (Stored(h) <=> calls[h] = 0)
    <3>1. \A h : Stored(h) <=> \E i \in 1..n : m_completions[i] = h
      BY <2>3 DEF Stored, ToSet
    <3>2. QED
      BY <2>1, <2>2, <3>1 DEF Kept
  <2>6. QED
    BY <2>1, <2>4, <2>5, Zenon
<1>2. IInv => ServedWhileAlone
  BY <1>1, Zenon DEF ServedWhileAlone
<1>3. QED
  BY <1>2, Always, PTL
=============================================================================
