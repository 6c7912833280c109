---------------------------- MODULE PollService -----------------------------
(***************************************************************************)
(* tcx::poll_service (include/tcx/services/poll_service.hpp).              *)
(*                                                                         *)
(* One thread adds descriptors and calls poll(); the functions that poll() *)
(* calls may add descriptors, call poll() again, return or throw.  The two *)
(* lists are parallel: m_fds is sorted, m_completions is meant to hold the *)
(* functions in the opposite order.                                        *)
(*                                                                         *)
(* poll() computes the place of a completion so that it erases the one     *)
(* after it, which is end() for the lowest descriptor.  vector::erase of   *)
(* end() is undefined; with libstdc++ it removes the last element.         *)
(* CMakeLists.txt fixes no library, so such a step may also end in status  *)
(* "undefined".  Both outcomes are in the model.                           *)
(***************************************************************************)
EXTENDS Integers, Sequences, FiniteSets, SequencesExt

CONSTANTS
  FDs,       \* file descriptors
  Handlers,  \* completions; each is added once
  EMPTY,     \* a unique_function that was moved from
  NoFD,
  MaxNested  \* bound of the model: calls of poll() in progress

ASSUME PollAssumption ==
  /\ FDs \subseteq Nat /\ NoFD \notin FDs
  /\ EMPTY \notin Handlers
  /\ MaxNested \in Nat \ {0}

VARIABLES
  m_fds,         \* the descriptors of m_fds
  m_completions,
  frames,        \* activations of poll(), innermost last: its copy fds of
                 \* m_fds, which of them have events, the loop's i, and the
                 \* function it calls at the moment
  status,        \* "alive" or "undefined"
  owner,         \* history: the descriptor each handler was added with
  calls,         \* history: how often each handler was called; 2: or more
  wrong,         \* history: handlers called with no event, or another's
  crowded        \* history: poll() was called with several descriptors

vars == <<m_fds, m_completions, frames, status, owner, calls, wrong, crowded>>

Init ==
  /\ m_fds = <<>>
  /\ m_completions = <<>>
  /\ frames = <<>>
  /\ status = "alive"
  /\ owner = [h \in Handlers |-> NoFD]
  /\ calls = [h \in Handlers |-> 0]
  /\ wrong = {}
  /\ crowded = FALSE

-----------------------------------------------------------------------------
top == frames[Len(frames)]

callers == Front(frames)

InLoop == status = "alive" /\ frames # <<>> /\ top.f = EMPTY

InFunction == frames # <<>> /\ top.f # EMPTY

(* The program runs, or the function that the innermost poll() calls.      *)
Active == status = "alive" /\ ~InLoop

(* std::lower_bound of a sorted list, which m_fds is (FdsSorted); positions *)
(* count from 1, and end() is one past the last.                           *)
LowerBound(fd) == 1 + Cardinality({i \in 1..Len(m_fds) : m_fds[i] < fd})

(* The distance from there to m_fds.cend(). *)
Distance(fd) == Len(m_fds) + 1 - LowerBound(fd)

(* async_poll_add: it != m_fds.cend() && it->fd == fd. *)
AlreadyPolled_NotChecked(fd) == FALSE

AlreadyPolled(fd) == LowerBound(fd) <= Len(m_fds) /\ m_fds[LowerBound(fd)] = fd

(* async_poll_add: where the completion goes, m_completions.cbegin() + index. *)
Place_SameOrder(fd) == LowerBound(fd)

Place(fd) == Distance(fd) + 1

(* vector::erase.  The position one past the last is undefined; this is    *)
(* what the library does with it.                                          *)
Erase(s, position) == IF position <= Len(s) THEN RemoveAt(s, position) ELSE Front(s)

(* poll: std::move(m_completions[i]). *)
Taken_Copied == m_completions

Taken == [m_completions EXCEPT ![top.i + 1] = EMPTY]

(* poll: m_completions.erase(m_completions.cbegin() + index). *)
Remaining_Checked(fd) ==
  IF Distance(fd) < Len(Taken) THEN Erase(Taken, Distance(fd) + 1) ELSE Taken

Remaining(fd) == Erase(Taken, Distance(fd) + 1)

(* poll: the descriptor and the event of this iteration. *)
Current == top.fds[top.i + 1]

-----------------------------------------------------------------------------
(* async_poll_add; it throws, and changes nothing, if the descriptor is    *)
(* polled already.                                                         *)
AsyncPollAdd(fd, h) ==
  /\ Active
  /\ ~AlreadyPolled(fd)
  /\ owner[h] = NoFD
  /\ m_fds' = InsertAt(m_fds, LowerBound(fd), fd)
  /\ m_completions' = InsertAt(m_completions, Place(fd), h)
  /\ owner' = [owner EXCEPT ![h] = fd]
  /\ UNCHANGED <<frames, status, calls, wrong, crowded>>

(* poll: ::poll returns with some descriptors ready.  It waits for ever    *)
(* when there is none, and when it fails poll() throws: no steps.          *)
Poll(ready) ==
  /\ Active
  /\ Len(frames) < MaxNested
  /\ ready # {} /\ ready \subseteq ToSet(m_fds)
  /\ frames' = Append(frames, [fds |-> m_fds, ready |-> ready, i |-> 0, f |-> EMPTY])
  /\ crowded' = (crowded \/ Len(m_fds) > 1)
  /\ UNCHANGED <<m_fds, m_completions, status, owner, calls, wrong>>

(* The loop's condition: res is the number of descriptors with events, and *)
(* the loop goes over the first res ones.                                  *)
MoreToDo == top.i < Cardinality(top.ready)

(* poll: there is a function at m_completions[i]. *)
HasFunction ==
  /\ top.i + 1 <= Len(m_completions)
  /\ m_completions[top.i + 1] # EMPTY

(* poll, one iteration up to the call of f. *)
Iterate ==
  /\ InLoop
  /\ MoreToDo
  /\ HasFunction
  /\ m_fds # <<>>
  /\ LET h == m_completions[top.i + 1] IN
       /\ frames' = Append(callers, [top EXCEPT !.f = h])
       /\ calls' = [calls EXCEPT ![h] = IF @ = 0 THEN 1 ELSE 2]
       /\ wrong' = IF owner[h] = Current /\ Current \in top.ready
                   THEN wrong ELSE wrong \cup {h}
  /\ m_completions' = Remaining(Current)
  /\ m_fds' = Erase(m_fds, LowerBound(Current))
  /\ UNCHANGED <<status, owner, crowded>>

(* poll, one iteration: m_completions[i] does not exist, is empty and is   *)
(* called, or one of the two positions is that of no element.              *)
IterateUndefined ==
  /\ InLoop
  /\ MoreToDo
  /\ \/ ~HasFunction
     \/ LowerBound(Current) > Len(m_fds)
     \/ Distance(Current) + 1 > Len(m_completions)
  /\ status' = "undefined"
  /\ UNCHANGED <<m_fds, m_completions, frames, owner, calls, wrong, crowded>>

(* f returns: the next iteration. *)
FunctionReturns ==
  /\ status = "alive"
  /\ InFunction
  /\ frames' = Append(callers, [top EXCEPT !.f = EMPTY, !.i = @ + 1])
  /\ UNCHANGED <<m_fds, m_completions, status, owner, calls, wrong, crowded>>

(* f throws: poll() is left, with the other events of its copy. *)
FunctionThrows ==
  /\ status = "alive"
  /\ InFunction
  /\ frames' = callers
  /\ UNCHANGED <<m_fds, m_completions, status, owner, calls, wrong, crowded>>

PollReturns ==
  /\ InLoop
  /\ ~MoreToDo
  /\ frames' = callers
  /\ UNCHANGED <<m_fds, m_completions, status, owner, calls, wrong, crowded>>

Next ==
  \/ \E fd \in FDs, h \in Handlers : AsyncPollAdd(fd, h)
  \/ \E ready \in SUBSET FDs : Poll(ready)
  \/ Iterate
  \/ IterateUndefined
  \/ FunctionReturns
  \/ FunctionThrows
  \/ PollReturns

Spec == Init /\ [][Next]_vars

-----------------------------------------------------------------------------
(* Whatever poll() erases through the positions of an older copy, and the  *)
(* functions it calls add meanwhile, the descriptors stay in strict order: *)
(* both binary searches are defined only on such a list, and only there    *)
(* does the one position that async_poll_add looks at tell whether a       *)
(* descriptor is polled (poll_service.hpp:20-24, 38-40).                   *)
FdsSorted == \A i, j \in 1..Len(m_fds) : i < j => m_fds[i] < m_fds[j]

(* The two lists never differ in length, whichever completion poll()       *)
(* erases, so async_poll_add never inserts outside of m_completions        *)
(* (poll_service.hpp:23-25, 40-42).                                        *)
SameLength == status = "alive" => Len(m_fds) = Len(m_completions)

(* No completion is called twice, even when poll() takes the wrong one and *)
(* erases another: what it took it moved from (poll_service.hpp:41-43).    *)
CalledOnce == \A h \in Handlers : calls[h] <= 1

Stored(h) == h \in ToSet(m_completions)

(* Completions that are neither stored nor called any more, and entries of *)
(* m_completions with nothing to call.                                     *)
Lost == {h \in Handlers : owner[h] # NoFD /\ calls[h] = 0 /\ ~Stored(h)}

Hollow == {i \in 1..Len(m_completions) : m_completions[i] = EMPTY}

(* With several descriptors poll() takes one completion and erases         *)
(* another.  That one is gone without a call, and what was taken stays as  *)
(* an empty entry, which is undefined to call when poll() comes to it:     *)
(* there are as many such entries as completions lost, and nothing else    *)
(* loses a completion or leaves an empty entry (poll_service.hpp:39-42).   *)
LostLeavesHollow == Cardinality(Lost) = Cardinality(Hollow)

(* While poll() was never called with several descriptors at once, the     *)
(* service does what it is for, whatever the functions it calls add, poll  *)
(* or throw: completions are the mirror of the descriptors, a completion   *)
(* is stored until its own descriptor has an event, and is called with it  *)
(* (poll_service.hpp:20-25, 37-43).                                        *)
ServedWhileAlone ==
  ~crowded /\ status = "alive" =>
    /\ wrong = {}
    /\ [i \in DOMAIN m_completions |-> owner[m_completions[i]]] = Reverse(m_fds)
    /\ \A h \in Handlers : owner[h] # NoFD => (Stored(h) <=> calls[h] = 0)
=============================================================================
