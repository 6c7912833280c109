SPECIFICATION Spec
CONSTANTS
  FDs = {3, 4, 5}
  Handlers = {h1, h2, h3, h4}
  EMPTY = EMPTY
  NoFD = NoFD
  MaxNested = 2
SYMMETRY Symmetry
INVARIANT FdsSorted
INVARIANT SameLength
INVARIANT CalledOnce
INVARIANT LostLeavesHollow
INVARIANT ServedWhileAlone
CHECK_DEADLOCK FALSE
