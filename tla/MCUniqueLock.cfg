SPECIFICATION Spec
CONSTANTS
  Locks = {l1, l2, l3}
  Handlers = {h1, h2, h3}
  NoLock = NoLock
  Desired = 2
  MaxExtra = 2
SYMMETRY Symmetry
INVARIANT PermitsAccounted
INVARIANT ExcludesOthers
CHECK_DEADLOCK FALSE
