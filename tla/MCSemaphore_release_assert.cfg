SPECIFICATION Spec
CONSTANTS
  Threads = {t1, t2}
  Handlers = {h1, h2, h3}
  EMPTY = EMPTY
  Desired = 1
  Updates = {1, 2, 3}
  MaxIssued = 4
  Builds = {FALSE}
  Spurious = FALSE
SYMMETRY Symmetry
INVARIANT ReleaseAssertionHolds
CHECK_DEADLOCK FALSE
