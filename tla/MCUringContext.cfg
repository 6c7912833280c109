SPECIFICATION FairSpec
CONSTANTS
  a = a
  b = b
  c = c
  m = m
  Ops = {a, b, c, m}
  Starter <- Mixed
  Cancelled = c
  None = None
  Garbage = Garbage
  SQEntries = 3
  Spans = {1, 2}
  EINTR = 1
  EBADR = 3
  KernelError = 9
  NDEBUG = TRUE
  MaxMore = 1
INVARIANT TypeOK
INVARIANT Conserved
INVARIANT NothingAfterLast
PROPERTY RingSpec
PROPERTY StoredFinishes
PROPERTY CancelledFinishes
CHECK_DEADLOCK FALSE
