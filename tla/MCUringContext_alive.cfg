SPECIFICATION Spec
CONSTANTS
  a = a
  b = b
  c = c
  m = m
  Ops = {a, m}
  Starter <- Few
  Cancelled = m
  None = None
  Garbage = Garbage
  SQEntries = 2
  Spans = {1}
  EINTR = 4
  EBADR = 53
  KernelError = 9
  NDEBUG = TRUE
  MaxMore = 1
INVARIANT AliveWhileEntriesCome
CHECK_DEADLOCK FALSE
