SPECIFICATION FairSpec
CONSTANTS
  Threads = {t1, t2, t3}
  Handlers = {h1, h2}
  EMPTY = EMPTY
  Desired = 0
  Updates = {1, 2, 3}
  MaxIssued = 4
  Builds = {TRUE, FALSE}
  Spurious = TRUE
INVARIANT NoOverAdmission
INVARIANT Ledger
INVARIANT PostedOnce
INVARIANT ClaimsCovered
INVARIANT EmptyOnlyWhileStoring
PROPERTY TryTakesFreePermit
PROPERTY PoolSpec
PROPERTY CallsReturn
CHECK_DEADLOCK FALSE
