SPECIFICATION FairSpec
CONSTANTS
  a = a
  b = b
  c = c
  Ops = {a}
  Kinds <- Opening
  Threading = {"many"}
PROPERTY AwaitedIsResumed
CHECK_DEADLOCK FALSE
