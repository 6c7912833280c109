SPECIFICATION FairSpec
CONSTANTS
  a = a
  b = b
  c = c
  Ops = {a, b, c}
  Kinds <- Mixed
  Threading = {"one", "many"}
INVARIANT NeverResumedEmpty
INVARIANT StatBeforeHandler
INVARIANT ThrowsOnFailureOnly
INVARIANT EndedMeansResumed
PROPERTY PipelineSpec
PROPERTY ResumedOnOneThread
CHECK_DEADLOCK FALSE
