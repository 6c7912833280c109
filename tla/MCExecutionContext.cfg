SPECIFICATION FairSpec
CONSTANTS
  Threads = {t1, t2}
  Main = t1
  Tasks = {a, b, c}
  NoTask = NoTask
  Throwing = {b, c}
  MaxNested = 1
INVARIANT OneOwner
INVARIANT KeptBetweenCalls
INVARIANT NothingLeaks
INVARIANT CountsAgree
PROPERTY OwnPostsTaken
PROPERTY QueueSpec
PROPERTY RunEnds
PROPERTY OwnPostsRun
CHECK_DEADLOCK FALSE
