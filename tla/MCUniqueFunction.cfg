SPECIFICATION Spec
CONSTANTS
  small = small
  aligned = aligned
  Functions = {f, g, h}
  Callables = {small, aligned, large, pointer}
  Inline = {small, aligned}
  Heap = {large}
  Index <- TwoAlignments
  Buffer = Buffer
  Null = Null
INVARIANT InvokesItsOwn
INVARIANT NeverMisused
INVARIANT NothingLeftBehind
PROPERTY OwningSpec
CHECK_DEADLOCK FALSE
