SPECIFICATION Spec
CONSTANTS
  MaxId = 2
  Cancellers = {c1}
  Deleters = {d1}
  None = None
  MaxCreates = 2
  MaxStarts = 1
  MaxFaults = 0
INVARIANT LoopRunsUntilStopped
CHECK_DEADLOCK FALSE
