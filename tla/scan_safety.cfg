SPECIFICATION Spec
CONSTANTS
  MaxId = 2
  Cancellers = {c1, c2}
  Deleters = {d1}
  None = None
  MaxCreates = 3
  MaxStarts = 2
  MaxFaults = 0
INVARIANTS OneSlot RunningIsRegistered
PROPERTY CancelledNeverRuns
SYMMETRY HandlerSymmetry
CHECK_DEADLOCK FALSE
