SPECIFICATION HangingSpec
CONSTANTS
  MaxId = 2
  Cancellers = {c1}
  Deleters = {}
  None = None
  MaxCreates = 2
  MaxStarts = 2
  MaxFaults = 1
INVARIANT FindingsFollowCompletion
PROPERTIES SettledButForTheRace RunnerRefinesLifecycle QueueDrains CancelTakesEffect StopReturns
CHECK_DEADLOCK FALSE
