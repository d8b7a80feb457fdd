SPECIFICATION Spec
CONSTANTS
  MaxSessions = 3
  MaxGamers = 2
  MaxMessages = 1
  MaxKicks = 1
  MaxSwitches = 1
  MaxDrains = 1
  QueueSize = 2
INVARIANTS Reachable LoginRunsFirst
PROPERTIES EveryTaskRuns
CHECK_DEADLOCK FALSE
