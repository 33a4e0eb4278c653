\* Two jobs with three occurrences, fewer places than occurrences that are due.
SPECIFICATION Spec
CONSTANTS
  None = None
  Jobs = {1, 2}
  Schedule <- OnceAndInterval
  Batch = 2
  StartupCap = 1
  MaxTime = 1
  MaxLives = 1
  MaxAttempts = 1
PROPERTIES CatchUpFires
CHECK_DEADLOCK FALSE
