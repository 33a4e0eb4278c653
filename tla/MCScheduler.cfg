\* One occurrence, three attempts, three daemons one after the other.
SPECIFICATION LiveSpec
CONSTANTS
  None = None
  Jobs = {1}
  Schedule <- Once
  Batch = 2
  StartupCap = 1
  MaxTime = 0
  MaxLives = 3
  MaxAttempts = 3
INVARIANTS SuccessNamesCompletedRun DeliveredIsRecorded
PROPERTIES CancelStands OccurrenceEnds DeliveryDecided
CHECK_DEADLOCK FALSE
