\* Ample slots and nothing but one crash.
SPECIFICATION Spec
CONSTANTS
  Workers = {w1, w2}
  CallLimit = 16
  MaxWorkers = 2
  MaxCrashes = 1
  MaxTroubles = 0
CHECK_DEADLOCK FALSE
INVARIANT FailsForCause
