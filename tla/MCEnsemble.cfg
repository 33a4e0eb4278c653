\* Two workers with slots of two calls, one crash, and one trouble of any kind.
SPECIFICATION FairSpec
CONSTANTS
  Workers = {w1, w2}
  CallLimit = 10
  MaxWorkers = 2
  MaxCrashes = 1
  MaxTroubles = 1
CHECK_DEADLOCK FALSE
INVARIANTS
  CompletedIsWhole
  CostIsHonest
  NobodyWorksForEnded
PROPERTIES
  FanoutEnds
