SPECIFICATION Spec
CONSTANTS
  MaxCrashes = 3
  MaxErrors = 3
CHECK_DEADLOCK FALSE
INVARIANTS NothingLost RestoreIsWhole
PROPERTIES RecoveryEnds
