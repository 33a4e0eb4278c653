\* One idempotent tool, one crash, operators that wait for leases to run out; a
\* token budget that some histories exhaust.
SPECIFICATION LiveSpec
CONSTANTS
  None = None
  CallSafety <- Idempotent
  Replies <- OneTool
  NeedsApproval = {"idempotent"}
  MaxIterations = 2
  NoProgressThreshold = 2
  LeaseSeconds = 1
  TokenLimit = 2
  Usages = {1, 2}
  Patient = TRUE
  MaxTime = 4
  MaxCrashes = 1
  MaxProviderCalls = 6
PROPERTIES UsesJournal UsesLedger RunEndsUnlessOrphaned
CHECK_DEADLOCK FALSE
