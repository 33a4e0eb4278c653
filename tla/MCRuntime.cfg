\* Three kinds of tools, two iterations, two crashes; every reply costs the token
\* it was reserved for.
SPECIFICATION Spec
CONSTANTS
  None = None
  CallSafety <- AllTools
  Replies <- AllReplies
  NeedsApproval = {"idempotent", "reconcilable", "opaque_side_effect"}
  MaxIterations = 2
  NoProgressThreshold = 2
  LeaseSeconds = 1
  TokenLimit = None
  Usages = {1}
  Patient = FALSE
  MaxTime = 3
  MaxCrashes = 2
  MaxProviderCalls = 7
INVARIANTS ToolRunsApproved EffectsBounded CompletedRunIsSettled
PROPERTIES OutcomesReused EndedRunIsQuiet
CHECK_DEADLOCK FALSE
