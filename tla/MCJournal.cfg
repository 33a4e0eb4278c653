\* Two runs that compete for an external key; one has a read-only and an opaque step,
\* two workers and a receipt key that both steps may try to write.
SPECIFICATION Spec
CONSTANTS
  r1 = r1  s1 = s1
  None = None
  Runs = {r1, r2}
  Steps = {s1, s2}
  Workers = {w1, w2}
  ReceiptKeys = {k1}
  Payloads = {p1}
  RunKeys = {x1}
  Identities = {i1}
  StepRun <- MCStepRun
  Safety <- MCSafety
  Sequence <- MCSequence
  LeaseSeconds = 1
  MaxTime = 2
INVARIANTS UnsafeStepClaimedOnce
PROPERTIES LiveLeaseRespected SettledForever KeepsStepPromise
CHECK_DEADLOCK FALSE
