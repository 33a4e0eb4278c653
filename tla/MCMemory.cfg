\* Two entries of three revisions, a client and a tool call, three sessions of the store.
SPECIFICATION Spec
CONSTANTS
  None = None
  Ids = {i1, i2}
  Contents = {a, x}
  Unsafe = {x}
  Keys = {k}
  Clients = {u}
  MaxRevision = 3
  MaxCrashes = 2
SYMMETRY Interchangeable
CHECK_DEADLOCK FALSE
INVARIANTS
  NoLostUpdate
  SearchFinds
  ToolWritesOnce
  VerdictIsTrue
