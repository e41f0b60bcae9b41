CONSTANTS
  Calls = {c1, c2, c3}
  MaxConcurrent = 2
  Outcomes = {"value", "error"}
  Writes = {w1, w2}
  Closers = {k1, k2}
  Transports = {"stdio", "http"}
  Grace = 2
  AuditTime = 2
  Slack = 1
  Containers = {a, b}
  Leaf = leaf
  Width = 2
  Maximum = 3
  MaxBytes = 2
  MaxParts = 3
  None = none
SPECIFICATION PartsSpec
INVARIANTS
  AbortIsReported
  ZeroRemainingMeansDrained
  ExitCodeIsTruthful
  ReadsWholeAndCloses
  WalkDecides
PROPERTIES
  ImplementsSlotPool
  CloseEnds
  StopAlwaysExits
