CONSTANTS
  Requests = {c1}
  MaxConcurrent = 1
  MaxPending = 3
SPECIFICATION FairSpec
INVARIANTS
  CompletedIsDelivered
  AuditIsClosedLast
PROPERTIES
  EveryWaitEnds
