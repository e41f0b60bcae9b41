CONSTANTS
  Writes = {w1, w2, w3}
  Scoped = {w1, w2}
  Closers = {}
  Capacity = 2
SPECIFICATION DeliverySpec
PROPERTIES
  SettleIsComplete
  ImplementsAuditLog
  ImplementsBoundedLog
  EveryWaitEnds
