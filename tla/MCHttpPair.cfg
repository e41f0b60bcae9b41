CONSTANTS
  Requests = {c1, c2}
  MaxConcurrent = 1
  MaxPending = 3
SPECIFICATION OpenSpec
INVARIANTS
  PlacesAreAccounted
  TerminalIsLast
PROPERTIES
  HealthyNeverDrops
