CONSTANTS
  Calls = {c1, c2}
  MaxConcurrent = 1
  ToolFailures = {"audit_unavailable"}
SPECIFICATION OpenSpec
INVARIANTS
  ClaimsAreStored
  ResponseIsAudited
PROPERTIES
  FailClosed
