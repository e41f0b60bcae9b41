CONSTANTS
  Calls = {c1}
  MaxConcurrent = 1
  ToolFailures = {"internal", "audit_unavailable"}
SPECIFICATION FairSpec
INVARIANTS
  TwoOutcomesOnlyByAbort
  DisposedWhenIdle
PROPERTIES
  ImplementsCallWrites
  EveryWaitEnds
