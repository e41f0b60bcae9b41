CONSTANTS
  Calls = {c1}
  MaxConcurrent = 1
  ToolFailures = {"internal"}
SPECIFICATION Spec
INVARIANT OneOutcomePerAttempt
