SPECIFICATION Spec
CONSTANTS
  Calls = {c1}
  MaxRetries = 2
  Faults <- OnlyConfigure
INVARIANTS
  StatementsInConfiguredSessions
CHECK_DEADLOCK FALSE
