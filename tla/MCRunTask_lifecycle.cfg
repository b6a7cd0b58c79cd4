\* No worker lost, no time limit: the real retry limit.
CONSTANTS
  Msgs = {m1, m2, m3, m4}
  MaxRetries = 3
  MaxCrashes = 0
  Outcomes <- AllOutcomes
  Faults = {"graph", "db", "broker"}
SPECIFICATION Spec
SYMMETRY Symmetry
CHECK_DEADLOCK FALSE
INVARIANTS
  FailureNeedsExhaustion
PROPERTIES
  Lifecycle
