\* Every fault at once, one lost worker.
CONSTANTS
  Msgs = {m1, m2, m3}
  MaxRetries = 1
  MaxCrashes = 1
  Outcomes <- FewOutcomes
  Faults = {"graph", "db", "broker", "crash", "soft", "softlate", "hard", "stall"}
SPECIFICATION Spec
SYMMETRY Symmetry
CHECK_DEADLOCK FALSE
INVARIANTS
  TypeOK
  SingleExecution
  AttemptBudget
  OneSource
PROPERTIES
  NeverBackToPending
