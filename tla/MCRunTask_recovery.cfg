\* The faults the task is designed for.
CONSTANTS
  Msgs = {m1, m2, m3}
  MaxRetries = 1
  MaxCrashes = 1
  Outcomes <- FewOutcomes
  Faults = {"graph", "crash", "soft"}
SPECIFICATION FairSpec
CHECK_DEADLOCK FALSE
INVARIANTS
  FailureWasAnnounced
  NoStrandedRun
  ResultIsDurable
  OneVerdict
PROPERTIES
  RunSettles
