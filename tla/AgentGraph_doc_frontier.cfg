\* A sweep of the default size.
CONSTANTS
  MaxAssets = 3
  MaxQuantumAssets = 2
  MaxWarnings = 3
  MaxGain = 2
  SweepSizes = {7, 25}
  Surprises = {}
SPECIFICATION Spec
CHECK_DEADLOCK FALSE
INVARIANTS
  FrontierDelivered
