\* Two nodes from which one may escape.
CONSTANTS
  MaxAssets = 3
  MaxQuantumAssets = 2
  MaxWarnings = 3
  MaxGain = 2
  SweepSizes = {7, 25}
  Surprises = {"data_fetch", "comparison"}
SPECIFICATION Spec
CHECK_DEADLOCK FALSE
INVARIANTS
  NothingAfterFailure
  EventsTellTheOutcome
  AnsweredUnlessFatal
  ExplanationFits
