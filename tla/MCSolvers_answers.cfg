\* Weights in quarters of the budget. The universe of five assets is the one
\* that is too large for the quantum solvers.
CONSTANTS
  Grid = 4
  Problems <- MCProblems
  MaxQuantumAssets = 4
  RiskFree = 1
  Parallel = 8
SPECIFICATION Spec
CHECK_DEADLOCK FALSE
INVARIANTS
  VerdictIsRight
  FrontierIsPareto
  QuboIsTheObjective
  SelectionIsRight
