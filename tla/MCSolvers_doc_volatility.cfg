\* The requests and universes of the answers run; only the claim of the comment in
\* optimizer.py is checked.
CONSTANTS
  Grid = 4
  Problems <- MCProblems
  MaxQuantumAssets = 4
  RiskFree = 1
  Parallel = 8
SPECIFICATION Spec
CHECK_DEADLOCK FALSE
INVARIANTS
  VolatilityIsTrue
