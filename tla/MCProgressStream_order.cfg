\* One run, any three messages on its channel.
CONSTANTS
  Runs = {r1}
  NoRun = NoRun
  Conns = {c1, c2}
  NoConn = NoConn
  Steps = {"s1", "s2"}
  MaxPublished = 3
  MaxRetries = 1
SPECIFICATION Spec
SYMMETRY Symmetry
CHECK_DEADLOCK FALSE
INVARIANTS
  InOrder
  LosesNothing
  OneVerdictShown
