\* Two runs of one tab, one message on each channel.
CONSTANTS
  Runs = {r1, r2}
  NoRun = NoRun
  Conns = {c1, c2}
  NoConn = NoConn
  Steps = {"s1"}
  MaxPublished = 1
  MaxRetries = 1
SPECIFICATION FairSpec
CHECK_DEADLOCK FALSE
INVARIANTS
  OnlyCurrentRun
  LinkBelongsToTab
PROPERTIES
  SpinnerStops
