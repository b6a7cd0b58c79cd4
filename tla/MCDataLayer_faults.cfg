\* Two calls at a time, of either kind, and every failure.
CONSTANTS
  TTL = 1
  MaxTime = 1
  MaxCalls = 2
  Failures = {TRUE, FALSE}
  Workers = {w1, w2}
  Lists <- Requests
  Normal <- Spellings
  Lookbacks = {20, 30, 60}
  MinDays = 30
  MaxTries = 2
  Sectors = {"Unknown"}
  Clients = {c1, c2}
  Names = {"x", "y"}
  Namespaces = {"default"}
  MaxResets = 1
SPECIFICATION FairSpec
CHECK_DEADLOCK FALSE
INVARIANTS
  FitsTheRequest
  FlushClears
  OnePool
PROPERTIES
  FetchEnds
