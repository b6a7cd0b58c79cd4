\* Three exchanges, one handover between processes.
CONSTANTS
  Normal <- Spelled
  NoTickers = {"I"}
  MaxTickers = 3
  MaxParsed = 200
  MaxBudget = 100
  Utterances <- Texts
  Outputs <- Objects
  Overrides <- Changes
  AssistantText <- Examples
  MaxMessages = 6
  MaxKeys = 2
  MaxHandovers = 1
SPECIFICATION Spec
CHECK_DEADLOCK FALSE
INVARIANTS
  RequestIsSound
  ConfirmedWasShown
PROPERTIES
  HeardAndKept
