\* Three requests at a time, everything may fail.
CONSTANTS
  Requests = {q1, q2, q3, q4, q5}
  NoRequest = NoRequest
  MaxMessages = 5
  MaxInFlight = 3
  Faults = {"llm", "broker", "db"}
SPECIFICATION Spec
SYMMETRY Symmetry
CHECK_DEADLOCK FALSE
INVARIANTS
  TypeOK
  LinkedRunExists
  NothingAfterExpiry
  ConversationIsKept
  OneRunPerSession
PROPERTIES
  LinkStays
  Lifecycle
