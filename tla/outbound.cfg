\* Two providers with one retry each, a handshake and two calls of a server.
CONSTANTS
  Count = 2
  ModelOf <- MCModelOf
  SessionModel = "relay"
  MaxRetries = 1
  BaseBackoff = 1
  MaxBackoff = 1
  Limit = 3
  MaxId = 4
  Turns = 3
  CallLimit = 1
SPECIFICATION FairSpec
INVARIANTS
  LeftForCause
  AnswerIsOwn
PROPERTIES
  SessionEnds
\* A session ends.
CHECK_DEADLOCK FALSE
