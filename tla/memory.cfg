\* Two sessions, each with up to two tool calls; a run may be on record, and two are kept.
CONSTANTS
  Sessions = {s1, s2}
  Cap = 1
  MaxHistory = 2
  MaxCalls = 1
  MaxTools = 2
  None = None
SPECIFICATION FairSpec
INVARIANTS
  OneDigest
PROPERTIES
  NothingLost
  WritersEnd
\* Sessions are over.
CHECK_DEADLOCK FALSE
