\* One response of up to three calls, then one call; fan-out off and two wide.
CONSTANTS
  Tools <- MCTools
  EffectOf <- MCEffect
  GroupOf <- MCGroup
  NoGroup = "nogroup"
  Caps = {0, 2}
  UniqueIds = TRUE
  MaxTurns = 3
  Budget = 3
  Gaps = {"content", "path"}
  KeepTail = 2
  HardMin = 4
  Width <- MCWidth
SPECIFICATION FairSpec
INVARIANTS
  NoConflict
  WorldInOrder
  TranscriptAnswered
  BreakerIsExact
  PartitionAgrees
  FallbackAccepts
PROPERTIES
  SessionEnds
  ImplementsSession
\* A session ends.
CHECK_DEADLOCK FALSE
