SPECIFICATION DispatchFairSpec
CONSTANTS
  Dispatches = {1, 2}
  Tasks = {t1}
  Ttl = 1
  StaleAge = 1
  Horizon = 3
  None = None
INVARIANTS TaskIsOwn
PROPERTIES CompletedByOwner EveryDispatchEnds
CHECK_DEADLOCK FALSE
