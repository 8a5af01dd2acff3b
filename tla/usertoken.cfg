SPECIFICATION FairSpec
CONSTANTS
  Delegations = {d1, d2}
  Clicks = {c1}
  MaxGrants = 3
  None = None
  Torn = Torn
INVARIANT KeptUnlessLost
PROPERTIES EveryDelegationEnds
CHECK_DEADLOCK FALSE
