CONSTANTS
  tl = tl
  pm = pm
  a1 = a1
  a2 = a2
  t1 = t1
  t2 = t2
  g1 = g1
  Procs = {tl}
  Agents = {a1, a2}
  Tasks = {t1, t2}
  Home <- MCHome
  Advancers = {tl}
  Stories = {t1}
  DepsOf <- MCDeps
  GroupOf <- MCGroup
  RankOf <- MCRank
  Ttl = 2
  Horizon = 4
  EmptyFile = EmptyFile
  None = None

SPECIFICATION FairSpec

INVARIANTS
  OwnLeaseIntact

PROPERTIES
  ClaimDropsAreDue
  DeadClaimReleased
  ImplementsLeaseTable

CHECK_DEADLOCK FALSE
