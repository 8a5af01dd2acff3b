\* Two bots with two calls between them, and two syncs of one of them, over two keys.
CONSTANTS
  tech = tech
  product = product
  sync1 = sync1
  sync2 = sync2
  key1 = key1
  key2 = key2
  lib = lib
  env = env
  app = app
  web = web
  here = here
  Malformed = Malformed
  Barred = {env}
  Dirs = {here}
  Override = None
  Configs <- MCConfigs
  story = story
  sprint = sprint
  other = other
  one = one
  two = two
  vineyard = vineyard
  Secret = Secret
  Torn = Torn
  None = None
  Procs = {tech, product}
  Coder = tech
  Source = {lib, env}
  Artifacts = {story, other}
  StatusFile = sprint
  Statuses <- MCStatuses
  Bodies = {one, two}
  Batches <- MCBatches
  Calls = 2
  Syncs = {sync1, sync2}
  Keys = {key1, key2}
  Modules = {vineyard}
  Vineyard = vineyard
  Home <- MCHome
  Artifact <- MCArtifact
SYMMETRY MCSymmetry
SPECIFICATION ProjectSpec
INVARIANTS
  AuditAccounts
PROPERTIES
  Landed
  RowsFollow
\* The calls of a process are bounded, and its sync runs once.
CHECK_DEADLOCK FALSE
