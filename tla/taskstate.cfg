\* Four events after task.opened, one tick.
CONSTANTS
  TodoIds = {a, b}
  a = a
  b = b
  StepIndices = {0, 1}
  Statuses = {"", "in_progress", "blocked", "done"}
  Plans <- MCPlans
  Threshold = 1
  MaxLoops = 2
  MaxEvents = 4
  Horizon = 1
SYMMETRY Ids
SPECIFICATION TaskStateSpec
INVARIANTS
  ToldTruly
  SnapshotResumes
\* The log is full.
CHECK_DEADLOCK FALSE
