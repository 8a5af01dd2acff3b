CONSTANTS
  p1 = p1
  p2 = p2
  Procs = {p1, p2}
  Overlap = FALSE
  MaxSeq = 4
  MaxLines = 5

SPECIFICATION Spec

INVARIANTS
  SeqIncreases
  AckedEventsSurvive
  OpenedOnce

CHECK_DEADLOCK FALSE
