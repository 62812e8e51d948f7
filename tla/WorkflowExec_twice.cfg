CONSTANTS
  Steps = 4
  Lens = {l1, l2}
  Workflows <- Shapes
  NoSnapshot = NoSnapshot
  RunBound = 5
  FaultBound = 0
  ResumeBound = 0
SPECIFICATION Spec
CHECK_DEADLOCK FALSE
INVARIANT RecordedOnce
