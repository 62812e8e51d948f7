CONSTANTS
  Steps = 4
  Lens = {l1, l2}
  Workflows <- Shapes
  NoSnapshot = NoSnapshot
  RunBound = 4
  FaultBound = 1
  ResumeBound = 1
SPECIFICATION Spec
CHECK_DEADLOCK FALSE
PROPERTY ResumeGrantsNone
