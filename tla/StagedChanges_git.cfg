SPECIFICATION Spec
CONSTANTS
  Steps = 4
  Lens = {l1, l2}
  l1 = l1
  l2 = l2
  Solo = Solo
  Files = 4
  Source = {1}
  Scratch = {2}
  Artifact = {3, 4}
  Git = Git
  NoFile = NoFile
  Workflows <- MessageShapes
  RunBound = 5
  FaultBound = 0
  StopBound = 0
INVARIANTS GitIsCurrent
\* A run that is over stops.
CHECK_DEADLOCK FALSE
