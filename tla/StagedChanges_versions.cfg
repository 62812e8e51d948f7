SPECIFICATION Spec
CONSTANTS
  Steps = 3
  Lens = {l1, l2}
  l1 = l1
  l2 = l2
  Solo = Solo
  Files = 4
  Source = {1}
  Scratch = {2}
  Artifact = {3, 4}
  Git = Git
  NoFile = NoFile
  Workflows <- ValidateShapes
  RunBound = 4
  FaultBound = 0
  StopBound = 0
INVARIANTS OneVersion
\* A run that is over stops.
CHECK_DEADLOCK FALSE
