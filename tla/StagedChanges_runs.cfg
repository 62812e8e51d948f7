SPECIFICATION Spec
CONSTANTS
  Steps = 3
  Lens = {l1, l2}
  l1 = l1
  l2 = l2
  Solo = Solo
  Files = 4
  Source = {1}
  Scratch = {2}
  Artifact = {3, 4}
  Git = Git
  NoFile = NoFile
  Workflows <- Shapes
  RunBound = 4
  FaultBound = 2
  StopBound = 2
SYMMETRY LensSymmetry
INVARIANTS SourceIsCurrent TornIsPending OnlyAccepted
\* A run that is over stops.
CHECK_DEADLOCK FALSE
