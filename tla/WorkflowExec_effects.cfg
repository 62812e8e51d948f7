CONSTANTS
  Steps = 4
  Lens = {l1, l2}
  Workflows <- Shapes
  NoSnapshot = NoSnapshot
  RunBound = 5
  FaultBound = 2
  ResumeBound = 2
SPECIFICATION Spec
CHECK_DEADLOCK FALSE
INVARIANTS WriteAhead ReplayIsLatest DoneMeansApplied FreshInputs FreshLens RejectedAreKept
PROPERTY NoSecondChance
