CONSTANTS
  Task = {t1, t2, t3}
  Row <- WaveRows
  NoRow = NoRow
  a = a
  b = b
  e = e
  f = f
  h = h
  PlanRows <- WaveSurveyed
  Survey <- WaveSurveyed
  Group <- WaveGroups
  g1 = g1
  g2 = g2
  g3 = g3
  GroupOf <- WaveInGroup
  DependsOn <- WaveNeeds
  Order <- WaveStored
  Rankings <- WaveRanks
  MaxParallel = 2
  TurnsLimit = 3
  ClaimBound = 3
SPECIFICATION DispatchSpec
SYMMETRY TaskSymmetry
CHECK_DEADLOCK FALSE
INVARIANTS WaveIsLoop SlotBound TurnBound NoDispatchDeadlock
PROPERTY SpreadFair
