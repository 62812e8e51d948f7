CONSTANTS
  Task = {t1, t2, t3}
  Row <- Rows
  NoRow = NoRow
  a = a
  b = b
  e = e
  f = f
  h = h
  PlanRows <- WaveSurveyed
  Survey <- WaveSurveyed
  Group <- Groups
  g1 = g1
  g2 = g2
  g3 = g3
  GroupOf <- InGroup
  DependsOn <- Needs
  Order <- Stored
  Rankings = {}
  MaxParallel = 2
  TurnsLimit = 0
  ClaimBound = 3
SPECIFICATION SmoothSpec
CHECK_DEADLOCK FALSE
PROPERTIES EveryResultPublished EveryRowFinished
