CONSTANTS
  Task = {t1}
  Row <- Rows
  NoRow = NoRow
  a = a
  b = b
  e = e
  f = f
  h = h
  PlanRows <- Surveyed
  Survey <- Surveyed
  Group <- Groups
  g1 = g1
  g2 = g2
  g3 = g3
  GroupOf <- InGroup
  DependsOn <- Needs
  Order <- Stored
  Rankings = {}
  MaxParallel = 1
  TurnsLimit = 0
  ClaimBound = 2
SPECIFICATION ErrorSpec
CHECK_DEADLOCK FALSE
INVARIANT GateHeldOnlyByProgress
