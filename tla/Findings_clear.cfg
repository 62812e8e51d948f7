CONSTANTS
  Task = {t1, t2}
  NoTask = NoTask
  x = x
  y = y
  x2 = x2
  here = here
  there = there
  why = why
  q = q
  Id <- Ids
  Copies <- Renaming
  Title <- Titles
  Length <- Lengths
  IdTokens <- Words
  TitleTokens <- TitleWords
  Anchor = {here, there}
  Basis = {why}
  NoBasis = NoBasis
  Question = {q}
  Severities = {0, 1, 2}
  Emissions <- Deltas
  Audits <- Promoted
  MaxAudits = 1
  MaxCrashes = 1
  MaxClears = 1
SPECIFICATION Spec
SYMMETRY TaskSymmetry
CHECK_DEADLOCK FALSE

PROPERTY ClearForgets
