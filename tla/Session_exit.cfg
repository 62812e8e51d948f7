\* The idle exit of a piped review.
SPECIFICATION Spec
CONSTANTS
  r1 = r1
  r2 = r2
  r3 = r3
  Row = {r1, r2, r3}
  First = {r1, r2}
  Coding = {r2}
  NoRow = NoRow
  Task = {t1, t2}
  Leads <- LeadSets
  Configs <- Piped
  MaxErrors = 2
  MaxStreak = 1
  MaxFaults = 0
INVARIANT ExitPublishesAll
