\* A review that is parked, or a /stop, in a session nobody watches.
SPECIFICATION Spec
CONSTANTS
  r1 = r1
  r2 = r2
  r3 = r3
  Row = {r1, r2, r3}
  First = {r1, r2}
  Coding = {r2}
  NoRow = NoRow
  Task = {t1, t2}
  Leads <- LeadSets
  Configs <- Piped
  MaxErrors = 2
  MaxStreak = 1
  MaxFaults = 1
PROPERTY BatchNeverStalls
