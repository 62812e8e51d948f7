CONSTANTS
  Caller = {c1, c2}
  CallBound = 3
  Room = 2
SPECIFICATION Spec
CHECK_DEADLOCK FALSE
INVARIANTS StaleAnswersAreDropped
