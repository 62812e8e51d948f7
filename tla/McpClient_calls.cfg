CONSTANTS
  Caller = {c1, c2}
  CallBound = 3
  Room = 2
SPECIFICATION HealthySpec
CHECK_DEADLOCK FALSE
INVARIANTS SpoilBound HarmHasACause
PROPERTIES CallsEnd
