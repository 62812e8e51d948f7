SPECIFICATION Spec
CONSTANTS
    Task = {t1, t2}
    NoTask = NoTask
    MaxDeltas = 1
    MaxUnread = 1
CHECK_DEADLOCK FALSE
PROPERTIES SilenceEnds
