SPECIFICATION SeriesSpec
CONSTANTS
    a = a
    b = b
    c = c
    NoId = NoId
    Id <- Ids
    DependsOn <- Depends
    Plan <- Plans
    Updates <- UpdateLists
    Appends <- FinalAppends
    MaxRevisions = 1
    MaxPlanUpdates = 1
    MaxFinalRevisions = 1
    MaxRounds = 2
    MaxRuns = 2
CHECK_DEADLOCK FALSE
INVARIANT ResumeContinues
