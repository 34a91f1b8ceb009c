CONSTANTS
    Pollers = {p1, p2}
    Requests = {r1}
    Schedules <- MCSchedules
    MaxTime = 4
    MaxFaults = 1
    Reported = {3}
SPECIFICATION FairSpec
INVARIANTS
    TypeOK
    OneWorkflowPerOccurrence
    OnlyFaultsLose
    RowFollows
PROPERTIES
    SkipsMissed
    CatchesUp
