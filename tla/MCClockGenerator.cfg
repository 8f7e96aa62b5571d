CONSTANTS
    EC = {c1, c2}
    Period <- MCPeriod
    StepTime = 2
    TotalTime = 3
    MaxSubs = 3
SYMMETRY Interchangeable
SPECIFICATION Spec
INVARIANTS
    TypeOK
    ExecutedOncePerPass
    RunningStaysSubscribed
    OvertakenOnlyByDepartures
    ResetReachesAllButOvertaken
CHECK_DEADLOCK FALSE
