CONSTANTS
    EC = {c1, c2}
    Period <- MCPeriod
    StepTime = 2
    TotalTime = 3
    MaxSubs = 3
SPECIFICATION Spec
INVARIANT UnsubscribeRemoves
CHECK_DEADLOCK FALSE
