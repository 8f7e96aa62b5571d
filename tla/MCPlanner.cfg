CONSTANTS
    Config = {0, 1, 2, 3, 4, 5, 6}
    Blocked = {0}
    Distance <- MCDistance
    Interpolate <- MCInterpolate
    Reversible <- MCReversible
    InterpDist = 12
    Algorithm = {"PRM", "RRT", "RRTboth"}
    Mobility = {"OmniWheel", "TurnGoTurn"}
    Request <- MCRequest
    Reuse = {"none", "PRM"}
    Eps = 20
    MaxDist = 40
    MaxTrials = 3
    MaxPoints = 2
    MaxCalcs = 2
    MaxPath = 4
SPECIFICATION Spec
INVARIANTS
    
    
    RoadmapClosed
PROPERTIES
    SearchComplete
    PRMStops
    CalcReturns
CHECK_DEADLOCK FALSE
