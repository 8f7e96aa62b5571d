CONSTANTS
    SimStep = 2
    Port = {"joint", "gyro", "camera"}
    PortStep <- MCPortStep
    Rtcs = 2
    Rate <- MCRate
    Den = 3
    Settings <- MCLate
SPECIFICATION Spec
INVARIANT InitialisedBeforeStart
CHECK_DEADLOCK FALSE
