CONSTANTS
    SimStep = 2
    Port = {"joint", "gyro", "camera"}
    PortStep <- MCPortStep
    Rtcs = 2
    Rate <- MCRate
    Den = 3
    Settings <- MCSettings
SPECIFICATION Spec
INVARIANTS
    TypeOK
    ControlOnSchedule
    ClocksAgree
    PortOnSchedule
    TicksTrackRate
    ActiveWhileRunning
CHECK_DEADLOCK FALSE
