CONSTANTS
    Thread = {t1, t2}
    Steps = 2
    MaxExtend = 1
    SimulateView = TRUE
    Environments <- MCImpatient
SPECIFICATION Spec
INVARIANT OneSimulationThread
