CONSTANTS
    Thread = {t1, t2}
    Steps = 2
    MaxExtend = 1
    SimulateView = TRUE
    Environments <- MCEnvironments
SPECIFICATION Spec
INVARIANTS
    OneSimulationThread
    SupervisedOnce
    NoStepAfterEnd
    DrawsParkedState
PROPERTIES
    ThreadEnds
    ActionComesBack
    ScriptReturnsUnharmed
    ImplementsLifecycle
CHECK_DEADLOCK FALSE
