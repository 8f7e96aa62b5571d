CONSTANTS
    Client = {c1, c2}
    MaxTime = 3
    MaxEdits = 2
    MaxObjects = 2
    Environments <- MCEnvironments
SYMMETRY Interchangeable
SPECIFICATION Spec
CONSTRAINT Seconds
INVARIANTS
    AnswersFresh
    BoxesAsAsked
PROPERTY ReloadOnlyIfChanged
CHECK_DEADLOCK FALSE
