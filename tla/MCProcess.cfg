CONSTANTS
    Servers = 2
    Settings <- MCSettings
SPECIFICATION Spec
INVARIANTS
    NoOrphan
    ButtonTrue
    FlagIsOwed
PROPERTIES
    EndNoticed
    NothingLeftBehind
CHECK_DEADLOCK FALSE
