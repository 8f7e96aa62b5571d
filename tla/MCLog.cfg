\* The log of states between the simulation, the views, saving and loading.
SPECIFICATION Spec
CONSTANTS
  States = 5
  MaxLog = 4
  Settings <- MCSettings
INVARIANTS ReadsBack SavedIsLog
PROPERTY StableOnceRecorded
CHECK_DEADLOCK FALSE
