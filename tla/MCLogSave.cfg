\* A log that went from the heap to files is saved.
SPECIFICATION Spec
CONSTANTS
  States = 3
  MaxLog = 4
  Settings <- MCInHeap
INVARIANT SavedIsWholeLog
CHECK_DEADLOCK FALSE
