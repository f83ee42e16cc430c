\* cancel after cleanup.
SPECIFICATION Spec
CONSTANTS
  MaxTasks = 1
  MaxTimers = 0
  MaxPolls = 0
PROPERTY CleanedUpIsNotCancelled
CHECK_DEADLOCK FALSE
