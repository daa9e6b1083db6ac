SPECIFICATION Spec
CONSTANTS
  MaxRequests = 1
  ReplySizes = {1}
  MaxBytes = 2
  MaxTasks = 1
  MaxFaults = 1
INVARIANT UnackedRepliesFlushed
CHECK_DEADLOCK FALSE
