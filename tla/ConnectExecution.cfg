SPECIFICATION FairSpec
CONSTANTS
  MaxRequests = 2
  ReplySizes = {1, 2, 3}
  MaxBytes = 2
  MaxTasks = 2
  MaxFaults = 1
INVARIANTS TypeOK NeverDrainedEarly NoReplyLost LeaseCurrent
PROPERTIES DrainCompletes RepliesSettle
CHECK_DEADLOCK FALSE
