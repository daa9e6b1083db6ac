SPECIFICATION Spec
CONSTANTS
  None = None
  UserIds <- MCUserIds
  UserFunctions <- ReusedInBranches
  Requests = {r1, r2}
  MaxAttempts = 2
  MaxFaults = 0
INVARIANT MemoFitsStep
CHECK_DEADLOCK FALSE
