SPECIFICATION FairSpec
CONSTANTS
  None = None
  UserIds <- MCUserIds
  UserFunctions <- SoundFunctions
  Requests = {r1, r2}
  MaxAttempts = 2
  MaxFaults = 1
INVARIANTS
  TypeOK
  AtMostOnce
  MemoFitsStep
  OnlyTheTarget
  GroupsReturnEverything
  NestedStepsRejected
PROPERTIES
  NonRetriableStaysDead
  ImplementsDurableRun
  RunEnds
CHECK_DEADLOCK FALSE
