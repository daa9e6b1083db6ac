SPECIFICATION FairSpec
CONSTANTS
  MaxStarts = 1
  MaxRequests = 0
  MaxDrops = 0
  MaxDrains = 0
  MaxRefusals = 0
  MaxCloses = 1
  MaxTimeouts = 2
PROPERTY CloseReturns
CHECK_DEADLOCK FALSE
