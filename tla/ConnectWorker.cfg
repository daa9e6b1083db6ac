SPECIFICATION GatewaySpec
CONSTANTS
  MaxStarts = 3
  MaxRequests = 1
  MaxDrops = 1
  MaxDrains = 1
  MaxRefusals = 1
  MaxCloses = 1
  MaxTimeouts = 2
INVARIANTS TypeOK DrainsBeforeClosed ActiveIsReady
PROPERTIES ClosedIsFinal CloseEndsRun Reconnects HandshakeCompletes
CHECK_DEADLOCK FALSE
