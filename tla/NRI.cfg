SPECIFICATION LiveSpec
CONSTANTS
  MaxDrops = 3
  MaxRegisterTimeouts = 2
  MaxCallbacks = 2
CHECK_DEADLOCK FALSE
INVARIANTS TypeOK NoLeakedConnection LostClientIsReported NoStaleCallback ReconnectAccounted
PROPERTIES Reconnects StopReturns
