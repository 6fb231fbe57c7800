SPECIFICATION Spec
CONSTANTS
  MaxDrops = 2
  MaxRegisterTimeouts = 0
  MaxCallbacks = 2
CHECK_DEADLOCK FALSE
INVARIANTS NoLostReconnect
