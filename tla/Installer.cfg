SPECIFICATION Spec
CONSTANTS
  Proc = {p1, p2}
  Inode = {i1, i2}
  NoProc = NoProc
  NoInode = NoInode
  MaxReloadAttempts = 2
  OptionSet <- MCOptions
  JSONConfig = FALSE
  Collectable = {p1, p2}
  Killable = {p1, p2}
SYMMETRY MCSymmetry
CHECK_DEADLOCK FALSE
INVARIANTS
  TypeOK
  OneHolderOfLinkedPidFile
  UserConfigSafe
  RuntimesRetained
  CleanedLeavesNoRuntime
  PidFileRemoved
  NoLostSignal
