SPECIFICATION Spec
CONSTANTS
  Proc = {p1}
  Inode = {i1, i2}
  NoProc = NoProc
  NoInode = NoInode
  MaxReloadAttempts = 2
  OptionSet <- MCDefaultOptions
  JSONConfig = TRUE
  Collectable = {}
  Killable = {}
CHECK_DEADLOCK FALSE
INVARIANTS
  UnconfiguredOnTermination
