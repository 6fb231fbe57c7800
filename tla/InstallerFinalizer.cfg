SPECIFICATION Spec
CONSTANTS
  Proc = {p1, p2}
  Inode = {i1, i2}
  NoProc = NoProc
  NoInode = NoInode
  MaxReloadAttempts = 2
  OptionSet <- MCDefaultOptions
  JSONConfig = TRUE
  Collectable = {p1, p2}
  Killable = {}
CHECK_DEADLOCK FALSE
INVARIANTS
  SingleInstance
