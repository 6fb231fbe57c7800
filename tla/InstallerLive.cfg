SPECIFICATION LiveSpec
CONSTANTS
  Proc = {p1}
  Inode = {i1}
  NoProc = NoProc
  NoInode = NoInode
  MaxReloadAttempts = 3
  OptionSet <- MCLiveOptions
  JSONConfig = TRUE
  Collectable = {p1}
  Killable = {p1}
CHECK_DEADLOCK FALSE
PROPERTIES
  SignalTerminates
  InstallTerminates
