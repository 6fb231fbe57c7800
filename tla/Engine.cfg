SPECIFICATION Spec
CONSTANTS
  Hosts <- MCHosts
  UserName = {"runc", "custom"}
  ModeRuntimes = {"nvidia-cdi"}
  OptionSet <- MCOptions
  Setting = {"a"}
  UserConfigs <- MCUserConfigs
INVARIANTS
  TypeOK
  SetupTakesEffect
  CleanupReverts
  UserFilePreserved
  CleanedConfigIsUsers
  DropInIsCurrent
  NoRemoveOfMissing
  LowLevelNeverNvidia
PROPERTIES
  VersionKept
