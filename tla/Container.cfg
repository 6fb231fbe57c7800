SPECIFICATION Spec
CONSTANTS
  GPU = {"0", "1"}
  Specs <- MCSpecs
  Configs <- MCConfigs
  Hosts <- MCHosts
CHECK_DEADLOCK FALSE
INVARIANTS
  TypeOK
  InjectedAsRequested
  InjectedOnce
  EnvNeedsPrivilege
  RunsWhatWasModified
  GatedWithDevices
  HookAgrees
