SPECIFICATION Spec
CONSTANTS
  Hosts <- MCContainerd
  UserName = {"runc", "custom"}
  ModeRuntimes = {"nvidia-cdi"}
  OptionSet <- MCDefaultOptions
  Setting = {"a"}
  UserConfigs <- MCUserConfigs
INVARIANTS
  OptionsInherited
