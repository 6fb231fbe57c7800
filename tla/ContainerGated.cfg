SPECIFICATION Spec
CONSTANTS
  GPU = {"0", "1"}
  Specs <- MCGatedSpecs
  Configs <- MCLegacy
  Hosts <- MCPlainHost
CHECK_DEADLOCK FALSE
INVARIANTS
  RequestHonoured
