SPECIFICATION Spec
CONSTANTS
  GOARCH = "amd64"
  Version <- MCVersion
  LibDir <- MCLibDir
  Sites <- MCSites
  HookOptions <- MCHookOptions
  MaxStarts = 2
CHECK_DEADLOCK FALSE
INVARIANTS
  TypeOK
  HooksTookEffect
  LoaderFindsLibrary
  MuslFindsLibrary
  DirectoriesListedOnce
