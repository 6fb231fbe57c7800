SPECIFICATION Spec
CONSTANTS
  NumGpus = 2
  Commands <- MCCommands
  Budgets <- MCBudgets
  Version = {1, 2}
  Installed <- MCInstalled
  LinkOf <- MCLinkOf
  CoherentOf <- MCCoherent
  Requests <- MCRequests
CHECK_DEADLOCK FALSE
INVARIANTS TypeOK NodesAndLinksAgree
PROPERTIES ImplementsRegistry
