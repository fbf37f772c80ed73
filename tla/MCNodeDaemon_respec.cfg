SPECIFICATION AdoptSpec
CONSTANTS
  n1 = n1
  n2 = n2
  a = a
  b = b
  None = None
  NodeImageSets <- OneSet
  Images <- TwoImages
  RegistryPolicies <- DefaultOnly
  SecretStates <- Accepted
  Unregisters = FALSE
  LoseEvents = FALSE
  Resyncing = TRUE
  MaxFaults = 0
  MaxTasks = 1
  MaxEdits = 2
  MaxForeign = 1
  MaxRestarts = 0
CHECK_DEADLOCK FALSE
INVARIANTS PullFlag NoLostWork
PROPERTY StatusNeverGoesBack
SYMMETRY Symmetry
