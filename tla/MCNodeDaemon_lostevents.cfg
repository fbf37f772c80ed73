SPECIFICATION FairResyncSpec
CONSTANTS
  n1 = n1
  n2 = n2
  a = a
  b = b
  None = None
  NodeImageSets <- OneSet
  Images <- OneImage
  RegistryPolicies <- DefaultOnly
  SecretStates <- Accepted
  Unregisters = FALSE
  LoseEvents = TRUE
  Resyncing = TRUE
  MaxFaults = 1
  MaxTasks = 1
  MaxEdits = 1
  MaxForeign = 1
  MaxRestarts = 0
CHECK_DEADLOCK FALSE
PROPERTY Prefetched
