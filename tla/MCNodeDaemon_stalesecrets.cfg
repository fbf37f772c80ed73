SPECIFICATION FairResyncSpec
CONSTANTS
  n1 = n1
  n2 = n2
  a = a
  b = b
  None = None
  NodeImageSets <- OneSet
  Images <- OneImage
  RegistryPolicies <- DefaultOnly
  SecretStates <- Mixed
  Unregisters = FALSE
  LoseEvents = FALSE
  Resyncing = TRUE
  MaxFaults = 0
  MaxTasks = 1
  MaxEdits = 2
  MaxForeign = 0
  MaxRestarts = 0
CHECK_DEADLOCK FALSE
PROPERTY SecretTakesEffect
