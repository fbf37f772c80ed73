SPECIFICATION RefusedSpec
CONSTANTS
  n1 = n1
  n2 = n2
  a = a
  b = b
  None = None
  NodeImageSets <- OneSet
  Images <- OneImage
  RegistryPolicies <- BothPolicies
  SecretStates <- Mixed
  Unregisters = FALSE
  LoseEvents = FALSE
  Resyncing = FALSE
  MaxFaults = 1
  MaxTasks = 1
  MaxEdits = 2
  MaxForeign = 1
  MaxRestarts = 0
CHECK_DEADLOCK FALSE
INVARIANTS TypeOK ErrorHasRetry
