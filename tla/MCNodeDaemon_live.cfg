SPECIFICATION BudgetSpec
CONSTANTS
  n1 = n1
  n2 = n2
  a = a
  b = b
  None = None
  NodeImageSets <- OneSet
  Images <- OneImage
  RegistryPolicies <- DefaultOnly
  SecretStates <- Accepted
  Unregisters = TRUE
  LoseEvents = FALSE
  Resyncing = FALSE
  MaxFaults = 1
  MaxTasks = 2
  MaxEdits = 2
  MaxForeign = 1
  MaxRestarts = 1
CHECK_DEADLOCK FALSE
PROPERTIES Prefetched StatusSettles Finalized QueueDrains
