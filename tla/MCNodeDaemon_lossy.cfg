SPECIFICATION EitherSpec
CONSTANTS
  n1 = n1
  n2 = n2
  a = a
  b = b
  None = None
  NodeImageSets <- OneSet
  Images <- OneImage
  RegistryPolicies <- DefaultOnly
  SecretStates <- Accepted
  Unregisters = FALSE
  LoseEvents = TRUE
  Resyncing = FALSE
  MaxFaults = 1
  MaxTasks = 1
  MaxEdits = 3
  MaxForeign = 1
  MaxRestarts = 1
CHECK_DEADLOCK FALSE
INVARIANTS PullFlag StatusFollowed NoLeakedStatus
PROPERTY ImplementsContract
