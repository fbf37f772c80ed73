SPECIFICATION SettlingSpec
CONSTANTS
  a = a
  b = b
  Nodes <- TwoNodes
  Zone <- OneZone
  ImageLists <- OneList
  Images <- OneImage
  ImagePullNodeLimit = 1
  MaxConcurrentNodeImageSetCreations = 1
  MaxEdits = 2
  MaxNodeEvents = 1
  MaxRestarts = 0
  MaxFaults = 1
  MaxReplicas = 1
CHECK_DEADLOCK FALSE
INVARIANTS NoOrphans SelectedServed
PROPERTIES RolloutSettles CleanedUp
