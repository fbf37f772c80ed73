SPECIFICATION AllNodesSpec
CONSTANTS
  a = a
  b = b
  Nodes <- TwoNodes
  Zone <- OneZone
  ImageLists <- TwoLists
  Images <- TwoImages
  ImagePullNodeLimit = 1
  MaxConcurrentNodeImageSetCreations = 1
  MaxEdits = 2
  MaxNodeEvents = 0
  MaxRestarts = 0
  MaxFaults = 0
  MaxReplicas = 0
CHECK_DEADLOCK FALSE
INVARIANTS RolloutLimit
