SPECIFICATION MidRolloutSpec
CONSTANTS
  a = a
  b = b
  Nodes <- ThreeNodes
  Zone <- OneZone
  ImageLists <- GrowingLists
  Images <- TwoImages
  ImagePullNodeLimit = 1
  MaxConcurrentNodeImageSetCreations = 2
  MaxEdits = 2
  MaxNodeEvents = 0
  MaxRestarts = 0
  MaxFaults = 0
  MaxReplicas = 0
CHECK_DEADLOCK FALSE
INVARIANTS RolloutLimit ReadyMeansAllNodes
