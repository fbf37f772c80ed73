SPECIFICATION DisturbedSpec
CONSTANTS
  a = a
  b = b
  Nodes <- TwoNodes
  Zone <- OneZone
  ImageLists <- TwoLists
  Images <- TwoImages
  ImagePullNodeLimit = 1
  MaxConcurrentNodeImageSetCreations = 1
  MaxEdits = 2
  MaxNodeEvents = 1
  MaxRestarts = 1
  MaxFaults = 1
  MaxReplicas = 1
CHECK_DEADLOCK FALSE
INVARIANTS TypeOK ReadyEarned Attended ReadyAtRest
