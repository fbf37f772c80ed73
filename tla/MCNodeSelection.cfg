SPECIFICATION Spec
CONSTANTS
  Nodes <- SixNodes
  Zone <- ThreeZones
  MaxReplicas = 5
PROPERTIES SelectionSticky ZonesBalanced
