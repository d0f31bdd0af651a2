SPECIFICATION Spec
CONSTANTS
  Width <- MCWidth
  Precision <- MCPrecision
  One = 4
  Infinity = 100000
  SmallestNormal = 3
  MaxLoweredTaps = 8
  Models <- MCModels
INVARIANTS
  SameMeaning
  NodesTraceable
  FoldedListed
  NeighbourhoodsUniform
CHECK_DEADLOCK FALSE
