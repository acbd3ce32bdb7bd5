CONSTANTS
  small = small
  large = large
  MaxKeys = 3
  MaxOutputs = 2
  MaxEvents = 1
  MaxWinches = 2
  Geometries <- Sizes
  Manners <- ThreeManners
SPECIFICATION FairSpec
CHECK_DEADLOCK FALSE
INVARIANT KeysInOrder
PROPERTIES ContentShown GeometryApplied
