\* Segments of one axis only.
SPECIFICATION Spec
CONSTANTS
  None = None
  Dims = {i}
  DimSizes = {0}
  Cuts = {1, 2, 3}
  TileSizes = {1}
  MaxItems = 4
INVARIANTS ChunksAreSegments
CHECK_DEADLOCK FALSE
