SPECIFICATION SpecSched
CONSTANTS
  None = None
  Dims = {i, j}
  DimSizes = {0, 3}
  Cuts = {1, 3}
  TileSizes = {0, 1, 2}
  MaxItems = 4
  AxisSize = 12
  DirectTiles = {2, 6}
  UnrollFactors = {3}
  MaxLoops = 4
  MaxCalls = 4
SYMMETRY DimsSymmetry
INVARIANTS SegmentsAsWritten TilesFit StepsAreInnerTiles BuiltBackAsApplied SameLoops ValidIsMadeByTvm
CHECK_DEADLOCK FALSE
