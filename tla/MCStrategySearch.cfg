\* Every sample of the larger spaces, and sample(num) on those of up to 3 samples.
SPECIFICATION SearchSpec
CONSTANTS
  Samples <- MCSamples
  Strategies <- MCStrategies
  MaxNum = 3
  MaxDraw = 4
  PNum = 1
  PDen = 4
  OptLevels = {0, 2, 3}
  MaxSpace = 3
INVARIANTS UniqueSamples RequestsAreBounded NestIsATiling SpaceIsAllTilings FiltersHold
PROPERTY SampleReturns
CHECK_DEADLOCK FALSE
