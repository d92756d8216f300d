SPECIFICATION Spec
CONSTANTS
  File <- MCFile
  Trees <- LinkedTrees
  ImageSize <- MCImageSize
  Image = 22
  PackRatios = {1000, 1200}
  Adapts = {TRUE}
  Window = 2
  Margin = 1050
  MaxShrinkAttempts = 1
  MaxRuns = 2
INVARIANTS
  AdviceCanBeFollowed
