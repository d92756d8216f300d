SPECIFICATION FairSpec
CONSTANTS
  File <- MCFile
  Trees <- LinkedTrees
  ImageSize <- MCImageSize
  Image = 22
  PackRatios = {1000, 450}
  Adapts = {TRUE, FALSE}
  Window = 2
  Margin = 1050
  MaxShrinkAttempts = 2
  MaxRuns = 2
INVARIANTS
  TypeOK
  InodesStayWhole
  OnlyNewsOvershoots
  PlansAsIfUninterrupted
  EverythingPlanned
PROPERTIES
  RePlanIsSmaller
  RunsEnd
