SPECIFICATION FairSpec
CONSTANTS
  keysA = keysA
  keysB = keysB
  set1 = set1
  set2 = set2
  None = None
  Names = {set1, set2}
  Recipients = {keysA, keysB}
  Path <- FlatPath
  Above <- FlatAbove
  Trees <- ThreeFiles
  Configs <- RoomyConfigs
  MaxDiscs = 3
  MaxShrinkAttempts = 2
  MaxStops = 2
  MaxTreeChanges = 0
PROPERTIES
  ResumedSetCompletes
