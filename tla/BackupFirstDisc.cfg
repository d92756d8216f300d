SPECIFICATION Spec
CONSTANTS
  keysA = keysA
  keysB = keysB
  set1 = set1
  set2 = set2
  None = None
  Names = {set1, set2}
  Recipients = {keysA, keysB}
  Path <- FlatPath
  Above <- FlatAbove
  Trees <- ThreeFiles
  Configs <- OneConfig
  MaxDiscs = 3
  MaxShrinkAttempts = 1
  MaxStops = 1
  MaxTreeChanges = 0
INVARIANTS
  InterruptedRunCanContinue
