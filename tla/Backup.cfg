SPECIFICATION Spec
CONSTANTS
  keysA = keysA
  keysB = keysB
  set1 = set1
  set2 = set2
  None = None
  Names = {set1, set2}
  Recipients = {keysA, keysB}
  Path <- MCPath
  Above <- MCAbove
  Trees <- ChangingTrees
  Configs <- FourConfigs
  MaxDiscs = 4
  MaxShrinkAttempts = 1
  MaxStops = 2
  MaxTreeChanges = 2
INVARIANTS
  TypeOK
  FinishedDiscsSound
  EveryFileOnOneDisc
  FinishedDiscsAgreeOnKinds
  OneKeyOneMedium
  CompleteSetIsIndexed
  FinishedDiscsCanBeResumed
PROPERTIES
  FinishedDiscsUntouched
  ImplementsArchiveSet
