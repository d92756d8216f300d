SPECIFICATION Spec
CONSTANTS
  d = d
  e = e
  none = none
  rot = rot
  wrong = wrong
  old = old
  None = none
  Rot = rot
  Wrong = wrong
  Old = old
  DiscNo <- MCDiscNo
  File <- MCFile
  Dir <- MCDir
  Under <- MCUnder
  Newline = {"n"}
  CutShort <- MCCutShort
  Image <- MCImage
  Block = {1, 2}
  Capacity = 1
  Stagings <- MCStagings
  Requests <- MCRequests
  MaxStops = 1
INVARIANTS
  ListedMeansWritten
