SPECIFICATION FairSpec
CONSTANTS
  Bufs = 3
  BufSize = 2
  MaxBytes = 9
INVARIANTS
  TypeOK
  BuffersHaveOneOwner
  DigestCoversEverything
PROPERTIES
  CallsReturn
