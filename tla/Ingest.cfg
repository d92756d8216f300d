SPECIFICATION FairSpec
CONSTANTS
  ours = ours
  theirs = theirs
  rot = rot
  Zero = Zero
  Bad = Bad
  None = None
  Set <- MCSet
  DiscNo = {1}
  Block <- MCBlock
  Wrong <- MCWrong
  Pressings <- MCPressings
  Tools = {TRUE, FALSE}
  MaxDamaged = 2
  MaxStops = 1
INVARIANTS
  TypeOK
  SuccessIsAccountedFor
PROPERTIES
  NothingLost
  OnlyThePinnedSet
  PerfectDiscsComplete
