SPECIFICATION Spec
CONSTANTS
  ours = ours
  theirs = theirs
  rot = rot
  Zero = Zero
  Bad = Bad
  None = None
  Set <- MCSet
  DiscNo = {1}
  Block <- MCBlock
  Wrong <- MCWrong
  Pressings <- RottenPressings
  Tools = {TRUE}
  MaxDamaged = 3
  MaxStops = 1
PROPERTY
  NeverOverwritten
