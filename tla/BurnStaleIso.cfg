SPECIFICATION Spec
CONSTANTS
  Discs = 2
  None = None
  Rot = Rot
  Wrong = Wrong
  Settings <- MCSettings
  Sites <- PlainSites
  Public = TRUE
  Leftovers = {}
  FaultPhases = {}
  Burners <- PlainBurners
  MaxStops = 1
  MaxFaults = 0
  MaxCommands = 1
INVARIANTS
  OneIndexOnTheShelf
CHECK_DEADLOCK FALSE
