SPECIFICATION FairSpec
CONSTANTS
  Discs = 2
  None = None
  Rot = Rot
  Wrong = Wrong
  Settings <- MCSettings
  Sites <- MCSites
  Public = TRUE
  Leftovers <- MCLeftovers
  FaultPhases = {"idle", "clear", "sums"}
  Burners <- MCBurners
  MaxStops = 1
  MaxFaults = 1
  MaxCommands = 1
INVARIANTS
  TypeOK
  VerifiedMeansWhole
  DiscsOfOneRunAgree
PROPERTIES
  MastersAtRest
  AttestsOnlyTheRecorded
  LastCopyKept
  LayoutFinishes
CHECK_DEADLOCK FALSE
