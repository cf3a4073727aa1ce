SPECIFICATION FairSpec
CONSTANTS
  PlantMayThrow = TRUE
  PlantMayHang = TRUE
  PortMayBeTaken = TRUE
  ConsoleMayFail = TRUE
INVARIANTS TypeOK ShutdownIsClean
PROPERTIES ShutdownEnds PollsUntilStopped
CHECK_DEADLOCK FALSE
