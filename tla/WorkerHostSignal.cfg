SPECIFICATION FairSpec
CONSTANTS
  PlantMayThrow = TRUE
  PlantMayHang = FALSE
  PortMayBeTaken = TRUE
  ConsoleMayFail = FALSE
PROPERTIES ClosingEndsPolling
CHECK_DEADLOCK FALSE
