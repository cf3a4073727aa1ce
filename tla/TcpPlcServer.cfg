SPECIFICATION FairSpec
CONSTANTS
  slow = slow
  other = other
  Conns <- MCConns
  SlowClients = {slow}
  Lines <- MCLines
  MaxLines = 2
  Window = 1
  PlantMayThrow = TRUE
  None = None
INVARIANTS TypeOK
PROPERTIES IsLineServer Answered HandlersEnd
CHECK_DEADLOCK FALSE
