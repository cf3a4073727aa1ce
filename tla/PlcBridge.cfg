SPECIFICATION BridgeSpec
CONSTANTS
  a = a
  b = b
  Callers <- MCCallers
  Cancellable = {a}
  Conns = {k1, k2}
  MaxCalls = 2
  MaxFaults = 2
  Asks <- MCAsks
  None = None
  Fresh = Fresh
INVARIANT ReplyMatchesCall
INVARIANT IdleChannelIsClean
INVARIANT NoConnectionLeft
INVARIANT StopHolds
PROPERTY IsAtMostOnceCall
PROPERTY IsRemotePlant
CHECK_DEADLOCK FALSE
