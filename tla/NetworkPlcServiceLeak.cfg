SPECIFICATION Spec
CONSTANTS
  Callers = {a, b}
  Cancellable = {}
  Conns = {k1, k2}
  MaxCalls = 2
  MaxFaults = 2
  None = None
  Fresh = Fresh
INVARIANT NoTcpClientLeft
CHECK_DEADLOCK FALSE
