SPECIFICATION HmiSpec
CONSTANTS
  Dashboards = {d1}
  Operated = {d1}
  Callers <- MCFlows
  Cancellable <- MCPolls
  Asks <- MCAsks
  Conns = {k1, k2}
  MaxCalls = 2
  MaxFaults = 1
  None = None
  Fresh = Fresh
PROPERTY IsDashboard
CHECK_DEADLOCK FALSE
