SPECIFICATION FairSpec
CONSTANTS
  Dashboards = {d1}
  Operated = {d1}
  WorkerMayFail = FALSE
  None = None
PROPERTIES DisposedStopsPolling
