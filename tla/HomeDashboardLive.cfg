SPECIFICATION FairSpec
CONSTANTS
  Dashboards = {d1, d2}
  Operated = {d1}
  WorkerMayFail = FALSE
  None = None
PROPERTIES LiveDisplay
