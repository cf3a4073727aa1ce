SPECIFICATION MCSpec
CONSTANTS
  Dashboards = {d1, d2}
  Operated = {d1}
  WorkerMayFail = TRUE
  None = None
INVARIANTS TypeOK PollingFollowsPage
PROPERTIES DisplayFollows ClosedStopsPolling
