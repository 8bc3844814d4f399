\* The connections are closed while a push to a server is starting.
CONSTANTS
  d1 = d1
  d2 = d2
  DispatchWorkers <- TwoDispatchWorkers
  ServerCount = 1
  MaxJobs = 2
  MessageServerDispatchChannelSize = 1
  MessageServerMaxPendingCount = 1
  MessageServerPushRetry = 2
SPECIFICATION Spec
INVARIANTS NobodyPanics
CHECK_DEADLOCK FALSE
