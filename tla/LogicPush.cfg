\* Two servers with one slot each, two jobs and two tries, without symmetry: the
\* second job finds either server busy or not, a slot is taken again after it was
\* given back, and a post may fail, arrive late and be repeated.
CONSTANTS
  d1 = d1
  d2 = d2
  DispatchWorkers <- OneDispatchWorker
  ServerCount = 2
  MaxJobs = 2
  MessageServerDispatchChannelSize = 1
  MessageServerMaxPendingCount = 1
  MessageServerPushRetry = 2
SPECIFICATION FairSpec
INVARIANTS TypeOK SlotsAreBusy RepeatedOnlyAfterFailure
PROPERTIES DroppedOnlyWhenBusy EveryServerSettles
CHECK_DEADLOCK FALSE
