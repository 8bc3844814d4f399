\* The manager is closed while its workers are running.
CONSTANTS
  d1 = d1
  d2 = d2
  j1 = j1
  j2 = j2
  j3 = j3
  DispatchWorkers <- TwoDispatchWorkers
  JobWorkers <- TwoForTheFirst
  WorkerBucket <- MCWorkerBucket
  BucketCount = 2
  MaxJobs = 2
  DispatchChannelSize = 1
  BucketJobChannelSize = 1
SPECIFICATION DispatchSpec
INVARIANTS NobodyPanics
CHECK_DEADLOCK FALSE
