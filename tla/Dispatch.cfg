\* Two dispatch workers, two buckets, two job workers for the first bucket and
\* one for the second; every queue has one place, so every queue is full at
\* times.  Without symmetry, for the sake of liveness.
CONSTANTS
  d1 = d1
  d2 = d2
  j1 = j1
  j2 = j2
  j3 = j3
  DispatchWorkers <- TwoDispatchWorkers
  JobWorkers <- TwoForTheFirst
  WorkerBucket <- MCWorkerBucket
  BucketCount = 2
  MaxJobs = 3
  DispatchChannelSize = 1
  BucketJobChannelSize = 1
SPECIFICATION DispatchFairSpec
INVARIANTS DispatchTypeOK EveryBucketOnce
PROPERTIES EveryJobReachesAllBuckets
CHECK_DEADLOCK FALSE
