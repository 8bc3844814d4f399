\* Two connections of one bucket that may join two of three rooms, and a job
\* worker of that bucket; five Room objects, so that some are new while the
\* worker holds an old one.  Without symmetry, for the sake of liveness.
CONSTANTS
  c1 = c1
  c2 = c2
  b1 = b1
  b2 = b2
  Conns <- MCConns
  Buckets <- MCBuckets
  BucketOf <- MCBucketOf
  WorkerBucket <- MCWorkerBucket
  RoomIds = {ra, rb, rc}
  RoomPtrs = {p1, p2, p3, p4, p5}
  Nil = Nil
  JobWorkers = {w1}
  MaxJoinRoom = 2
SPECIFICATION FairSpec
INVARIANTS TypeOK RegistryAgrees NoGhostMember EmptyRoomsFreed JoinLimit StableMembersReached IInv
PROPERTIES ClosedIsForgotten
CHECK_DEADLOCK FALSE
