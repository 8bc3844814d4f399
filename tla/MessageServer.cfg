\* Three requests with four items, two of them for the same room at the same
\* time, and two clients of one bucket; one worker for each task, and one place
\* in every queue, so that each is full at times.
CONSTANTS
  ra = ra
  q1 = q1
  q2 = q2
  q3 = q3
  c1 = c1
  c2 = c2
  d1 = d1
  j1 = j1
  Rooms = {ra}
  All = All
  RoomBytes <- MCRoomBytes
  MergerWorkerCount = 1
  MergerChannelSize = 1
  MaxMergerBatchSize = 2
  Requests = {q1, q2, q3}
  RequestTopic <- MCRequestTopic
  ItemCount <- MCItemCount
  Clients = {c1, c2}
  Follows <- MCFollows
  BucketOf <- MCBucketOf
  WsOutChannelSize = 1
  DispatchWorkers = {d1}
  JobWorkers = {j1}
  WorkerBucket <- MCWorkerBucket
  BucketCount = 1
  MaxJobs = 4
  DispatchChannelSize = 1
  BucketJobChannelSize = 1
SPECIFICATION FairSpec
INVARIANTS TypeOK ItemsAccountedFor ItemsInOrder
PROPERTIES BroadcastImplemented EveryItemSettles
CHECK_DEADLOCK FALSE
