\* Two rooms, five messages, batches of two: timers race the size limit, every
\* channel can be full.  Without symmetry, for the sake of liveness.
CONSTANTS
  r1 = r1
  r2 = r2
  Rooms = {r1, r2}
  NoRoom = NoRoom
  MaxMsgs = 5
  MaxMergerBatchSize = 2
  MergerChannelSize = 2
  DispatchChannelSize = 1
SPECIFICATION FairSpec
INVARIANTS TypeOK OpenBatchIsScheduled CommitIsDue ExactlyOnce IInv
PROPERTIES FeedRefined EveryMessageSettles
CHECK_DEADLOCK FALSE
