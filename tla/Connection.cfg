\* Three requests, enough for the reader to wait at a full inChan while the
\* handler has one request in its hands; their PONGs and a pushed message fill
\* outChan.
CONSTANTS
  MaxRequests = 3
  MaxPushes = 1
  WsInChannelSize = 1
  WsOutChannelSize = 1
SPECIFICATION FairSpec
INVARIANTS TypeOK ClosedOnce RequestsInOrder MessagesInOrder
PROPERTIES NobodyStaysBehind
CHECK_DEADLOCK FALSE
