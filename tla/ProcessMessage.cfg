\* Three messages of one source, one of them without an address; the fields are
\* in MCProcessMessage.  One fault: a crash, a shutdown or a database error at any
\* step.
CONSTANTS
  a1 = a1
  a2 = a2
  MaxMsgs = 3
  Addresses <- MCAddresses
  Emails <- MCEmails
  Channel <- MCChannel
  Source <- OneSource
  MaxFaults = 1
SPECIFICATION FairSpec
INVARIANTS TypeOK ProcessedIsAccountedFor RepeatedOnlyAfterFault NewestSourceIsCollected
PROPERTIES EveryMessageIsProcessed
CHECK_DEADLOCK FALSE
