\* No faults at all: the newest message comes from another source than the oldest.
CONSTANTS
  a1 = a1
  a2 = a2
  MaxMsgs = 3
  Addresses <- MCAddresses
  Emails <- MCEmails
  Channel <- MCChannel
  Source <- TwoSources
  MaxFaults = 0
SPECIFICATION Spec
INVARIANTS AggregatedBySource
CHECK_DEADLOCK FALSE
