\* No faults at all: a user reads a message while the round is processing it.
CONSTANTS
  a1 = a1
  a2 = a2
  MaxMsgs = 3
  Addresses <- MCAddresses
  Emails <- MCEmails
  Channel <- MCChannel
  Source <- TwoSources
  MaxFaults = 0
SPECIFICATION Spec
PROPERTIES ReadStaysRead
CHECK_DEADLOCK FALSE
