SPECIFICATION FairSpec
CONSTANTS
  TimeOuts <- Requests
  MaxTimeOut = 3
  Limits = {1, 2}
  FirstLimit = 2
  EQMaxLen = 1
  EQMaxAge = 0
  KeyMax = 1
  Faults = {"pool", "copy", "struct", "job", "respond"}
  MaxSids = 2
  MaxEvents = 3
  MaxFaultyEvents = 2
  MaxTime = 2
INVARIANTS
  CountsExact
  DeliveryRight
PROPERTIES
  EventsLeave
CHECK_DEADLOCK FALSE
