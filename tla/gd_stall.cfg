SPECIFICATION Spec
CONSTANTS
  TimeOuts <- Requests
  MaxTimeOut = 3
  Limits = {2}
  FirstLimit = 2
  EQMaxLen = 2
  EQMaxAge = 0
  KeyMax = 2
  Faults = {"pool"}
  MaxSids = 2
  MaxEvents = 3
  MaxFaultyEvents = 3
  MaxTime = 2
INVARIANT HeadInPool
CHECK_DEADLOCK FALSE
