SPECIFICATION MCSpec
CONSTANTS
    Threads = {"t1", "t2"}
    Clients = {1}
    Leases = {"finite", "infinite"}
    Replies = {"ok", "fail", "lost"}
    Shortages = {"pool", "timer"}
    MaxSubs = 1
    MaxEvents = 3
    Call = {1, 2}
    Asks <- MCAsks
    Strays <- MCStrays
    Answers <- MCAnswers
    Handle = {1, 2}
    Devices <- MCDevices
    Old = {TRUE, FALSE}
    Faults = {"mem"}
INVARIANTS
  RenewalsRight
  FirstEventKept
  AtMostOnce
  CallRight
CHECK_DEADLOCK FALSE
