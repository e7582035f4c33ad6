SPECIFICATION MCSpec
CONSTANTS
  Apps = {"a1", "a2"}
  Main = "main"
  Workers = {"w1"}
  Receivers = {"r1"}
  NUM_HANDLE = 3
  DevicesPerFamily = 1
  InitFaults = {"pools", "ifinfo", "miniserver", "webserver"}
  Faults = {"download", "schedule", "full"}
  MaxInits = 1
  MaxRegs = 2
  MaxAds = 1
  MaxRequests = 1
  MaxSearches = 1
INVARIANTS
  TableRight
  NoUseAfterShutdown
  KeepsAdvertising
  NothingLeft
PROPERTIES
  Progress
CHECK_DEADLOCK FALSE
