SPECIFICATION FairSpec
CONSTANTS
  Client = {c1, c2}
  TimerJob = timer
  Delays = {0, 2}
  AbsTimes = {1}
  LateCalls = FALSE
  Faults = {"start", "refuse", "memory", "spurious"}
  MaxEvents = 3
  MaxTime = 3
INVARIANTS
  TimerSound
  NeverOversleeps
  QueueInOrder
PROPERTIES
  IsTimerService
  Progress
CHECK_DEADLOCK FALSE
