SPECIFICATION MCSpec
CONSTANTS
  Worker = {w1, w2, w3}
  Client = {c1, c2}
  Main = c1
  InitAttr <- Attr12
  Attrs <- Shrink
  ClientOps = {"add", "addPersistent", "remove", "setAttr", "shutdown"}
  JobOps = {"add", "getAttr"}
  AddPriorities = {"med", "low"}
  PromptCallers = FALSE
  Faults = {"node","job","thread","spurious"}
  MaxJobs = 3
  MaxPersistent = 1
  MaxTime = 2
SYMMETRY Symmetry
INVARIANTS
  TypeOK
  CountersAgree
  NoLostWakeup
  PoolConsistent
  
  QueuesFair
CHECK_DEADLOCK FALSE
