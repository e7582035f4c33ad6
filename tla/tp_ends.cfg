SPECIFICATION MCFairSpec
CONSTANTS
  Worker = {w1, w2}
  Client = {c1, c2}
  Main = c1
  InitAttr <- Attr12
  Attrs <- Shrink
  ClientOps = {"add","addPersistent","setAttr","shutdown"}
  JobOps = {}
  AddPriorities = {"med"}
  PromptCallers = TRUE
  Faults = {}
  MaxJobs = 3
  MaxPersistent = 1
  MaxTime = 0
PROPERTIES
  CallsReturn
  AcceptedJobLeaves
  SurplusThreadsLeave
CHECK_DEADLOCK FALSE
