SPECIFICATION FairQueueSpec
CONSTANTS
  Submitter = {s}
  Item = {w1, w2}
  Preempting = {}
  Worker = worker
  None = None
  TakeTurns = TRUE
  KeepDelay = TRUE
CHECK_DEADLOCK FALSE
PROPERTY SyncReturnsToAll
