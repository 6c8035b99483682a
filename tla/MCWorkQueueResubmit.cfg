SPECIFICATION QueueSpec
CONSTANTS
  Submitter = {s}
  Item = {w1, w2}
  Preempting = {}
  Worker = worker
  None = None
  TakeTurns = TRUE
  KeepDelay = FALSE
INVARIANT NoAssertionFails
