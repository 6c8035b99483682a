SPECIFICATION CompletionSpec
CONSTANTS
  reader = reader
  idle = idle
  done = done
  Thread = {reader, idle}
  Idle = idle
  First = reader
  Completions = {done}
  Waiter <- MCWaiter
  MaxPrio = 2
  Obj = {done}
  InitPrio <- MCInitPrio
INVARIANT
  FailedWaitTakesNothing
