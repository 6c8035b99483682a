SPECIFICATION Spec
CONSTANTS
  main = main
  a = a
  idle = idle
  Thread <- MCThread
  Idle = idle
  Main = main
  MaxPrio = 3
  Obj = {}
  InitPrio <- MCInitPrio
  MaxNest = 1
  Exclusive = TRUE
  Quiet = FALSE
INVARIANT
  ClosedNeverReady
