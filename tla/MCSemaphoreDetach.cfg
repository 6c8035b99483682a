SPECIFICATION Spec
CONSTANTS
  hi = hi
  mid = mid
  lo = lo
  idle = idle
  sem = sem
  Thread <- Two
  Idle = idle
  First = hi
  MaxPrio = 3
  Obj = {sem}
  Sem = {sem}
  InitPrio <- MCInitPrio
  SemMax = 1
  HoldMax = 1
INVARIANT
  ResumesThreads
