SPECIFICATION Spec
CONSTANTS
  hi = hi
  mid = mid
  lo = lo
  idle = idle
  m1 = m1
  m2 = m2
  Nobody = Nobody
  Thread <- Two
  Idle = idle
  First = hi
  MaxPrio = 4
  Obj = {m1, m2}
  InitPrio <- MCInitPrio
  HoldMax = 1
  SemMax = 1
INVARIANT
  NoInversion
