SPECIFICATION ChannelsSpec
CONSTANTS
  hi = hi
  lo = lo
  idle = idle
  m1 = m1
  m2 = m2
  c1 = c1
  c2 = c2
  rx = rx
  tx = tx
  Null = Null
  NoMessage = NoMessage
  Thread <- MCThread
  Idle = idle
  First = hi
  MaxPrio = 3
  Obj = {rx, tx}
  InitPrio <- MCSamePrio
  Message = {m1, m2}
  Cell = {c1, c2}
INVARIANT NobodyLeftWaiting
