SPECIFICATION ServicesSpec
CONSTANTS
  hi = hi
  lo = lo
  idle = idle
  sem = sem
  ev = ev
  for_hi = for_hi
  for_lo = for_lo
  Thread <- Two
  Obj = {sem, ev, for_hi, for_lo, rx, tx, pops, pushes}
  Sem = {sem}
  EventSet = {ev}
  Completions = {for_hi, for_lo}
  Waiter <- Waiters
  Bits = {m1, m2}
  InitPrio <- Urgency
  Idle = idle
  First = hi
  MaxPrio = 3
  m1 = m1
  m2 = m2
  c1 = c1
  c2 = c2
  rx = rx
  tx = tx
  Null = Null
  NoMessage = NoMessage
  SemMax = 2
  HoldMax = 1
  Message = {m1, m2}
  Cell = {c1, c2}
  pops = pops
  pushes = pushes
  Data = {m1, m2}
  NoData = NoData
  Size = 2
SYMMETRY
  Symmetry
INVARIANTS
  ServicesTyped
  TokensServed
  OneAnswer
  PrioOrder
  EventsServed
  DoneIsSeen
  BlocksOwned
  NobodyForgotten
  PeersServed
PROPERTY
  ImplementsChannel
  QueuesItems
