SPECIFICATION RRSpec
CONSTANTS
  main = main
  a = a
  b = b
  idle = idle
  Thread <- Three
  Idle = idle
  Main = main
  MaxPrio = 2
  Obj = {}
  InitPrio <- PeerPrio
  MaxNest = 0
  Exclusive = TRUE
  Quiet = TRUE
PROPERTY
  EveryPeerRuns
