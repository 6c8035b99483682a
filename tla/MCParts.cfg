SPECIFICATION PartsSpec
CONSTANTS
  main = main
  a = a
  idle = idle
  Thread <- Threads
  Idle = idle
  Main = main
  MaxPrio = 3
  Obj = {}
  InitPrio <- Urgency
  MaxNest = 1
  Exclusive = TRUE
  Quiet = TRUE
  Level = {1, 2}
  Places = 3
  Byte = {0, 1}
  Size = 3
  Chunk <- Chunks
  Total = 11
  Struct = 1
  MinSize = 2
  BufSz = 4
  MaxTokens = 3
  MaxBytes = 10
  Interval = 2
  Short = 4
  Long = 6
  Hold = 8
  MaxScan = 11
  MaxClicks = 4
  Blank = Blank
  Header = Header
  power_record = power_record
  sensor = sensor
  Kind <- Kinds
  Sensor = sensor
  Pages <- RecordPages
  MaxNum <- RecordMaxNum
  PerPage = 2
  Shown = 4
  ErasedWord = 13
  MaxRecords = 8
  MaxIndices = 14
  MaxFailures = 1
  l1 = l1
  l2 = l2
  Lamp = {l1, l2}
  Modes <- Arrays
  Loops <- Rounds
CHECK_DEADLOCK FALSE
INVARIANTS
  ListsConsistent
  NothingLost
  NothingDangles
  InHandSound
  ContextsSound
  PartsTyped
  HeapSound
  InputServed
  RecordsReadBack
  ConfigKept
  PressesTold
PROPERTIES
  SwitchSound
  DeferredPreemption
  ImplementsPipe
  ImplementsProcessor
  RoundsShown
