SPECIFICATION FairTimersSpec
CONSTANTS
  Hard = {}
  Soft = {soft1}
  ThreadTimer = thread
  Ticks = 8
  Times = {1, 2}
  MaxLate = 1
  AnyTime = TRUE
PROPERTY
  SoftTimerFires
