SPECIFICATION CallsSpec
CONSTANTS
  hi = hi
  mid = mid
  lo = lo
  idle = idle
  m1 = m1
  Nobody = Nobody
  Thread <- Threads
  Idle = idle
  First = hi
  MaxPrio = 4
  Obj = {m1}
  InitPrio <- Urgency
  HoldMax = 2
  SemMax = 1
  t1 = t1
  t2 = t2
  w1 = w1
  w2 = w2
  worker = worker
  None = None
  Submitter = {t1, t2}
  Item = {w1, w2}
  Preempting = {t1}
  Worker = worker
  TakeTurns = TRUE
  KeepDelay = TRUE
  urgent = urgent
  common = common
  NoCmd = NoCmd
  Cmd = {urgent, common}
  Urgent = {urgent}
  WorkCount = 1
  Retry = 1
  AnswerTime = 1
  RetryWait = 1
  MaxAsked = 2
  hard1 = hard1
  soft1 = soft1
  sleeper = sleeper
  Ticks = 8
  Times = {1, 2}
  MaxLate = 1
  Hard = {hard1}
  Soft = {soft1}
  ThreadTimer = sleeper
  AnyTime = FALSE
INVARIANTS
  TypesOK
  HoldExact
  NoInversion
  PriorityRestored
  PromiseKept
  OutcomeIsOwn
  TimersSound
  OnTime
PROPERTIES
  WaiterServed
  SyncReturns
  UrgentCommandsEnd
  CallbackDelayKept
  SoftTimersServed
