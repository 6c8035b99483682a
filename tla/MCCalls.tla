------------------------------ MODULE MCCalls ------------------------------
(***************************************************************************)
(* The calls that wait: an instance of Mutex with three threads above the  *)
(* idle thread and a mutex, one of WorkQueue, one of AtChat and one of     *)
(* Timer (a hard timer, a soft timer and a counter of eight ticks, so that *)
(* it wraps around) in one run, which takes one of them at the start and   *)
(* leaves the others as they are.                                          *)
(***************************************************************************)
EXTENDS Mutex, AtChat, WorkQueue, Timer

CONSTANTS hi, mid, lo, idle, m1,          \* of Mutex
          t1, t2, w1, w2, worker,         \* of WorkQueue
          urgent, common,                 \* of AtChat
          hard1, soft1, sleeper           \* of Timer

VARIABLE part         \* the one this behaviour is about

all == <<part, vars, queueVars, chatVars, timingVars>>

Threads == {hi, mid, lo, idle}
Urgency == [t \in Threads |-> CASE t = hi -> 0 [] t = mid -> 1 [] t = lo -> 2 [] t = idle -> 3]

CallsInit == /\ part \in {"mutex", "queue", "chat", "timer"}
             /\ Init /\ QueueInit /\ ChatInit
             /\ TimersInit
             /\ part # "timer" => /\ timing.periodic = {}
                                 /\ \A t \in {hard1, soft1} : timing.init[t] = 1

Only(p) == part = p /\ UNCHANGED part

InMutex == Only("mutex") /\ UNCHANGED <<queueVars, chatVars, timingVars>>
InQueue == Only("queue") /\ UNCHANGED <<vars, chatVars, timingVars>>
InChat == Only("chat") /\ UNCHANGED <<vars, queueVars, timingVars>>
InTimer == Only("timer") /\ UNCHANGED <<vars, queueVars, chatVars>>

CallsNext ==
  \/ InMutex /\ Next
  \/ InQueue /\ QueueNext
  \/ InChat /\ ChatNext
  \/ InTimer /\ TimersNext

CallsSpec == CallsInit /\ [][CallsNext]_all

\* The fairness of a module is assumed by its own property only: the others
\* stand still.
WorkerFairness ==
  /\ SF_all(InQueue /\ _workqueue_thread_entry)
  /\ \A t \in {t1, t2, worker} : SF_all(InQueue /\ Progress(t))
PollFairness == WF_all(InChat /\ at_obj_process) /\ WF_all(InChat /\ ChatTick)
TimerFairness ==
  /\ WF_all(InTimer /\ TickIncrease) /\ WF_all(InTimer /\ HandlerStep)
  /\ SF_all(InTimer /\ ThreadStep)

-----------------------------------------------------------------------------
(* Types, and what is promised under fairness; the other properties are those of *)
(* the modules.                                                                 *)

TypesOK == TypeOK /\ QueueTyped /\ ChatTyped /\ TimersTyped

\* rt_workqueue_cancel_work_sync returns to an urgent thread.
SyncReturns == WorkerFairness => UrgentSyncReturns

\* A command of high priority ends (at_obj_process).
UrgentCommandsEnd == PollFairness => UrgentEnd

\* An urgent thread gets the mutex it waits for, or times out (rt_mutex_take,
\* rt_mutex_release).
WaiterServed == Fairness => UrgentWaiterServed

\* A soft timer that is due is served (_timer_thread_entry).
SoftTimersServed == TimerFairness => SoftTimerFires
=============================================================================
