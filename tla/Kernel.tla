------------------------------- MODULE Kernel -------------------------------
(***************************************************************************)
(* The thread lists of the RT-Thread kernel (uniprocessor build) and the   *)
(* functions of scheduler.c, thread.c, idle.c and ipc.c that change them,  *)
(* as operators from one kernel state to the next.  A kernel state k is a  *)
(* record with the fields                                                  *)
(*   stat, yield  thread->stat: the state bits and RT_THREAD_STAT_YIELD;   *)
(*                "FREE" is a thread object that does not exist            *)
(*   prio         thread->current_priority                                 *)
(*   ready        rt_thread_priority_table, one list per priority          *)
(*   group        rt_thread_ready_priority_group, the set of its one bits  *)
(*   cur          rt_current_thread                                        *)
(*   lock         rt_scheduler_lock_nest                                   *)
(*   wait         the suspend_thread lists of the IPC objects              *)
(*   timer        the threads whose thread_timer is activated              *)
(*   error        thread->error                                            *)
(*   defunct      _rt_thread_defunct                                       *)
(* A thread has one list node (tlist), shared by ready, wait and defunct.  *)
(* Every operator stands for code that runs with interrupts disabled.      *)
(***************************************************************************)
EXTENDS Integers, FiniteSets, Lists

CONSTANTS Thread,   \* the thread objects
          Idle,     \* the idle thread (tidle0)
          MaxPrio,  \* RT_THREAD_PRIORITY_MAX
          Obj       \* the suspend lists of the IPC objects

ASSUME KernelAssumption == /\ Idle \in Thread
                           /\ MaxPrio \in Nat \ {0}

Prio == 0 .. (MaxPrio - 1)

Stat == {"FREE", "INIT", "READY", "RUNNING", "SUSPEND", "CLOSE"}

Errno == {"RT_EOK", "RT_ETIMEOUT", "RT_ERROR"}

KernelState ==
  [stat    : [Thread -> Stat],
   yield   : [Thread -> BOOLEAN],
   prio    : [Thread -> Prio],
   ready   : [Prio -> Seq(Thread)],
   group   : SUBSET Prio,
   cur     : Thread,
   lock    : Nat,
   wait    : [Obj -> Seq(Thread)],
   timer   : SUBSET Thread,
   error   : [Thread -> Errno],
   defunct : Seq(Thread)]

-----------------------------------------------------------------------------
(* Lists (rtservice.h) *)

\* rt_list_remove(&thread->tlist): the node leaves whichever list holds it.
rt_list_remove(k, t) ==
  [k EXCEPT !.ready   = [p \in Prio |-> Unlink(k.ready[p], t)],
            !.wait    = [o \in Obj |-> Unlink(k.wait[o], t)],
            !.defunct = Unlink(k.defunct, t)]

-----------------------------------------------------------------------------
(* scheduler.c *)

\* Mutant: the highest one bit instead of the lowest.
HighestBit(group) == CHOOSE p \in group : \A q \in group : p >= q

\* __rt_ffs(rt_thread_ready_priority_group) - 1: the lowest one bit, which is
\* the most urgent ready priority.
__rt_ffs(group) == CHOOSE p \in group : \A q \in group : p <= q

\* The current thread is only marked RUNNING.  Any other thread goes to the
\* end of its list when its time slice is used up, else to the front.
rt_schedule_insert_thread(k, t) ==
  LET p == k.prio[t] IN
  IF t = k.cur
  THEN [k EXCEPT !.stat[t] = "RUNNING"]
  ELSE [k EXCEPT !.stat[t]  = "READY",
                 !.ready[p] = IF k.yield[t] THEN Append(@, t) ELSE <<t>> \o @,
                 !.group    = @ \cup {p}]

rt_schedule_remove_thread(k, t) ==
  LET u == rt_list_remove(k, t)
      p == k.prio[t]
  IN  IF u.ready[p] = <<>> THEN [u EXCEPT !.group = @ \ {p}] ELSE u

\* The current thread keeps the processor when it is RUNNING and more urgent
\* than every ready thread, or as urgent and not yielding.
KeepsCpu(k) ==
  /\ k.stat[k.cur] = "RUNNING"
  /\ \/ k.prio[k.cur] < __rt_ffs(k.group)
     \/ k.prio[k.cur] = __rt_ffs(k.group) /\ ~k.yield[k.cur]

\* rt_schedule clears the YIELD bit of a RUNNING thread before it decides
\* where that thread is inserted.
ClearYield(k) ==
  IF k.stat[k.cur] = "RUNNING" THEN [k EXCEPT !.yield[k.cur] = FALSE] ELSE k

\* The tail of both branches: the chosen thread leaves the ready list and runs.
Dispatch(k, to) ==
  [rt_schedule_remove_thread(k, to) EXCEPT !.stat[to] = "RUNNING"]

SwitchTo(k, to) ==
  LET from == k.cur
      moved == [ClearYield(k) EXCEPT !.cur = to]
  IN  Dispatch(IF k.stat[from] = "RUNNING"
               THEN rt_schedule_insert_thread(moved, from)
               ELSE moved, to)

\* Mutant: the scheduler lock is not looked at.
ScheduleUnlocked(k) ==
  LET to == Head(k.ready[__rt_ffs(k.group)]) IN
  IF k.group = {} THEN k
  ELSE IF KeepsCpu(k) \/ to = k.cur THEN Dispatch(ClearYield(k), k.cur)
  ELSE SwitchTo(k, to)

rt_schedule(k) ==
  LET to == Head(k.ready[__rt_ffs(k.group)]) IN
  IF k.lock # 0 \/ k.group = {} THEN k
  ELSE IF KeepsCpu(k) \/ to = k.cur THEN Dispatch(ClearYield(k), k.cur)
  ELSE SwitchTo(k, to)

rt_enter_critical(k) == [k EXCEPT !.lock = @ + 1]

\* Mutant: the nesting counter is decremented below zero.
ExitUnbounded(k) == [k EXCEPT !.lock = @ - 1]

\* The part of rt_exit_critical that precedes its call of rt_schedule.
rt_exit_critical(k) == [k EXCEPT !.lock = IF @ <= 1 THEN 0 ELSE @ - 1]

-----------------------------------------------------------------------------
(* thread.c and idle.c *)

\* rt_timer_start on the thread's own timer, rt_timer_stop/rt_timer_detach.
StartTimer(k, t) == [k EXCEPT !.timer = @ \cup {t}]
StopTimer(k, t)  == [k EXCEPT !.timer = @ \ {t}]

\* A thread that is neither READY nor RUNNING is left alone (-RT_ERROR).
rt_thread_suspend(k, t) ==
  IF k.stat[t] \in {"READY", "RUNNING"}
  THEN StopTimer([rt_schedule_remove_thread(k, t) EXCEPT !.stat[t] = "SUSPEND"], t)
  ELSE k

\* Mutant: the timer of a thread that is resumed stays armed.
ResumeArmed(k, t) == rt_schedule_insert_thread(rt_list_remove(k, t), t)

\* The interrupt-disabled part of rt_thread_resume, past its check of stat.
ResumeLocked(k, t) ==
  rt_schedule_insert_thread(StopTimer(rt_list_remove(k, t), t), t)

rt_thread_resume(k, t) ==
  IF k.stat[t] = "SUSPEND" THEN ResumeLocked(k, t) ELSE k

\* rt_timer_check has taken the one-shot timer off its list when it calls
\* _thread_timeout; the call of rt_schedule at its end is not included.
_thread_timeout(k, t) ==
  LET u == rt_list_remove(StopTimer(k, t), t)
  IN  rt_schedule_insert_thread([u EXCEPT !.error[t] = "RT_ETIMEOUT"], t)

\* Mutants: the priority is changed before the thread leaves its list, so that
\* the bit of the old priority stays; and the thread is not queued again.
PriorityFirst(k, t, p) ==
  LET u == [k EXCEPT !.prio[t] = p]
  IN  IF k.stat[t] = "READY"
      THEN rt_schedule_insert_thread(rt_schedule_remove_thread(u, t), t) ELSE u

NotRequeued(k, t, p) ==
  [(IF k.stat[t] = "READY" THEN rt_schedule_remove_thread(k, t) ELSE k) EXCEPT !.prio[t] = p]

\* RT_THREAD_CTRL_CHANGE_PRIORITY: only a READY thread changes list.
ChangePriority(k, t, p) ==
  IF k.stat[t] = "READY"
  THEN rt_schedule_insert_thread(
         [rt_schedule_remove_thread(k, t) EXCEPT !.prio[t] = p], t)
  ELSE [k EXCEPT !.prio[t] = p]

\* rt_thread_defunct_enqueue links the node without taking it off a list.
rt_thread_defunct_enqueue(k, t) == [k EXCEPT !.defunct = <<t>> \o @]

\* Mutant: the timer of a closed thread is not detached.
CloseArmed(k, t) ==
  rt_thread_defunct_enqueue([k EXCEPT !.stat[t] = "CLOSE", !.yield[t] = FALSE], t)

\* The second half of rt_thread_delete and rt_thread_detach.
CloseThread(k, t) ==
  rt_thread_defunct_enqueue(
    [StopTimer(k, t) EXCEPT !.stat[t] = "CLOSE", !.yield[t] = FALSE], t)

_thread_exit(k, t) == CloseThread(rt_schedule_remove_thread(k, t), t)

-----------------------------------------------------------------------------
(* ipc.c: the suspend lists *)

\* Mutant: the comparison of priorities is the wrong way round.
PositionReversed(s, prio, t) ==
  LET later == {i \in DOMAIN s : prio[t] > prio[s[i]]}
  IN  IF later = {} THEN Len(s) + 1
      ELSE CHOOSE i \in later : \A j \in later : i <= j

\* RT_IPC_FLAG_PRIO: before the first thread that is strictly less urgent.
PrioPosition(s, prio, t) ==
  LET later == {i \in DOMAIN s : prio[t] < prio[s[i]]}
  IN  IF later = {} THEN Len(s) + 1
      ELSE CHOOSE i \in later : \A j \in later : i <= j

_ipc_list_suspend(k, o, t, flag) ==
  LET u == rt_thread_suspend(k, t)
  IN  [u EXCEPT !.wait[o] = IF flag = "FIFO" THEN Append(@, t)
                            ELSE InsertAt(@, PrioPosition(@, u.prio, t), t)]

_ipc_list_resume(k, o) == rt_thread_resume(k, Head(k.wait[o]))

\* One iteration of _ipc_list_resume_all.
ResumeOneWithError(k, o) ==
  LET t == Head(k.wait[o])
  IN  rt_thread_resume([k EXCEPT !.error[t] = "RT_ERROR"], t)

-----------------------------------------------------------------------------
(* What the lists promise, for any kernel state *)

\* The node of t is linked nowhere.
Detached(k, t) ==
  /\ \A p \in Prio : ~Member(t, k.ready[p])
  /\ \A o \in Obj : ~Member(t, k.wait[o])
  /\ ~Member(t, k.defunct)

\* Ready lists hold READY threads of their own priority, each once.
ReadyListsSound(k) ==
  \A p \in Prio :
    /\ IsInjective(k.ready[p])
    /\ \A t \in Thread : Member(t, k.ready[p]) => k.stat[t] = "READY" /\ k.prio[t] = p

\* The bitmap is the set of priorities with a ready thread.
GroupExact(k) == \A p \in Prio : p \in k.group <=> k.ready[p] # <<>>

\* Only suspended threads wait, on one list and once.
WaitListsSound(k) ==
  \A o \in Obj :
    /\ IsInjective(k.wait[o])
    /\ \A t \in Thread : Member(t, k.wait[o]) =>
         /\ k.stat[t] = "SUSPEND"
         /\ \A q \in Obj : Member(t, k.wait[q]) => q = o

\* Only closed threads are defunct, and each once.
DefunctSound(k) ==
  /\ IsInjective(k.defunct)
  /\ \A t \in Thread : Member(t, k.defunct) => k.stat[t] = "CLOSE"

\* One thread at most is RUNNING, the current one, and it is not READY.
CurSound(k) ==
  /\ \A t \in Thread : k.stat[t] = "RUNNING" => t = k.cur
  /\ k.stat[k.cur] # "READY"

\* An armed thread timer belongs to a suspended thread: what the assertion
\* at the head of _thread_timeout relies on.
TimerSound(k) == \A t \in k.timer : k.stat[t] = "SUSPEND"

ListsSound(k) ==
  /\ ReadyListsSound(k) /\ GroupExact(k) /\ WaitListsSound(k)
  /\ DefunctSound(k) /\ CurSound(k) /\ TimerSound(k)

\* The idle thread can always be dispatched.
IdleRunnable(k) == k.stat[Idle] \in {"READY", "RUNNING"}

\* Every READY thread outside S is on its list, so that it can be chosen.
ReadyComplete(k, S) ==
  \A t \in Thread \ S : k.stat[t] = "READY" => Member(t, k.ready[k.prio[t]])

\* No READY thread outside S is more urgent than the current thread.
MostUrgent(k, S) ==
  \A t \in Thread \ S : k.stat[t] = "READY" => k.prio[k.cur] <= k.prio[t]
=============================================================================
