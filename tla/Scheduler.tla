------------------------------ MODULE Scheduler ------------------------------
(***************************************************************************)
(* Threads that call the scheduler and thread services (scheduler.c,       *)
(* thread.c, idle.c) while the tick interrupt and device interrupts        *)
(* arrive at any point where interrupts are enabled.  One step is one      *)
(* section with interrupts disabled, or one interrupt-handler step; pc     *)
(* tells where a thread stands between two sections of the same call:      *)
(*   "run"     in application code                                         *)
(*   "sched"   about to call rt_schedule                                   *)
(*   "sleep"   in rt_thread_sleep, about to call rt_schedule               *)
(*   "woken"   in rt_thread_sleep, back from rt_schedule                   *)
(*   "resume"  in rt_thread_resume, past the test of the target's stat     *)
(*   "delete"  in rt_thread_delete or _detach, between its two sections    *)
(*   "close"   the same, called by rt_thread_control (CLOSE)               *)
(* target is the thread that such a call is about.                         *)
(***************************************************************************)
EXTENDS Kernel

CONSTANTS Main,       \* the main thread, running when the scheduler starts
          InitPrio,   \* the priority each thread is created with
          MaxNest,    \* bound on the nesting of critical sections
          Exclusive,  \* TRUE: no other thread touches a thread that a call of
                      \* rt_thread_resume, _delete or _detach has in hand
          Quiet       \* TRUE: no thread timer of such a thread expires either

ASSUME SchedulerAssumption ==
  /\ Main \in Thread \ {Idle}
  /\ InitPrio \in [Thread -> Prio]
  /\ InitPrio[Idle] = MaxPrio - 1
  /\ MaxNest \in Nat
  /\ Exclusive \in BOOLEAN /\ Quiet \in BOOLEAN

VARIABLES k,       \* the kernel state
          pc,      \* where each thread is
          target,  \* the thread its unfinished call is about
          isr      \* "none", or "timer" inside rt_timer_check of the tick

vars == <<k, pc, target, isr>>

Pc == {"run", "sched", "sleep", "woken", "resume", "delete", "close"}

TypeOK == /\ k \in KernelState
          /\ pc \in [Thread -> Pc]
          /\ target \in [Thread -> Thread]
          /\ isr \in {"none", "timer"}

\* The threads in the middle of a resume, delete or detach, and the threads
\* they have in hand.
Holding == {t \in Thread : pc[t] \in {"resume", "delete", "close"}}
Claimed == {target[t] : t \in Holding}

Untouched(t) == Exclusive => t \notin Claimed
NotExpiring(t) == Quiet => t \notin Claimed

\* After rt_system_scheduler_start: main runs, the idle thread is ready and
\* the other threads are initialised and not started.
Init ==
  /\ k = [stat    |-> [t \in Thread |-> IF t = Main THEN "RUNNING"
                                        ELSE IF t = Idle THEN "READY" ELSE "INIT"],
          yield   |-> [t \in Thread |-> FALSE],
          prio    |-> InitPrio,
          ready   |-> [p \in Prio |-> IF p = MaxPrio - 1 THEN <<Idle>> ELSE <<>>],
          group   |-> {MaxPrio - 1},
          cur     |-> Main,
          lock    |-> 0,
          wait    |-> [o \in Obj |-> <<>>],
          timer   |-> {},
          error   |-> [t \in Thread |-> "RT_EOK"],
          defunct |-> <<>>]
  /\ pc = [t \in Thread |-> "run"]
  /\ target = [t \in Thread |-> t]
  /\ isr = "none"

-----------------------------------------------------------------------------
(* Steps of the current thread *)

At(label) == isr = "none" /\ pc[k.cur] = label

\* The current thread moves on inside a call, or leaves it; a call that is
\* over has nothing in hand.
Goto(label) == pc' = [pc EXCEPT ![k.cur] = label]
Done == target' = [target EXCEPT ![k.cur] = k.cur]

\* Application code.  The idle thread has none: no idle hook is installed.
App == At("run") /\ k.cur # Idle /\ UNCHANGED isr

\* rt_thread_create (or rt_thread_init) on an unused object.
CreateThread(t) ==
  /\ App
  /\ k.stat[t] = "FREE"
  /\ k' = [k EXCEPT !.stat[t] = "INIT", !.prio[t] = InitPrio[t], !.error[t] = "RT_EOK"]
  /\ UNCHANGED <<pc, target>>

StartThread(t) ==
  /\ App
  /\ k.stat[t] = "INIT" /\ Untouched(t)
  /\ k' = rt_thread_resume([k EXCEPT !.stat[t] = "SUSPEND", !.yield[t] = FALSE], t)
  /\ Goto("sched")
  /\ UNCHANGED target

Yield ==
  /\ App
  /\ k' = rt_schedule([k EXCEPT !.yield[k.cur] = TRUE])
  /\ UNCHANGED <<pc, target>>

\* rt_thread_suspend (rt_thread_self ()); the caller goes on to rt_schedule
\* in its own time.
SuspendSelf ==
  /\ App
  /\ k' = rt_thread_suspend(k, k.cur)
  /\ UNCHANGED <<pc, target>>

Sleep ==
  /\ App
  /\ k' = StartTimer(rt_thread_suspend([k EXCEPT !.error[k.cur] = "RT_EOK"], k.cur), k.cur)
  /\ Goto("sleep")
  /\ UNCHANGED target

\* Both calls of rt_schedule: from application code or at the end of a
\* service, and inside rt_thread_sleep.
Schedule ==
  \/ /\ At("sched") \/ (At("run") /\ k.cur # Idle)
     /\ k' = rt_schedule(k)
     /\ Goto("run")
     /\ UNCHANGED <<target, isr>>
  \/ /\ At("sleep")
     /\ k' = rt_schedule(k)
     /\ Goto("woken")
     /\ UNCHANGED <<target, isr>>

\* rt_thread_sleep clears the timeout error it expects.
SleepReturn ==
  /\ At("woken")
  /\ k' = [k EXCEPT !.error[k.cur] = IF @ = "RT_ETIMEOUT" THEN "RT_EOK" ELSE @]
  /\ Goto("run")
  /\ UNCHANGED <<target, isr>>

\* rt_thread_resume tests stat with interrupts enabled ...
ResumeTest(t) ==
  /\ App
  /\ k.stat[t] = "SUSPEND" /\ Untouched(t)
  /\ Goto("resume")
  /\ target' = [target EXCEPT ![k.cur] = t]
  /\ UNCHANGED k

\* ... and acts on the answer with interrupts disabled.
ResumeAct ==
  /\ At("resume")
  /\ k' = ResumeLocked(k, target[k.cur])
  /\ Goto("run")
  /\ Done
  /\ UNCHANGED isr

SetPriority(t, p) ==
  /\ App
  /\ t # Idle /\ k.stat[t] # "FREE" /\ Untouched(t)
  /\ k' = ChangePriority(k, t, p)
  /\ UNCHANGED <<pc, target>>

EnterCritical ==
  /\ App
  /\ k.lock < MaxNest
  /\ k' = rt_enter_critical(k)
  /\ UNCHANGED <<pc, target>>

ExitCritical ==
  /\ App
  /\ k' = rt_exit_critical(k)
  /\ pc' = IF k'.lock = 0 THEN [pc EXCEPT ![k.cur] = "sched"] ELSE pc
  /\ UNCHANGED target

\* The entry function returns into _thread_exit.
ExitThread ==
  /\ App
  /\ k.lock = 0
  /\ k.stat[k.cur] # "CLOSE" /\ Untouched(k.cur)
  /\ k' = _thread_exit(k, k.cur)
  /\ Goto("sched")
  /\ UNCHANGED target

\* Mutant: the thread that is deleted is not taken off its list.
DeleteQueued(t, call) ==
  /\ App
  /\ t # Idle /\ k.stat[t] \notin {"FREE", "CLOSE"} /\ Untouched(t)
  /\ Exclusive => t \notin Holding
  /\ t = k.cur => call = "close" /\ k.lock = 0
  /\ UNCHANGED k
  /\ Goto(call)
  /\ target' = [target EXCEPT ![k.cur] = t]

\* rt_thread_delete and rt_thread_detach, up to the end of
\* rt_schedule_remove_thread.  A thread closes itself through
\* rt_thread_control, which goes on to rt_schedule.
DeleteBegin(t, call) ==
  /\ App
  /\ t # Idle /\ k.stat[t] \notin {"FREE", "CLOSE"} /\ Untouched(t)
  /\ Exclusive => t \notin Holding
  /\ t = k.cur => call = "close" /\ k.lock = 0
  /\ k' = IF k.stat[t] # "INIT" THEN rt_schedule_remove_thread(k, t) ELSE k
  /\ Goto(call)
  /\ target' = [target EXCEPT ![k.cur] = t]

DeleteEnd ==
  /\ \/ At("delete") /\ Goto("run")
     \/ At("close") /\ Goto("sched")
  /\ k' = CloseThread(k, target[k.cur])
  /\ Done
  /\ UNCHANGED isr

\* rt_defunct_execute: the idle thread takes the first defunct thread and
\* gives its object and stack back.
Reap ==
  /\ At("run") /\ UNCHANGED isr
  /\ k.cur = Idle /\ k.defunct # <<>>
  /\ LET t == Head(k.defunct)
     IN  /\ k' = [rt_list_remove(k, t) EXCEPT !.stat[t] = "FREE", !.prio[t] = InitPrio[t]]
         /\ pc' = [pc EXCEPT ![t] = "run"]
         /\ target' = [target EXCEPT ![t] = t]

-----------------------------------------------------------------------------
(* Interrupts *)

\* rt_tick_increase: the slice of the current thread ends or not (its
\* remaining_tick is abstracted), then rt_timer_check begins.
Tick(slice) ==
  /\ isr = "none"
  /\ k' = IF slice THEN rt_schedule([k EXCEPT !.yield[k.cur] = TRUE]) ELSE k
  /\ isr' = "timer"
  /\ UNCHANGED <<pc, target>>

\* rt_timer_check finds an expired thread timer.
TimerExpire(t) ==
  /\ isr = "timer"
  /\ t \in k.timer /\ NotExpiring(t)
  /\ k' = rt_schedule(_thread_timeout(k, t))
  /\ UNCHANGED <<pc, target, isr>>

TickEnd ==
  /\ isr = "timer"
  /\ isr' = "none"
  /\ UNCHANGED <<k, pc, target>>

\* A device interrupt that resumes a thread and reschedules.
DeviceIsr(t) ==
  /\ isr = "none"
  /\ k.stat[t] = "SUSPEND" /\ Untouched(t)
  /\ k' = rt_schedule(rt_thread_resume(k, t))
  /\ UNCHANGED <<pc, target, isr>>

-----------------------------------------------------------------------------
Next ==
  \/ \E t \in Thread : \/ CreateThread(t) \/ StartThread(t)
                       \/ ResumeTest(t)
                       \/ TimerExpire(t) \/ DeviceIsr(t)
  \/ \E t \in Thread, p \in Prio : SetPriority(t, p)
  \/ \E t \in Thread, call \in {"delete", "close"} : DeleteBegin(t, call)
  \/ \E slice \in BOOLEAN : Tick(slice)
  \/ Yield \/ SuspendSelf \/ Sleep \/ Schedule \/ SleepReturn \/ ResumeAct
  \/ EnterCritical \/ ExitCritical \/ ExitThread \/ DeleteEnd \/ Reap \/ TickEnd

Spec == Init /\ [][Next]_vars

-----------------------------------------------------------------------------
(* Properties *)

\* The three uses of a thread's one list node never mix: ready lists, the
\* defunct list and the armed timers agree with every thread's stat, and the
\* bitmap that rt_schedule trusts agrees with the ready lists.
ListsConsistent == ListsSound(k)

\* A READY thread is always where rt_schedule looks for it: no interleaving of
\* resume, timeout, priority change and deletion loses a thread (one that is
\* being deleted has left its list on purpose).
NothingLost == ReadyComplete(k, Claimed) /\ IdleRunnable(k)

\* What a call relies on between its two sections.  A thread that is being
\* resumed is still suspended.  One that is being deleted is alive, linked
\* nowhere (or is the caller, preempted on the way), and is not itself in the
\* middle of such a call.  No two calls have the same thread in hand, no
\* thread runs while another has it in hand, and a closed one has nothing in
\* hand that would be lost with it.
InHandSound ==
  /\ \A u \in Holding :
       LET t == target[u] IN
       /\ pc[u] = "resume" => k.stat[t] = "SUSPEND"
       /\ pc[u] # "resume" =>
            /\ t # Idle /\ k.stat[t] \notin {"FREE", "CLOSE"}
            /\ t # u => t \notin Holding
            /\ pc[u] = "delete" => t # u
            /\ Detached(k, t) \/ (t = u /\ k.stat[t] = "READY")
       /\ t # u => t # k.cur
       /\ \A v \in Holding : target[v] = t => v = u
  /\ \A t \in Thread : k.stat[t] = "CLOSE" => t \notin Holding

\* The thread on the processor exists; when it is closed it stands right before
\* the rt_schedule that takes the processor away for good, and nothing has
\* locked the scheduler.
CurAlive ==
  /\ \/ k.stat[k.cur] \in {"RUNNING", "SUSPEND"}
     \/ k.stat[k.cur] = "CLOSE" /\ pc[k.cur] = "sched" /\ k.lock = 0
  /\ pc[k.cur] = "close" /\ target[k.cur] = k.cur => k.lock = 0

\* Storage given back by the idle thread is reachable from nowhere: a FREE
\* thread is not current, not on a list, not armed and not in the hands of
\* a service call.
NothingDangles ==
  \A t \in Thread : k.stat[t] = "FREE" =>
     /\ t # k.cur /\ t \notin k.timer
     /\ \A p \in Prio : ~Member(t, k.ready[p])
     /\ ~Member(t, k.defunct)
     /\ t \notin Claimed

\* rt_schedule "will select one thread with the highest priority": a switch
\* never happens while the scheduler is locked, hands the processor to a
\* RUNNING thread that no ready thread outranks, and a thread that was
\* RUNNING stays ready to run.
SwitchSound ==
  [][k'.cur # k.cur =>
       /\ k.lock = 0
       /\ k'.stat[k'.cur] = "RUNNING" /\ MostUrgent(k', Claimed)
       /\ k.stat[k.cur] = "RUNNING" => k'.stat[k.cur] = "READY"]_vars

\* A preemption held back by rt_enter_critical is delivered: once a service
\* has reached its final rt_schedule with the scheduler unlocked, that call
\* leaves nobody more urgent waiting, whatever interrupts came in between.
DeferredPreemption ==
  [][(At("sched") \/ At("sleep")) /\ k.lock = 0 /\ pc' # pc /\ isr' = "none"
       => k'.stat[k'.cur] = "RUNNING" /\ MostUrgent(k', Claimed)]_vars

\* "The thread object will be removed from thread queue" (rt_thread_delete):
\* a closed thread is not in a ready list, where rt_schedule would run it.
ClosedNeverReady ==
  \A t \in Thread, p \in Prio : k.stat[t] = "CLOSE" => ~Member(t, k.ready[p])
=============================================================================
