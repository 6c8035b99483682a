--------------------------------- MODULE Ipc ---------------------------------
(***************************************************************************)
(* What the blocking IPC services of ipc.c share: threads that call them,  *)
(* block, are resumed or time out, under the preemptive scheduler of       *)
(* Kernel.  A blocking call has three parts, and interrupts may come       *)
(* between them: the section that suspends the caller, its rt_schedule     *)
(* (pc "block"), and the reading of thread->error (pc "woken").            *)
(*   "run"    application code       "sched"  before a final rt_schedule   *)
(*   "sleep"  rt_thread_delay, before its rt_schedule                      *)
(*   "link", "urgent", "free"  between the two sections of a call on a     *)
(*            message queue                                                *)
(*   "critical", "again"  inside calls on a data queue, "done" inside      *)
(*            rt_completion_done: see there                                *)
(* The detach and delete services share _ipc_list_resume_all, whose loop   *)
(* tests the list of waiting threads with interrupts enabled: pc "test"    *)
(* before the test, "each" before an iteration.                            *)
(* The blocking services check that the scheduler is not locked before     *)
(* they block (RT_DEBUG_SCHEDULER_AVAILABLE), so the lock is left out.     *)
(***************************************************************************)
EXTENDS Kernel

CONSTANTS InitPrio,  \* the priority of each thread
          First      \* the most urgent thread, which runs first

ASSUME IpcAssumption ==
  /\ InitPrio \in [Thread -> Prio]
  /\ First \in Thread \ {Idle} /\ IsFiniteSet(Thread) /\ Obj # {}
  /\ \A t \in Thread : InitPrio[First] <= InitPrio[t]

VARIABLES k,        \* the kernel state
          pc,       \* where each thread is
          on,       \* the object its call is about
          live,     \* the objects that exist
          phantom   \* a list head was taken for a thread

ipc == <<k, pc, on, live, phantom>>

Pc == {"run", "sched", "sleep", "block", "woken", "test", "each", "link", "urgent", "free",
       "critical", "again", "done"}

IpcTypeOK == /\ k \in KernelState
             /\ pc \in [Thread -> Pc]
             /\ on \in [Thread -> Obj]
             /\ live \subseteq Obj
             /\ phantom \in BOOLEAN

\* All the threads are started; the others queue behind the first.
BootState ==
  [stat    |-> [t \in Thread |-> IF t = First THEN "RUNNING" ELSE "READY"],
   yield   |-> [t \in Thread |-> FALSE],
   prio    |-> InitPrio,
   ready   |-> [p \in Prio |-> SetToSeq({t \in Thread \ {First} : InitPrio[t] = p})],
   group   |-> {InitPrio[t] : t \in Thread \ {First}},
   cur     |-> First,
   lock    |-> 0,
   wait    |-> [o \in Obj |-> <<>>],
   timer   |-> {},
   error   |-> [t \in Thread |-> "RT_EOK"],
   defunct |-> <<>>]

IpcInit == /\ k = BootState
           /\ pc = [t \in Thread |-> "run"]
           /\ on = [t \in Thread |-> CHOOSE o \in Obj : TRUE]
           /\ live = Obj
           /\ phantom = FALSE

-----------------------------------------------------------------------------
At(label) == pc[k.cur] = label
Goto(label) == pc' = [pc EXCEPT ![k.cur] = label]

\* Application code runs in every thread but the idle thread.
App == At("run") /\ k.cur # Idle

\* Mutant: the error of an earlier call is still there.
BlockStale(m, o, flag, time) ==
  LET s == _ipc_list_suspend(m, o, m.cur, flag)
  IN  IF time = "some" THEN StartTimer(s, m.cur) ELSE s

\* The caller blocks on o; a positive timeout arms its timer.
Block(m, o, flag, time) ==
  LET c == m.cur
      s == _ipc_list_suspend([m EXCEPT !.error[c] = "RT_EOK"], o, c, flag)
  IN  IF time = "some" THEN StartTimer(s, c) ELSE s

\* The timeouts of a call: RT_WAITING_NO, a number of ticks, RT_WAITING_FOREVER.
Timeouts == {"none", "some", "forever"}

\* The calls of rt_schedule at the end of a service, in a blocking call and
\* in rt_thread_delay.
Reschedule ==
  /\ \/ At("sched") /\ Goto("run")
     \/ At("block") /\ Goto("woken")
     \/ At("sleep") /\ Goto("run")
  /\ k' = rt_schedule(k)
  /\ UNCHANGED <<on, live, phantom>>

\* rt_thread_delay: the thread leaves the processor to less urgent ones.
Delay ==
  /\ App
  /\ k' = StartTimer(rt_thread_suspend([k EXCEPT !.error[k.cur] = "RT_EOK"], k.cur), k.cur)
  /\ Goto("sleep")
  /\ UNCHANGED <<on, live, phantom>>

\* The tick interrupt: a time slice ends, or a thread timer expires.
SliceEnd ==
  /\ k' = rt_schedule([k EXCEPT !.yield[k.cur] = TRUE])
  /\ UNCHANGED <<pc, on, live, phantom>>

Timeout(t) ==
  /\ t \in k.timer
  /\ k' = rt_schedule(_thread_timeout(k, t))
  /\ UNCHANGED <<pc, on, live, phantom>>

\* The steps of every service that touch no object of the service.
Background == Reschedule \/ Delay \/ SliceEnd \/ \E t \in Thread : Timeout(t)

-----------------------------------------------------------------------------
\* A detach or delete service: the application stops using the object, then
\* _ipc_list_resume_all runs.
DetachBegin(o) ==
  /\ App /\ o \in live
  /\ live' = live \ {o}
  /\ on' = [on EXCEPT ![k.cur] = o]
  /\ Goto("test")
  /\ UNCHANGED <<k, phantom>>

ResumeAllTest ==
  /\ At("test")
  /\ Goto(IF k.wait[on[k.cur]] = <<>> THEN "run" ELSE "each")
  /\ UNCHANGED <<k, on, live, phantom>>

\* An iteration that finds the list empty takes the list head for a thread;
\* here rt_thread_resume refuses what it finds there (the build's assertion
\* stops the system instead, a behaviour that ends at this step).
_ipc_list_resume_all ==
  LET o == on[k.cur] IN
  /\ At("each")
  /\ IF k.wait[o] = <<>>
     THEN phantom' = TRUE /\ UNCHANGED k
     ELSE k' = ResumeOneWithError(k, o) /\ UNCHANGED phantom
  /\ Goto("test")
  /\ UNCHANGED <<on, live>>

\* The same loop where the caller has disabled interrupts (RT_IPC_CMD_RESET).
ResumeEveryone(m, o) ==
  LET after[n \in 0 .. Len(m.wait[o])] ==
        IF n = 0 THEN m ELSE ResumeOneWithError(after[n - 1], o)
  IN  after[Len(m.wait[o])]

\* A detached object may be set up again once nobody is in a call on it.
Reusable(o) ==
  o \notin live /\ \A t \in Thread : on[t] = o => pc[t] \in {"run", "sched", "sleep"}

\* The init service, as far as the list is concerned.
InitObject(o) ==
  /\ App /\ Reusable(o)
  /\ live' = live \cup {o}
  /\ k' = [k EXCEPT !.wait[o] = <<>>]
  /\ UNCHANGED <<pc, on, phantom>>

-----------------------------------------------------------------------------
\* A thread that is inside a blocking call, and one whose wait is over in its
\* favour although it has not read the answer yet.
InCall(t, o) == on[t] = o /\ pc[t] \in {"block", "woken"}
Granted(t, o) == InCall(t, o) /\ k.stat[t] # "SUSPEND" /\ k.error[t] = "RT_EOK"

\* How many threads were resumed for o and have not run yet.
Resumed(o) == Cardinality({t \in Thread : Granted(t, o)})

\* A wait ends one way only, although resume, timeout, reset and detach race: a
\* thread that is out of the suspend list is runnable again, one that is blocked
\* has no answer yet, and lists, timers and thread states agree.
OneAnswer ==
  /\ ListsSound(k) /\ ReadyComplete(k, {})
  /\ \A t \in Thread, o \in Obj :
       InCall(t, o) => /\ Member(t, k.wait[o]) <=> k.stat[t] = "SUSPEND"
                       /\ k.stat[t] = "SUSPEND" => k.error[t] = "RT_EOK"

\* The waiting threads of an object queue in order of priority.
InPrioOrder(o) ==
  \A i, j \in DOMAIN k.wait[o] : i < j => k.prio[k.wait[o][i]] <= k.prio[k.wait[o][j]]

\* The assertion at the head of rt_thread_resume: its argument is a thread.
ResumesThreads == ~phantom
=============================================================================
