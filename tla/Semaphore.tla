------------------------------ MODULE Semaphore ------------------------------
(***************************************************************************)
(* The counting semaphores of ipc.c: rt_sem_take and rt_sem_trytake,       *)
(* rt_sem_release from threads and from interrupts, rt_sem_control with    *)
(* RT_IPC_CMD_RESET, rt_sem_detach or rt_sem_delete, and rt_sem_init.      *)
(***************************************************************************)
EXTENDS Ipc, Limits

CONSTANT Sem   \* the objects that are semaphores

ASSUME SemAssumption == Sem \subseteq Obj

VARIABLES flag,     \* how waiting threads queue: RT_IPC_FLAG_FIFO or _PRIO
          value,    \* sem->value
          owed      \* tokens put into each, its first value included, less
                    \* those that takes have returned with

sems == <<flag, value, owed>>

vars == <<ipc, sems>>

Flags == {"FIFO", "PRIO"}

TypeOK ==
  /\ IpcTypeOK
  /\ flag \in [Obj -> Flags]
  /\ value \in [Obj -> 0 .. SemMax]
  /\ owed \in [Obj -> Int]

Init ==
  /\ IpcInit
  /\ flag \in [Obj -> Flags]
  /\ value \in [Obj -> 0 .. SemMax]
  /\ owed = value

-----------------------------------------------------------------------------
rt_sem_take(o, time) ==
  /\ App /\ o \in live
  /\ on' = [on EXCEPT ![k.cur] = o]
  /\ \/ /\ value[o] > 0
        /\ value' = [value EXCEPT ![o] = @ - 1]
        /\ owed' = [owed EXCEPT ![o] = @ - 1]
        /\ UNCHANGED <<k, pc>>
     \/ /\ value[o] = 0 /\ time = "none"
        /\ UNCHANGED <<k, pc, value, owed>>
     \/ /\ value[o] = 0 /\ time # "none"
        /\ k' = Block(k, o, flag[o], time)
        /\ Goto("block")
        /\ UNCHANGED <<value, owed>>
  /\ UNCHANGED <<live, phantom, flag>>

\* Back from rt_schedule, the call returns what thread->error says.
TakeReturn ==
  /\ At("woken")
  /\ owed' = IF k.error[k.cur] = "RT_EOK" THEN [owed EXCEPT ![on[k.cur]] = @ - 1] ELSE owed
  /\ Goto("run")
  /\ UNCHANGED <<k, on, live, phantom, flag, value>>

\* The section of rt_sem_release: the first waiter is resumed, or the value
\* goes up unless it is full (-RT_EFULL).
ReleaseSection(o) ==
  IF k.wait[o] # <<>> THEN _ipc_list_resume(k, o) ELSE k

\* Mutant: the value may pass its maximum.
ReleaseOverflow(o) ==
  /\ value' = IF k.wait[o] = <<>> THEN [value EXCEPT ![o] = @ + 1] ELSE value
  /\ owed' = [owed EXCEPT ![o] = @ + 1]

ReleaseValue(o) ==
  LET room == k.wait[o] = <<>> /\ value[o] < SemMax
      accepted == k.wait[o] # <<>> \/ room
  IN  /\ value' = IF room THEN [value EXCEPT ![o] = @ + 1] ELSE value
      /\ owed' = IF accepted THEN [owed EXCEPT ![o] = @ + 1] ELSE owed

rt_sem_release(o) ==
  /\ App /\ o \in live
  /\ k' = ReleaseSection(o)
  /\ ReleaseValue(o)
  /\ Goto(IF k.wait[o] # <<>> THEN "sched" ELSE "run")
  /\ UNCHANGED <<on, live, phantom, flag>>

\* The same call in an interrupt handler, with its rt_schedule.
IsrRelease(o) ==
  /\ o \in live
  /\ k' = IF k.wait[o] # <<>> THEN rt_schedule(ReleaseSection(o)) ELSE k
  /\ ReleaseValue(o)
  /\ UNCHANGED <<pc, on, live, phantom, flag>>

\* Mutant: the reset leaves the waiting threads where they are.
ResetValueOnly(o, v) ==
  /\ App /\ o \in live
  /\ value' = [value EXCEPT ![o] = v]
  /\ owed' = [owed EXCEPT ![o] = @ - value[o] + v]
  /\ Goto("sched")
  /\ UNCHANGED <<k, on, live, phantom, flag>>

\* RT_IPC_CMD_RESET resumes everybody with interrupts disabled throughout.
rt_sem_control(o, v) ==
  /\ App /\ o \in live
  /\ k' = ResumeEveryone(k, o)
  /\ value' = [value EXCEPT ![o] = v]
  /\ owed' = [owed EXCEPT ![o] = @ - value[o] + v]
  /\ Goto("sched")
  /\ UNCHANGED <<on, live, phantom, flag>>

rt_sem_init(o, f, v) ==
  /\ InitObject(o)
  /\ flag' = [flag EXCEPT ![o] = f]
  /\ value' = [value EXCEPT ![o] = v]
  /\ owed' = [owed EXCEPT ![o] = v]

rt_sem_detach(o) == DetachBegin(o) /\ UNCHANGED sems

Next ==
  \/ \E o \in Sem :
       \/ \E time \in Timeouts : rt_sem_take(o, time)
       \/ rt_sem_release(o) \/ IsrRelease(o)
       \/ rt_sem_detach(o)
       \/ \E v \in 0 .. SemMax : \/ rt_sem_control(o, v)
                                \/ \E f \in Flags : rt_sem_init(o, f, v)
  \/ TakeReturn
  \/ (ResumeAllTest \/ _ipc_list_resume_all \/ Background) /\ UNCHANGED sems

Spec == Init /\ [][Next]_vars

-----------------------------------------------------------------------------
\* Nobody waits while a token is there to take.
NoIdleToken == \A o \in live \cap Sem : value[o] > 0 => k.wait[o] = <<>>

\* Tokens are neither lost nor made up: what was put in and has not been
\* returned with is still there, or has been granted to a thread that has not
\* returned yet.
TokensConserved ==
  \A o \in live \cap Sem :
    owed[o] = value[o] + Cardinality({t \in Thread : Granted(t, o)})

\* Both, whatever releases, timeouts, resets and detaches interleave.
TokensServed == TokensConserved /\ NoIdleToken

\* "The pending threads will queue in order of priority" (RT_IPC_FLAG_PRIO):
\* releases serve the most urgent waiter, whoever timed out in between.
PrioOrder == \A o \in Sem : flag[o] = "PRIO" => InPrioOrder(o)
=============================================================================
