----------------------------- MODULE Completion -----------------------------
(***************************************************************************)
(* The completion of drivers/ipc/completion.c: one thread waits until an   *)
(* interrupt or another thread tells that something is done.  A completion *)
(* is a flag: to be done twice before it is waited for is to be done once. *)
(* rt_completion_done looks at the flag before it disables interrupts (pc  *)
(* "done" after that).                                                     *)
(***************************************************************************)
EXTENDS Ipc

CONSTANTS Completions,  \* the objects that are completions
          Waiter        \* the thread that waits for each: only one may be suspended

ASSUME CompletionAssumption == Completions \subseteq Obj /\ Waiter \in [Completions -> Thread]

VARIABLE completed    \* completion->flag is RT_COMPLETED

completionVars == <<ipc, completed>>

CompletionTyped == IpcTypeOK /\ completed \in [Obj -> BOOLEAN]

CompletionInit == IpcInit /\ completed = [o \in Obj |-> FALSE]

-----------------------------------------------------------------------------
\* rt_completion_wait up to its rt_schedule
rt_completion_wait(o, time) ==
  /\ App /\ k.cur = Waiter[o] /\ o \in live
  /\ on' = [on EXCEPT ![k.cur] = o]
  /\ completed' = [completed EXCEPT ![o] = FALSE]
  /\ IF ~completed[o] /\ time # "none"
     THEN k' = Block(k, o, "FIFO", time) /\ Goto("block")
     ELSE UNCHANGED <<k, pc>>
  /\ UNCHANGED <<live, phantom>>

\* The rest of it: the flag is cleared, whatever woke the thread.
WaitReturn ==
  /\ At("woken")
  /\ completed' = [completed EXCEPT ![on[k.cur]] = FALSE]
  /\ Goto("run")
  /\ UNCHANGED <<k, on, live, phantom>>

-----------------------------------------------------------------------------
\* rt_completion_done in a thread: the test
rt_completion_done(o) ==
  /\ App /\ o \in live
  /\ on' = [on EXCEPT ![k.cur] = o]
  /\ Goto(IF completed[o] THEN "run" ELSE "done")
  /\ UNCHANGED <<k, live, phantom, completed>>

Resume(o) == IF k.wait[o] # <<>> THEN rt_thread_resume(k, Head(k.wait[o])) ELSE k

\* Mutant: a flag that was set since the test ends the call, and is lost.
DoneOnce ==
  LET m == Resume(on[k.cur]) IN
  /\ At("done")
  /\ completed' = [completed EXCEPT ![on[k.cur]] = ~@]
  /\ k' = m
  /\ Goto(IF m # k THEN "sched" ELSE "run")
  /\ UNCHANGED <<on, live, phantom>>

\* Its section with interrupts disabled.
DoneSection ==
  LET m == Resume(on[k.cur]) IN
  /\ At("done")
  /\ completed' = [completed EXCEPT ![on[k.cur]] = TRUE]
  /\ k' = m
  /\ Goto(IF m # k THEN "sched" ELSE "run")
  /\ UNCHANGED <<on, live, phantom>>

\* The same call in an interrupt handler.
IsrDone(o) ==
  /\ o \in live /\ ~completed[o]
  /\ completed' = [completed EXCEPT ![o] = TRUE]
  /\ k' = IF k.wait[o] # <<>> THEN rt_schedule(Resume(o)) ELSE k
  /\ UNCHANGED <<pc, on, live, phantom>>

\* A driver sets its completion up before it uses it.
rt_completion_init(o) ==
  /\ App /\ \A t \in Thread : on[t] = o => pc[t] \notin {"block", "woken", "done"}
  /\ completed' = [completed EXCEPT ![o] = FALSE]
  /\ k' = [k EXCEPT !.wait[o] = <<>>]
  /\ UNCHANGED <<pc, on, live, phantom>>

CompletionNext ==
  \/ \E o \in Completions :
       \/ \E time \in Timeouts : rt_completion_wait(o, time)
       \/ rt_completion_done(o) \/ IsrDone(o) \/ rt_completion_init(o)
  \/ WaitReturn \/ DoneSection
  \/ Background /\ UNCHANGED completed

CompletionSpec == CompletionInit /\ [][CompletionNext]_completionVars

-----------------------------------------------------------------------------
\* Nobody waits for what is done, although rt_completion_done looks without a
\* lock and a wait may begin, end or time out right after; and a wait that was
\* granted still finds the completion, which was done for it alone.
DoneIsSeen ==
  \A o \in Completions :
    /\ completed[o] => k.wait[o] = <<>>
    /\ \A t \in Thread : Granted(t, o) => completed[o]

\* "If the return value is any other values, it means that the completion wait
\* failed": the rest of a wait that failed finds no completion to clear.
FailedWaitTakesNothing ==
  At("woken") /\ k.error[k.cur] # "RT_EOK" => ~completed[on[k.cur]]
=============================================================================
