------------------------------ MODULE WorkQueue ------------------------------
(***************************************************************************)
(* A work queue of drivers/ipc/workqueue.c: threads and work functions     *)
(* submit items at once, first of all or after a delay, and cancel them;   *)
(* the worker thread runs them one at a time.  Each call is one section    *)
(* with interrupts disabled, except that a delayed submission starts the   *)
(* timer of its item afterwards, and that rt_workqueue_cancel_work_sync    *)
(* looks at work_current without any lock before it waits.                 *)
(*                                                                         *)
(* The timer thread (RT_TIMER_THREAD_PRIO 4) is more urgent than all these *)
(* threads, so that an expiry and its callback are one step.               *)
(***************************************************************************)
EXTENDS Naturals, FiniteSets, Lists

CONSTANTS Submitter, Item,
          Preempting, \* the threads more urgent than the worker
          Worker,   \* work_thread, which calls the services in work functions
          None,
          TakeTurns, \* TRUE: calls on an item wait for each other
          KeepDelay  \* TRUE: an item that waits for its delay is not
                     \* submitted without one

ASSUME QueueAssumption ==
  /\ None \notin Item /\ Preempting \subseteq Submitter
  /\ TakeTurns \in BOOLEAN /\ KeepDelay \in BOOLEAN

VARIABLES work_list, delayed_list, work_current,
          worker_at,   \* where the worker is
          workqueue,   \* the items whose work->workqueue is not null
          submitting,  \* the items with RT_WORK_STATE_SUBMITTING
          timer,       \* the items whose timer runs
          caller, arg, \* where the callers are, and their item
          failed,      \* an assertion failed: the system stands still
          promise      \* history: what the last call on an item promised

itemVars == <<work_list, delayed_list, workqueue, submitting, timer, promise>>
queueVars == <<itemVars, work_current, worker_at, caller, arg, failed>>

Caller == Submitter \cup {Worker}

QueueTyped ==
  /\ work_list \in Seq(Item) /\ delayed_list \in Seq(Item)
  /\ IsInjective(work_list \o delayed_list)
  /\ work_current \in Item \cup {None}
  /\ worker_at \in {"fetch", "suspended", "run", "ack"}
  /\ workqueue \subseteq Item /\ submitting \subseteq Item /\ timer \subseteq Item
  /\ caller \in [Caller -> {"idle", "start", "sync", "wait"}]
  /\ arg \in [Caller -> Item \cup {None}]
  /\ failed \in BOOLEAN
  /\ promise \in [Item -> {"none", "queue", "delay"}]

QueueInit ==
  /\ work_list = <<>> /\ delayed_list = <<>> /\ work_current = None
  /\ worker_at = "fetch"
  /\ workqueue = {} /\ submitting = {} /\ timer = {}
  /\ caller = [t \in Caller |-> "idle"] /\ arg = [t \in Caller |-> None]
  /\ failed = FALSE
  /\ promise = [w \in Item |-> "none"]

-----------------------------------------------------------------------------
\* Who has the processor: an urgent thread in the middle of a call keeps it; a
\* thread that is not gets it while the worker sleeps or a work function blocks.
Between == \E t \in Preempting : caller[t] \in {"start", "sync"}
MayCall(t) ==
  CASE t \in Preempting -> TRUE
    [] t = Worker   -> worker_at = "run" /\ ~Between
    [] OTHER        -> worker_at \in {"suspended", "run"} /\ ~Between

Turn(w) == TakeTurns => \A t \in Caller : ~(caller[t] = "start" /\ arg[t] = w)
Undelayed(w) == KeepDelay => w \notin submitting

Calls(t, w) == ~failed /\ caller[t] = "idle" /\ MayCall(t) /\ Turn(w)

Reached(t, label) == ~failed /\ caller[t] = label /\ MayCall(t)
Proceed(t, label, w) == caller' = [caller EXCEPT ![t] = label] /\ arg' = [arg EXCEPT ![t] = w]

Promise(w, p) == promise' = [promise EXCEPT ![w] = p]

\* rt_thread_resume of work_thread if it is suspended
Resume ==
  worker_at' = IF work_current = None /\ worker_at = "suspended" THEN "fetch" ELSE worker_at

-----------------------------------------------------------------------------
\* _workqueue_submit_work with no ticks; a running item is refused, and is
\* taken off the lists all the same.
rt_workqueue_dowork(t, w) ==
  /\ Calls(t, w) /\ Undelayed(w)
  /\ delayed_list' = Unlink(delayed_list, w)
  /\ IF work_current # w
     THEN /\ work_list' = Append(Unlink(work_list, w), w)
          /\ workqueue' = workqueue \cup {w}
          /\ Promise(w, "queue")
     ELSE /\ work_list' = Unlink(work_list, w)
          /\ Promise(w, "none")
          /\ UNCHANGED workqueue
  /\ Resume
  /\ UNCHANGED <<submitting, timer, work_current, caller, arg, failed>>

\* _workqueue_submit_work with ticks, up to the start of the timer
rt_workqueue_submit_work(t, w) ==
  /\ Calls(t, w)
  /\ work_list' = Unlink(work_list, w)
  /\ delayed_list' = Append(Unlink(delayed_list, w), w)
  /\ timer' = timer \ {w}
  /\ submitting' = submitting \cup {w}
  /\ workqueue' = workqueue \cup {w}
  /\ Promise(w, "delay")
  /\ Proceed(t, "start", w)
  /\ UNCHANGED <<work_current, worker_at, failed>>

\* The rt_timer_start after it, which asserts that the timer is not detached.
StartItsTimer(t) ==
  /\ Reached(t, "start")
  /\ IF arg[t] \in submitting THEN timer' = timer \cup {arg[t]} /\ UNCHANGED failed
                              ELSE failed' = TRUE /\ UNCHANGED timer
  /\ Proceed(t, "idle", None)
  /\ UNCHANGED <<work_list, delayed_list, workqueue, submitting, promise, work_current, worker_at>>

rt_workqueue_urgent_work(t, w) ==
  /\ Calls(t, w) /\ Undelayed(w)
  /\ work_list' = <<w>> \o Unlink(work_list, w)
  /\ delayed_list' = Unlink(delayed_list, w)
  /\ Promise(w, "queue")
  /\ Resume
  /\ UNCHANGED <<workqueue, submitting, timer, work_current, caller, arg, failed>>

\* Mutant: a cancelled item keeps its timer.
CancelList(ws) ==
  /\ workqueue' = workqueue \ ws
  /\ promise' = [w \in Item |-> IF w \in ws THEN "none" ELSE promise[w]]
  /\ UNCHANGED <<timer, submitting>>

\* _workqueue_cancel_work of each of some items, apart from the lists
Cancel(ws) ==
  /\ workqueue' = workqueue \ ws
  /\ timer' = timer \ (ws \cap submitting) /\ submitting' = submitting \ ws
  /\ promise' = [w \in Item |-> IF w \in ws THEN "none" ELSE promise[w]]

rt_workqueue_cancel_work(t, w) ==
  /\ Calls(t, w)
  /\ work_list' = Unlink(work_list, w) /\ delayed_list' = Unlink(delayed_list, w)
  /\ Cancel({w})
  /\ UNCHANGED <<work_current, worker_at, caller, arg, failed>>

rt_workqueue_cancel_all_work(t) ==
  /\ \A w \in Item : Calls(t, w)
  /\ work_list' = <<>> /\ delayed_list' = <<>>
  /\ Cancel(Range(work_list) \cup Range(delayed_list))
  /\ UNCHANGED <<work_current, worker_at, caller, arg, failed>>

\* The test of work_current; the other branch is a rt_workqueue_cancel_work.
rt_workqueue_cancel_work_sync(t, w) ==
  /\ t # Worker /\ Calls(t, w)
  /\ work_current = w
  /\ Proceed(t, "sync", w)
  /\ UNCHANGED <<itemVars, work_current, worker_at, failed>>

\* rt_sem_take of queue->sem, whose value is 0 whenever a thread can take it
TakeSem(t) ==
  /\ Reached(t, "sync")
  /\ Proceed(t, "wait", arg[t])
  /\ UNCHANGED <<itemVars, work_current, worker_at, failed>>

_delayed_work_timeout_handler(w) ==
  /\ ~failed /\ w \in timer
  /\ timer' = timer \ {w}
  /\ IF w \notin workqueue
     THEN failed' = TRUE /\ UNCHANGED <<work_list, delayed_list, submitting, promise, worker_at>>
     ELSE /\ submitting' = submitting \ {w}
          /\ delayed_list' = Unlink(delayed_list, w)
          /\ IF work_current # w
             THEN work_list' = Append(Unlink(work_list, w), w) /\ Promise(w, "queue")
             ELSE work_list' = Unlink(work_list, w) /\ Promise(w, "none")
          /\ Resume
          /\ UNCHANGED failed
  /\ UNCHANGED <<workqueue, work_current, caller, arg>>

-----------------------------------------------------------------------------
\* _workqueue_thread_entry, when no urgent thread keeps the processor.
Working(s) == ~failed /\ worker_at = s /\ ~Between

Suspend ==
  /\ Working("fetch") /\ work_list = <<>>
  /\ worker_at' = "suspended"
  /\ UNCHANGED <<itemVars, work_current, caller, arg, failed>>

Fetch ==
  /\ Working("fetch") /\ work_list # <<>>
  /\ work_current' = Head(work_list)
  /\ work_list' = Tail(work_list)
  /\ workqueue' = workqueue \ {Head(work_list)}
  /\ Promise(Head(work_list), "none")
  /\ worker_at' = "run"
  /\ UNCHANGED <<delayed_list, submitting, timer, caller, arg, failed>>

\* The work function returns.
WorkDone ==
  /\ Working("run") /\ caller[Worker] = "idle"
  /\ work_current' = None
  /\ worker_at' = "ack"
  /\ UNCHANGED <<itemVars, caller, arg, failed>>

\* Mutant: one of the threads that wait is woken.
AckOne ==
  /\ Working("ack")
  /\ worker_at' = "fetch"
  /\ IF \E t \in Submitter : caller[t] = "wait"
     THEN \E t \in Submitter : caller[t] = "wait" /\ Proceed(t, "idle", None)
     ELSE UNCHANGED <<caller, arg>>
  /\ UNCHANGED <<itemVars, work_current, failed>>

\* _workqueue_work_completion releases the semaphore until nobody waits.
_workqueue_work_completion ==
  /\ Working("ack")
  /\ worker_at' = "fetch"
  /\ caller' = [t \in Caller |-> IF caller[t] = "wait" THEN "idle" ELSE caller[t]]
  /\ arg' = [t \in Caller |-> IF caller[t] = "wait" THEN None ELSE arg[t]]
  /\ UNCHANGED <<itemVars, work_current, failed>>

_workqueue_thread_entry == Suspend \/ Fetch \/ WorkDone \/ _workqueue_work_completion

QueueNext ==
  \/ \E t \in Caller :
       \/ \E w \in Item :
            \/ rt_workqueue_dowork(t, w) \/ rt_workqueue_submit_work(t, w)
            \/ rt_workqueue_urgent_work(t, w)
            \/ rt_workqueue_cancel_work(t, w) \/ rt_workqueue_cancel_work_sync(t, w)
       \/ rt_workqueue_cancel_all_work(t)
       \/ StartItsTimer(t) \/ TakeSem(t)
  \/ \E w \in Item : _delayed_work_timeout_handler(w)
  \/ _workqueue_thread_entry

\* The scheduler runs the worker and every call that is under way when they may
\* run, and a work function ends, however often other calls come in between: SF.
Progress(t) == StartItsTimer(t) \/ TakeSem(t)
QueueFairness == SF_queueVars(_workqueue_thread_entry) /\ \A t \in Caller : SF_queueVars(Progress(t))

QueueSpec == QueueInit /\ [][QueueNext]_queueVars
FairQueueSpec == QueueSpec /\ QueueFairness

-----------------------------------------------------------------------------
\* An item is where the last call on it (rt_workqueue_dowork,
\* rt_workqueue_submit_work, rt_workqueue_urgent_work, rt_workqueue_cancel_work) put
\* it, although timers, the worker and other calls move it as well: waiting to be run, and then the worker does
\* not sleep; waiting for its delay, with a timer to end it; or, once it was
\* cancelled, refused or fetched, in neither list and with no timer, so that
\* it does not run again.  No assertion fails on the way.
PromiseKept ==
  /\ ~failed
  /\ work_list # <<>> => worker_at # "suspended"
  /\ \A w \in Item :
       LET starting == \E t \in Caller : caller[t] = "start" /\ arg[t] = w IN
       /\ promise[w] = "queue" <=> w \in Range(work_list)
       /\ promise[w] = "delay" <=> w \in Range(delayed_list)
       /\ promise[w] = "delay" <=> starting \/ w \in timer

\* rt_workqueue_cancel_work_sync returns to a thread that the worker cannot
\* preempt between the test of work_current and the wait.
UrgentSyncReturns == \A t \in Preempting : caller[t] \in {"sync", "wait"} ~> caller[t] = "idle"

\* The same for every thread, as its comment has it: "If the work item is
\* executing, this function will block until it is done."
SyncReturnsToAll == \A t \in Submitter : caller[t] \in {"sync", "wait"} ~> caller[t] = "idle"

\* The RT_ASSERT(queue != RT_NULL) of _delayed_work_timeout_handler holds, and so
\* does the one of rt_timer_start.
NoAssertionFails == ~failed
=============================================================================
