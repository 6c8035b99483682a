------------------------------ MODULE DataQueue ------------------------------
(***************************************************************************)
(* The data queue of drivers/ipc/dataqueue.c: threads push and pop with a  *)
(* timeout, interrupts without one.  A pop resumes a thread that waits to  *)
(* push only when it leaves no more than lwm items.  A call that is        *)
(* resumed looks again and waits again with its whole timeout.             *)
(*   "critical"  in rt_data_queue_reset, before rt_enter_critical          *)
(*   "again"     before the rt_schedule of its rt_exit_critical            *)
(* The callback evt_notify and rt_data_queue_peek change nothing of the    *)
(* queue and are left out.                                                 *)
(***************************************************************************)
EXTENDS Ipc

CONSTANTS Data, NoData,
          Size,           \* queue->size
          pops, pushes    \* suspended_pop_list, suspended_push_list

ASSUME DataQueueAssumption ==
  /\ Size \in Nat \ {0} /\ NoData \notin Data
  /\ pops \in Obj /\ pushes \in Obj /\ pops # pushes

Ends == {pops, pushes}

VARIABLES dq,      \* the ring
          lwm,     \* queue->lwm
          pending, \* the timeout of the call of each thread that waits
          data     \* the item it pushes

dqCalls == <<pending, data>>
dataQueue == <<dq, lwm, dqCalls>>
dataQueueVars == <<ipc, dataQueue>>

DataSlot == 0 .. (Size - 1)

DataRing == [queue : [DataSlot -> Data \cup {NoData}],
             get_index : DataSlot, put_index : DataSlot,
             is_empty : BOOLEAN, is_full : BOOLEAN]

DataQueueTyped ==
  /\ IpcTypeOK
  /\ dq \in DataRing /\ lwm \in DataSlot
  /\ pending \in [Thread -> Timeouts] /\ data \in [Thread -> Data \cup {NoData}]

\* After rt_data_queue_init, and after rt_data_queue_reset, since nobody reads
\* what the slots still hold.
NewDataRing == [queue |-> [n \in DataSlot |-> NoData], get_index |-> 0, put_index |-> 0,
                is_empty |-> TRUE, is_full |-> FALSE]

DataQueueInit ==
  /\ IpcInit
  /\ dq = NewDataRing /\ lwm \in DataSlot
  /\ pending = [t \in Thread |-> "none"] /\ data = [t \in Thread |-> NoData]

-----------------------------------------------------------------------------
(* The ring *)

\* Mutant: an index does not come back to the start.
NoWrapAround(n) == n

WrapAround(n) == IF n = Size THEN 0 ELSE n

rt_data_queue_len(r) ==
  CASE r.is_empty                -> 0
    [] r.put_index > r.get_index -> r.put_index - r.get_index
    [] OTHER                     -> Size + r.put_index - r.get_index

Stored(r, d) ==
  LET put == WrapAround(r.put_index + 1)
  IN  [r EXCEPT !.queue[r.put_index] = d, !.put_index = put,
                !.is_empty = FALSE, !.is_full = (put = r.get_index)]

\* Mutant: the indices are compared before get_index moves.
FetchedEarly(r) ==
  [r EXCEPT !.queue[r.get_index] = NoData,
            !.get_index = WrapAround(r.get_index + 1), !.is_full = FALSE,
            !.is_empty = (r.put_index = r.get_index)]

\* The slot keeps an item that nobody reads again.
Fetched(r) ==
  LET get == WrapAround(r.get_index + 1)
  IN  [r EXCEPT !.queue[r.get_index] = NoData, !.get_index = get,
                !.is_full = FALSE, !.is_empty = (r.put_index = get)]

ResumeHead(o) == IF k.wait[o] # <<>> THEN rt_thread_resume(k, Head(k.wait[o])) ELSE k

\* Mutant: a thread is resumed only at the low water mark itself.
ResumedAtMark == IF rt_data_queue_len(Fetched(dq)) = lwm THEN ResumeHead(pushes) ELSE k

\* The kernel after the pop of an item.
ResumedByPop == IF rt_data_queue_len(Fetched(dq)) <= lwm THEN ResumeHead(pushes) ELSE k

-----------------------------------------------------------------------------
(* Calls by threads *)

DataCalls == App /\ Ends \subseteq live /\ UNCHANGED <<live, phantom, lwm>>

\* The end of a call that leaves the kernel in m; what the call kept on its stack
\* is forgotten.
EndOfCall(m) ==
  /\ k' = m
  /\ Goto(IF m # k THEN "sched" ELSE "run")
  /\ pending' = [pending EXCEPT ![k.cur] = "none"]
  /\ data' = [data EXCEPT ![k.cur] = NoData]
  /\ on' = [on EXCEPT ![k.cur] = pops]

\* The body of the waiting loops.
WaitOn(o, d, time) ==
  /\ k' = Block(k, o, "FIFO", time)
  /\ Goto("block")
  /\ on' = [on EXCEPT ![k.cur] = o]
  /\ pending' = [pending EXCEPT ![k.cur] = time]
  /\ data' = [data EXCEPT ![k.cur] = d]
  /\ UNCHANGED dq

PushItem(d, time) ==
  \/ ~dq.is_full /\ dq' = Stored(dq, d) /\ EndOfCall(ResumeHead(pops))
  \/ dq.is_full /\ time # "none" /\ WaitOn(pushes, d, time)
  \/ dq.is_full /\ time = "none" /\ EndOfCall(k) /\ UNCHANGED dq

PopItem(time) ==
  \/ ~dq.is_empty /\ dq' = Fetched(dq) /\ EndOfCall(ResumedByPop)
  \/ dq.is_empty /\ time # "none" /\ WaitOn(pops, NoData, time)
  \/ dq.is_empty /\ time = "none" /\ EndOfCall(k) /\ UNCHANGED dq

rt_data_queue_push(d, time) == DataCalls /\ PushItem(d, time)
rt_data_queue_pop(time) == DataCalls /\ PopItem(time)

\* Back from rt_schedule: an error ends the call, else the loop goes on.
WokenFrom(o) == At("woken") /\ on[k.cur] = o /\ UNCHANGED <<live, phantom, lwm>>

PushAgain == WokenFrom(pushes) /\ k.error[k.cur] = "RT_EOK" /\ PushItem(data[k.cur], pending[k.cur])
PopAgain == WokenFrom(pops) /\ k.error[k.cur] = "RT_EOK" /\ PopItem(pending[k.cur])

FailedOn(o) == WokenFrom(o) /\ k.error[k.cur] # "RT_EOK" /\ EndOfCall(k) /\ UNCHANGED dq

-----------------------------------------------------------------------------
(* rt_data_queue_reset and rt_data_queue_deinit *)

ResetRing ==
  /\ App /\ Ends \subseteq live
  /\ dq' = NewDataRing
  /\ Goto("critical")
  /\ UNCHANGED <<k, on, lwm, dqCalls, phantom>>

rt_data_queue_reset == ResetRing /\ UNCHANGED live

\* The application uses the queue no more when it calls rt_data_queue_deinit,
\* which resets it and frees the ring: the other threads are outside its
\* services, or suspended on it, or have failed.
rt_data_queue_deinit ==
  /\ ResetRing
  /\ \A t \in Thread : \/ pc[t] \in {"run", "sched", "sleep"}
                       \/ InCall(t, on[t]) /\ ~Granted(t, on[t])
  /\ live' = live \ Ends

WithinReset == UNCHANGED <<live, phantom, dq, lwm, dqCalls>>

EnterCritical ==
  /\ At("critical") /\ WithinReset
  /\ k' = rt_enter_critical(k)
  /\ on' = [on EXCEPT ![k.cur] = pops]
  /\ Goto("test")

\* The test of a list; after the second one, rt_exit_critical.
TestList ==
  /\ At("test") /\ WithinReset
  /\ \/ k.wait[on[k.cur]] # <<>> /\ Goto("each") /\ UNCHANGED <<k, on>>
     \/ /\ k.wait[on[k.cur]] = <<>> /\ on[k.cur] = pops
        /\ on' = [on EXCEPT ![k.cur] = pushes]
        /\ UNCHANGED <<k, pc>>
     \/ /\ k.wait[on[k.cur]] = <<>> /\ on[k.cur] = pushes
        /\ k' = rt_exit_critical(k)
        /\ Goto("again")
        /\ on' = [on EXCEPT ![k.cur] = pops]

\* The rt_schedule of rt_exit_critical; one more follows.
ScheduleAgain ==
  /\ At("again") /\ WithinReset
  /\ k' = rt_schedule(k)
  /\ Goto("sched")
  /\ UNCHANGED on

rt_data_queue_init(mark) ==
  /\ App /\ Ends \cap live = {}
  /\ \A t \in Thread : pc[t] \in {"run", "sleep"}
  /\ live' = live \cup Ends
  /\ k' = [k EXCEPT !.wait[pops] = <<>>, !.wait[pushes] = <<>>]
  /\ dq' = NewDataRing /\ lwm' = mark
  /\ UNCHANGED <<pc, on, phantom, dqCalls>>

-----------------------------------------------------------------------------
(* Calls by interrupt handlers, which do not wait *)

DataIsr(m) ==
  /\ Ends \subseteq live
  /\ k' = IF m # k THEN rt_schedule(m) ELSE k
  /\ UNCHANGED <<pc, on, live, phantom, lwm, dqCalls>>

IsrPush(d) == ~dq.is_full /\ dq' = Stored(dq, d) /\ DataIsr(ResumeHead(pops))
IsrPop == ~dq.is_empty /\ dq' = Fetched(dq) /\ DataIsr(ResumedByPop)

DataQueueNext ==
  \/ \E d \in Data : IsrPush(d) \/ \E time \in Timeouts : rt_data_queue_push(d, time)
  \/ \E time \in Timeouts : rt_data_queue_pop(time)
  \/ IsrPop \/ PushAgain \/ PopAgain \/ FailedOn(pops) \/ FailedOn(pushes)
  \/ rt_data_queue_reset \/ rt_data_queue_deinit \/ EnterCritical \/ TestList
  \/ ScheduleAgain \/ \E mark \in DataSlot : rt_data_queue_init(mark)
  \/ (_ipc_list_resume_all \/ Background) /\ UNCHANGED dataQueue

DataQueueSpec == DataQueueInit /\ [][DataQueueNext]_dataQueueVars

-----------------------------------------------------------------------------
\* The items from get_index on are a Channel: whoever waits, is overtaken and
\* looks again, no item is lost, repeated or overtaken.
ItemsHeld == [n \in 1 .. rt_data_queue_len(dq) |-> dq.queue[(dq.get_index + n - 1) % Size]]

AsChannel == INSTANCE Channel WITH queue <- ItemsHeld, Message <- Data, Capacity <- Size

QueuesItems == AsChannel!Spec

\* Nobody is forgotten: who waits to pop is outnumbered by the threads that
\* were resumed for the items there are, and once no more than lwm items are
\* left, a thread was resumed for each item below the mark, although those that
\* were resumed may be overtaken and wait again.  While a reset is going on, it
\* has the waiting threads in hand.
PeersServed ==
  Ends \subseteq live /\ (\A t \in Thread : pc[t] \notin {"critical", "test", "each"}) =>
    /\ k.wait[pops] # <<>> => rt_data_queue_len(dq) <= Resumed(pops)
    /\ k.wait[pushes] # <<>> => lwm + 1 <= rt_data_queue_len(dq) + Resumed(pushes)
=============================================================================
