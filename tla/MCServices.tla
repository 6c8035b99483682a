----------------------------- MODULE MCServices -----------------------------
(***************************************************************************)
(* Instances of Semaphore, Event, Channels, Completion and DataQueue for   *)
(* the same two threads of different urgency in one run, which takes one   *)
(* of them at the start.  Interrupts call them all.                        *)
(*   event:      two bits (m1, m2)                                         *)
(*   channel:    two messages, room for two                                *)
(*   completion: one for each thread to wait for                           *)
(*   data queue: two items, room for two                                   *)
(***************************************************************************)
EXTENDS Semaphore, Event, Channels, Completion, DataQueue

CONSTANTS hi, lo, idle, sem, ev, for_hi, for_lo, m1, m2, c1, c2

VARIABLE service   \* the one this behaviour is about

all == <<service, ipc, sems, events, channel, completed, dataQueue>>

Two == {hi, lo, idle}
Urgency == [t \in Two |-> CASE t = hi -> 0 [] t = lo -> 1 [] t = idle -> 2]
Waiters == (for_hi :> hi) @@ (for_lo :> lo)

\* The blocks are put into the free list of a new message queue in some order of
\* their names, which nothing else tells apart.
Symmetry == Permutations({m1, m2}) \cup Permutations({c1, c2})

\* An object of a kind that nobody uses has the values of one that is at rest.
NoSemaphore(objects) == \A o \in objects : flag[o] = "FIFO" /\ value[o] = 0
NoEvent(objects) == \A o \in objects : event_flag[o] = "FIFO"
NoChannel == kind = "mailbox" /\ chan_flag = "FIFO"

ServicesInit ==
  /\ service \in {"semaphore", "event", "channel", "completion", "queue"}
  /\ Init /\ NoSemaphore(IF service = "semaphore" THEN Obj \ Sem ELSE Obj)
  /\ EventsInit /\ NoEvent(IF service = "event" THEN Obj \ EventSet ELSE Obj)
  /\ ChannelsInit /\ (service = "channel" \/ NoChannel)
  /\ CompletionInit
  /\ DataQueueInit /\ (service = "queue" \/ lwm = 0)

Only(s) == service = s /\ UNCHANGED service

ServicesNext ==
  \/ Only("semaphore") /\ Next /\ UNCHANGED <<events, channel, completed, dataQueue>>
  \/ Only("event") /\ EventsNext /\ UNCHANGED <<sems, channel, completed, dataQueue>>
  \/ Only("channel") /\ ChannelsNext /\ UNCHANGED <<sems, events, completed, dataQueue>>
  \/ Only("completion") /\ CompletionNext /\ UNCHANGED <<sems, events, channel, dataQueue>>
  \/ Only("queue") /\ DataQueueNext /\ UNCHANGED <<sems, events, channel, completed>>

ServicesSpec == ServicesInit /\ [][ServicesNext]_all

-----------------------------------------------------------------------------
\* The properties of the services are their own; here are their types.
ServicesTyped == CASE service = "semaphore"  -> TypeOK
                   [] service = "event"      -> EventsTyped
                   [] service = "channel"    -> ChannelsTyped
                   [] service = "completion" -> CompletionTyped
                   [] service = "queue"      -> DataQueueTyped
=============================================================================
