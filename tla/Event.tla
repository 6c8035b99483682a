-------------------------------- MODULE Event --------------------------------
(***************************************************************************)
(* The event sets of ipc.c: rt_event_send from threads and interrupts,     *)
(* rt_event_recv for all (RT_EVENT_FLAG_AND) or any (RT_EVENT_FLAG_OR) of  *)
(* some bits, with or without RT_EVENT_FLAG_CLEAR, rt_event_control with   *)
(* RT_IPC_CMD_RESET, rt_event_detach or rt_event_delete, rt_event_init.    *)
(***************************************************************************)
EXTENDS Ipc

CONSTANTS Bits,     \* the bits of an event set
          EventSet  \* the objects that are event sets

ASSUME EventAssumption == EventSet \subseteq Obj

VARIABLES event_flag,       \* how waiting threads queue
          set,        \* event->set
          event_set,  \* thread->event_set: the bits wanted, then received;
                      \* empty outside a call that waits
          option,     \* thread->event_info
          due         \* how often a send raised each bit since the last reset, less
                      \* how often a call returned with it and cleared it

events == <<event_flag, set, event_set, option, due>>

eventVars == <<ipc, events>>

Wanted == SUBSET Bits \ {{}}
Options == [all : BOOLEAN, clear : BOOLEAN]   \* all: AND, else OR

EventsTyped ==
  /\ IpcTypeOK
  /\ event_flag \in [Obj -> {"FIFO", "PRIO"}]
  /\ set \in [Obj -> SUBSET Bits]
  /\ event_set \in [Thread -> SUBSET Bits]
  /\ option \in [Thread -> Options]
  /\ due \in [Obj -> [Bits -> Int]]

NoOption == [all |-> FALSE, clear |-> FALSE]

EventsInit ==
  /\ IpcInit
  /\ event_flag \in [Obj -> {"FIFO", "PRIO"}]
  /\ set = [o \in Obj |-> {}]
  /\ event_set = [t \in Thread |-> {}]
  /\ option = [t \in Thread |-> NoOption]
  /\ due = [o \in Obj |-> [b \in Bits |-> 0]]

-----------------------------------------------------------------------------
Satisfied(have, want, opt) ==
  IF opt.all THEN want \subseteq have ELSE want \cap have # {}

\* Each of bits is raised (by 1) or returned and cleared (by -1).
Count(o, bits, by) ==
  [due EXCEPT ![o] = [b \in Bits |-> IF b \in bits THEN @[b] + by ELSE @[b]]]

\* The call asks for want.  It returns at once, gives up or blocks.
rt_event_recv(o, want, opt, time) ==
  LET hit == set[o] \cap want IN
  /\ App /\ o \in live
  /\ on' = [on EXCEPT ![k.cur] = o]
  /\ \/ /\ Satisfied(set[o], want, opt)
        /\ k' = [k EXCEPT !.error[k.cur] = "RT_EOK"]
        /\ set' = [set EXCEPT ![o] = IF opt.clear THEN @ \ want ELSE @]
        /\ due' = IF opt.clear THEN Count(o, hit, -1) ELSE due
        /\ UNCHANGED <<pc, event_set, option>>
     \/ /\ ~Satisfied(set[o], want, opt) /\ time = "none"
        /\ k' = [k EXCEPT !.error[k.cur] = "RT_ETIMEOUT"]
        /\ UNCHANGED <<pc, set, event_set, option, due>>
     \/ /\ ~Satisfied(set[o], want, opt) /\ time # "none"
        /\ event_set' = [event_set EXCEPT ![k.cur] = want]
        /\ option' = [option EXCEPT ![k.cur] = opt]
        /\ k' = Block(k, o, event_flag[o], time)
        /\ Goto("block")
        /\ UNCHANGED <<set, due>>
  /\ UNCHANGED <<live, phantom, event_flag>>

\* Back from rt_schedule: thread->error, and with RT_EOK thread->event_set.
RecvReturn ==
  LET c == k.cur IN
  /\ At("woken")
  /\ due' = IF k.error[c] = "RT_EOK" /\ option[c].clear
            THEN Count(on[c], event_set[c], -1) ELSE due
  /\ event_set' = [event_set EXCEPT ![c] = {}]
  /\ option' = [option EXCEPT ![c] = NoOption]
  /\ Goto("run")
  /\ UNCHANGED <<k, on, live, phantom, event_flag, set>>

\* Mutant: the bits that a waiting thread receives are not cleared.
ServeKeeps(a, t) ==
  LET hit == a.event_set[t] \cap a.set
  IN  IF ~Satisfied(a.set, a.event_set[t], option[t]) THEN a
      ELSE [k         |-> rt_thread_resume(a.k, t),
            event_set |-> [a.event_set EXCEPT ![t] = hit],
            set       |-> a.set]

\* One round of the loop of rt_event_send: a waiting thread that is satisfied
\* gets its bits and is resumed; what it clears is gone for the next ones.
Serve(a, t) ==
  LET hit == a.event_set[t] \cap a.set
  IN  IF ~Satisfied(a.set, a.event_set[t], option[t]) THEN a
      ELSE [k         |-> rt_thread_resume(a.k, t),
            event_set |-> [a.event_set EXCEPT ![t] = hit],
            set       |-> IF option[t].clear THEN a.set \ hit ELSE a.set]

\* Mutant: the loop ends after the first waiting thread.
SendToFirst(o, bits) ==
  LET a == [k |-> k, event_set |-> event_set, set |-> set[o] \cup bits]
  IN  IF k.wait[o] = <<>> THEN a ELSE Serve(a, Head(k.wait[o]))

SendSection(o, bits) ==
  LET after[n \in 0 .. Len(k.wait[o])] ==
        IF n = 0 THEN [k |-> k, event_set |-> event_set, set |-> set[o] \cup bits]
                 ELSE Serve(after[n - 1], k.wait[o][n])
  IN  after[Len(k.wait[o])]

\* The event set after a send; the caller reschedules if it resumed anybody.
Sent(o, bits, a) ==
  /\ set' = [set EXCEPT ![o] = a.set]
  /\ event_set' = a.event_set
  /\ due' = Count(o, bits \ set[o], 1)
  /\ UNCHANGED <<on, live, phantom, event_flag, option>>

rt_event_send(o, bits) ==
  LET a == SendSection(o, bits) IN
  /\ App /\ o \in live
  /\ k' = a.k
  /\ Goto(IF a.k # k THEN "sched" ELSE "run")
  /\ Sent(o, bits, a)

\* The same call in an interrupt handler.
IsrEventSend(o, bits) ==
  LET a == SendSection(o, bits) IN
  /\ o \in live
  /\ k' = IF a.k # k THEN rt_schedule(a.k) ELSE k
  /\ Sent(o, bits, a)
  /\ UNCHANGED pc

\* The threads that were granted b and will have cleared it.
Promised(o, b) == {t \in Thread : Granted(t, o) /\ option[t].clear /\ b \in event_set[t]}

rt_event_control(o) ==
  /\ App /\ o \in live
  /\ k' = ResumeEveryone(k, o)
  /\ set' = [set EXCEPT ![o] = {}]
  /\ Goto("sched")
  /\ due' = [due EXCEPT ![o] = [b \in Bits |-> Cardinality(Promised(o, b))]]
  /\ UNCHANGED <<on, live, phantom, event_flag, event_set, option>>

rt_event_init(o, f) ==
  /\ InitObject(o)
  /\ event_flag' = [event_flag EXCEPT ![o] = f]
  /\ set' = [set EXCEPT ![o] = {}]
  /\ due' = [due EXCEPT ![o] = [b \in Bits |-> 0]]
  /\ UNCHANGED <<event_set, option>>

rt_event_detach(o) == DetachBegin(o) /\ UNCHANGED events

EventsNext ==
  \/ \E o \in EventSet :
       \/ \E want \in Wanted, opt \in Options, time \in Timeouts :
            rt_event_recv(o, want, opt, time)
       \/ \E bits \in Wanted : rt_event_send(o, bits) \/ IsrEventSend(o, bits)
       \/ rt_event_control(o) \/ rt_event_detach(o)
       \/ \E f \in {"FIFO", "PRIO"} : rt_event_init(o, f)
  \/ RecvReturn
  \/ (ResumeAllTest \/ _ipc_list_resume_all \/ Background) /\ UNCHANGED events

EventsSpec == EventsInit /\ [][EventsNext]_eventVars

-----------------------------------------------------------------------------
\* No thread waits for an event that has happened: although waiting threads
\* clear bits from under each other, what is left satisfies none of them.
NoMissedEvent ==
  \A o \in live \cap EventSet : \A i \in DOMAIN k.wait[o] :
    LET t == k.wait[o][i] IN ~Satisfied(set[o], event_set[t], option[t])

\* A bit is received with RT_EVENT_FLAG_CLEAR once for each time a send raised
\* it: what was raised and not returned with is still in the set, or has been
\* granted to one thread that has not returned yet, and is never lost.
BitsOnce ==
  \A o \in live \cap EventSet, b \in Bits :
    Cardinality(Promised(o, b)) + (IF b \in set[o] THEN 1 ELSE 0) = due[o][b]

\* Both, for the sends and receptions of rt_event_send and rt_event_recv.
EventsServed == NoMissedEvent /\ BitsOnce
=============================================================================
