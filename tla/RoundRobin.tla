----------------------------- MODULE RoundRobin -----------------------------
(***************************************************************************)
(* Time slicing among threads of one priority: the part of Scheduler in    *)
(* which threads are started, sleep, yield and use up their time slices.   *)
(***************************************************************************)
EXTENDS Scheduler

RRNext ==
  \/ \E t \in Thread : StartThread(t) \/ TimerExpire(t)
  \/ \E slice \in BOOLEAN : Tick(slice)
  \/ Yield \/ Sleep \/ Schedule \/ SleepReturn \/ TickEnd

\* Ticks keep coming and each handler ends; remaining_tick reaches zero after
\* init_tick of them, so among infinitely many ticks some end a slice.
RRFairness ==
  /\ WF_vars(TickEnd)
  /\ SF_vars(Tick(TRUE))

RRSpec == Init /\ [][RRNext]_vars /\ RRFairness

\* "If there are same priority thread" they share the processor by time
\* slices: a ready thread that no other thread outranks gets its turn.
EveryPeerRuns ==
  \A t \in Thread \ {Idle} : k.stat[t] = "READY" ~> k.cur = t
=============================================================================
