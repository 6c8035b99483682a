-------------------------------- MODULE Timer --------------------------------
(***************************************************************************)
(* The timers of timer.c: the list of hard timers, checked by the tick     *)
(* interrupt; the list of soft timers, checked by the timer thread         *)
(* (_timer_thread_entry); and that thread's waits, which use a hard timer  *)
(* of its own.  Ticks are counted modulo Ticks, as rt_tick_t counts them   *)
(* modulo 2^32.  A timer state is a record with the fields               *)
(*   tick           rt_tick                                                *)
(*   list           _timer_list and _soft_timer_list                       *)
(*   timeout, init  timeout_tick (0 while the timer is on no list: it is   *)
(*                  written before it is read again) and init_tick         *)
(*   periodic, active  the timers with RT_TIMER_FLAG_PERIODIC, _ACTIVATED  *)
(*   local          the list head on the stack of rt_soft_timer_check      *)
(*   busy           _soft_timer_status is RT_SOFT_TIMER_BUSY               *)
(*   stat           the timer thread: "READY" (or running) or "SUSPEND"    *)
(* and two fields that no code reads: left, the real number of ticks until *)
(* a timer is due, and early, whether a timer was ever taken too soon.     *)
(***************************************************************************)
EXTENDS Clock, Lists

CONSTANTS Hard, Soft,   \* the timers of either kind that applications use
          ThreadTimer,  \* the thread_timer of the timer thread, a hard timer
          AnyTime       \* TRUE: interrupts, or threads more urgent than the
                        \* timer thread, use timers too

ASSUME TimerAssumption ==
  /\ Hard \cap Soft = {} /\ ThreadTimer \notin Hard \cup Soft
  /\ AnyTime \in BOOLEAN

Timers == Hard \cup Soft \cup {ThreadTimer}

VARIABLES timing,        \* the timer state
          thread_at,     \* where the timer thread is
          next_timeout,  \* its local variable
          handler_at,    \* "none", or "check" inside rt_timer_check
          slack          \* ticks that passed while it computed its delay

timingVars == <<timing, thread_at, next_timeout, handler_at, slack>>

ThreadPlaces == {"next", "empty", "found", "delay", "check", "callback"}
ListKinds == {"hard", "soft"}
Kind(t) == IF t \in Soft THEN "soft" ELSE "hard"

TimerState ==
  [tick     : Tick,
   list     : [ListKinds -> Seq(Timers)],
   timeout  : [Timers -> Tick],
   init     : [Hard \cup Soft -> Times],
   periodic : SUBSET (Hard \cup Soft),
   active   : SUBSET Timers,
   local    : {<<>>} \cup {<<t>> : t \in Timers},
   busy     : BOOLEAN,
   stat     : {"READY", "SUSPEND"},
   left     : [Timers -> Int],
   early    : BOOLEAN]

TimersTyped ==
  /\ timing \in TimerState
  /\ thread_at \in ThreadPlaces
  /\ next_timeout \in Tick /\ slack \in Nat
  /\ handler_at \in {"none", "check"}

TimersInit ==
  /\ \E tm \in [Hard \cup Soft -> Times], per \in SUBSET (Hard \cup Soft) :
       timing = [tick     |-> 0,
                 list     |-> [l \in ListKinds |-> <<>>],
                 timeout  |-> [t \in Timers |-> 0],
                 init     |-> tm,
                 periodic |-> per,
                 active   |-> {},
                 local    |-> <<>>,
                 busy     |-> FALSE,
                 stat     |-> "READY",
                 left     |-> [t \in Timers |-> 0],
                 early    |-> FALSE]
  /\ thread_at = "next" /\ next_timeout = 0 /\ handler_at = "none" /\ slack = 0

-----------------------------------------------------------------------------
(* The functions of timer.c that run with interrupts disabled *)

_timer_remove(m, t) ==
  [m EXCEPT !.list    = [l \in ListKinds |-> Unlink(m.list[l], t)],
            !.local   = Unlink(@, t),
            !.timeout = [@ EXCEPT ![t] = 0],
            !.left    = [@ EXCEPT ![t] = 0]]

\* Mutant: the timer is marked as stopped and stays on its list.
StopFlagOnly(m, t) == [m EXCEPT !.active = @ \ {t}]

rt_timer_stop(m, t) == [_timer_remove(m, t) EXCEPT !.active = @ \ {t}]

\* rt_thread_resume (&_timer_thread)
ResumeTimerThread(m) == [rt_timer_stop(m, ThreadTimer) EXCEPT !.stat = "READY"]

\* The new timer goes before the first timer that is due after it, in the
\* order of ticks modulo Ticks; behind timers that are due at the same time.
Position(m, s, due) ==
  LET later == {i \in DOMAIN s : /\ m.timeout[s[i]] # due
                                 /\ (m.timeout[s[i]] - due) % Ticks < Half}
  IN  IF later = {} THEN Len(s) + 1
      ELSE CHOOSE i \in later : \A j \in later : i <= j

\* Mutant: the sum of ticks does not wrap around.
InsertUnwrapped(m, t, d) ==
  LET r   == rt_timer_stop(m, t)
      due == m.tick + d
      s   == r.list[Kind(t)]
  IN  [r EXCEPT !.list[Kind(t)] = InsertAt(s, Position(r, s, due), t),
                !.timeout[t]    = due,
                !.left[t]       = d,
                !.active        = @ \cup {t}]

InsertTimer(m, t, d) ==
  LET r   == rt_timer_stop(m, t)
      due == (m.tick + d) % Ticks
      s   == r.list[Kind(t)]
  IN  [r EXCEPT !.list[Kind(t)] = InsertAt(s, Position(r, s, due), t),
                !.timeout[t]    = due,
                !.left[t]       = d,
                !.active        = @ \cup {t}]

\* Mutants: the timer thread is not woken; it is woken in a callback too.
StartSilent(m, t) == InsertTimer(m, t, m.init[t])

StartAlwaysWakes(m, t) ==
  LET r == InsertTimer(m, t, m.init[t])
  IN  IF t \in Soft /\ r.stat = "SUSPEND" THEN ResumeTimerThread(r) ELSE r

\* A soft timer wakes the timer thread, unless that thread is in a callback.
rt_timer_start(m, t) ==
  LET r == InsertTimer(m, t, m.init[t])
  IN  IF t \in Soft /\ ~r.busy /\ r.stat = "SUSPEND" THEN ResumeTimerThread(r) ELSE r

\* Mutant: ticks are compared as numbers.
ExpiredPlain(m, t) == m.tick >= m.timeout[t]

Expired(m, t) == (m.tick - m.timeout[t]) % Ticks < Half

HeadExpired(m, l) == m.list[l] # <<>> /\ Expired(m, Head(m.list[l]))

\* A timer that has expired moves to the local list.
TakeExpired(m, t) ==
  LET r == _timer_remove(m, t)
  IN  [r EXCEPT !.active = IF t \in m.periodic THEN @ ELSE @ \ {t},
                !.local  = <<t>>,
                !.early  = @ \/ m.left[t] > 0]

\* After the callback: unless it stopped or restarted the timer, which takes
\* it off the local list, a periodic timer starts again.
AfterCallback(m) ==
  IF m.local = <<>> THEN m
  ELSE LET t == Head(m.local)
           r == [m EXCEPT !.local = <<>>]
       IN  IF t \in r.periodic /\ t \in r.active THEN rt_timer_start(r, t) ELSE r

\* rt_thread_suspend and rt_timer_start in rt_thread_sleep, by the timer thread.
SleepFor(m, d) ==
  InsertTimer([rt_timer_stop(m, ThreadTimer) EXCEPT !.stat = "SUSPEND"], ThreadTimer, d)

-----------------------------------------------------------------------------
(* Applications.  They run in callbacks of soft timers and in threads that *)
(* are less urgent than the timer thread, so while it waits; with AnyTime, *)
(* in interrupts and in more urgent threads, at any time.                  *)

CanUseTimers ==
  /\ handler_at = "none"
  /\ AnyTime \/ timing.stat = "SUSPEND" \/ thread_at = "callback"

UserStarts(t) ==
  /\ CanUseTimers
  /\ timing' = rt_timer_start(timing, t)
  /\ UNCHANGED <<thread_at, next_timeout, handler_at, slack>>

\* rt_timer_stop (whose test of ACTIVATED, made before interrupts are
\* disabled, may be out of date), rt_timer_detach and rt_timer_delete.
UserStops(t) ==
  /\ CanUseTimers
  /\ timing' = rt_timer_stop(timing, t)
  /\ UNCHANGED <<thread_at, next_timeout, handler_at, slack>>

\* rt_timer_control: SET_TIME, SET_PERIODIC, SET_ONESHOT.
UserControls(t) ==
  /\ CanUseTimers
  /\ \/ \E d \in Times : timing' = [timing EXCEPT !.init[t] = d]
     \/ timing' = [timing EXCEPT !.periodic = @ \cup {t}]
     \/ timing' = [timing EXCEPT !.periodic = @ \ {t}]
  /\ UNCHANGED <<thread_at, next_timeout, handler_at, slack>>

-----------------------------------------------------------------------------
(* The tick interrupt *)

\* Other threads and callbacks keep the timer thread from a soft timer that
\* is due, or from its call of rt_thread_delay, for MaxLate ticks at most.
LateBy(d) == \E t \in Soft : Member(t, timing.list["soft"]) /\ timing.left[t] - d < -MaxLate

TickDue ==
  /\ handler_at = "none"
  /\ LateBy(1) => ThreadTimer \in timing.active
  /\ thread_at = "delay" => slack < MaxLate

TickIncrease ==
  /\ TickDue
  /\ timing' = [timing EXCEPT !.tick = (@ + 1) % Ticks,
                         !.left = [t \in Timers |->
                                     IF \E l \in ListKinds : Member(t, timing.list[l])
                                     THEN @[t] - 1 ELSE @[t]]]
  /\ handler_at' = "check"
  /\ slack' = IF thread_at = "delay" THEN slack + 1 ELSE slack
  /\ UNCHANGED <<thread_at, next_timeout>>

\* One round of rt_timer_check: the callback of a hard timer may stop it or
\* start it again; that of the timer thread's own timer is _thread_timeout.
HardCallback(m, t, does) ==
  IF t = ThreadTimer THEN [m EXCEPT !.stat = "READY"]
  ELSE CASE does = "nothing" -> m
         [] does = "stop" -> rt_timer_stop(m, t)
         [] does = "start" -> rt_timer_start(m, t)

\* The local list of rt_timer_check is another variable than that of
\* rt_soft_timer_check, which may be in use.
rt_timer_check(does) ==
  LET t == Head(timing.list["hard"])
      r == AfterCallback(HardCallback(TakeExpired(timing, t), t, does))
  IN  /\ handler_at = "check" /\ HeadExpired(timing, "hard")
      /\ timing' = [r EXCEPT !.local = timing.local]
      /\ UNCHANGED <<thread_at, next_timeout, handler_at, slack>>

TickEnd ==
  /\ handler_at = "check" /\ ~HeadExpired(timing, "hard")
  /\ handler_at' = "none"
  /\ UNCHANGED <<timing, thread_at, next_timeout, slack>>

-----------------------------------------------------------------------------
(* The timer thread *)

ThreadRuns(label) == handler_at = "none" /\ timing.stat = "READY" /\ thread_at = label

_timer_list_next_timeout ==
  /\ ThreadRuns("next")
  /\ IF timing.list["soft"] = <<>>
     THEN thread_at' = "empty" /\ UNCHANGED next_timeout
     ELSE thread_at' = "found" /\ next_timeout' = timing.timeout[Head(timing.list["soft"])]
  /\ UNCHANGED <<timing, handler_at, slack>>

\* No soft timer exists: the thread suspends itself.
SuspendSelf ==
  /\ ThreadRuns("empty")
  /\ timing' = [rt_timer_stop(timing, ThreadTimer) EXCEPT !.stat = "SUSPEND"]
  /\ thread_at' = "check"
  /\ UNCHANGED <<next_timeout, handler_at, slack>>

\* next_timeout becomes the number of ticks to wait.
ReadTick ==
  /\ ThreadRuns("found")
  /\ IF (next_timeout - timing.tick) % Ticks < Half
     THEN thread_at' = "delay" /\ next_timeout' = (next_timeout - timing.tick) % Ticks
     ELSE thread_at' = "check" /\ UNCHANGED next_timeout
  /\ UNCHANGED <<timing, handler_at, slack>>

\* Mutant: the delay does not arm the thread's timer.
DelayUnarmed ==
  /\ ThreadRuns("delay")
  /\ timing' = [rt_timer_stop(timing, ThreadTimer) EXCEPT !.stat = "SUSPEND"]
  /\ thread_at' = "check" /\ next_timeout' = 0
  /\ UNCHANGED <<handler_at, slack>>

DelayThread ==
  /\ ThreadRuns("delay")
  /\ timing' = SleepFor(timing, next_timeout)
  /\ thread_at' = "check" /\ next_timeout' = 0
  /\ UNCHANGED <<handler_at, slack>>

\* From one test of the list in rt_soft_timer_check to the next callback, or
\* to the end of the loop.
NextExpired(m) ==
  /\ timing' = IF HeadExpired(m, "soft")
               THEN [TakeExpired(m, Head(m.list["soft"])) EXCEPT !.busy = TRUE] ELSE m
  /\ thread_at' = IF HeadExpired(m, "soft") THEN "callback" ELSE "next"
  /\ next_timeout' = 0 /\ slack' = 0
  /\ UNCHANGED handler_at

rt_soft_timer_check == ThreadRuns("check") /\ NextExpired(timing)

CallbackEnd ==
  /\ ThreadRuns("callback")
  /\ NextExpired(AfterCallback([timing EXCEPT !.busy = FALSE]))

\* A callback of a soft timer may wait.
CallbackDelay(d) ==
  /\ ThreadRuns("callback") /\ ~LateBy(d)
  /\ timing' = SleepFor(timing, d)
  /\ UNCHANGED <<thread_at, next_timeout, handler_at, slack>>

-----------------------------------------------------------------------------
\* A step of the timer thread that gets it on.
ThreadStep ==
  \/ _timer_list_next_timeout \/ SuspendSelf \/ ReadTick \/ DelayThread
  \/ rt_soft_timer_check \/ CallbackEnd

TimersNext ==
  \/ \E t \in Hard \cup Soft : UserStarts(t) \/ UserStops(t) \/ UserControls(t)
  \/ TickIncrease \/ TickEnd
  \/ \E does \in {"nothing", "stop", "start"} : rt_timer_check(does)
  \/ ThreadStep
  \/ \E d \in Times : CallbackDelay(d)

TimersSpec == TimersInit /\ [][TimersNext]_timingVars

\* The tick interrupt keeps coming and its handler ends; the timer thread gets
\* the processor when it is ready, although ticks interrupt it; callbacks end.
HandlerStep == TickEnd \/ \E does \in {"nothing", "stop", "start"} : rt_timer_check(does)

TickFairness == WF_timingVars(TickIncrease) /\ WF_timingVars(HandlerStep)

ThreadFairness == SF_timingVars(ThreadStep)

FairTimersSpec == TimersSpec /\ TickFairness /\ ThreadFairness

-----------------------------------------------------------------------------
(* Properties *)

Listed(t, l) == Member(t, timing.list[l])

\* Each list is in the order in which its timers are due.
InOrder(l) ==
  \A i, j \in DOMAIN timing.list[l] :
    i < j => timing.left[timing.list[l][i]] <= timing.left[timing.list[l][j]]

\* The timer thread, when it waits for the first soft timer, wakes up in time:
\* it oversleeps only by the ticks that passed while it computed its delay.
WakesInTime ==
  timing.stat = "SUSPEND" /\ ~timing.busy /\ timing.list["soft"] # <<>> =>
    /\ ThreadTimer \in timing.active
    /\ timing.left[ThreadTimer] <= timing.left[Head(timing.list["soft"])] + slack

\* A timer is linked once, on the list of its kind or on the local list, and a
\* linked timer that has not expired is an activated one: starting, stopping
\* and restarting in callbacks never leaves a stray node.  Although ticks wrap
\* around, rt_timer_start keeps each list in order, so that it is enough that
\* the checks and _timer_thread_entry look at the head only.
TimersSound ==
  /\ \A l \in ListKinds :
       /\ IsInjective(timing.list[l])
       /\ \A t \in Timers : Listed(t, l) =>
            l = Kind(t) /\ t \in timing.active /\ timing.local # <<t>>
       /\ InOrder(l)
  /\ WakesInTime

\* No timer expires before its time, and when the tick handler (rt_timer_check)
\* ends no hard timer is overdue, over the wrap of the tick counter too.
OnTime ==
  /\ ~timing.early
  /\ handler_at = "none" => \A t \in Timers : Listed(t, "hard") => timing.left[t] >= 0

\* A callback that waits is not woken by somebody who starts a soft timer.
CallbackDelayKept ==
  [][timing.busy /\ timing.stat = "SUSPEND" /\ timing'.stat = "READY" =>
       timing.left[ThreadTimer] <= 0]_timingVars

\* "If a timeout event happens, the corresponding timeout function will be
\* invoked": a soft timer that is due is taken, stopped or started again.
SoftTimerFires ==
  \A t \in Soft : (Listed(t, "soft") /\ timing.left[t] <= 0)
                    ~> ~(Listed(t, "soft") /\ timing.left[t] <= 0)
=============================================================================
