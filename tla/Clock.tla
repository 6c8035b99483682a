------------------------------- MODULE Clock -------------------------------
(* The tick counter of clock.c, which wraps around, and the times that the *)
(* timers of timer.c are given in it.                                      *)
EXTENDS Integers

CONSTANTS Ticks,    \* RT_TICK_MAX + 1
          Times,    \* the init_ticks of the timers
          MaxLate   \* bound on how late the timer thread comes to a timer

Tick == 0 .. (Ticks - 1)
Half == (Ticks - 1) \div 2   \* RT_TICK_MAX / 2

\* Times below Half are asserted by the code.  A time of zero is left out: a
\* periodic timer of no ticks would never let rt_timer_check end.
ASSUME ClockAssumption ==
  /\ Ticks \in Nat /\ Ticks > 4
  /\ Times \subseteq 1 .. (Half - 1)
  /\ MaxLate \in 0 .. (Half - 2)   \* a delay of no ticks adds one
=============================================================================
