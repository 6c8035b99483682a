----------------------------- MODULE MCScheduler -----------------------------
(* Instance of Scheduler for TLC: main and one worker at two priorities    *)
(* above the idle thread's.                                                *)
EXTENDS Scheduler

CONSTANTS main, a, idle

MCThread == {main, a, idle}
MCInitPrio == (main :> 0) @@ (a :> 1) @@ (idle :> 2)
=============================================================================
