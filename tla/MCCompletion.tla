---------------------------- MODULE MCCompletion ----------------------------
(* Instance of Completion: one thread above the idle thread, which waits,  *)
(* and interrupts, which complete.                                         *)
EXTENDS Completion

CONSTANTS reader, idle, done

MCWaiter == [o \in {done} |-> reader]
MCInitPrio == [t \in Thread |-> IF t = reader THEN 0 ELSE 1]
=============================================================================
