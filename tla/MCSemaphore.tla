---------------------------- MODULE MCSemaphore ----------------------------
(* Instances of Semaphore: two or three threads above the idle thread and  *)
(* one semaphore.                                                          *)
EXTENDS Semaphore

CONSTANTS hi, mid, lo, idle, sem

Two == {hi, lo, idle}
Three == {hi, mid, lo, idle}
MCInitPrio == [t \in Thread |-> CASE t = hi -> 0 [] t = mid -> 1 [] t = lo -> 1 [] t = idle -> 2]
=============================================================================
