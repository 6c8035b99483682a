------------------------------- MODULE MCMutex -------------------------------
(* Instances of Mutex: two or three threads of different urgency above the *)
(* idle thread, one or two mutexes.                                        *)
EXTENDS Mutex

CONSTANTS hi, mid, lo, idle, m1, m2

Two == {hi, lo, idle}
Three == {hi, mid, lo, idle}
MCInitPrio == [t \in Thread |-> CASE t = hi -> 0 [] t = mid -> 1 [] t = lo -> 2 [] t = idle -> 3]
=============================================================================
