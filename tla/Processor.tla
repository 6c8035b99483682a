------------------------------ MODULE Processor ------------------------------
(***************************************************************************)
(* What the context switch promises: the thread that rt_schedule chose     *)
(* last is the one that executes, and it goes on where its own code was.   *)
(* The place of a thread in its code is counted modulo Places.             *)
(***************************************************************************)
EXTENDS Naturals

CONSTANTS Thread, Places

VARIABLES current, place

Choose(t) == current' = t /\ UNCHANGED place

Execute == place' = [place EXCEPT ![current] = (@ + 1) % Places] /\ UNCHANGED current

Next == Execute \/ \E t \in Thread : Choose(t)

Init == current \in Thread /\ place = [t \in Thread |-> 0]

Spec == Init /\ [][Next]_<<current, place>>
=============================================================================
