---------------------------- MODULE MCRoundRobin ----------------------------
(* Instances of RoundRobin: two or three threads at one priority.          *)
EXTENDS RoundRobin

CONSTANTS main, a, b, idle

Two == {main, a, idle}
Three == {main, a, b, idle}
PeerPrio == [t \in Thread |-> IF t = idle THEN 1 ELSE 0]
=============================================================================
