----------------------------- MODULE MCChannels -----------------------------
(* Instance of Channels: two threads, of different urgency or of the same, *)
(* above the idle thread, interrupts, two messages and room for two.       *)
EXTENDS Channels

CONSTANTS hi, lo, idle, m1, m2, c1, c2

MCThread == {hi, lo, idle}
MCInitPrio == [t \in Thread |-> CASE t = hi -> 0 [] t = lo -> 1 [] t = idle -> 2]
MCSamePrio == [t \in Thread |-> IF t = idle THEN 1 ELSE 0]

\* The blocks are put into the free list of a new message queue in some order of
\* their names, which nothing else tells apart.
Symmetry == Permutations(Message) \cup Permutations(Cell)
=============================================================================
