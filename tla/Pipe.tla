-------------------------------- MODULE Pipe --------------------------------
(***************************************************************************)
(* What a byte buffer promises to one writer and one reader that run at    *)
(* the same time: the block a writer gives goes to the end as a whole,     *)
(* what the reader takes comes from the front, and nothing else changes.   *)
(***************************************************************************)
EXTENDS Integers, Sequences

CONSTANT Capacity

VARIABLES queue,   \* the bytes in the buffer
          given,   \* the block that is being written
          last     \* what was read last

Leading(q, n) == [i \in 1 .. n |-> q[i]]
Rest(q, n) == [i \in 1 .. Len(q) - n |-> q[i + n]]
Join(q, s) == [i \in 1 .. Len(q) + Len(s) |-> IF i <= Len(q) THEN q[i] ELSE s[i - Len(q)]]

Init == queue = <<>> /\ given = <<>> /\ last = <<>>

\* The writer gives a block, which is cut to what fits.
Give == given = <<>> /\ Len(queue) + Len(given') <= Capacity /\ UNCHANGED <<queue, last>>

Write == queue' = Join(queue, given) /\ given' = <<>> /\ UNCHANGED last

Read == \E n \in 1 .. Len(queue) :
          last' = Leading(queue, n) /\ queue' = Rest(queue, n) /\ UNCHANGED given

Peek == \E skip \in 0 .. Len(queue) : \E n \in 1 .. Len(queue) - skip :
          last' = Leading(Rest(queue, skip), n) /\ UNCHANGED <<queue, given>>

Skip == \E n \in 1 .. Len(queue) : queue' = Rest(queue, n) /\ UNCHANGED <<given, last>>

Reset == queue' = <<>> /\ UNCHANGED <<given, last>>

Next == Give \/ Write \/ Read \/ Peek \/ Skip \/ Reset

Spec == Init /\ [][Next]_<<queue, given, last>>
=============================================================================
