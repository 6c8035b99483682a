------------------------------- MODULE Channel -------------------------------
(***************************************************************************)
(* What a mailbox and a message queue promise: a bounded queue of messages *)
(* that loses, repeats and reorders nothing.  An urgent message goes to    *)
(* the front, a reset empties the queue.                                   *)
(***************************************************************************)
EXTENDS Naturals, Sequences

CONSTANTS Message, Capacity

VARIABLE queue

Put(m) == Len(queue) < Capacity /\ queue' = Append(queue, m)

Urgent(m) == Len(queue) < Capacity /\ queue' = <<m>> \o queue

Get == queue # <<>> /\ queue' = Tail(queue)

Reset == queue' = <<>>

Next == Get \/ Reset \/ \E m \in Message : Put(m) \/ Urgent(m)

Spec == queue = <<>> /\ [][Next]_queue
=============================================================================
