---------------------------- MODULE MessageQueue ----------------------------
(***************************************************************************)
(* The storage of a message queue (struct rt_messagequeue): blocks that    *)
(* are linked into the list of messages (head, tail) or into the free      *)
(* list, or belong to a call that copies a message.  max_msgs is at most   *)
(* RT_MQ_ENTRY_MAX, so that the test of entry against it always passes.    *)
(***************************************************************************)
EXTENDS Integers, Sequences, FiniteSets, SequencesExt

CONSTANTS Message,    \* the contents of messages
          NoMessage,  \* the content of a free block, which nobody reads
          Cell,       \* the blocks of msg_pool
          Null        \* RT_NULL

ASSUME QueueAssumption == /\ Null \notin Cell /\ NoMessage \notin Message
                          /\ IsFiniteSet(Cell) /\ Cell # {}

Link == Cell \cup {Null}

QueueState ==
  [next  : [Cell -> Link], body : [Cell -> Message \cup {NoMessage}],
   head  : Link, tail : Link, free : Link,
   entry : 0 .. Cardinality(Cell)]

\* The blocks reached from p along next; a cycle shows as a chain that is too
\* long.
Chain(next, p) ==
  LET walk[n \in 0 .. Cardinality(Cell) + 1] ==
        [b \in Link |-> IF n = 0 \/ b = Null THEN <<>> ELSE <<b>> \o walk[n - 1][next[b]]]
  IN  walk[Cardinality(Cell) + 1][p]

FreeBlocks(q) == Chain(q.next, q.free)
QueuedBlocks(q) == Chain(q.next, q.head)

\* The messages in the order in which they will be received.
Messages(q) ==
  LET blocks == QueuedBlocks(q) IN [i \in DOMAIN blocks |-> q.body[blocks[i]]]

-----------------------------------------------------------------------------
\* A block goes to the front of the free list.
PutFree(q, b) == [q EXCEPT !.next[b] = q.free, !.body[b] = NoMessage, !.free = b]

\* The same for some blocks, one by one.
PutAllFree(q, blocks) ==
  LET freed[i \in 0 .. Len(blocks)] == IF i = 0 THEN q ELSE PutFree(freed[i - 1], blocks[i])
  IN  freed[Len(blocks)]

NoBlocks == [next |-> [b \in Cell |-> Null], body |-> [b \in Cell |-> NoMessage],
             head |-> Null, tail |-> Null, free |-> Null, entry |-> 0]

\* rt_mq_init: every block is freed.
EmptyQueue == PutAllFree(NoBlocks, SetToSeq(Cell))

\* The first section of rt_mq_send_wait and rt_mq_urgent: the caller gets
\* q.free.
TakeFree(q) == [q EXCEPT !.free = q.next[q.free]]

\* The copy of the message and the second section of rt_mq_send_wait.
LinkLast(q, b, m) ==
  LET r == IF q.tail # Null THEN [q.next EXCEPT ![b] = Null, ![q.tail] = b]
                            ELSE [q.next EXCEPT ![b] = Null]
  IN  [q EXCEPT !.next = r, !.body[b] = m, !.tail = b,
                !.head = IF @ = Null THEN b ELSE @, !.entry = @ + 1]

\* The copy of the message and the second section of rt_mq_urgent.
LinkFirst(q, b, m) ==
  [q EXCEPT !.next[b] = q.head, !.body[b] = m, !.head = b,
            !.tail = IF @ = Null THEN b ELSE @, !.entry = @ + 1]

\* Mutant: tail keeps pointing to a block that was taken.
TakeHeadOnly(q) == [q EXCEPT !.head = q.next[q.head], !.entry = @ - 1]

\* The first section of rt_mq_recv: the caller gets q.head.
TakeHead(q) ==
  [q EXCEPT !.head = q.next[q.head],
            !.tail = IF @ = q.head THEN Null ELSE @, !.entry = @ - 1]

\* Mutant: the messages are dropped, their blocks are not freed.
ForgetMessages(q) == [q EXCEPT !.head = Null, !.tail = Null, !.entry = 0]

\* RT_IPC_CMD_RESET frees every message.
FreeMessages(q) ==
  [PutAllFree(q, QueuedBlocks(q)) EXCEPT !.head = Null, !.tail = Null, !.entry = 0]
=============================================================================
