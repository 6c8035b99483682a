------------------------------- MODULE Mailbox -------------------------------
(***************************************************************************)
(* The storage of a mailbox (struct rt_mailbox): a ring of msg_pool slots  *)
(* with in_offset, out_offset and the number of mails, entry.  size is at  *)
(* most RT_MB_ENTRY_MAX, so that the test of entry against that limit      *)
(* always passes.                                                          *)
(***************************************************************************)
EXTENDS Integers, Sequences

CONSTANTS Message,    \* the values that are sent
          NoMessage,  \* the content of a slot that is not in use
          Capacity    \* mb->size

Slot == 0 .. (Capacity - 1)

MailboxState ==
  [pool : [Slot -> Message \cup {NoMessage}], entry : 0 .. Capacity, in : Slot, out : Slot]

EmptyMailbox ==
  [pool |-> [s \in Slot |-> NoMessage], entry |-> 0, in |-> 0, out |-> 0]

MailboxFull(mb) == mb.entry = Capacity

\* rt_mb_send_wait past its loop
StoreMail(mb, m) ==
  [mb EXCEPT !.pool[mb.in] = m,
             !.in    = IF @ + 1 >= Capacity THEN 0 ELSE @ + 1,
             !.entry = @ + 1]

\* Mutant: the mail is stored before out_offset is rewound.
StoreThenRewind(mb, m) ==
  [mb EXCEPT !.pool[mb.out] = m,
             !.out = IF @ > 0 THEN @ - 1 ELSE Capacity - 1, !.entry = @ + 1]

\* rt_mb_urgent: out_offset is rewound.
StoreUrgent(mb, m) ==
  LET back == IF mb.out > 0 THEN mb.out - 1 ELSE Capacity - 1
  IN  [mb EXCEPT !.pool[back] = m, !.out = back, !.entry = @ + 1]

\* rt_mb_recv past its loop; the slot keeps a value that nobody reads again.
FetchMail(mb) ==
  [mb EXCEPT !.pool[mb.out] = NoMessage,
             !.out   = IF @ + 1 >= Capacity THEN 0 ELSE @ + 1,
             !.entry = @ - 1]

\* The mails in the order in which they will be received; the ring goes on at its
\* start.
Place(i) == IF i >= Capacity THEN i - Capacity ELSE i
Mails(mb) == [i \in 1 .. mb.entry |-> mb.pool[Place(mb.out + i - 1)]]
=============================================================================
