------------------------------ MODULE Channels ------------------------------
(***************************************************************************)
(* Threads and interrupts that use a mailbox or a message queue of ipc.c.  *)
(* A call that finds no room (a send) or no message (a receive) waits on   *)
(* tx or rx; when it is resumed it looks again, since somebody else may    *)
(* have been faster, and waits again with the rest of its timeout.  The    *)
(* calls on a message queue copy the message with interrupts enabled,      *)
(* between the section that takes a block and the one that links it.       *)
(***************************************************************************)
EXTENDS Ipc, MessageQueue

CONSTANTS rx, tx   \* the lists parent.suspend_thread and suspend_sender_thread

ASSUME ChannelsAssumption == rx \in Obj /\ tx \in Obj /\ rx # tx

Sides == {rx, tx}

Capacity == Cardinality(Cell)   \* mq->max_msgs, and mb->size

INSTANCE Mailbox

VARIABLES kind,   \* "mailbox" or "queue"
          chan_flag,   \* how waiting threads queue
          mb, mq, \* the storage, of which one is in use
          left,   \* the timeout left to the waiting call of each thread
          mail,   \* the message it sends
          block   \* the block that belongs to it

store == <<mb, mq>>
calls == <<left, mail, block>>
channel == <<kind, chan_flag, store, calls>>
channelVars == <<ipc, channel>>

ChannelsTyped ==
  /\ IpcTypeOK
  /\ kind \in {"mailbox", "queue"} /\ chan_flag \in {"FIFO", "PRIO"}
  /\ mb \in MailboxState /\ mq \in QueueState
  /\ left \in [Thread -> Timeouts] /\ mail \in [Thread -> Message \cup {NoMessage}]
  /\ block \in [Thread -> Link]

ChannelsInit ==
  /\ IpcInit
  /\ kind \in {"mailbox", "queue"} /\ chan_flag \in {"FIFO", "PRIO"}
  /\ mb = EmptyMailbox
  /\ mq = EmptyQueue
  /\ left = [t \in Thread |-> "none"]
  /\ mail = [t \in Thread |-> NoMessage]
  /\ block = [t \in Thread |-> Null]

-----------------------------------------------------------------------------
(* The storage in use *)

Room == IF kind = "mailbox" THEN ~MailboxFull(mb) ELSE mq.free # Null
Filled == IF kind = "mailbox" THEN mb.entry > 0 ELSE mq.entry > 0

\* Mutant: those who wait on the other side are only resumed by a call that
\* finds the storage empty or full.
ResumeAtEdge(o) ==
  IF k.wait[o] # <<>> /\ (IF o = rx THEN ~Filled ELSE ~Room) THEN _ipc_list_resume(k, o) ELSE k

\* The section that ends a call resumes the first of those who wait on the
\* other side.
ResumeFirst(o) == IF k.wait[o] # <<>> THEN _ipc_list_resume(k, o) ELSE k

\* A call is over; what it kept on its stack is forgotten.
Over == /\ left' = [left EXCEPT ![k.cur] = "none"]
        /\ mail' = [mail EXCEPT ![k.cur] = NoMessage]
        /\ block' = [block EXCEPT ![k.cur] = Null]
        /\ on' = [on EXCEPT ![k.cur] = rx]

Finish(o) == /\ k' = ResumeFirst(o)
             /\ Goto(IF k.wait[o] # <<>> THEN "sched" ELSE "run")
             /\ Over

\* The first section of a call on a message queue ends with a block in hand.
Hold(b, m, label) == /\ block' = [block EXCEPT ![k.cur] = b]
                     /\ mail' = [mail EXCEPT ![k.cur] = m]
                     /\ left' = [left EXCEPT ![k.cur] = "none"]
                     /\ Goto(label)
                     /\ UNCHANGED <<k, on>>

\* A send that has room, and a receive that finds a message: rt_mb_send_wait
\* and rt_mb_recv end in this section, rt_mq_send_wait and rt_mq_recv have
\* another one (LinkMessage, FreeBlock).
Send(m) ==
  \/ kind = "mailbox" /\ mb' = StoreMail(mb, m) /\ Finish(rx) /\ UNCHANGED mq
  \/ kind = "queue" /\ mq' = TakeFree(mq) /\ Hold(mq.free, m, "link") /\ UNCHANGED mb

Receive ==
  \/ kind = "mailbox" /\ mb' = FetchMail(mb) /\ Finish(tx) /\ UNCHANGED mq
  \/ kind = "queue" /\ mq' = TakeHead(mq) /\ Hold(mq.head, NoMessage, "free") /\ UNCHANGED mb

\* The body of the waiting loops of all four services.
Wait(o, m, time) ==
  /\ k' = Block(k, o, chan_flag, time)
  /\ Goto("block")
  /\ on' = [on EXCEPT ![k.cur] = o]
  /\ left' = [left EXCEPT ![k.cur] = time]
  /\ mail' = [mail EXCEPT ![k.cur] = m]
  /\ UNCHANGED <<store, block>>

-----------------------------------------------------------------------------
(* Calls by threads *)

Usable == App /\ Sides \subseteq live /\ UNCHANGED <<live, phantom, kind, chan_flag>>

\* rt_mb_send_wait, rt_mq_send_wait; with no timeout rt_mb_send, rt_mq_send
rt_send_wait(m, time) ==
  /\ Usable
  /\ \/ Room /\ Send(m)
     \/ ~Room /\ time = "none" /\ UNCHANGED <<k, pc, on, store, calls>>
     \/ ~Room /\ time # "none" /\ Wait(tx, m, time)

\* rt_mb_recv, rt_mq_recv
rt_recv(time) ==
  /\ Usable
  /\ \/ Filled /\ Receive
     \/ ~Filled /\ time = "none" /\ UNCHANGED <<k, pc, on, store, calls>>
     \/ ~Filled /\ time # "none" /\ Wait(rx, NoMessage, time)

\* rt_mb_urgent, rt_mq_urgent
rt_urgent(m) ==
  /\ Usable
  /\ \/ /\ Room /\ kind = "mailbox"
        /\ mb' = StoreUrgent(mb, m) /\ Finish(rx) /\ UNCHANGED mq
     \/ /\ Room /\ kind = "queue"
        /\ mq' = TakeFree(mq) /\ Hold(mq.free, m, "urgent") /\ UNCHANGED mb
     \/ ~Room /\ UNCHANGED <<k, pc, on, store, calls>>

\* A call that was resumed: a number of ticks may have come down to none, a
\* wait for ever stays one.
Rest(time) == IF time = "some" THEN {"some", "none"} ELSE {time}

Woken(o) == At("woken") /\ on[k.cur] = o /\ UNCHANGED <<live, phantom, kind, chan_flag>>

WaitFailed(o) ==
  /\ Woken(o) /\ k.error[k.cur] # "RT_EOK"
  /\ Goto("run") /\ Over
  /\ UNCHANGED <<k, store>>

SendAgain ==
  \E time \in Rest(left[k.cur]) :
    /\ Woken(tx) /\ k.error[k.cur] = "RT_EOK"
    /\ \/ Room /\ Send(mail[k.cur])
       \/ ~Room /\ time = "none" /\ Goto("run") /\ Over /\ UNCHANGED <<k, store>>
       \/ ~Room /\ time # "none" /\ Wait(tx, mail[k.cur], time)

RecvAgain ==
  \E time \in Rest(left[k.cur]) :
    /\ Woken(rx) /\ k.error[k.cur] = "RT_EOK"
    /\ \/ Filled /\ Receive
       \/ /\ ~Filled /\ time = "none"
          /\ k' = [k EXCEPT !.error[k.cur] = "RT_ETIMEOUT"]
          /\ Goto("run") /\ Over
          /\ UNCHANGED store
       \/ ~Filled /\ time # "none" /\ Wait(rx, NoMessage, time)

\* The second sections of the calls on a message queue.
LinkMessage ==
  /\ \/ At("link") /\ mq' = LinkLast(mq, block[k.cur], mail[k.cur])
     \/ At("urgent") /\ mq' = LinkFirst(mq, block[k.cur], mail[k.cur])
  /\ Finish(rx)
  /\ UNCHANGED <<live, phantom, kind, chan_flag, mb>>

FreeBlock ==
  /\ At("free")
  /\ mq' = PutFree(mq, block[k.cur])
  /\ Finish(tx)
  /\ UNCHANGED <<live, phantom, kind, chan_flag, mb>>

\* RT_IPC_CMD_RESET of rt_mb_control and rt_mq_control
rt_control ==
  /\ Usable
  /\ k' = ResumeEveryone(ResumeEveryone(k, rx), tx)
  /\ IF kind = "mailbox" THEN mb' = EmptyMailbox /\ UNCHANGED mq
                         ELSE mq' = FreeMessages(mq) /\ UNCHANGED mb
  /\ Goto("sched")
  /\ UNCHANGED <<on, calls>>

\* rt_mb_detach, rt_mq_detach and the delete services: _ipc_list_resume_all
\* for rx, then for tx.
rt_detach ==
  /\ App /\ Sides \subseteq live
  /\ live' = live \ Sides
  /\ on' = [on EXCEPT ![k.cur] = rx]
  /\ Goto("test")
  /\ UNCHANGED <<k, phantom, channel>>

DetachSenders ==
  /\ At("test") /\ on[k.cur] = rx /\ k.wait[rx] = <<>>
  /\ on' = [on EXCEPT ![k.cur] = tx]
  /\ UNCHANGED <<k, pc, live, phantom, channel>>

\* rt_mb_init or rt_mq_init, once nobody is in a call any more.
rt_init(f) ==
  /\ App /\ Sides \cap live = {}
  /\ \A t \in Thread : pc[t] \in {"run", "sched", "sleep"}
  /\ live' = live \cup Sides
  /\ k' = [k EXCEPT !.wait[rx] = <<>>, !.wait[tx] = <<>>]
  /\ chan_flag' = f
  /\ mb' = EmptyMailbox
  /\ mq' = EmptyQueue
  /\ UNCHANGED <<pc, on, phantom, kind, calls>>

-----------------------------------------------------------------------------
(* Calls by interrupt handlers, which do not wait: both sections at once *)

Isr(o) ==
  /\ Sides \subseteq live
  /\ k' = IF k.wait[o] # <<>> THEN rt_schedule(ResumeFirst(o)) ELSE k
  /\ UNCHANGED <<pc, on, live, phantom, kind, chan_flag, calls>>

IsrSend(m) ==
  /\ Room /\ Isr(rx)
  /\ IF kind = "mailbox"
     THEN mb' = StoreMail(mb, m) /\ UNCHANGED mq
     ELSE mq' = LinkLast(TakeFree(mq), mq.free, m) /\ UNCHANGED mb

IsrUrgent(m) ==
  /\ Room /\ Isr(rx)
  /\ IF kind = "mailbox"
     THEN mb' = StoreUrgent(mb, m) /\ UNCHANGED mq
     ELSE mq' = LinkFirst(TakeFree(mq), mq.free, m) /\ UNCHANGED mb

IsrRecv ==
  /\ Filled /\ Isr(tx)
  /\ IF kind = "mailbox"
     THEN mb' = FetchMail(mb) /\ UNCHANGED mq
     ELSE mq' = PutFree(TakeHead(mq), mq.head) /\ UNCHANGED mb

-----------------------------------------------------------------------------
\* _ipc_list_resume_all is over with one list or goes on with it.
DetachStep ==
  \/ DetachSenders
  \/ (on[k.cur] = tx \/ k.wait[rx] # <<>>) /\ ResumeAllTest /\ UNCHANGED channel
  \/ _ipc_list_resume_all /\ UNCHANGED channel

ChannelsNext ==
  \/ \E m \in Message : \/ \E time \in Timeouts : rt_send_wait(m, time)
                        \/ rt_urgent(m) \/ IsrSend(m) \/ IsrUrgent(m)
  \/ \E time \in Timeouts : rt_recv(time)
  \/ IsrRecv \/ SendAgain \/ RecvAgain \/ WaitFailed(rx) \/ WaitFailed(tx)
  \/ LinkMessage \/ FreeBlock
  \/ rt_control \/ rt_detach \/ DetachStep \/ \E f \in {"FIFO", "PRIO"} : rt_init(f)
  \/ Background /\ UNCHANGED channel

ChannelsSpec == ChannelsInit /\ [][ChannelsNext]_channelVars

-----------------------------------------------------------------------------
\* Seen from outside a mailbox or a message queue is a Channel: whatever the
\* order in which calls wait, look again, are preempted while they copy, are
\* reset or detached, no message is lost, repeated or overtaken.
Contents == IF kind = "mailbox" THEN Mails(mb) ELSE Messages(mq)

Abstract == INSTANCE Channel WITH queue <- Contents

ImplementsChannel == Abstract!Spec

\* Every block of a message queue is in one place: free, in the list of
\* messages, or in the hands of one call; entry, which receivers test, is the
\* number of messages, and tail is the last of them.
BlocksOwned ==
  LET queued == QueuedBlocks(mq)
      linked == FreeBlocks(mq) \o queued
  IN  /\ IsInjective(linked)
      /\ \A b \in Cell : Cardinality({t \in Thread : block[t] = b})
                           + (IF Member(b, linked) THEN 1 ELSE 0) = 1
      /\ mq.entry = Len(queued)
      /\ mq.tail = IF mq.head = Null THEN Null ELSE Last(queued)

\* Nobody is forgotten on a list: while threads wait for a message, every
\* message that is there is for a receiver that was resumed and has not run
\* yet; the same for room and senders.
NobodyForgotten ==
  Sides \subseteq live =>
    /\ k.wait[rx] # <<>> => (IF kind = "mailbox" THEN mb.entry ELSE mq.entry) <= Resumed(rx)
    /\ k.wait[tx] # <<>> => (IF kind = "mailbox" THEN Capacity - mb.entry
                             ELSE Len(FreeBlocks(mq))) <= Resumed(tx)

\* "When the mailbox is successfully detached, it will resume all suspended
\* threads in the mailbox list": no thread is suspended on the mailbox or the
\* message queue at the test that ends rt_mb_detach or rt_mq_detach.
NobodyLeftWaiting ==
  At("test") /\ on[k.cur] = tx /\ k.wait[tx] = <<>> => k.wait[rx] = <<>>
=============================================================================
