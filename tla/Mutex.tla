-------------------------------- MODULE Mutex --------------------------------
(***************************************************************************)
(* The recursive mutexes of ipc.c with priority inheritance: rt_mutex_take *)
(* and rt_mutex_trytake, rt_mutex_release, rt_mutex_detach or              *)
(* rt_mutex_delete, and rt_mutex_init.  rt_mutex_control changes nothing.  *)
(***************************************************************************)
EXTENDS Ipc, Limits

CONSTANT Nobody   \* owner == RT_NULL

ASSUME MutexAssumption == Nobody \notin Thread

VARIABLES value,     \* mutex->value, 1 when free
          owner,     \* mutex->owner
          original,  \* mutex->original_priority
          hold,      \* mutex->hold
          depth      \* takes minus releases that each thread has been told of

mutexes == <<value, owner, original, hold, depth>>

vars == <<ipc, mutexes>>

NoPriority == 255

TypeOK ==
  /\ IpcTypeOK
  /\ value \in [Obj -> {0, 1}]
  /\ owner \in [Obj -> Thread \cup {Nobody}]
  /\ original \in [Obj -> Prio \cup {NoPriority}]
  /\ hold \in [Obj -> 0 .. HoldMax]
  /\ depth \in [Thread -> [Obj -> Nat]]

Init ==
  /\ IpcInit
  /\ value = [o \in Obj |-> 1]
  /\ owner = [o \in Obj |-> Nobody]
  /\ original = [o \in Obj |-> NoPriority]
  /\ hold = [o \in Obj |-> 0]
  /\ depth = [t \in Thread |-> [o \in Obj |-> 0]]

-----------------------------------------------------------------------------
\* Mutants: hold is not limited; taking the mutex again overwrites the
\* priority to go back to.
TakeUnlimited(o) ==
  /\ owner[o] = k.cur
  /\ hold' = [hold EXCEPT ![o] = @ + 1]
  /\ depth' = [depth EXCEPT ![k.cur][o] = @ + 1]
  /\ k' = [k EXCEPT !.error[k.cur] = "RT_EOK"]
  /\ UNCHANGED <<pc, value, owner, original>>

TakeOverwrites(o) ==
  /\ owner[o] = k.cur
  /\ hold' = IF hold[o] < HoldMax THEN [hold EXCEPT ![o] = @ + 1] ELSE hold
  /\ depth' = IF hold[o] < HoldMax THEN [depth EXCEPT ![k.cur][o] = @ + 1] ELSE depth
  /\ original' = [original EXCEPT ![o] = k.prio[k.cur]]
  /\ k' = [k EXCEPT !.error[k.cur] = "RT_EOK"]
  /\ UNCHANGED <<pc, value, owner>>

\* The caller takes the mutex once more, or for the first time; the take is
\* refused when hold is at its limit (-RT_EFULL).
TakeAgain(o) ==
  /\ owner[o] = k.cur
  /\ hold' = IF hold[o] < HoldMax THEN [hold EXCEPT ![o] = @ + 1] ELSE hold
  /\ depth' = IF hold[o] < HoldMax THEN [depth EXCEPT ![k.cur][o] = @ + 1] ELSE depth
  /\ k' = [k EXCEPT !.error[k.cur] = "RT_EOK"]
  /\ UNCHANGED <<pc, value, owner, original>>

TakeFree(o) ==
  /\ owner[o] # k.cur /\ value[o] > 0
  /\ value' = [value EXCEPT ![o] = @ - 1]
  /\ owner' = [owner EXCEPT ![o] = k.cur]
  /\ original' = [original EXCEPT ![o] = k.prio[k.cur]]
  /\ hold' = [hold EXCEPT ![o] = @ + 1]
  /\ depth' = [depth EXCEPT ![k.cur][o] = @ + 1]
  /\ k' = [k EXCEPT !.error[k.cur] = "RT_EOK"]
  /\ UNCHANGED pc

TakeRefused(o) ==
  /\ owner[o] # k.cur /\ value[o] = 0
  /\ k' = [k EXCEPT !.error[k.cur] = "RT_ETIMEOUT"]
  /\ UNCHANGED <<pc, mutexes>>

\* Mutants: nothing is inherited; the comparison is the wrong way round.
InheritNothing(o) == k

InheritReversed(o) ==
  IF k.prio[k.cur] > k.prio[owner[o]]
  THEN ChangePriority(k, owner[o], k.prio[k.cur]) ELSE k

\* The owner inherits the priority of a more urgent caller, and the caller
\* is suspended.
Inherit(o) ==
  IF k.prio[k.cur] < k.prio[owner[o]]
  THEN ChangePriority(k, owner[o], k.prio[k.cur]) ELSE k

TakeBlocks(o, time) ==
  /\ owner[o] # k.cur /\ value[o] = 0
  /\ k' = Block(Inherit(o), o, "PRIO", time)
  /\ Goto("block")
  /\ UNCHANGED mutexes

rt_mutex_take(o, time) ==
  /\ App /\ o \in live
  /\ \/ TakeAgain(o)
     \/ TakeFree(o)
     \/ time = "none" /\ TakeRefused(o)
     \/ time # "none" /\ TakeBlocks(o, time)
  /\ on' = [on EXCEPT ![k.cur] = o]
  /\ UNCHANGED <<live, phantom>>

TakeReturn ==
  /\ At("woken")
  /\ depth' = IF k.error[k.cur] = "RT_EOK"
              THEN [depth EXCEPT ![k.cur][on[k.cur]] = @ + 1] ELSE depth
  /\ Goto("run")
  /\ UNCHANGED <<k, on, live, phantom, value, owner, original, hold>>

\* The owner's last release takes it back to the priority it had when it
\* became the owner.
Restore(o) ==
  IF original[o] # k.prio[k.cur] THEN ChangePriority(k, k.cur, original[o]) ELSE k

\* Mutant: the new owner's hold is not counted.
HandOverUnheld(o) ==
  LET next == Head(k.wait[o]) IN
  /\ k.wait[o] # <<>>
  /\ owner' = [owner EXCEPT ![o] = next]
  /\ original' = [original EXCEPT ![o] = k.prio[next]]
  /\ hold' = [hold EXCEPT ![o] = 0]
  /\ UNCHANGED value
  /\ k' = _ipc_list_resume(Restore(o), o)
  /\ Goto("sched")

\* The first waiter becomes the owner before it runs.
HandOver(o) ==
  LET next == Head(k.wait[o]) IN
  /\ k.wait[o] # <<>>
  /\ owner' = [owner EXCEPT ![o] = next]
  /\ original' = [original EXCEPT ![o] = k.prio[next]]
  /\ UNCHANGED <<value, hold>>
  /\ k' = _ipc_list_resume(Restore(o), o)
  /\ Goto("sched")

GiveUp(o) ==
  /\ k.wait[o] = <<>>
  /\ value' = [value EXCEPT ![o] = @ + 1]
  /\ owner' = [owner EXCEPT ![o] = Nobody]
  /\ original' = [original EXCEPT ![o] = NoPriority]
  /\ hold' = [hold EXCEPT ![o] = 0]
  /\ k' = Restore(o)
  /\ UNCHANGED pc

ReleaseInner(o) ==
  /\ hold' = [hold EXCEPT ![o] = @ - 1]
  /\ UNCHANGED <<k, pc, value, owner, original>>

rt_mutex_release(o) ==
  /\ App /\ o \in live
  /\ \/ /\ owner[o] = k.cur
        /\ depth' = [depth EXCEPT ![k.cur][o] = @ - 1]
        /\ \/ hold[o] > 1 /\ ReleaseInner(o)
           \/ hold[o] = 1 /\ (HandOver(o) \/ GiveUp(o))
     \/ /\ owner[o] # k.cur
        /\ k' = [k EXCEPT !.error[k.cur] = "RT_ERROR"]
        /\ UNCHANGED <<pc, mutexes>>
  /\ UNCHANGED <<on, live, phantom>>

rt_mutex_detach(o) == DetachBegin(o) /\ UNCHANGED mutexes

\* A mutex that was detached while it had an owner is not set up again: its
\* holder could neither release it nor know that it no longer holds it.
rt_mutex_init(o) ==
  /\ InitObject(o) /\ owner[o] = Nobody
  /\ value' = [value EXCEPT ![o] = 1]
  /\ owner' = [owner EXCEPT ![o] = Nobody]
  /\ original' = [original EXCEPT ![o] = NoPriority]
  /\ hold' = [hold EXCEPT ![o] = 0]
  /\ depth' = [t \in Thread |-> [depth[t] EXCEPT ![o] = 0]]

Next ==
  \/ \E o \in Obj : \/ \E time \in Timeouts : rt_mutex_take(o, time)
                    \/ rt_mutex_release(o)
                    \/ rt_mutex_detach(o) \/ rt_mutex_init(o)
  \/ TakeReturn
  \/ (ResumeAllTest \/ _ipc_list_resume_all \/ Background) /\ UNCHANGED mutexes

Spec == Init /\ [][Next]_vars

-----------------------------------------------------------------------------
(* Fairness: a thread that stands in a kernel call and has the processor   *)
(* gets through it, armed timers expire, and an owner that keeps getting   *)
(* the processor gives its holds back one day.                             *)

\* These are WF_vars and SF_vars with the enabling conditions written out.
Fairness ==
  /\ \A t \in Thread :
       /\ \/ []<>~(k.cur = t /\ pc[t] \in {"sched", "block", "sleep"})
          \/ []<><<k.cur = t /\ Reschedule>>_vars
       /\ \/ []<>~(k.cur = t /\ pc[t] = "woken")
          \/ []<><<k.cur = t /\ TakeReturn>>_vars
       /\ \/ []<>~(t \in k.timer)
          \/ []<><<Timeout(t)>>_vars
  /\ \A o \in Obj, h \in 1 .. HoldMax :
       \/ <>[]~(App /\ owner[o] = k.cur /\ hold[o] = h)
       \/ []<><<owner[o] = k.cur /\ hold[o] = h /\ rt_mutex_release(o)>>_vars

FairSpec == Spec /\ Fairness

\* A thread that no other outranks and that waits for a mutex gets it or
\* times out, unless the mutex is detached, however long threads of medium
\* priority keep computing: the owner's inherited priority bounds the inversion.
UrgentWaiterServed ==
  \A o \in Obj : Member(First, k.wait[o]) ~> ~Member(First, k.wait[o]) \/ o \notin live

-----------------------------------------------------------------------------
\* The record of who holds a mutex, and how often, is what the threads were
\* told: a mutex has at most one holder, the one it names, through handovers
\* to threads that have not run yet and through late timeouts.  It is free
\* exactly when it has no owner, and nobody waits for a free one.
HoldExact ==
  \A o \in live :
    /\ \A t \in Thread : depth[t][o] > 0 \/ Granted(t, o) => owner[o] = t
    /\ hold[o] = IF owner[o] = Nobody THEN 0
                 ELSE depth[owner[o]][o] + (IF Granted(owner[o], o) THEN 1 ELSE 0)
    /\ value[o] = 1 <=> owner[o] = Nobody
    /\ hold[o] = 0 <=> owner[o] = Nobody
    /\ k.wait[o] # <<>> => owner[o] # Nobody

\* Inheritance "can solve the unbounded priority inversion problem": an owner
\* is at least as urgent as every thread that waits for it.
NoInversion ==
  \A o \in live : \A i \in DOMAIN k.wait[o] : k.prio[owner[o]] <= k.prio[k.wait[o][i]]

\* Inherited priorities are given back: a thread that owns no mutex runs at the
\* priority it was given.
PriorityRestored ==
  \A t \in Thread : (\A o \in Obj : owner[o] # t) => k.prio[t] = InitPrio[t]
=============================================================================
