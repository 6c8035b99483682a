----------------------------- MODULE MutexProofs -----------------------------
(***************************************************************************)
(* Mutexes of any set of threads and any number of mutexes, nested and     *)
(* detached as the calls allow: the record of who holds a mutex, and how   *)
(* often, is what the threads were told.  The invariant of the blocking    *)
(* calls (IpcProofs) is joined with HoldExact and with the fact that an    *)
(* owned mutex has a priority to go back to.  The last section is about    *)
(* priorities: where no thread takes a second mutex while it owns one,     *)
(* nobody waits for a less urgent owner and no inherited priority stays.   *)
(***************************************************************************)
EXTENDS Mutex, IpcProofs

OriginalKnown == \A o \in Obj : owner[o] # Nobody => original[o] \in Prio

IInv == IpcInv /\ TypeOK /\ HoldExact /\ OriginalKnown

\* HoldExact for one mutex, told thread by thread.
HoldsAt(o) ==
  /\ \A t \in Thread :
       /\ depth[t][o] > 0 \/ Granted(t, o) => owner[o] = t
       /\ owner[o] = t => hold[o] = depth[t][o] + (IF Granted(t, o) THEN 1 ELSE 0)
  /\ owner[o] = Nobody => hold[o] = 0
  /\ value[o] = 1 <=> owner[o] = Nobody
  /\ hold[o] = 0 <=> owner[o] = Nobody
  /\ k.wait[o] # <<>> => owner[o] # Nobody

-----------------------------------------------------------------------------
(* The kernel's part of priority inheritance *)

\* rt_thread_control with RT_THREAD_CTRL_CHANGE_PRIORITY moves a ready thread to
\* another ready list; who waits for what stays.
LEMMA PrioritySimilar ==
  ASSUME NEW a, Calm(a), NEW t \in Thread, NEW p \in Prio
  PROVE  LET u == ChangePriority(a, t, p) IN
         Similar(a, u) /\ u.prio = [a.prio EXCEPT ![t] = p]
<1> DEFINE u == ChangePriority(a, t, p)
           r == rt_schedule_remove_thread(a, t)
           m == [r EXCEPT !.prio[t] = p]
<1>0. a \in KernelState /\ Lists(a) /\ CurSound(a)
  BY DEF Calm, Lists
<1>1. /\ Lists(u) /\ OthersStay(a, u, t)
      /\ u.stat = a.stat /\ u.prio = [a.prio EXCEPT ![t] = p]
      /\ a.stat[t] = "READY" => Member(t, u.ready[p])
      /\ a.stat[t] # "READY" => u.wait = a.wait
      /\ u.cur = a.cur /\ u.lock = a.lock /\ u.timer = a.timer /\ u.error = a.error
  BY <1>0, ChangePriorityFacts
<1>2. u.wait = a.wait
  <2>1. CASE a.stat[t] = "READY"
    <3>1. \A o \in Obj : ~Member(t, a.wait[o])
      BY <2>1, AwakeUnlisted
    <3>2. r.wait = a.wait /\ r \in KernelState
      BY <1>0, <3>1, RemoveWait, RemoveThreadFacts DEF Lists
    <3>3. u = rt_schedule_insert_thread(m, t)
      BY <2>1 DEF ChangePriority
    <3> HIDE DEF r, u
    <3>4. m \in KernelState /\ m.wait = r.wait
      BY <3>2 DEF KernelState
    <3> HIDE DEF m
    <3> QED
      BY <3>2, <3>3, <3>4, InsertWait
  <2> QED
    BY <1>1, <2>1
<1> HIDE DEF u
<1>3. u.prio[t] = p /\ \A v \in Thread \ {t} : u.prio[v] = a.prio[v]
  BY <1>0, <1>1 DEF KernelState
<1>4. ReadyComplete(u, {})
  <2>1. ASSUME NEW v \in Thread, u.stat[v] = "READY" PROVE Member(v, u.ready[u.prio[v]])
    <3>1. CASE v = t
      BY <1>1, <1>3, <2>1, <3>1
    <3>2. CASE v # t
      <4>1. a.prio[v] \in Prio /\ Member(v, a.ready[a.prio[v]])
        BY <1>0, <1>1, <2>1 DEF Calm, ReadyComplete, KernelState
      <4> QED
        BY <1>1, <1>3, <3>2, <4>1 DEF OthersStay
    <3> QED
      BY <3>1, <3>2
  <2> QED
    BY <2>1 DEF ReadyComplete
<1>5. Calm(u)
  BY <1>1, <1>4 DEF Calm, CurSound, TimerSound
<1> QED
  BY <1>1, <1>2, <1>5 DEF Similar, u

-----------------------------------------------------------------------------
(* What a step leaves as it is *)

LEMMA HoldExactAt ==
  ASSUME owner \in [Obj -> Thread \cup {Nobody}], live \subseteq Obj
  PROVE  HoldExact <=> \A o \in live : HoldsAt(o)
<1>1. ASSUME HoldExact, NEW o \in live PROVE HoldsAt(o)
  <2>1. ASSUME NEW t \in Thread, owner[o] = t
        PROVE  hold[o] = depth[t][o] + (IF Granted(t, o) THEN 1 ELSE 0)
    BY <1>1, <2>1, MutexAssumption DEF HoldExact
  <2> QED
    BY <1>1, <2>1 DEF HoldExact, HoldsAt
<1>2. ASSUME \A o \in live : HoldsAt(o) PROVE HoldExact
  <2>1. ASSUME NEW o \in live
        PROVE  hold[o] = IF owner[o] = Nobody THEN 0
                         ELSE depth[owner[o]][o] + (IF Granted(owner[o], o) THEN 1 ELSE 0)
    <3>1. CASE owner[o] = Nobody
      BY <1>2, <3>1 DEF HoldsAt
    <3>2. CASE owner[o] # Nobody
      <4>1. PICK t \in Thread : t = owner[o]
        BY <3>2
      <4>2. hold[o] = depth[t][o] + (IF Granted(t, o) THEN 1 ELSE 0)
        BY <1>2, <4>1 DEF HoldsAt
      <4> QED
        BY <3>2, <4>1, <4>2
    <3> QED
      BY <3>1, <3>2
  <2> QED
    BY <1>2, <2>1 DEF HoldExact, HoldsAt
<1> QED
  BY <1>1, <1>2

LEMMA HoldExactNext ==
  ASSUME owner' \in [Obj -> Thread \cup {Nobody}], live' \subseteq Obj,
         \A o \in live' : HoldsAt(o)'
  PROVE  HoldExact'
<1>1. ASSUME NEW o \in live'
      PROVE  hold'[o] = IF owner'[o] = Nobody THEN 0
                        ELSE depth'[owner'[o]][o] + (IF Granted(owner[o], o)' THEN 1 ELSE 0)
  <2>1. CASE owner'[o] = Nobody
    BY <1>1, <2>1 DEF HoldsAt
  <2>2. CASE owner'[o] # Nobody
    <3>1. PICK t \in Thread : t = owner'[o]
      BY <1>1, <2>2
    <3>2. hold'[o] = depth'[t][o] + (IF Granted(t, o)' THEN 1 ELSE 0)
      BY <1>1, <3>1 DEF HoldsAt
    <3>3. Granted(owner[o], o)' <=> Granted(t, o)'
      BY <3>1 DEF Granted, InCall
    <3> QED
      BY <2>2, <3>1, <3>2, <3>3
  <2> QED
    BY <2>1, <2>2
<1> QED
  BY <1>1 DEF HoldExact, HoldsAt

LEMMA InvFacts ==
  ASSUME IInv
  PROVE  /\ IpcInv /\ IpcTypeOK /\ live \subseteq Obj /\ phantom \in BOOLEAN
         /\ value \in [Obj -> {0, 1}] /\ owner \in [Obj -> Thread \cup {Nobody}]
         /\ original \in [Obj -> Prio \cup {NoPriority}] /\ hold \in [Obj -> 0 .. HoldMax]
         /\ depth \in [Thread -> [Obj -> Nat]]
         /\ HoldMax \in Nat \ {0} /\ Nobody \notin Thread
         /\ Calm(k) /\ k \in KernelState /\ k.cur \in Thread /\ k.prio \in [Thread -> Prio]
         /\ \A o \in live : HoldsAt(o)
<1>1. /\ IpcInv /\ IpcTypeOK /\ live \subseteq Obj
      /\ owner \in [Obj -> Thread \cup {Nobody}] /\ HoldExact
  BY DEF IInv, TypeOK, IpcTypeOK
<1>2. \A o \in live : HoldsAt(o)
  BY <1>1, HoldExactAt
<1> QED
  BY <1>1, <1>2, CurRuns, LimitsAssumption, MutexAssumption
  DEF IInv, TypeOK, IpcInv, IpcTypeOK, KernelState

\* A step that does not touch the mutex q, nor grants it or reads a grant.
Untouched(q) ==
  /\ value'[q] = value[q] /\ owner'[q] = owner[q] /\ hold'[q] = hold[q]
  /\ original'[q] = original[q]
  /\ \A t \in Thread : depth'[t][q] = depth[t][q] /\ (Granted(t, q)' <=> Granted(t, q))
  /\ k.wait[q] = <<>> => k'.wait[q] = <<>>

LEMMA UntouchedHolds ==
  ASSUME NEW q \in Obj, HoldsAt(q), Untouched(q)
  PROVE  HoldsAt(q)'
BY DEF HoldsAt, Untouched

MutexTypes ==
  /\ value \in [Obj -> {0, 1}] /\ owner \in [Obj -> Thread \cup {Nobody}]
  /\ original \in [Obj -> Prio \cup {NoPriority}] /\ hold \in [Obj -> 0 .. HoldMax]
  /\ depth \in [Thread -> [Obj -> Nat]]

OthersUntouched(o) == \A q \in Obj \ {o} : Untouched(q)

\* So a call on one mutex needs to be followed at that mutex only.
LEMMA OneMutexStep ==
  ASSUME IInv, IpcInv', MutexTypes', NEW o \in Obj, OthersUntouched(o),
         live' \subseteq live \cup {o}, o \in live' => HoldsAt(o)',
         owner'[o] # Nobody => original'[o] \in Prio
  PROVE  IInv'
<1>1. live \subseteq Obj /\ (\A q \in live : HoldsAt(q)) /\ OriginalKnown
  BY InvFacts DEF IInv
<1>2. TypeOK'
  BY DEF TypeOK, IpcInv, MutexTypes
<1>3. HoldExact'
  <2>1. ASSUME NEW q \in live' PROVE HoldsAt(q)'
    <3>1. CASE q = o
      BY <2>1, <3>1
    <3>2. CASE q # o
      BY <1>1, <2>1, <3>2, UntouchedHolds DEF OthersUntouched
    <3> QED
      BY <3>1, <3>2
  <2> QED
    BY <1>1, <2>1, HoldExactNext DEF MutexTypes
<1>4. OriginalKnown'
  <2>1. ASSUME NEW q \in Obj, owner'[q] # Nobody PROVE original'[q] \in Prio
    <3>1. CASE q = o
      BY <2>1, <3>1
    <3>2. CASE q # o
      BY <1>1, <2>1, <3>2 DEF OthersUntouched, Untouched, OriginalKnown
    <3> QED
      BY <3>1, <3>2
  <2> QED
    BY <2>1 DEF OriginalKnown
<1> QED
  BY <1>2, <1>3, <1>4 DEF IInv

EmptiesStay == \A q \in Obj : k.wait[q] = <<>> => k'.wait[q] = <<>>

\* A step that touches no mutex.
LEMMA QuietStep ==
  ASSUME IInv, IpcInv', SameGrants, EmptiesStay, live' \subseteq live, UNCHANGED mutexes
  PROVE  IInv'
<1>1. \A q \in Obj : Untouched(q)
  BY DEF Untouched, SameGrants, EmptiesStay, mutexes
<1>2. PICK o \in Obj : TRUE
  BY IpcAssumption
<1>3. /\ (\A q \in live : HoldsAt(q)) /\ OriginalKnown /\ MutexTypes
  BY InvFacts DEF IInv, MutexTypes
<1>4. MutexTypes' /\ OthersUntouched(o)
  BY <1>1, <1>3 DEF MutexTypes, mutexes, OthersUntouched
<1>5. o \in live' => HoldsAt(o)'
  BY <1>1, <1>2, <1>3, UntouchedHolds
<1>6. owner'[o] # Nobody => original'[o] \in Prio
  BY <1>2, <1>3 DEF OriginalKnown, mutexes
<1> QED
  BY <1>4, <1>5, <1>6, OneMutexStep

LEMMA SameWaits ==
  ASSUME k'.wait = k.wait PROVE EmptiesStay
BY DEF EmptiesStay

LEMMA EasedEmpties ==
  ASSUME WaitsEased PROVE EmptiesStay
BY DEF EmptiesStay, WaitsEased

-----------------------------------------------------------------------------
(* Taking a mutex *)

\* What each section of a take starts from.
LEMMA TakeFacts ==
  ASSUME IInv, NEW o \in Obj, NEW time, rt_mutex_take(o, time)
  PROVE  /\ App /\ o \in live /\ on' = [on EXCEPT ![k.cur] = o]
         /\ live' = live /\ phantom' = phantom /\ live' \subseteq live \cup {o}
         /\ HoldsAt(o) /\ OriginalKnown /\ ~Granted(k.cur, o)
<1>1. IpcInv /\ (\A q \in live : HoldsAt(q)) /\ OriginalKnown
  BY InvFacts DEF IInv
<1>2. App /\ o \in live
  BY DEF rt_mutex_take
<1>3. ~InCall(k.cur, o)
  BY <1>1, <1>2, AppFacts
<1> QED
  BY <1>1, <1>2, <1>3 DEF rt_mutex_take, Granted

\* The sections that do not block change thread->error only.
LEMMA TakeQuiet ==
  ASSUME IInv, NEW o \in Obj, NEW time, rt_mutex_take(o, time), pc' = pc,
         NEW e \in Errno, k' = [k EXCEPT !.error[k.cur] = e]
  PROVE  IpcInv' /\ SameGrants /\ k'.wait = k.wait
<1>1. IpcInv /\ IpcTypeOK /\ Calm(k) /\ live \subseteq Obj /\ phantom \in BOOLEAN
  BY InvFacts
<1>2. /\ App /\ on' = [on EXCEPT ![k.cur] = o] /\ live' \subseteq Obj /\ phantom' \in BOOLEAN
  BY <1>1, TakeFacts
<1>3. Goto("run") /\ "run" \in Pc /\ Similar(k, k)
  BY <1>1, <1>2, AppFacts, SimilarSelf DEF Goto, IpcTypeOK, Pc
<1> QED
  BY <1>1, <1>2, <1>3, QuietCall

LEMMA TakeAgainInv ==
  ASSUME IInv, NEW o \in Obj, NEW time, rt_mutex_take(o, time), TakeAgain(o)
  PROVE  IInv'
<1>1. /\ App /\ o \in live /\ live' \subseteq live \cup {o} /\ live' = live
      /\ HoldsAt(o) /\ OriginalKnown /\ ~Granted(k.cur, o)
  BY TakeFacts
<1>2. /\ hold \in [Obj -> 0 .. HoldMax] /\ depth \in [Thread -> [Obj -> Nat]]
      /\ HoldMax \in Nat /\ k.cur \in Thread /\ Nobody \notin Thread /\ MutexTypes
  BY InvFacts DEF MutexTypes
<1>3. IpcInv' /\ SameGrants /\ k'.wait = k.wait
  <2>1. pc' = pc /\ k' = [k EXCEPT !.error[k.cur] = "RT_EOK"] /\ "RT_EOK" \in Errno
    BY DEF TakeAgain, Errno
  <2> QED
    BY <2>1, TakeQuiet
<1>4. CASE hold[o] < HoldMax
  <2>1. PICK c \in Thread : c = k.cur
    BY <1>2
  <2>2. /\ owner[o] = c /\ hold' = [hold EXCEPT ![o] = @ + 1]
        /\ depth' = [depth EXCEPT ![c][o] = @ + 1]
        /\ value' = value /\ owner' = owner /\ original' = original
    BY <1>4, <2>1 DEF TakeAgain
  <2>3. hold[o] \in 0 .. HoldMax /\ depth[c][o] \in Nat
    BY <1>2
  <2>4. hold' \in [Obj -> 0 .. HoldMax] /\ depth' \in [Thread -> [Obj -> Nat]]
    BY <1>2, <1>4, <2>2, <2>3
  <2>5. OthersUntouched(o)
    <3>1. ASSUME NEW q \in Obj \ {o} PROVE Untouched(q)
      <4>1. \A t \in Thread : depth'[t][q] = depth[t][q]
        BY <1>2, <2>2, <3>1
      <4> QED
        BY <1>2, <1>3, <2>2, <3>1, <4>1 DEF Untouched, SameGrants
    <3> QED
      BY <3>1 DEF OthersUntouched
  <2>6. HoldsAt(o)'
    <3>1. /\ hold'[o] = hold[o] + 1 /\ depth'[c][o] = depth[c][o] + 1
          /\ \A t \in Thread \ {c} : depth'[t][o] = depth[t][o]
      BY <1>2, <2>2
    <3>2. \A t \in Thread : Granted(t, o)' <=> Granted(t, o)
      BY <1>3 DEF SameGrants
    <3>3. ~Granted(c, o) /\ hold[o] = depth[c][o] + 0
      BY <1>1, <2>1, <2>2 DEF HoldsAt
    <3>4. \A t \in Thread :
            /\ depth'[t][o] > 0 \/ Granted(t, o)' => owner'[o] = t
            /\ owner'[o] = t => hold'[o] = depth'[t][o] + (IF Granted(t, o)' THEN 1 ELSE 0)
      BY <1>1, <2>2, <2>3, <3>1, <3>2, <3>3 DEF HoldsAt
    <3>5. owner'[o] # Nobody /\ hold'[o] # 0 /\ value'[o] # 1
      BY <1>1, <1>2, <2>2, <2>3, <3>1 DEF HoldsAt
    <3> QED
      BY <3>4, <3>5 DEF HoldsAt
  <2>7. MutexTypes' /\ (owner'[o] # Nobody => original'[o] \in Prio)
    BY <1>1, <1>2, <2>2, <2>4 DEF MutexTypes, OriginalKnown
  <2> QED
    BY <1>1, <1>3, <2>5, <2>6, <2>7, OneMutexStep
<1>5. CASE ~(hold[o] < HoldMax)
  <2>1. UNCHANGED mutexes
    BY <1>5 DEF TakeAgain, mutexes
  <2> QED
    BY <1>1, <1>3, <2>1, SameWaits, QuietStep
<1> QED
  BY <1>4, <1>5

LEMMA TakeFreeInv ==
  ASSUME IInv, NEW o \in Obj, NEW time, rt_mutex_take(o, time), TakeFree(o)
  PROVE  IInv'
<1>1. /\ App /\ o \in live /\ live' \subseteq live \cup {o}
      /\ HoldsAt(o) /\ OriginalKnown /\ ~Granted(k.cur, o)
  BY TakeFacts
<1>2. /\ value \in [Obj -> {0, 1}] /\ owner \in [Obj -> Thread \cup {Nobody}]
      /\ original \in [Obj -> Prio \cup {NoPriority}] /\ hold \in [Obj -> 0 .. HoldMax]
      /\ depth \in [Thread -> [Obj -> Nat]] /\ k.prio \in [Thread -> Prio]
      /\ HoldMax \in Nat \ {0} /\ k.cur \in Thread /\ Nobody \notin Thread
  BY InvFacts
<1>3. IpcInv' /\ SameGrants /\ k'.wait = k.wait
  <2>1. pc' = pc /\ k' = [k EXCEPT !.error[k.cur] = "RT_EOK"] /\ "RT_EOK" \in Errno
    BY DEF TakeFree, Errno
  <2> QED
    BY <2>1, TakeQuiet
<1>4. PICK c \in Thread : c = k.cur
  BY <1>2
<1>5. PICK p \in Prio : p = k.prio[c]
  BY <1>2
<1>6. /\ value' = [value EXCEPT ![o] = @ - 1] /\ owner' = [owner EXCEPT ![o] = c]
      /\ original' = [original EXCEPT ![o] = p] /\ hold' = [hold EXCEPT ![o] = @ + 1]
      /\ depth' = [depth EXCEPT ![c][o] = @ + 1]
  BY <1>4, <1>5 DEF TakeFree
<1>7. value[o] = 1 /\ owner[o] = Nobody /\ hold[o] = 0
  BY <1>1, <1>2 DEF TakeFree, HoldsAt
<1>8. \A t \in Thread : depth[t][o] = 0 /\ ~Granted(t, o)
  <2>1. ASSUME NEW t \in Thread PROVE depth[t][o] = 0 /\ ~Granted(t, o)
    <3>1. depth[t][o] \in Nat /\ ~(depth[t][o] > 0) /\ ~Granted(t, o)
      BY <1>1, <1>2, <1>7 DEF HoldsAt
    <3> QED
      BY <3>1
  <2> QED
    BY <2>1
<1>9. MutexTypes'
  <2>1. value' \in [Obj -> {0, 1}] /\ hold' \in [Obj -> 0 .. HoldMax]
    BY <1>2, <1>6, <1>7
  <2>2. owner' \in [Obj -> Thread \cup {Nobody}] /\ original' \in [Obj -> Prio \cup {NoPriority}]
    BY <1>2, <1>6
  <2>3. depth' \in [Thread -> [Obj -> Nat]]
    BY <1>2, <1>6
  <2> QED
    BY <2>1, <2>2, <2>3 DEF MutexTypes
<1>10. OthersUntouched(o)
  <2>1. ASSUME NEW q \in Obj \ {o} PROVE Untouched(q)
    <3>1. \A t \in Thread : depth'[t][q] = depth[t][q]
      BY <1>2, <1>6, <2>1
    <3> QED
      BY <1>2, <1>3, <1>6, <2>1, <3>1 DEF Untouched, SameGrants
  <2> QED
    BY <2>1 DEF OthersUntouched
<1>11. HoldsAt(o)'
  <2>1. /\ hold'[o] = 1 /\ value'[o] = 0 /\ owner'[o] = c
        /\ \A t \in Thread : depth'[t][o] = IF t = c THEN 1 ELSE 0
    BY <1>2, <1>6, <1>7, <1>8
  <2>2. \A t \in Thread : ~Granted(t, o)'
    BY <1>3, <1>8 DEF SameGrants
  <2> QED
    BY <1>2, <2>1, <2>2 DEF HoldsAt
<1>12. original'[o] \in Prio
  BY <1>2, <1>6
<1> QED
  BY <1>1, <1>3, <1>9, <1>10, <1>11, <1>12, OneMutexStep

LEMMA TakeRefusedInv ==
  ASSUME IInv, NEW o \in Obj, NEW time, rt_mutex_take(o, time), TakeRefused(o)
  PROVE  IInv'
<1>1. live' \subseteq live
  BY TakeFacts
<1>2. /\ pc' = pc /\ k' = [k EXCEPT !.error[k.cur] = "RT_ETIMEOUT"] /\ UNCHANGED mutexes
      /\ "RT_ETIMEOUT" \in Errno
  BY DEF TakeRefused, Errno
<1>3. IpcInv' /\ SameGrants /\ k'.wait = k.wait
  BY <1>2, TakeQuiet
<1> QED
  BY <1>1, <1>2, <1>3, SameWaits, QuietStep

\* The owner may inherit the caller's priority before the caller is suspended.
LEMMA TakeBlocksKeeps ==
  ASSUME IInv, NEW o \in Obj, NEW time, rt_mutex_take(o, time), TakeBlocks(o, time)
  PROVE  /\ IpcInv' /\ SameGrants /\ owner[o] \in Thread /\ k'.prio = Inherit(o).prio
         /\ k'.wait = [k.wait EXCEPT ![o] = Queued(k.wait[o], k.cur, "PRIO", Inherit(o).prio)]
<1>1. /\ App /\ o \in live /\ on' = [on EXCEPT ![k.cur] = o]
      /\ live' = live /\ phantom' = phantom /\ HoldsAt(o)
  BY TakeFacts
<1>2. /\ IpcInv /\ Calm(k) /\ k.cur \in Thread
      /\ k.prio \in [Thread -> Prio] /\ owner \in [Obj -> Thread \cup {Nobody}]
  BY InvFacts
<1>3. value[o] = 0 /\ k' = Block(Inherit(o), o, "PRIO", time) /\ Goto("block")
  BY DEF TakeBlocks
<1>4. owner[o] \in Thread
  BY <1>1, <1>2, <1>3 DEF HoldsAt
<1>5. Similar(k, Inherit(o))
  <2>1. PICK p \in Prio : p = k.prio[k.cur]
    BY <1>2
  <2>2. Similar(k, ChangePriority(k, owner[o], p)) /\ Similar(k, k)
    BY <1>2, <1>4, PrioritySimilar, SimilarSelf
  <2> QED
    BY <2>1, <2>2 DEF Inherit
<1>6. PICK b : b = Inherit(o)
  OBVIOUS
<1>7. PICK f : f = "PRIO"
  OBVIOUS
<1>8. /\ IpcInv' /\ SameGrants /\ k'.prio = b.prio
      /\ k'.wait = [k.wait EXCEPT ![o] = Queued(k.wait[o], k.cur, f, b.prio)]
  <2>1. Similar(k, b) /\ k' = Block(b, o, f, time)
    BY <1>3, <1>5, <1>6, <1>7
  <2>2. IpcInv /\ App /\ o \in Obj
    BY <1>1, <1>2
  <2>3. Goto("block") /\ on' = [on EXCEPT ![k.cur] = o] /\ live' = live /\ phantom' = phantom
    BY <1>1, <1>3
  <2> HIDE DEF App, Goto
  <2> QED
    BY ONLY <2>1, <2>2, <2>3, BlockKeeps
<1> QED
  BY <1>4, <1>6, <1>7, <1>8

LEMMA TakeBlocksInv ==
  ASSUME IInv, NEW o \in Obj, NEW time, rt_mutex_take(o, time), TakeBlocks(o, time)
  PROVE  IInv'
<1>1. /\ App /\ o \in live /\ live' \subseteq live \cup {o}
      /\ HoldsAt(o) /\ OriginalKnown
  BY TakeFacts
<1>2. /\ k \in KernelState /\ MutexTypes /\ Nobody \notin Thread
  BY InvFacts DEF MutexTypes
<1>3. UNCHANGED mutexes
  BY DEF TakeBlocks
<1>4. PICK s : s = Queued(k.wait[o], k.cur, "PRIO", Inherit(o).prio)
  OBVIOUS
<1>5. IpcInv' /\ SameGrants /\ k'.wait = [k.wait EXCEPT ![o] = s] /\ owner[o] \in Thread
  BY <1>4, TakeBlocksKeeps
<1>6. owner[o] # Nobody
  BY <1>2, <1>5
<1>7. OthersUntouched(o)
  <2>1. ASSUME NEW q \in Obj \ {o} PROVE Untouched(q)
    <3>1. k'.wait[q] = k.wait[q]
      BY <1>2, <1>5, <2>1 DEF KernelState
    <3> QED
      BY <1>3, <1>5, <2>1, <3>1 DEF Untouched, SameGrants, mutexes
  <2> QED
    BY <2>1 DEF OthersUntouched
<1>8. HoldsAt(o)'
  BY <1>1, <1>3, <1>5, <1>6 DEF HoldsAt, SameGrants, mutexes
<1>9. MutexTypes' /\ original'[o] \in Prio
  BY <1>1, <1>2, <1>3, <1>6 DEF MutexTypes, mutexes, OriginalKnown
<1> QED
  BY <1>1, <1>5, <1>7, <1>8, <1>9, OneMutexStep

\* TakeReturn: the new owner learns that it holds the mutex.
LEMMA TakeReturnInv ==
  ASSUME IInv, TakeReturn
  PROVE  IInv'
<1>1. /\ IpcInv /\ live \subseteq Obj /\ depth \in [Thread -> [Obj -> Nat]] /\ MutexTypes
      /\ Nobody \notin Thread /\ owner \in [Obj -> Thread \cup {Nobody}]
      /\ (\A q \in live : HoldsAt(q)) /\ OriginalKnown
  BY InvFacts DEF MutexTypes, IInv
<1>2. /\ At("woken") /\ Goto("run") /\ k' = k /\ on' = on /\ live' = live /\ phantom' = phantom
      /\ value' = value /\ owner' = owner /\ original' = original /\ hold' = hold
  BY DEF TakeReturn
<1>3. /\ IpcInv' /\ WaitsEased
      /\ k.cur \in Thread /\ k.stat[k.cur] = "RUNNING" /\ InCall(k.cur, on[k.cur])
      /\ on[k.cur] \in Obj
      /\ \A t \in Thread, q \in Obj : Granted(t, q)' <=> Granted(t, q) /\ t # k.cur
  BY <1>1, <1>2, ReturnKeeps
<1>4. PICK o \in Obj : o = on[k.cur]
  BY <1>3
<1>5. PICK c \in Thread : c = k.cur
  BY <1>3
<1>6. /\ Granted(c, o) <=> k.error[c] = "RT_EOK"
      /\ \A q \in Obj \ {o} : ~Granted(c, q)
  BY <1>3, <1>4, <1>5 DEF Granted, InCall
<1>7. /\ \A q \in Obj \ {o}, t \in Thread : Granted(t, q)' <=> Granted(t, q)
      /\ ~Granted(c, o)'
      /\ \A t \in Thread \ {c} : Granted(t, o)' <=> Granted(t, o)
  BY <1>3, <1>5, <1>6
<1>8. CASE k.error[c] = "RT_EOK"
  <2>1. depth' = [depth EXCEPT ![c][o] = @ + 1]
    BY <1>4, <1>5, <1>8 DEF TakeReturn
  <2>2. /\ depth' \in [Thread -> [Obj -> Nat]] /\ depth'[c][o] = depth[c][o] + 1
        /\ depth[c][o] \in Nat
        /\ \A t \in Thread \ {c} : depth'[t][o] = depth[t][o]
        /\ \A t \in Thread, q \in Obj \ {o} : depth'[t][q] = depth[t][q]
    BY <1>1, <2>1
  <2>3. OthersUntouched(o)
    BY <1>2, <1>7, <2>2 DEF OthersUntouched, Untouched
  <2>4. ASSUME o \in live' PROVE HoldsAt(o)'
    <3>1. HoldsAt(o) /\ owner[o] = c
      BY <1>1, <1>2, <1>6, <1>8, <2>4 DEF HoldsAt
    <3>2. hold[o] = depth[c][o] + 1
      BY <1>6, <1>8, <3>1 DEF HoldsAt
    <3>3. \A t \in Thread : depth'[t][o] > 0 \/ Granted(t, o)' => owner'[o] = t
      BY <1>2, <1>7, <2>2, <3>1 DEF HoldsAt
    <3>4. \A t \in Thread :
            owner'[o] = t => hold'[o] = depth'[t][o] + (IF Granted(t, o)' THEN 1 ELSE 0)
      BY <1>2, <1>7, <2>2, <3>1, <3>2
    <3> QED
      BY <1>2, <3>1, <3>3, <3>4 DEF HoldsAt
  <2>5. MutexTypes' /\ (owner'[o] # Nobody => original'[o] \in Prio)
    BY <1>1, <1>2, <2>2 DEF MutexTypes, OriginalKnown
  <2> QED
    BY <1>2, <1>3, <2>3, <2>4, <2>5, OneMutexStep
<1>9. CASE k.error[c] # "RT_EOK"
  <2>1. UNCHANGED mutexes
    BY <1>2, <1>5, <1>9 DEF TakeReturn, mutexes
  <2>2. SameGrants
    BY <1>6, <1>7, <1>9 DEF SameGrants
  <2> QED
    BY <1>2, <1>3, <2>1, <2>2, EasedEmpties, QuietStep
<1> QED
  BY <1>8, <1>9

-----------------------------------------------------------------------------
(* Releasing a mutex *)

LEMMA ReleaseFacts ==
  ASSUME IInv, NEW o \in Obj, rt_mutex_release(o)
  PROVE  /\ App /\ o \in live /\ on' = on /\ live' = live /\ phantom' = phantom
         /\ live' \subseteq live \cup {o} /\ HoldsAt(o) /\ OriginalKnown
         /\ \A q \in Obj : ~Granted(k.cur, q)
<1>1. IpcInv /\ (\A q \in live : HoldsAt(q)) /\ OriginalKnown
  BY InvFacts DEF IInv
<1>2. App /\ o \in live
  BY DEF rt_mutex_release
<1>3. \A q \in Obj : ~InCall(k.cur, q)
  BY <1>1, <1>2, AppFacts
<1> QED
  BY <1>1, <1>2, <1>3 DEF rt_mutex_release, Granted

\* A section of a release after which the caller just goes on.
LEMMA ReleaseQuiet ==
  ASSUME IInv, NEW o \in Obj, rt_mutex_release(o), pc' = pc,
         NEW b, Similar(k, b), NEW e \in Errno, k' \in {b, [b EXCEPT !.error[k.cur] = e]}
  PROVE  IpcInv' /\ SameGrants /\ k'.wait = k.wait
<1>1. IpcInv /\ IpcTypeOK /\ live \subseteq Obj /\ phantom \in BOOLEAN
  BY InvFacts
<1>2. App /\ on' = on /\ live' \subseteq Obj /\ phantom' \in BOOLEAN
  BY <1>1, ReleaseFacts
<1>3. Goto("run") /\ "run" \in Pc
  BY <1>1, <1>2, AppFacts DEF Goto, IpcTypeOK, Pc
<1> QED
  BY <1>1, <1>2, <1>3, QuietCall

\* A release by a thread that is not the owner (-RT_ERROR).
LEMMA ReleaseRefusedInv ==
  ASSUME IInv, NEW o \in Obj, rt_mutex_release(o), owner[o] # k.cur
  PROVE  IInv'
<1>1. /\ pc' = pc /\ k' = [k EXCEPT !.error[k.cur] = "RT_ERROR"] /\ UNCHANGED mutexes
      /\ "RT_ERROR" \in Errno /\ live' \subseteq live
  BY DEF rt_mutex_release, Errno
<1>2. Similar(k, k)
  BY InvFacts, SimilarSelf
<1>3. IpcInv' /\ SameGrants /\ k'.wait = k.wait
  BY <1>1, <1>2, ReleaseQuiet
<1> QED
  BY <1>1, <1>3, SameWaits, QuietStep

\* What a release by the owner does to its count of takes.
LEMMA OwnerReleases ==
  ASSUME IInv, NEW o \in Obj, rt_mutex_release(o), NEW c \in Thread, c = k.cur, owner[o] = c
  PROVE  /\ hold[o] = depth[c][o] /\ depth[c][o] \in Nat \ {0}
         /\ depth' = [depth EXCEPT ![c][o] = @ - 1]
         /\ depth' \in [Thread -> [Obj -> Nat]] /\ depth'[c][o] = depth[c][o] - 1
         /\ \A t \in Thread \ {c} : depth[t][o] = 0 /\ depth'[t][o] = 0 /\ ~Granted(t, o)
         /\ \A t \in Thread, q \in Obj \ {o} : depth'[t][q] = depth[t][q]
<1>1. /\ depth \in [Thread -> [Obj -> Nat]] /\ Nobody \notin Thread
      /\ hold \in [Obj -> 0 .. HoldMax] /\ HoldMax \in Nat
  BY InvFacts
<1>2. HoldsAt(o) /\ ~Granted(c, o)
  BY ReleaseFacts
<1>3. hold[o] = depth[c][o] + 0 /\ hold[o] # 0
  BY <1>1, <1>2 DEF HoldsAt
<1>4. depth[c][o] \in Nat \ {0} /\ hold[o] = depth[c][o]
  BY <1>1, <1>3
<1>5. depth' = [depth EXCEPT ![c][o] = @ - 1]
  BY DEF rt_mutex_release
<1>6. ASSUME NEW t \in Thread \ {c} PROVE depth[t][o] = 0 /\ ~Granted(t, o)
  <2>1. depth[t][o] \in Nat /\ ~(depth[t][o] > 0) /\ ~Granted(t, o)
    BY <1>1, <1>2, <1>6 DEF HoldsAt
  <2> QED
    BY <2>1
<1>7. depth[c][o] - 1 \in Nat
  BY <1>4
<1>8. /\ depth' \in [Thread -> [Obj -> Nat]] /\ depth'[c][o] = depth[c][o] - 1
      /\ \A t \in Thread \ {c} : depth'[t][o] = depth[t][o]
      /\ \A t \in Thread, q \in Obj \ {o} : depth'[t][q] = depth[t][q]
  BY <1>1, <1>5, <1>7
<1> QED
  BY <1>4, <1>5, <1>6, <1>8

LEMMA ReleaseInnerInv ==
  ASSUME IInv, NEW o \in Obj, rt_mutex_release(o), owner[o] = k.cur, hold[o] > 1,
         ReleaseInner(o)
  PROVE  IInv'
<1>1. /\ live' \subseteq live \cup {o} /\ HoldsAt(o) /\ OriginalKnown
      /\ ~Granted(k.cur, o)
  BY ReleaseFacts
<1>2. /\ hold \in [Obj -> 0 .. HoldMax] /\ HoldMax \in Nat /\ k.cur \in Thread
      /\ Nobody \notin Thread /\ MutexTypes /\ Calm(k)
  BY InvFacts DEF MutexTypes
<1>3. PICK c \in Thread : c = k.cur
  BY <1>2
<1>4. /\ hold[o] = depth[c][o] /\ depth[c][o] \in Nat
      /\ depth' \in [Thread -> [Obj -> Nat]] /\ depth'[c][o] = depth[c][o] - 1
      /\ \A t \in Thread \ {c} : depth'[t][o] = 0 /\ ~Granted(t, o)
      /\ \A t \in Thread, q \in Obj \ {o} : depth'[t][q] = depth[t][q]
  BY <1>3, OwnerReleases
<1>5. /\ hold' = [hold EXCEPT ![o] = @ - 1] /\ k' = k /\ pc' = pc
      /\ value' = value /\ owner' = owner /\ original' = original
  BY DEF ReleaseInner
<1>6. IpcInv' /\ SameGrants /\ k'.wait = k.wait
  <2>1. Similar(k, k) /\ "RT_EOK" \in Errno
    BY <1>2, SimilarSelf DEF Errno
  <2> QED
    BY <1>5, <2>1, ReleaseQuiet
<1>7. OthersUntouched(o)
  BY <1>2, <1>4, <1>5, <1>6 DEF OthersUntouched, Untouched, SameGrants
<1>8. hold' \in [Obj -> 0 .. HoldMax] /\ hold'[o] = hold[o] - 1 /\ hold[o] \in Nat
  <2>1. hold[o] \in 0 .. HoldMax /\ hold[o] - 1 \in 0 .. HoldMax
    BY <1>2
  <2> QED
    BY <1>2, <1>5, <2>1
<1>9. HoldsAt(o)'
  <2>1. \A t \in Thread : ~Granted(t, o)'
    BY <1>1, <1>3, <1>4, <1>6 DEF SameGrants
  <2>2. owner'[o] = c /\ c # Nobody /\ hold'[o] # 0 /\ value'[o] # 1
    BY <1>1, <1>2, <1>3, <1>5, <1>8 DEF HoldsAt
  <2>3. hold'[o] = depth'[c][o] + 0
    BY <1>4, <1>8
  <2> QED
    BY <1>4, <2>1, <2>2, <2>3 DEF HoldsAt
<1>10. MutexTypes' /\ (owner'[o] # Nobody => original'[o] \in Prio)
  BY <1>1, <1>2, <1>4, <1>5, <1>8 DEF MutexTypes, OriginalKnown
<1> QED
  BY <1>1, <1>6, <1>7, <1>9, <1>10, OneMutexStep

\* The last release takes the priority back first.
LEMMA RestoreSimilar ==
  ASSUME IInv, NEW o \in Obj, owner[o] = k.cur
  PROVE  Similar(k, Restore(o))
<1>1. Calm(k) /\ k.cur \in Thread /\ Nobody \notin Thread /\ OriginalKnown
  BY InvFacts DEF IInv
<1>2. original[o] \in Prio
  BY <1>1 DEF OriginalKnown
<1>3. Similar(k, k) /\ Similar(k, ChangePriority(k, k.cur, original[o]))
  BY <1>1, <1>2, PrioritySimilar, SimilarSelf
<1> QED
  BY <1>3 DEF Restore

LEMMA HandOverInv ==
  ASSUME IInv, NEW o \in Obj, rt_mutex_release(o), owner[o] = k.cur, hold[o] = 1, HandOver(o)
  PROVE  IInv'
<1>1. /\ App /\ on' = on /\ live' = live /\ phantom' = phantom /\ live' \subseteq live \cup {o}
      /\ HoldsAt(o) /\ OriginalKnown /\ \A q \in Obj : ~Granted(k.cur, q)
  BY ReleaseFacts
<1>2. /\ k.prio \in [Thread -> Prio] /\ k.cur \in Thread /\ Nobody \notin Thread
      /\ MutexTypes /\ IpcInv
  BY InvFacts DEF MutexTypes
<1>3. PICK c \in Thread : c = k.cur
  BY <1>2
<1>4. PICK b : b = Restore(o)
  OBVIOUS
<1>5. PICK h : h = Head(k.wait[o])
  OBVIOUS
<1>6. /\ k.wait[o] # <<>> /\ k' = _ipc_list_resume(b, o) /\ Goto("sched")
      /\ owner' = [owner EXCEPT ![o] = h] /\ original' = [original EXCEPT ![o] = k.prio[h]]
      /\ value' = value /\ hold' = hold
  BY <1>4, <1>5 DEF HandOver
<1>7. Similar(k, b)
  BY <1>4, RestoreSimilar
<1>8. IpcInv' /\ GrantsTo(h, o) /\ \A q \in Obj : k.wait[q] = <<>> => k'.wait[q] = <<>>
  <2>1. IpcInv' /\ GrantsTo(Head(k.wait[o]), o) /\ \A q \in Obj : k.wait[q] = <<>> => k'.wait[q] = <<>>
    BY ONLY <1>1, <1>2, <1>6, <1>7, ReleaseKeeps
  <2> QED
    BY <1>5, <2>1
<1>9. /\ hold[o] = depth[c][o] /\ depth[c][o] \in Nat
      /\ depth' \in [Thread -> [Obj -> Nat]] /\ depth'[c][o] = depth[c][o] - 1
      /\ \A t \in Thread \ {c} : depth'[t][o] = 0 /\ ~Granted(t, o)
      /\ \A t \in Thread, q \in Obj \ {o} : depth'[t][q] = depth[t][q]
  BY <1>3, OwnerReleases
<1>10. /\ h \in Thread /\ h # c
       /\ \A t \in Thread, q \in Obj : Granted(t, q)' <=> Granted(t, q) \/ (t = h /\ q = o)
  <2>1. /\ h \in Thread /\ InCall(h, o)
        /\ \A t \in Thread, q \in Obj : Granted(t, q)' <=> Granted(t, q) \/ (t = h /\ q = o)
    BY <1>8 DEF GrantsTo
  <2>2. ~InCall(c, o)
    BY <1>1, <1>2, <1>3, AppFacts
  <2> QED
    BY <2>1, <2>2
<1>11. OthersUntouched(o)
  <2>1. ASSUME NEW q \in Obj \ {o} PROVE Untouched(q)
    BY <1>2, <1>6, <1>8, <1>9, <1>10, <2>1 DEF Untouched, MutexTypes
  <2> QED
    BY <2>1 DEF OthersUntouched
<1>12. owner'[o] = h /\ original'[o] \in Prio /\ MutexTypes'
  BY <1>2, <1>6, <1>9, <1>10 DEF MutexTypes
<1>13. HoldsAt(o)'
  <2>1. \A t \in Thread : (Granted(t, o)' <=> t = h) /\ depth'[t][o] = 0
    BY <1>1, <1>3, <1>9, <1>10
  <2>2. hold'[o] = 1 /\ h # Nobody /\ value'[o] # 1
    BY <1>1, <1>2, <1>6, <1>10 DEF HoldsAt
  <2> QED
    BY <1>12, <2>1, <2>2 DEF HoldsAt
<1> QED
  BY <1>1, <1>8, <1>11, <1>12, <1>13, OneMutexStep

LEMMA GiveUpInv ==
  ASSUME IInv, NEW o \in Obj, rt_mutex_release(o), owner[o] = k.cur, hold[o] = 1, GiveUp(o)
  PROVE  IInv'
<1>1. /\ live' \subseteq live \cup {o} /\ HoldsAt(o) /\ ~Granted(k.cur, o)
  BY ReleaseFacts
<1>2. /\ k.cur \in Thread /\ Nobody \notin Thread /\ MutexTypes /\ HoldMax \in Nat
  BY InvFacts DEF MutexTypes
<1>3. PICK c \in Thread : c = k.cur
  BY <1>2
<1>4. /\ k.wait[o] = <<>> /\ k' = Restore(o) /\ pc' = pc
      /\ value' = [value EXCEPT ![o] = @ + 1] /\ owner' = [owner EXCEPT ![o] = Nobody]
      /\ original' = [original EXCEPT ![o] = NoPriority] /\ hold' = [hold EXCEPT ![o] = 0]
  BY DEF GiveUp
<1>5. /\ hold[o] = depth[c][o] /\ depth[c][o] \in Nat
      /\ depth' \in [Thread -> [Obj -> Nat]] /\ depth'[c][o] = depth[c][o] - 1
      /\ \A t \in Thread \ {c} : depth'[t][o] = 0 /\ ~Granted(t, o)
      /\ \A t \in Thread, q \in Obj \ {o} : depth'[t][q] = depth[t][q]
  BY <1>3, OwnerReleases
<1>6. IpcInv' /\ SameGrants /\ k'.wait = k.wait
  <2>1. Similar(k, k') /\ "RT_EOK" \in Errno
    BY <1>4, RestoreSimilar DEF Errno
  <2>2. PICK b : b = Restore(o)
    OBVIOUS
  <2>3. Similar(k, b) /\ k' = b
    BY <1>4, <2>1, <2>2
  <2> QED
    BY <1>4, <2>1, <2>3, ReleaseQuiet
<1>7. value[o] = 0
  BY <1>1, <1>2, <1>3 DEF HoldsAt, MutexTypes
<1>8. MutexTypes' /\ value'[o] = 1 /\ owner'[o] = Nobody /\ hold'[o] = 0
  <2>1. value' \in [Obj -> {0, 1}] /\ value'[o] = 1
    BY <1>2, <1>4, <1>7 DEF MutexTypes
  <2>2. /\ owner' \in [Obj -> Thread \cup {Nobody}] /\ owner'[o] = Nobody
        /\ original' \in [Obj -> Prio \cup {NoPriority}]
    BY <1>2, <1>4 DEF MutexTypes
  <2>3. hold' \in [Obj -> 0 .. HoldMax] /\ hold'[o] = 0
    BY <1>2, <1>4 DEF MutexTypes
  <2> QED
    BY <1>5, <2>1, <2>2, <2>3 DEF MutexTypes
<1>9. OthersUntouched(o)
  BY <1>2, <1>4, <1>5, <1>6 DEF OthersUntouched, Untouched, SameGrants, MutexTypes
<1>10. HoldsAt(o)'
  <2>1. \A t \in Thread : ~Granted(t, o)' /\ depth'[t][o] = 0
    BY <1>1, <1>3, <1>5, <1>6 DEF SameGrants
  <2> QED
    BY <1>2, <1>4, <1>6, <1>8, <2>1 DEF HoldsAt
<1> QED
  BY <1>1, <1>6, <1>8, <1>9, <1>10, OneMutexStep

\* A mutex that is set up again has no owner, and nobody in a call on it.
LEMMA InitObjectInv ==
  ASSUME IInv, NEW o \in Obj, rt_mutex_init(o)
  PROVE  IInv'
<1>1. /\ MutexTypes /\ IpcInv /\ HoldMax \in Nat /\ Nobody \notin Thread
  BY InvFacts DEF MutexTypes
<1>2. /\ InitObject(o) /\ live' \subseteq live \cup {o}
      /\ value' = [value EXCEPT ![o] = 1] /\ owner' = [owner EXCEPT ![o] = Nobody]
      /\ original' = [original EXCEPT ![o] = NoPriority] /\ hold' = [hold EXCEPT ![o] = 0]
      /\ depth' = [t \in Thread |-> [depth[t] EXCEPT ![o] = 0]]
  BY DEF rt_mutex_init, InitObject
<1>3. /\ IpcInv' /\ SameGrants /\ WaitsEased /\ k' = k /\ k.wait[o] = <<>>
      /\ \A t \in Thread : ~InCall(t, o)
  BY <1>1, <1>2, InitObjectKeeps
<1>4. MutexTypes' /\ value'[o] = 1 /\ owner'[o] = Nobody /\ hold'[o] = 0
  BY <1>1, <1>2 DEF MutexTypes
<1>5. /\ \A t \in Thread : depth'[t][o] = 0
      /\ \A t \in Thread, q \in Obj \ {o} : depth'[t][q] = depth[t][q]
  BY <1>1, <1>2 DEF MutexTypes
<1>6. OthersUntouched(o)
  BY <1>1, <1>2, <1>3, <1>5 DEF OthersUntouched, Untouched, SameGrants, MutexTypes
<1>7. HoldsAt(o)'
  <2>1. \A t \in Thread : ~Granted(t, o)'
    BY <1>3 DEF SameGrants, Granted
  <2> QED
    BY <1>1, <1>3, <1>4, <1>5, <2>1 DEF HoldsAt
<1> QED
  BY <1>2, <1>3, <1>4, <1>6, <1>7, OneMutexStep

-----------------------------------------------------------------------------
(* The specification *)

LEMMA MutexInit ==
  ASSUME Init
  PROVE  IInv
<1>1. /\ IpcInit /\ value = [o \in Obj |-> 1] /\ owner = [o \in Obj |-> Nobody]
      /\ original = [o \in Obj |-> NoPriority] /\ hold = [o \in Obj |-> 0]
      /\ depth = [t \in Thread |-> [o \in Obj |-> 0]]
      /\ HoldMax \in Nat /\ Nobody \notin Thread
  BY LimitsAssumption, MutexAssumption DEF Init
<1>2. /\ IpcInv
      /\ \A o \in Obj : k.wait[o] = <<>>
      /\ \A t \in Thread, o \in Obj : ~InCall(t, o)
  BY <1>1, InitKeeps
<1>3. IpcTypeOK /\ live \subseteq Obj
  BY <1>2 DEF IpcInv, IpcTypeOK
<1>4. TypeOK
  BY <1>1, <1>3 DEF TypeOK
<1>5. \A o \in live : HoldsAt(o)
  BY <1>1, <1>2, <1>3 DEF HoldsAt, Granted
<1>6. HoldExact
  BY <1>3, <1>4, <1>5, HoldExactAt DEF TypeOK
<1>7. OriginalKnown
  BY <1>1 DEF OriginalKnown
<1> QED
  BY <1>2, <1>4, <1>6, <1>7 DEF IInv

LEMMA MutexNext ==
  ASSUME IInv, [Next]_vars
  PROVE  IInv'
<1>0. IpcInv /\ IpcTypeOK
  BY InvFacts
<1>1. CASE \E o \in Obj, time \in Timeouts : rt_mutex_take(o, time)
  <2>1. PICK o \in Obj, time \in Timeouts : rt_mutex_take(o, time)
    BY <1>1
  <2>2. TakeAgain(o) \/ TakeFree(o) \/ TakeRefused(o) \/ TakeBlocks(o, time)
    BY <2>1 DEF rt_mutex_take
  <2> QED
    BY <2>1, <2>2, TakeAgainInv, TakeFreeInv, TakeRefusedInv, TakeBlocksInv
<1>2. CASE \E o \in Obj : rt_mutex_release(o)
  <2>1. PICK o \in Obj : rt_mutex_release(o)
    BY <1>2
  <2>2. CASE owner[o] # k.cur
    BY <2>1, <2>2, ReleaseRefusedInv
  <2>3. CASE owner[o] = k.cur
    <3>1. \/ hold[o] > 1 /\ ReleaseInner(o)
          \/ hold[o] = 1 /\ HandOver(o)
          \/ hold[o] = 1 /\ GiveUp(o)
      BY <2>1, <2>3 DEF rt_mutex_release
    <3> QED
      BY <2>1, <2>3, <3>1, ReleaseInnerInv, HandOverInv, GiveUpInv
  <2> QED
    BY <2>2, <2>3
<1>3. CASE \E o \in Obj : rt_mutex_detach(o)
  <2>1. PICK o \in Obj : DetachBegin(o) /\ UNCHANGED mutexes
    BY <1>3 DEF rt_mutex_detach
  <2>2. IpcInv' /\ SameGrants /\ WaitsEased /\ live' \subseteq live
    BY <1>0, <2>1, DetachBeginKeeps DEF DetachBegin
  <2> QED
    BY <2>1, <2>2, EasedEmpties, QuietStep
<1>4. CASE \E o \in Obj : rt_mutex_init(o)
  BY <1>4, InitObjectInv
<1>5. CASE TakeReturn
  BY <1>5, TakeReturnInv
<1>6. CASE (ResumeAllTest \/ _ipc_list_resume_all \/ Background) /\ UNCHANGED mutexes
  <2>1. IpcInv' /\ SameGrants /\ WaitsEased
    BY <1>0, <1>6, ResumeAllTestKeeps, ResumeAllKeeps, BackgroundKeeps
  <2>2. live' = live
    BY <1>6 DEF ResumeAllTest, _ipc_list_resume_all, Background, Reschedule, Delay,
                SliceEnd, Timeout
  <2> QED
    BY <1>6, <2>1, <2>2, EasedEmpties, QuietStep
<1>7. CASE UNCHANGED vars
  <2>1. UNCHANGED <<k, pc, on, live, phantom>> /\ UNCHANGED mutexes
    BY <1>7 DEF vars, ipc
  <2>2. IpcInv' /\ SameGrants
    BY <1>0, <2>1 DEF IpcInv, IpcTypeOK, Joined, InCall, SameGrants, Granted
  <2>3. EmptiesStay
    BY <2>1, SameWaits
  <2> QED
    BY <2>1, <2>2, <2>3, QuietStep
<1> QED
  BY <1>1, <1>2, <1>3, <1>4, <1>5, <1>6, <1>7 DEF Next

\* In every reachable state the record of the holders is exact, an owned mutex
\* has a priority to go back to, and lists, timers, states and answers agree.
THEOREM MutexInvariant == Spec => []IInv
<1>1. Init => IInv
  BY MutexInit
<1>2. IInv /\ [Next]_vars => IInv'
  BY MutexNext
<1> QED
  BY <1>1, <1>2, PTL DEF Spec

\* rt_mutex_take, rt_mutex_release and the timeouts keep every variable in its
\* type: mutex->hold stays within RT_MUTEX_HOLD_MAX, mutex->value is 0 or 1, and
\* no thread gives back what it did not take.
THEOREM MutexTyped == Spec => []TypeOK
<1>1. IInv => TypeOK
  BY DEF IInv
<1> QED
  BY <1>1, MutexInvariant, PTL

\* rt_mutex_take and rt_mutex_release, handing over and timing out included:
\* a mutex has at most one holder, the one it names, as often as it says.
THEOREM MutexHolds == Spec => []HoldExact
<1>1. IInv => HoldExact
  BY DEF IInv
<1> QED
  BY <1>1, MutexInvariant, PTL

\* Each wait in rt_mutex_take ends one way only, whatever handovers, timeouts,
\* priority changes and detaches race for it.
THEOREM MutexAnswers == Spec => []OneAnswer
<1>1. IInv => OneAnswer
  BY InvOneAnswer DEF IInv
<1> QED
  BY <1>1, MutexInvariant, PTL
-----------------------------------------------------------------------------
(* Priority inheritance, where a thread takes a mutex only while it owns no *)
(* other.  Of nested mutexes the two properties do not hold.                *)

OneAtATime ==
  \A o \in Obj, time \in Timeouts :
    rt_mutex_take(o, time) => \A q \in live \ {o} : owner[q] # k.cur

\* An owner waits for nothing; a thread owns one mutex at most; an owner outranks
\* whom it keeps waiting.
OwnerAwake == \A o \in live, t \in Thread : owner[o] = t => \A q \in Obj : ~Member(t, k.wait[q])

OneEach == \A t \in Thread : \A o, q \in live : owner[o] = t /\ owner[q] = t => o = q

OwnerOutranks ==
  \A o \in live, w, t \in Thread : owner[o] = w /\ Member(t, k.wait[o]) => k.prio[w] <= k.prio[t]

\* A thread without a mutex has its own priority, and that is the one its mutex
\* takes it back to, unless it still owns a mutex that was detached.
OwnsDetached(t) == \E o \in Obj : o \notin live /\ owner[o] = t

OriginalOwn ==
  \A o \in live, t \in Thread : owner[o] = t /\ ~OwnsDetached(t) => original[o] = InitPrio[t]

QueuesOrdered == \A o \in Obj : Ordered(k.wait[o], k.prio)

UrgencyInv ==
  QueuesOrdered /\ OwnerAwake /\ OneEach /\ OwnerOutranks /\ PriorityRestored /\ OriginalOwn

\* Nobody waits for a mutex without an owner.
LEMMA OutranksNoInversion ==
  ASSUME IInv, OwnerOutranks
  PROVE  NoInversion
<1>1. /\ \A o \in live : HoldsAt(o)
      /\ live \subseteq Obj /\ owner \in [Obj -> Thread \cup {Nobody}] /\ k \in KernelState
  BY InvFacts
<1>2. ASSUME NEW o \in live, NEW i \in DOMAIN k.wait[o]
      PROVE  k.prio[owner[o]] <= k.prio[k.wait[o][i]]
  <2>1. o \in Obj /\ k.wait[o] \in Seq(Thread)
    BY <1>1, <1>2 DEF KernelState
  <2>2. PICK t \in Thread : t = k.wait[o][i]
    BY <1>2, <2>1
  <2>3. Member(t, k.wait[o]) /\ k.wait[o] # <<>>
    BY <1>2, <2>1, <2>2 DEF Member
  <2>4. owner[o] \in Thread
    BY <1>1, <1>2, <2>1, <2>3 DEF HoldsAt
  <2>5. PICK w \in Thread : w = owner[o]
    BY <2>4
  <2> QED
    BY <1>2, <2>2, <2>3, <2>5 DEF OwnerOutranks
<1> QED
  BY <1>2 DEF NoInversion

\* A queue stays in order when the priorities of others change.
LEMMA SamePrioOrdered ==
  ASSUME NEW s \in Seq(Thread), NEW f, NEW g, Ordered(s, f),
         \A t \in Thread : Member(t, s) => g[t] = f[t]
  PROVE  Ordered(s, g)
<1>1. ASSUME NEW i \in DOMAIN s, NEW j \in DOMAIN s, i < j PROVE g[s[i]] <= g[s[j]]
  <2>1. s[i] \in Thread /\ s[j] \in Thread /\ Member(s[i], s) /\ Member(s[j], s)
    BY <1>1 DEF Member
  <2>2. g[s[i]] = f[s[i]] /\ g[s[j]] = f[s[j]]
    BY <2>1
  <2> QED
    BY <1>1, <2>2 DEF Ordered
<1> QED
  BY <1>1 DEF Ordered

\* The first of a queue in order is its most urgent thread.
LEMMA HeadFirst ==
  ASSUME NEW s \in Seq(Thread), s # <<>>, NEW f \in [Thread -> Prio], Ordered(s, f),
         NEW t \in Thread, Member(t, s)
  PROVE  f[Head(s)] <= f[t]
<1>1. PICK j \in DOMAIN s : s[j] = t
  BY DEF Member
<1>2. 1 \in DOMAIN s /\ Head(s) = s[1] /\ j \in Nat /\ j >= 1
  BY <1>1
<1>3. CASE j = 1
  <2>1. f[t] \in Nat
    BY KernelAssumption DEF Prio
  <2> QED
    BY <1>1, <1>2, <1>3, <2>1
<1>4. CASE j # 1
  BY <1>1, <1>2, <1>4 DEF Ordered
<1> QED
  BY <1>3, <1>4

-----------------------------------------------------------------------------
(* The steps keep it *)

\* A step that gives no mutex to anyone and changes no priority.
LEMMA UrgencyQuiet ==
  ASSUME UrgencyInv, owner' = owner, original' = original, live' \subseteq live,
         live \subseteq Obj, WaitsEased
  PROVE  UrgencyInv'
<1>1. /\ k'.prio = k.prio /\ \A o \in Obj : InPrioOrder(o) => InPrioOrder(o)'
      /\ \A t \in Thread, o \in Obj : Member(t, k'.wait[o]) => Member(t, k.wait[o])
  BY DEF WaitsEased
<1>2. QueuesOrdered'
  BY <1>1 DEF UrgencyInv, QueuesOrdered, Ordered, InPrioOrder
<1>3. OwnerAwake' /\ OneEach' /\ OwnerOutranks'
  BY <1>1 DEF UrgencyInv, OwnerAwake, OneEach, OwnerOutranks
<1>4. PriorityRestored'
  BY <1>1 DEF UrgencyInv, PriorityRestored
<1>5. OriginalOwn'
  BY DEF UrgencyInv, OriginalOwn, OwnsDetached
<1> QED
  BY <1>2, <1>3, <1>4, <1>5 DEF UrgencyInv

LEMMA SameQueuesEased ==
  ASSUME k'.wait = k.wait, k'.prio = k.prio
  PROVE  WaitsEased
BY DEF WaitsEased, InPrioOrder

\* A free mutex goes to a thread that runs, so waits for nothing, and has its own
\* priority if it owns nothing at all.
LEMMA TakeFreeUrgency ==
  ASSUME IInv, UrgencyInv, NEW o \in Obj, NEW time, rt_mutex_take(o, time), TakeFree(o),
         \A q \in live \ {o} : owner[q] # k.cur
  PROVE  UrgencyInv'
<1>1. /\ App /\ o \in live /\ live' = live /\ HoldsAt(o)
  BY TakeFacts
<1>2. /\ owner \in [Obj -> Thread \cup {Nobody}] /\ original \in [Obj -> Prio \cup {NoPriority}]
      /\ k \in KernelState /\ k.prio \in [Thread -> Prio] /\ k.cur \in Thread /\ Calm(k)
      /\ Nobody \notin Thread /\ live \subseteq Obj /\ value \in [Obj -> {0, 1}] /\ IpcInv
  BY InvFacts
<1>3. PICK c \in Thread : c = k.cur
  BY <1>2
<1>4. PICK p \in Prio : p = k.prio[c]
  BY <1>2
<1>5. /\ owner' = [owner EXCEPT ![o] = c] /\ original' = [original EXCEPT ![o] = p]
      /\ \A q \in Obj : q # o => owner'[q] = owner[q] /\ original'[q] = original[q]
      /\ owner'[o] = c /\ original'[o] = p
  BY <1>2, <1>3, <1>4 DEF TakeFree
<1>6. owner[o] = Nobody /\ k.wait[o] = <<>>
  BY <1>1, <1>2 DEF TakeFree, HoldsAt
<1>7. k'.wait = k.wait /\ k'.prio = k.prio
  BY <1>2 DEF TakeFree, KernelState
<1>8. \A q \in Obj : ~Member(c, k.wait[q])
  BY <1>1, <1>2, <1>3, AppFacts, AwakeUnlisted
<1>9. \A q \in live : q # o => owner[q] # c
  BY <1>3
<1>10. \A t \in Thread : ~Member(t, k.wait[o])
  BY <1>6 DEF Member
<1> HIDE DEF TakeFree, rt_mutex_take
<1>11. QueuesOrdered'
  BY <1>7 DEF UrgencyInv, QueuesOrdered
<1>12. OwnerAwake'
  BY <1>1, <1>2, <1>5, <1>7, <1>8 DEF UrgencyInv, OwnerAwake
<1>13. OneEach'
  BY <1>1, <1>2, <1>5, <1>9 DEF UrgencyInv, OneEach
<1>14. OwnerOutranks'
  BY <1>1, <1>2, <1>5, <1>7, <1>10 DEF UrgencyInv, OwnerOutranks
<1>15. PriorityRestored'
  <2>1. ASSUME NEW t \in Thread, \A q \in Obj : owner'[q] # t
        PROVE  k'.prio[t] = InitPrio[t]
    <3>1. \A q \in Obj : owner[q] # t
      BY <1>2, <1>5, <1>6, <2>1
    <3> QED
      BY <1>7, <3>1 DEF UrgencyInv, PriorityRestored
  <2> QED
    BY <2>1 DEF PriorityRestored
<1>16. OriginalOwn'
  <2>1. ASSUME NEW q \in live', NEW t \in Thread, owner'[q] = t, ~OwnsDetached(t)'
        PROVE  original'[q] = InitPrio[t]
    <3>1. ~OwnsDetached(t)
      BY <1>1, <1>5, <2>1 DEF OwnsDetached
    <3>2. CASE q = o
      <4>1. \A r \in Obj : owner[r] # c
        BY <1>2, <1>5, <1>6, <1>9, <2>1, <3>1, <3>2 DEF OwnsDetached
      <4> QED
        BY <1>4, <1>5, <2>1, <3>2, <4>1 DEF UrgencyInv, PriorityRestored
    <3>3. CASE q # o
      BY <1>1, <1>2, <1>5, <2>1, <3>1, <3>3 DEF UrgencyInv, OriginalOwn
    <3> QED
      BY <3>2, <3>3
  <2> QED
    BY <2>1 DEF OriginalOwn
<1> QED
  BY <1>11, <1>12, <1>13, <1>14, <1>15, <1>16 DEF UrgencyInv

\* After Inherit the owner is as urgent as the caller, and nobody else changed.
LEMMA InheritPrio ==
  ASSUME IInv, NEW o \in Obj, NEW w \in Thread, owner[o] = w
  PROVE  \E p \in Prio : /\ Inherit(o).prio = [k.prio EXCEPT ![w] = p]
                         /\ p <= k.prio[w] /\ p <= k.prio[k.cur]
<1>1. Calm(k) /\ k.cur \in Thread /\ k.prio \in [Thread -> Prio]
  BY InvFacts
<1>2. PICK p \in Prio : p = k.prio[k.cur]
  BY <1>1
<1>3. PICK v \in Prio : v = k.prio[w]
  BY <1>1
<1>4. p \in Nat /\ v \in Nat
  BY KernelAssumption DEF Prio
<1>5. CASE p < v
  <2>1. ChangePriority(k, w, p).prio = [k.prio EXCEPT ![w] = p]
    BY <1>1, PrioritySimilar
  <2>2. Inherit(o) = ChangePriority(k, w, p)
    BY <1>2, <1>3, <1>5 DEF Inherit
  <2> QED
    BY <1>2, <1>3, <1>4, <1>5, <2>1, <2>2
<1>6. CASE ~(p < v)
  <2>1. Inherit(o) = k /\ k.prio = [k.prio EXCEPT ![w] = v]
    BY <1>1, <1>2, <1>3, <1>6 DEF Inherit
  <2> QED
    BY <1>2, <1>3, <1>4, <1>6, <2>1
<1> QED
  BY <1>5, <1>6

LEMMA TakeBlocksUrgency ==
  ASSUME IInv, UrgencyInv, NEW o \in Obj, NEW time, rt_mutex_take(o, time), TakeBlocks(o, time),
         \A q \in live \ {o} : owner[q] # k.cur
  PROVE  UrgencyInv'
<1>1. /\ App /\ o \in live /\ live' = live
  BY TakeFacts
<1>2. /\ owner \in [Obj -> Thread \cup {Nobody}] /\ k \in KernelState
      /\ k.prio \in [Thread -> Prio] /\ k.cur \in Thread /\ Calm(k)
      /\ live \subseteq Obj /\ IpcInv /\ k.wait \in [Obj -> Seq(Thread)]
  BY InvFacts DEF KernelState
<1>3. PICK c \in Thread : c = k.cur
  BY <1>2
<1>4. owner[o] \in Thread /\ owner[o] # c /\ owner' = owner /\ original' = original
  BY <1>3, TakeBlocksKeeps DEF TakeBlocks, mutexes
<1>5. PICK w \in Thread : w = owner[o]
  BY <1>4
<1>6. PICK g : g = Inherit(o).prio
  OBVIOUS
<1>7. PICK p \in Prio : g = [k.prio EXCEPT ![w] = p] /\ p <= k.prio[w] /\ p <= k.prio[c]
  BY <1>3, <1>5, <1>6, InheritPrio
<1>8. /\ k'.prio = g
      /\ k'.wait = [k.wait EXCEPT ![o] = Queued(k.wait[o], c, "PRIO", g)]
  BY <1>3, <1>6, TakeBlocksKeeps
<1>9. /\ g \in [Thread -> Prio] /\ g[w] = p /\ \A t \in Thread : t # w => g[t] = k.prio[t]
  BY <1>2, <1>7
<1>10. \A q \in Obj : ~Member(c, k.wait[q])
  BY <1>1, <1>2, <1>3, AppFacts, AwakeUnlisted
<1>11. \A q \in Obj : ~Member(w, k.wait[q])
  BY <1>1, <1>5 DEF UrgencyInv, OwnerAwake
<1>12. \A q \in Obj : Ordered(k.wait[q], g)
  <2>1. ASSUME NEW q \in Obj PROVE Ordered(k.wait[q], g)
    <3>1. PICK s \in Seq(Thread) : s = k.wait[q]
      BY <1>2
    <3>2. \A t \in Thread : Member(t, s) => g[t] = k.prio[t]
      BY <1>9, <1>11, <3>1
    <3>3. Ordered(s, k.prio)
      BY <3>1 DEF UrgencyInv, QueuesOrdered
    <3> QED
      BY <3>1, <3>2, <3>3, SamePrioOrdered
  <2> QED
    BY <2>1
<1>13. PICK r : r = Queued(k.wait[o], c, "PRIO", g)
  OBVIOUS
<1>14. Ordered(r, g) /\ \A t \in Thread : Member(t, r) <=> Member(t, k.wait[o]) \/ t = c
  <2>1. PICK s \in Seq(Thread) : s = k.wait[o]
    BY <1>2
  <2>2. IsInjective(s) /\ ~Member(c, s) /\ Ordered(s, g)
    BY <1>2, <1>10, <1>12, <2>1 DEF Calm, Lists, ListsSound, WaitListsSound
  <2>3. PICK f : f = "PRIO"
    OBVIOUS
  <2>4. LET u == Queued(s, c, f, g) IN
        /\ \A v : Member(v, u) <=> Member(v, s) \/ v = c
        /\ f # "FIFO" /\ Ordered(s, g) => Ordered(u, g)
    BY ONLY <1>9, <2>1, <2>2, c \in Thread, QueuedFacts
  <2> QED
    BY <1>13, <2>1, <2>2, <2>3, <2>4
<1>15. /\ k'.wait[o] = r /\ \A q \in Obj : q # o => k'.wait[q] = k.wait[q]
  BY <1>2, <1>8, <1>13
<1>16. \A t \in Thread, q \in Obj :
         Member(t, k'.wait[q]) <=> Member(t, k.wait[q]) \/ (t = c /\ q = o)
  BY <1>14, <1>15
<1> HIDE DEF TakeBlocks, rt_mutex_take
<1>17. QueuesOrdered'
  BY <1>8, <1>12, <1>14, <1>15 DEF QueuesOrdered
<1>18. OwnerAwake' /\ OneEach'
  <2>1. \A q \in live : owner[q] # c
    BY <1>3, <1>4
  <2> QED
    BY <1>1, <1>2, <1>4, <1>16, <2>1 DEF UrgencyInv, OwnerAwake, OneEach
<1>19. OwnerOutranks'
  <2>1. ASSUME NEW q \in live', NEW x \in Thread, NEW t \in Thread,
               owner'[q] = x, Member(t, k'.wait[q])
        PROVE  k'.prio[x] <= k'.prio[t]
    <3>1. q \in live /\ q \in Obj /\ owner[q] = x
      BY <1>1, <1>2, <1>4, <2>1
    <3>2. /\ k.prio[x] \in Nat /\ k.prio[t] \in Nat /\ k.prio[c] \in Nat /\ p \in Nat
      BY <1>2, KernelAssumption DEF Prio
    <3>3. CASE t = c /\ q = o
      BY <1>4, <1>5, <1>7, <1>8, <1>9, <3>1, <3>3
    <3>4. CASE Member(t, k.wait[q])
      <4>1. t # w /\ k.prio[x] <= k.prio[t] /\ g[t] = k.prio[t]
        BY <1>9, <1>11, <3>1, <3>4 DEF UrgencyInv, OwnerOutranks
      <4>2. g[x] <= k.prio[x]
        <5>1. CASE x = w
          BY <1>7, <1>9, <5>1
        <5>2. CASE x # w
          BY <1>9, <3>2, <5>2
        <5> QED
          BY <5>1, <5>2
      <4>3. g[x] \in Nat
        BY <1>9, KernelAssumption DEF Prio
      <4> QED
        BY <1>8, <3>2, <4>1, <4>2, <4>3
    <3> QED
      BY <1>16, <2>1, <3>1, <3>3, <3>4
  <2> QED
    BY <2>1 DEF OwnerOutranks
<1>20. PriorityRestored'
  BY <1>4, <1>5, <1>8, <1>9 DEF UrgencyInv, PriorityRestored
<1>21. OriginalOwn'
  BY <1>1, <1>4 DEF UrgencyInv, OriginalOwn, OwnsDetached
<1> QED
  BY <1>17, <1>18, <1>19, <1>20, <1>21 DEF UrgencyInv

\* The last release: the caller has its own priority back.
LEMMA RestorePrio ==
  ASSUME IInv, NEW o \in Obj, NEW c \in Thread, c = k.cur, owner[o] = c
  PROVE  /\ original[o] \in Prio
         /\ Restore(o).prio = [k.prio EXCEPT ![c] = original[o]]
<1>1. Calm(k) /\ k.prio \in [Thread -> Prio] /\ Nobody \notin Thread /\ OriginalKnown
  BY InvFacts DEF IInv
<1>2. PICK p \in Prio : p = original[o]
  BY <1>1 DEF OriginalKnown
<1>3. CASE p # k.prio[c]
  <2>1. ChangePriority(k, c, p).prio = [k.prio EXCEPT ![c] = p]
    BY <1>1, PrioritySimilar
  <2> QED
    BY <1>2, <1>3, <2>1 DEF Restore
<1>4. CASE p = k.prio[c]
  BY <1>1, <1>2, <1>4 DEF Restore
<1> QED
  BY <1>3, <1>4

\* What a last release starts from, and what it does to priorities: b is the
\* kernel's state after Restore.
LastRelease(o, c, b) ==
  /\ owner[o] = c /\ original[o] \in Prio
  /\ b.prio = [k.prio EXCEPT ![c] = original[o]]
  /\ \A q \in Obj : ~Member(c, k.wait[q]) /\ Ordered(k.wait[q], b.prio)

LEMMA LastReleaseFacts ==
  ASSUME IInv, UrgencyInv, NEW o \in Obj, rt_mutex_release(o), owner[o] = k.cur,
         NEW c \in Thread, c = k.cur, NEW b, b = Restore(o)
  PROVE  Similar(k, b) /\ LastRelease(o, c, b)
<1>1. /\ k.prio \in [Thread -> Prio] /\ Calm(k) /\ IpcInv /\ App
      /\ k.wait \in [Obj -> Seq(Thread)]
  BY InvFacts, ReleaseFacts DEF KernelState
<1>2. /\ original[o] \in Prio /\ b.prio = [k.prio EXCEPT ![c] = original[o]]
      /\ Similar(k, b)
  BY RestorePrio, RestoreSimilar
<1>3. \A q \in Obj : ~Member(c, k.wait[q])
  BY <1>1, AppFacts, AwakeUnlisted
<1>4. \A t \in Thread : t # c => b.prio[t] = k.prio[t]
  BY <1>1, <1>2
<1>5. ASSUME NEW q \in Obj PROVE Ordered(k.wait[q], b.prio)
  <2>1. PICK s \in Seq(Thread) : s = k.wait[q]
    BY <1>1
  <2>2. PICK g : g = b.prio
    OBVIOUS
  <2>3. \A t \in Thread : Member(t, s) => g[t] = k.prio[t]
    BY <1>3, <1>4, <2>1, <2>2
  <2>4. Ordered(s, k.prio)
    BY <2>1 DEF UrgencyInv, QueuesOrdered
  <2> QED
    BY <2>1, <2>2, <2>3, <2>4, SamePrioOrdered
<1> QED
  BY <1>2, <1>3, <1>5 DEF LastRelease

LEMMA GiveUpUrgency ==
  ASSUME IInv, UrgencyInv, NEW o \in Obj, rt_mutex_release(o), owner[o] = k.cur, hold[o] = 1,
         GiveUp(o)
  PROVE  UrgencyInv'
<1>1. /\ o \in live /\ live' = live
  BY ReleaseFacts
<1>2. /\ owner \in [Obj -> Thread \cup {Nobody}] /\ original \in [Obj -> Prio \cup {NoPriority}]
      /\ k.prio \in [Thread -> Prio] /\ k.cur \in Thread /\ Nobody \notin Thread
      /\ live \subseteq Obj
  BY InvFacts
<1>3. PICK c \in Thread : c = k.cur
  BY <1>2
<1>4. PICK b : b = Restore(o)
  OBVIOUS
<1>5. Similar(k, b) /\ LastRelease(o, c, b)
  BY <1>3, <1>4, LastReleaseFacts
<1>6. /\ k' = b /\ owner' = [owner EXCEPT ![o] = Nobody]
      /\ original' = [original EXCEPT ![o] = NoPriority]
      /\ owner'[o] = Nobody
      /\ \A q \in Obj : q # o => owner'[q] = owner[q] /\ original'[q] = original[q]
  BY <1>2, <1>4 DEF GiveUp
<1> HIDE DEF GiveUp, rt_mutex_release
<1>7. /\ k'.wait = k.wait /\ k'.prio = b.prio
      /\ b.prio[c] = original[o] /\ \A t \in Thread : t # c => b.prio[t] = k.prio[t]
      /\ owner[o] = c
  BY <1>2, <1>5, <1>6 DEF Similar, LastRelease
<1>8. QueuesOrdered'
  BY <1>5, <1>7 DEF LastRelease, QueuesOrdered
<1>9. OwnerAwake' /\ OneEach'
  BY <1>1, <1>2, <1>6, <1>7 DEF UrgencyInv, OwnerAwake, OneEach
<1>10. OwnerOutranks'
  <2>1. ASSUME NEW q \in live', NEW w \in Thread, NEW t \in Thread,
               owner'[q] = w, Member(t, k'.wait[q])
        PROVE  k'.prio[w] <= k'.prio[t]
    <3>1. q \in live /\ q \in Obj /\ q # o /\ owner[q] = w
      BY <1>1, <1>2, <1>6, <2>1
    <3>2. w # c
      BY <1>1, <1>7, <3>1 DEF UrgencyInv, OneEach
    <3>3. t # c
      BY <1>5, <1>7, <2>1, <3>1 DEF LastRelease
    <3> QED
      BY <1>7, <2>1, <3>1, <3>2, <3>3 DEF UrgencyInv, OwnerOutranks
  <2> QED
    BY <2>1 DEF OwnerOutranks
<1>11. PriorityRestored'
  <2>1. ASSUME NEW t \in Thread, \A q \in Obj : owner'[q] # t PROVE k'.prio[t] = InitPrio[t]
    <3>1. CASE t = c
      <4>1. ~OwnsDetached(t)
        BY <1>1, <1>6, <2>1 DEF OwnsDetached
      <4> QED
        BY <1>1, <1>7, <3>1, <4>1 DEF UrgencyInv, OriginalOwn
    <3>2. CASE t # c
      <4>1. \A q \in Obj : owner[q] # t
        BY <1>6, <1>7, <2>1, <3>2
      <4> QED
        BY <1>7, <3>2, <4>1 DEF UrgencyInv, PriorityRestored
    <3> QED
      BY <3>1, <3>2
  <2> QED
    BY <2>1 DEF PriorityRestored
<1>12. OriginalOwn'
  <2>1. \A t \in Thread : OwnsDetached(t) => OwnsDetached(t)'
    BY <1>1, <1>6 DEF OwnsDetached
  <2> QED
    BY <1>1, <1>2, <1>6, <2>1 DEF UrgencyInv, OriginalOwn
<1> QED
  BY <1>8, <1>9, <1>10, <1>11, <1>12 DEF UrgencyInv

\* The new owner is the most urgent of those that waited, and waits no more.
LEMMA HandOverUrgency ==
  ASSUME IInv, UrgencyInv, NEW o \in Obj, rt_mutex_release(o), owner[o] = k.cur, hold[o] = 1,
         HandOver(o)
  PROVE  UrgencyInv'
<1>1. /\ App /\ o \in live /\ on' = on /\ live' = live /\ phantom' = phantom
  BY ReleaseFacts
<1>2. /\ owner \in [Obj -> Thread \cup {Nobody}] /\ original \in [Obj -> Prio \cup {NoPriority}]
      /\ k.prio \in [Thread -> Prio] /\ k.cur \in Thread /\ Nobody \notin Thread
      /\ live \subseteq Obj /\ IpcInv /\ Calm(k) /\ k.wait \in [Obj -> Seq(Thread)]
  BY InvFacts DEF KernelState
<1>3. PICK c \in Thread : c = k.cur
  BY <1>2
<1>4. PICK b : b = Restore(o)
  OBVIOUS
<1>5. Similar(k, b) /\ LastRelease(o, c, b)
  BY <1>3, <1>4, LastReleaseFacts
<1>6. k.wait[o] # <<>> /\ k' = _ipc_list_resume(b, o) /\ Goto("sched")
  BY <1>4 DEF HandOver
<1>7. /\ Eased(b, k') /\ \A q \in Obj : ~Member(Head(k.wait[o]), k'.wait[q])
  BY ONLY <1>1, <1>2, <1>5, <1>6, o \in Obj, ReleaseKeeps
<1>8. PICK h \in Thread : h = Head(k.wait[o])
  BY <1>2, <1>6, HeadFacts
<1>9. Member(h, k.wait[o]) /\ h # c
  BY <1>2, <1>5, <1>6, <1>8, HeadFacts DEF LastRelease
<1>10. PICK p \in Prio : p = k.prio[h]
  BY <1>2
<1>11. /\ owner'[o] = h /\ original'[o] = p
       /\ \A q \in Obj : q # o => owner'[q] = owner[q] /\ original'[q] = original[q]
  <2>1. owner' = [owner EXCEPT ![o] = h] /\ original' = [original EXCEPT ![o] = p]
    BY <1>8, <1>10 DEF HandOver
  <2> QED
    BY <1>2, <2>1
<1>12. /\ k'.prio = b.prio /\ b.prio \in [Thread -> Prio]
       /\ b.prio[c] = original[o] /\ \A t \in Thread : t # c => b.prio[t] = k.prio[t]
       /\ owner[o] = c
  BY <1>2, <1>5, <1>7 DEF Eased, LastRelease
<1>13. \A t \in Thread, q \in Obj : Member(t, k'.wait[q]) => Member(t, k.wait[q]) /\ t # h
  BY <1>5, <1>7, <1>8 DEF Eased, Loosened, Similar
<1> HIDE DEF HandOver, rt_mutex_release
<1>14. QueuesOrdered'
  BY <1>5, <1>7, <1>12 DEF LastRelease, QueuesOrdered, Eased, Similar
<1>15. \A q \in live : owner[q] # h
  BY <1>2, <1>9 DEF UrgencyInv, OwnerAwake
<1>16. OwnerAwake' /\ OneEach'
  <2>1. ASSUME NEW q \in live', NEW t \in Thread, owner'[q] = t, NEW r \in Obj
        PROVE  ~Member(t, k'.wait[r])
    <3>1. q \in live /\ q \in Obj
      BY <1>1, <1>2
    <3>2. t = h \/ owner[q] = t
      BY <1>11, <2>1, <3>1
    <3>3. owner[q] = t => ~Member(t, k.wait[r])
      BY <3>1 DEF UrgencyInv, OwnerAwake
    <3> QED
      BY <1>13, <3>2, <3>3
  <2>2. ASSUME NEW t \in Thread, NEW q \in live', NEW r \in live',
               owner'[q] = t, owner'[r] = t
        PROVE  q = r
    <3>1. q \in live /\ q \in Obj /\ r \in live /\ r \in Obj
      BY <1>1, <1>2
    <3>2. owner[q] # h /\ owner[r] # h
      BY <1>15, <3>1
    <3>3. owner[q] = t /\ owner[r] = t => q = r
      BY <3>1 DEF UrgencyInv, OneEach
    <3> QED
      BY <1>11, <2>2, <3>1, <3>2, <3>3
  <2>3. OwnerAwake'
    BY <2>1 DEF OwnerAwake
  <2>4. OneEach'
    BY <2>2 DEF OneEach
  <2> QED
    BY <2>3, <2>4
<1>17. OwnerOutranks'
  <2>1. ASSUME NEW q \in live', NEW w \in Thread, NEW t \in Thread,
               owner'[q] = w, Member(t, k'.wait[q])
        PROVE  k'.prio[w] <= k'.prio[t]
    <3>1. q \in live /\ q \in Obj /\ Member(t, k.wait[q])
      BY <1>1, <1>2, <1>13, <2>1
    <3>2. CASE q = o
      <4>1. PICK s \in Seq(Thread) : s = k.wait[o]
        BY <1>2
      <4>2. PICK g \in [Thread -> Prio] : g = b.prio
        BY <1>12
      <4>3. Ordered(s, g) /\ s # <<>> /\ Member(t, s)
        BY <1>5, <1>6, <3>1, <3>2, <4>1, <4>2 DEF LastRelease
      <4>4. g[Head(s)] <= g[t]
        BY <4>3, HeadFirst
      <4> QED
        BY <1>8, <1>11, <1>12, <2>1, <3>2, <4>1, <4>2, <4>4
    <3>3. CASE q # o
      <4>1. owner[q] = w
        BY <1>11, <2>1, <3>1, <3>3
      <4>2. w # c
        BY <1>1, <1>12, <3>1, <3>3, <4>1 DEF UrgencyInv, OneEach
      <4>3. t # c
        BY <1>5, <3>1 DEF LastRelease
      <4> QED
        BY <1>12, <3>1, <4>1, <4>2, <4>3 DEF UrgencyInv, OwnerOutranks
    <3> QED
      BY <3>2, <3>3
  <2> QED
    BY <2>1 DEF OwnerOutranks
<1>18. PriorityRestored'
  <2>1. ASSUME NEW t \in Thread, \A q \in Obj : owner'[q] # t PROVE k'.prio[t] = InitPrio[t]
    <3>1. CASE t = c
      <4>1. ~OwnsDetached(t)
        BY <1>1, <1>11, <2>1 DEF OwnsDetached
      <4> QED
        BY <1>1, <1>12, <3>1, <4>1 DEF UrgencyInv, OriginalOwn
    <3>2. CASE t # c
      <4>1. \A q \in Obj : owner[q] # t
        BY <1>11, <1>12, <2>1, <3>2
      <4> QED
        BY <1>12, <3>2, <4>1 DEF UrgencyInv, PriorityRestored
    <3> QED
      BY <3>1, <3>2
  <2> QED
    BY <2>1 DEF PriorityRestored
<1>19. OriginalOwn'
  <2>1. ASSUME NEW q \in live', NEW t \in Thread, owner'[q] = t, ~OwnsDetached(t)'
        PROVE  original'[q] = InitPrio[t]
    <3>1. ~OwnsDetached(t) /\ q \in live /\ q \in Obj
      BY <1>1, <1>2, <1>11, <2>1 DEF OwnsDetached
    <3>2. CASE q = o
      <4>1. \A r \in Obj : owner[r] # h
        BY <1>11, <1>15, <2>1, <3>1, <3>2 DEF OwnsDetached
      <4> QED
        BY <1>10, <1>11, <2>1, <3>2, <4>1 DEF UrgencyInv, PriorityRestored
    <3>3. CASE q # o
      BY <1>11, <2>1, <3>1, <3>3 DEF UrgencyInv, OriginalOwn
    <3> QED
      BY <3>2, <3>3
  <2> QED
    BY <2>1 DEF OriginalOwn
<1> QED
  BY <1>14, <1>16, <1>17, <1>18, <1>19 DEF UrgencyInv

\* A mutex that is set up has no owner and nobody waiting.
LEMMA InitUrgency ==
  ASSUME IInv, UrgencyInv, NEW o \in Obj, rt_mutex_init(o)
  PROVE  UrgencyInv'
<1>1. /\ owner \in [Obj -> Thread \cup {Nobody}] /\ original \in [Obj -> Prio \cup {NoPriority}]
      /\ Nobody \notin Thread /\ live \subseteq Obj /\ IpcInv
  BY InvFacts
<1>2. /\ InitObject(o) /\ owner[o] = Nobody /\ live' = live \cup {o}
      /\ owner' = [owner EXCEPT ![o] = Nobody]
      /\ original' = [original EXCEPT ![o] = NoPriority]
  BY DEF rt_mutex_init, InitObject
<1>3. k' = k /\ k.wait[o] = <<>>
  BY <1>1, <1>2, InitObjectKeeps
<1>4. owner' = owner /\ \A q \in Obj : q # o => original'[q] = original[q]
  BY <1>1, <1>2
<1>5. QueuesOrdered' /\ PriorityRestored'
  BY <1>3, <1>4 DEF UrgencyInv, QueuesOrdered, PriorityRestored
<1>6. OwnerAwake' /\ OneEach' /\ OwnerOutranks'
  BY <1>1, <1>2, <1>3, <1>4 DEF UrgencyInv, OwnerAwake, OneEach, OwnerOutranks
<1>7. OriginalOwn'
  <2>1. \A t \in Thread : OwnsDetached(t) => OwnsDetached(t)'
    BY <1>1, <1>2, <1>4 DEF OwnsDetached
  <2> QED
    BY <1>1, <1>2, <1>4, <2>1 DEF UrgencyInv, OriginalOwn
<1> QED
  BY <1>5, <1>6, <1>7 DEF UrgencyInv

LEMMA UrgencyInit ==
  ASSUME Init
  PROVE  UrgencyInv
<1>1. /\ IpcInit /\ owner = [o \in Obj |-> Nobody] /\ Nobody \notin Thread
  BY MutexAssumption DEF Init
<1>2. k.prio = InitPrio /\ (\A o \in Obj : k.wait[o] = <<>>) /\ live = Obj
  BY <1>1, InitKeeps DEF IpcInit
<1> QED
  BY <1>1, <1>2, EmptyOrdered
  DEF UrgencyInv, QueuesOrdered, OwnerAwake, OneEach, OwnerOutranks, PriorityRestored, OriginalOwn

LEMMA UrgencyNext ==
  ASSUME IInv, UrgencyInv, [Next]_vars, [OneAtATime]_vars
  PROVE  UrgencyInv'
<1>0. IpcInv /\ live \subseteq Obj /\ k \in KernelState
  BY InvFacts
<1>1. ASSUME NEW o \in Obj, NEW time \in Timeouts, rt_mutex_take(o, time)
      PROVE  UrgencyInv'
  <2>1. live' \subseteq live
    BY <1>1, TakeFacts
  <2>2. CASE UNCHANGED vars
    <3>1. /\ owner' = owner /\ original' = original /\ k' = k
      BY <2>2 DEF vars, ipc, mutexes
    <3> QED
      BY <1>0, <2>1, <3>1, SameQueuesEased, UrgencyQuiet
  <2>3. CASE ~UNCHANGED vars
    <3>1. \A q \in live \ {o} : owner[q] # k.cur
      BY <1>1, <2>3 DEF OneAtATime
    <3>2. ASSUME TakeAgain(o) \/ TakeRefused(o) PROVE UrgencyInv'
      <4>1. owner' = owner /\ original' = original /\ k'.wait = k.wait /\ k'.prio = k.prio
        BY <1>0, <3>2 DEF TakeAgain, TakeRefused, mutexes, KernelState
      <4> QED
        BY <1>0, <2>1, <4>1, SameQueuesEased, UrgencyQuiet
    <3>3. TakeAgain(o) \/ TakeFree(o) \/ TakeRefused(o) \/ TakeBlocks(o, time)
      BY <1>1 DEF rt_mutex_take
    <3> QED
      BY <1>1, <3>1, <3>2, <3>3, TakeFreeUrgency, TakeBlocksUrgency
  <2> QED
    BY <2>2, <2>3
<1>2. ASSUME NEW o \in Obj, rt_mutex_release(o)
      PROVE  UrgencyInv'
  <2>1. live' \subseteq live
    BY <1>2, ReleaseFacts
  <2>2. ASSUME owner[o] # k.cur \/ ReleaseInner(o) PROVE UrgencyInv'
    <3>1. owner' = owner /\ original' = original /\ k'.wait = k.wait /\ k'.prio = k.prio
      BY <1>0, <1>2, <2>2 DEF rt_mutex_release, ReleaseInner, mutexes, KernelState
    <3> QED
      BY <1>0, <2>1, <3>1, SameQueuesEased, UrgencyQuiet
  <2>3. \/ owner[o] # k.cur
        \/ owner[o] = k.cur /\ \/ ReleaseInner(o)
                               \/ hold[o] = 1 /\ HandOver(o)
                               \/ hold[o] = 1 /\ GiveUp(o)
    BY <1>2 DEF rt_mutex_release
  <2> QED
    BY <1>2, <2>2, <2>3, HandOverUrgency, GiveUpUrgency
<1>3. ASSUME NEW o \in Obj, rt_mutex_detach(o)
      PROVE  UrgencyInv'
  <2>1. /\ DetachBegin(o) /\ live' \subseteq live /\ owner' = owner /\ original' = original
    BY <1>3 DEF rt_mutex_detach, DetachBegin, mutexes
  <2> QED
    BY <1>0, <2>1, DetachBeginKeeps, UrgencyQuiet
<1>4. CASE TakeReturn
  <2>1. /\ k' = k /\ live' = live /\ owner' = owner /\ original' = original
    BY <1>4 DEF TakeReturn
  <2> QED
    BY <1>0, <2>1, SameQueuesEased, UrgencyQuiet
<1>5. CASE (ResumeAllTest \/ _ipc_list_resume_all \/ Background) /\ UNCHANGED mutexes
  <2>1. WaitsEased
    BY <1>0, <1>5, ResumeAllTestKeeps, ResumeAllKeeps, BackgroundKeeps
  <2>2. live' = live /\ owner' = owner /\ original' = original
    BY <1>5 DEF ResumeAllTest, _ipc_list_resume_all, Background, Reschedule, Delay,
                SliceEnd, Timeout, mutexes
  <2> QED
    BY <1>0, <2>1, <2>2, UrgencyQuiet
<1>6. CASE UNCHANGED vars
  <2>1. /\ k' = k /\ live' = live /\ owner' = owner /\ original' = original
    BY <1>6 DEF vars, ipc, mutexes
  <2> QED
    BY <1>0, <2>1, SameQueuesEased, UrgencyQuiet
<1> QED
  BY <1>1, <1>2, <1>3, <1>4, <1>5, <1>6, InitUrgency DEF Next

\* Where threads take one mutex at a time, every reachable state keeps the
\* queues in order, owners awake and more urgent than whom they keep waiting,
\* and the priorities to go back to known.
THEOREM MutexUrgency == Spec /\ [][OneAtATime]_vars => []UrgencyInv
<1>1. Init => UrgencyInv
  BY UrgencyInit
<1>2. IInv /\ UrgencyInv /\ [Next]_vars /\ [OneAtATime]_vars => UrgencyInv'
  BY UrgencyNext
<1> QED
  BY <1>1, <1>2, MutexInvariant, PTL DEF Spec

\* Priority inheritance in rt_mutex_take and rt_mutex_release bounds inversion:
\* through queues, handovers, timeouts and detaches of any number of mutexes, an
\* owner is at least as urgent as each thread that waits for its mutex.
THEOREM MutexNoInversion == Spec /\ [][OneAtATime]_vars => []NoInversion
<1>1. IInv /\ UrgencyInv => NoInversion
  BY OutranksNoInversion DEF UrgencyInv
<1> QED
  BY <1>1, MutexInvariant, MutexUrgency, PTL

\* And no inherited priority stays: a thread that owns no mutex any more is back
\* at the priority it was given.
THEOREM MutexPriorities == Spec /\ [][OneAtATime]_vars => []PriorityRestored
<1>1. UrgencyInv => PriorityRestored
  BY DEF UrgencyInv
<1> QED
  BY <1>1, MutexUrgency, PTL
=============================================================================
