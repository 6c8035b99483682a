------------------------------ MODULE IpcProofs ------------------------------
(***************************************************************************)
(* What every service of ipc.c relies on when its threads wait, for any    *)
(* set of threads and objects: the queues of waiting threads, the          *)
(* operators of Kernel and Ipc that block, resume and reschedule, and the  *)
(* steps that all the services share.                                      *)
(***************************************************************************)
EXTENDS Ipc, KernelProofs, FiniteSetTheorems

-----------------------------------------------------------------------------
(* Queues in order of priority *)

\* The threads of s queue in order of the priorities prio.
Ordered(s, prio) == \A i, j \in DOMAIN s : i < j => prio[s[i]] <= prio[s[j]]

\* A non-empty set of naturals has a least element.
LEMMA LeastOf ==
  ASSUME NEW S \in SUBSET Nat, S # {}
  PROVE  \E n \in S : \A m \in S : n <= m
<1>1. PICK p \in S : \A q \in S : ~(<<q, p>> \in OpToRel(<, Nat))
  BY NatLessThanWellFounded, WFMin
<1>2. ASSUME NEW q \in S PROVE p <= q
  <2>1. ~(q < p)
    BY <1>1, Zenon DEF OpToRel
  <2> QED
    BY <2>1
<1> QED
  BY <1>2

\* InsertAt makes room at position n.
LEMMA InsertAtFacts ==
  ASSUME NEW S, NEW s \in Seq(S), NEW n \in 1 .. Len(s) + 1, NEW e \in S
  PROVE  LET r == InsertAt(s, n, e) IN
         /\ r \in Seq(S) /\ Len(r) = Len(s) + 1 /\ r[n] = e
         /\ \A i \in 1 .. n - 1 : r[i] = s[i]
         /\ \A i \in n + 1 .. Len(s) + 1 : r[i] = s[i - 1]
<1> DEFINE A == SubSeq(s, 1, n - 1)
           B == SubSeq(s, n, Len(s))
           r == InsertAt(s, n, e)
<1>1. /\ A \in Seq(S) /\ Len(A) = n - 1
      /\ \A i \in 1 .. n - 1 : A[i] = s[i]
  BY SubSeqProperties
<1>2. /\ B \in Seq(S) /\ Len(B) = Len(s) - n + 1
      /\ \A i \in 1 .. Len(s) - n + 1 : B[i] = s[n + i - 1]
  BY SubSeqProperties
<1>3. r = (A \o <<e>>) \o B
  BY DEF InsertAt
<1> HIDE DEF A, B, r
<1> DEFINE C == A \o <<e>>
<1>4. /\ C \in Seq(S) /\ Len(C) = Len(A) + 1
      /\ \A i \in 1 .. Len(A) + 1 : C[i] = IF i <= Len(A) THEN A[i] ELSE <<e>>[i - Len(A)]
  <2>1. <<e>> \in Seq(S) /\ Len(<<e>>) = 1
    OBVIOUS
  <2> QED
    BY <1>1, <2>1, ConcatProperties
<1> HIDE DEF C
<1>5. C \in Seq(S) /\ Len(C) = n /\ C[n] = e /\ \A i \in 1 .. n - 1 : C[i] = s[i]
  BY <1>1, <1>4
<1>6. /\ C \o B \in Seq(S) /\ Len(C \o B) = Len(C) + Len(B)
      /\ \A i \in 1 .. Len(C) + Len(B) :
           (C \o B)[i] = IF i <= Len(C) THEN C[i] ELSE B[i - Len(C)]
  BY <1>2, <1>5, ConcatProperties
<1>7. r = C \o B
  BY <1>3 DEF C
<1>8. ASSUME NEW i \in 1 .. n - 1 PROVE r[i] = s[i]
  BY <1>2, <1>5, <1>6, <1>7
<1>9. ASSUME NEW i \in n + 1 .. Len(s) + 1 PROVE r[i] = s[i - 1]
  <2>1. i - n \in 1 .. Len(s) - n + 1 /\ n + (i - n) - 1 = i - 1
    OBVIOUS
  <2>2. r[i] = B[i - n]
    BY <2>1, <1>2, <1>5, <1>6, <1>7
  <2>3. B[i - n] = s[n + (i - n) - 1]
    BY <2>1, <1>2
  <2> QED
    BY <2>1, <2>2, <2>3
<1> QED
  BY <1>2, <1>5, <1>6, <1>7, <1>8, <1>9 DEF r

\* A new node that is inserted is the only one added.
LEMMA InsertFacts ==
  ASSUME NEW S, NEW s \in Seq(S), NEW n \in 1 .. Len(s) + 1, NEW t \in S,
         IsInjective(s), ~Member(t, s)
  PROVE  LET r == InsertAt(s, n, t) IN
         /\ IsInjective(r)
         /\ \A u : Member(u, r) <=> Member(u, s) \/ u = t
<1> DEFINE r == InsertAt(s, n, t)
           old(i) == IF i < n THEN i ELSE i - 1
<1>1. /\ r \in Seq(S) /\ Len(r) = Len(s) + 1 /\ r[n] = t
      /\ \A i \in 1 .. n - 1 : r[i] = s[i]
      /\ \A i \in n + 1 .. Len(s) + 1 : r[i] = s[i - 1]
  BY InsertAtFacts
<1> HIDE DEF r
<1>2. ASSUME NEW i \in 1 .. Len(s) + 1, i # n
      PROVE  old(i) \in 1 .. Len(s) /\ r[i] = s[old(i)] /\ r[i] # t
  <2>1. CASE i < n
    BY <1>1, <2>1 DEF Member
  <2>2. CASE i > n
    <3>1. i \in n + 1 .. Len(s) + 1 /\ i - 1 \in 1 .. Len(s)
      BY <2>2
    <3>2. r[i] = s[i - 1]
      BY <1>1, <3>1
    <3> QED
      BY <2>2, <3>1, <3>2 DEF Member
  <2> QED
    BY <1>2, <2>1, <2>2
<1>3. IsInjective(r)
  <2>1. ASSUME NEW i \in 1 .. Len(s) + 1, NEW j \in 1 .. Len(s) + 1, r[i] = r[j]
        PROVE  i = j
    <3>1. CASE i = n \/ j = n
      <4>1. r[i] = t /\ r[j] = t
        BY <3>1, <2>1, <1>1
      <4> QED
        BY <3>1, <4>1, <1>2
    <3>2. CASE i # n /\ j # n
      <4>1. old(i) = old(j)
        BY <3>2, <2>1, <1>2 DEF IsInjective
      <4> QED
        BY <4>1, <3>2
    <3> QED
      BY <3>1, <3>2
  <2> QED
    BY <2>1, <1>1 DEF IsInjective
<1>4. ASSUME NEW u PROVE Member(u, r) <=> Member(u, s) \/ u = t
  <2>1. ASSUME Member(u, r), u # t PROVE Member(u, s)
    <3>1. PICK i \in 1 .. Len(s) + 1 : r[i] = u
      BY <2>1, <1>1 DEF Member
    <3>2. i # n
      BY <3>1, <2>1, <1>1
    <3>3. old(i) \in 1 .. Len(s) /\ r[i] = s[old(i)]
      BY <3>2, <1>2
    <3> HIDE DEF old
    <3> QED
      BY <3>1, <3>3 DEF Member
  <2>2. ASSUME Member(u, s) PROVE Member(u, r)
    <3>1. PICK i \in 1 .. Len(s) : s[i] = u
      BY <2>2 DEF Member
    <3>2. CASE i < n
      BY <3>1, <3>2, <1>1 DEF Member
    <3>3. CASE i >= n
      <4>1. i + 1 \in n + 1 .. Len(s) + 1 /\ (i + 1) - 1 = i
        BY <3>3
      <4>2. r[i + 1] = s[i]
        BY <4>1, <1>1
      <4> QED
        BY <4>1, <4>2, <3>1, <1>1 DEF Member
    <3> QED
      BY <3>2, <3>3
  <2>3. Member(t, r)
    BY <1>1 DEF Member
  <2> QED
    BY <2>1, <2>2, <2>3
<1> QED
  BY <1>3, <1>4 DEF r

\* PrioPosition is a position of s, and in an ordered queue the one that keeps
\* the order.
LEMMA PrioPositionFacts ==
  ASSUME NEW s \in Seq(Thread), NEW prio \in [Thread -> Prio], NEW t \in Thread
  PROVE  LET n == PrioPosition(s, prio, t) IN
         /\ n \in 1 .. Len(s) + 1
         /\ \A i \in 1 .. n - 1 : prio[s[i]] <= prio[t]
         /\ Ordered(s, prio) => \A i \in n .. Len(s) : prio[t] <= prio[s[i]]
<1> DEFINE later == {i \in DOMAIN s : prio[t] < prio[s[i]]}
           n == PrioPosition(s, prio, t)
<1>1. DOMAIN s = 1 .. Len(s) /\ Len(s) \in Nat
  OBVIOUS
<1>2. \A v \in Thread : prio[v] \in Int
  BY KernelAssumption DEF Prio
<1>3. \A i \in 1 .. Len(s) : s[i] \in Thread
  OBVIOUS
<1>4. CASE later = {}
  <2>1. n = Len(s) + 1
    BY <1>4 DEF PrioPosition
  <2> HIDE DEF n
  <2>2. \A i \in 1 .. Len(s) : ~(prio[t] < prio[s[i]])
    BY <1>1, <1>4
  <2>3. /\ n \in 1 .. Len(s) + 1
        /\ \A i \in 1 .. n - 1 : prio[s[i]] <= prio[t]
        /\ n .. Len(s) = {}
    BY <1>1, <1>2, <1>3, <2>1, <2>2
  <2> QED
    BY <2>3 DEF n
<1>5. CASE later # {}
  <2>1. later \in SUBSET Nat
    BY <1>1
  <2>2. \E i \in later : \A j \in later : i <= j
    BY <1>5, <2>1, LeastOf
  <2>3. n = CHOOSE i \in later : \A j \in later : i <= j
    BY <1>5 DEF PrioPosition
  <2>4. n \in later /\ \A j \in later : n <= j
    BY <2>2, <2>3
  <2> HIDE DEF n
  <2>5. n \in 1 .. Len(s) /\ prio[t] < prio[s[n]]
    BY <1>1, <2>4
  <2>6. ASSUME NEW i \in 1 .. n - 1 PROVE prio[s[i]] <= prio[t]
    <3>1. i \in 1 .. Len(s) /\ i \notin later
      BY <1>1, <2>4, <2>5
    <3> QED
      BY <3>1, <1>1, <1>2, <1>3
  <2>7. ASSUME Ordered(s, prio), NEW i \in n .. Len(s) PROVE prio[t] <= prio[s[i]]
    <3>1. i \in 1 .. Len(s) /\ (i = n \/ n < i)
      BY <2>5
    <3>2. n < i => prio[s[n]] <= prio[s[i]]
      BY <3>1, <2>5, <2>7, <1>1 DEF Ordered
    <3>3. prio[s[n]] \in Int /\ prio[s[i]] \in Int /\ prio[t] \in Int
      BY <3>1, <2>5, <1>2, <1>3
    <3> QED
      BY <3>1, <3>2, <3>3, <2>5
  <2> QED
    BY <2>5, <2>6, <2>7 DEF n
<1> QED
  BY <1>4, <1>5

\* To queue a thread in its place keeps the order.
LEMMA InsertOrdered ==
  ASSUME NEW s \in Seq(Thread), NEW prio \in [Thread -> Prio], NEW t \in Thread,
         Ordered(s, prio)
  PROVE  Ordered(InsertAt(s, PrioPosition(s, prio, t), t), prio)
<1> DEFINE n == PrioPosition(s, prio, t)
           r == InsertAt(s, n, t)
<1>1. /\ n \in 1 .. Len(s) + 1
      /\ \A i \in 1 .. n - 1 : prio[s[i]] <= prio[t]
      /\ \A i \in n .. Len(s) : prio[t] <= prio[s[i]]
  BY PrioPositionFacts
<1> HIDE DEF n
<1>2. /\ r \in Seq(Thread) /\ Len(r) = Len(s) + 1 /\ r[n] = t
      /\ \A i \in 1 .. n - 1 : r[i] = s[i]
      /\ \A i \in n + 1 .. Len(s) + 1 : r[i] = s[i - 1]
  BY <1>1, InsertAtFacts
<1> HIDE DEF r
<1>3. DOMAIN s = 1 .. Len(s) /\ DOMAIN r = 1 .. Len(s) + 1 /\ Len(s) \in Nat
  BY <1>2
<1>4. ASSUME NEW i \in 1 .. Len(s) + 1, NEW j \in 1 .. Len(s) + 1, i < j
      PROVE  prio[r[i]] <= prio[r[j]]
  <2>1. CASE j < n
    <3>1. i \in 1 .. n - 1 /\ j \in 1 .. n - 1 /\ i \in DOMAIN s /\ j \in DOMAIN s
      BY <2>1, <1>1, <1>3, <1>4
    <3> QED
      BY <3>1, <1>2, <1>4 DEF Ordered
  <2>2. CASE j = n
    <3>1. i \in 1 .. n - 1
      BY <2>2, <1>4
    <3> QED
      BY <3>1, <2>2, <1>1, <1>2
  <2>3. CASE n < j
    <3>1. j \in n + 1 .. Len(s) + 1 /\ j - 1 \in n .. Len(s) /\ j - 1 \in DOMAIN s
      BY <2>3, <1>1, <1>3
    <3>2. r[j] = s[j - 1] /\ prio[t] <= prio[s[j - 1]]
      BY <3>1, <1>1, <1>2
    <3>3. CASE i = n
      BY <3>2, <3>3, <1>2
    <3>4. CASE i < n
      <4>1. i \in 1 .. n - 1 /\ i \in DOMAIN s /\ i < j - 1
        BY <3>4, <2>3, <1>1, <1>3
      <4> QED
        BY <4>1, <3>1, <3>2, <1>2 DEF Ordered
    <3>5. CASE n < i
      <4>1. i \in n + 1 .. Len(s) + 1 /\ i - 1 \in DOMAIN s /\ i - 1 < j - 1
        BY <3>5, <1>1, <1>3, <1>4
      <4>2. r[i] = s[i - 1]
        BY <4>1, <1>2
      <4> QED
        BY <4>1, <4>2, <3>1, <3>2 DEF Ordered
    <3> QED
      BY <3>3, <3>4, <3>5, <1>1
  <2> QED
    BY <2>1, <2>2, <2>3, <1>1
<1> QED
  BY <1>3, <1>4 DEF Ordered, n, r

\* A thread that leaves the queue leaves the others in order.
LEMMA UnlinkOrdered ==
  ASSUME NEW s \in Seq(Thread), NEW prio, NEW t, Ordered(s, prio)
  PROVE  Ordered(Unlink(s, t), prio)
<1>1. CASE ~Member(t, s)
  BY <1>1 DEF Unlink
<1>2. CASE Member(t, s)
  <2> DEFINE n == CHOOSE i \in DOMAIN s : s[i] = t
             r == RemoveAt(s, n)
             old(i) == IF i < n THEN i ELSE i + 1
  <2>1. n \in 1 .. Len(s)
    BY <1>2 DEF Member
  <2>2. Unlink(s, t) = r
    BY <1>2 DEF Unlink
  <2> HIDE DEF n
  <2>3. /\ r \in Seq(Thread) /\ Len(r) = Len(s) - 1
        /\ \A i \in 1 .. Len(s) - 1 : r[i] = IF i < n THEN s[i] ELSE s[i + 1]
    BY <2>1, RemoveAtFacts
  <2> HIDE DEF r
  <2>4. DOMAIN r = 1 .. Len(s) - 1 /\ DOMAIN s = 1 .. Len(s) /\ Len(s) \in Nat
    BY <2>3
  <2>5. ASSUME NEW i \in 1 .. Len(s) - 1, NEW j \in 1 .. Len(s) - 1, i < j
        PROVE  prio[r[i]] <= prio[r[j]]
    <3>1. old(i) \in DOMAIN s /\ old(j) \in DOMAIN s /\ old(i) < old(j)
      BY <2>1, <2>4, <2>5
    <3>2. r[i] = s[old(i)] /\ r[j] = s[old(j)]
      BY <2>3
    <3> HIDE DEF old
    <3> QED
      BY <3>1, <3>2 DEF Ordered
  <2> QED
    BY <2>2, <2>4, <2>5 DEF Ordered
<1> QED
  BY <1>1, <1>2

\* A queue with one thread, and one without, is in order.
LEMMA EmptyOrdered ==
  ASSUME NEW prio PROVE Ordered(<<>>, prio)
BY DEF Ordered

-----------------------------------------------------------------------------
(* The kernel under the services: no thread is created or closed *)

\* Lists, timers and thread states agree, every thread is ready, running or
\* suspended, and the idle thread is never suspended.
Calm(a) ==
  /\ Lists(a) /\ CurSound(a) /\ TimerSound(a) /\ ReadyComplete(a, {})
  /\ \A t \in Thread : a.stat[t] \in {"READY", "RUNNING", "SUSPEND"}
  /\ a.stat[Idle] # "SUSPEND"

\* What a step of the scheduler leaves as it is.
Unscheduled(a, u) ==
  /\ u.wait = a.wait /\ u.error = a.error /\ u.prio = a.prio /\ u.lock = a.lock
  /\ \A t \in Thread : u.stat[t] = "SUSPEND" <=> a.stat[t] = "SUSPEND"

\* A thread that waits nowhere is unlinked without a change of the suspend lists.
LEMMA RemoveWait ==
  ASSUME NEW a \in KernelState, NEW t, \A o \in Obj : ~Member(t, a.wait[o])
  PROVE  /\ rt_list_remove(a, t).wait = a.wait
         /\ rt_schedule_remove_thread(a, t).wait = a.wait
         /\ Dispatch(a, t).wait = a.wait
<1> DEFINE r == rt_list_remove(a, t)
           s == rt_schedule_remove_thread(a, t)
<1>1. /\ DOMAIN a = {"stat", "yield", "prio", "ready", "group", "cur", "lock", "wait",
                     "timer", "error", "defunct"}
      /\ a.wait \in [Obj -> Seq(Thread)]
  BY DEF KernelState
<1>2. [o \in Obj |-> Unlink(a.wait[o], t)] = a.wait
  BY <1>1 DEF Unlink
<1>3. r.wait = a.wait /\ DOMAIN r = DOMAIN a
  BY <1>1, <1>2 DEF rt_list_remove
<1>4. s = r \/ s = [r EXCEPT !.group = @ \ {a.prio[t]}]
  BY DEF rt_schedule_remove_thread
<1> HIDE DEF r, s
<1>5. s.wait = a.wait /\ DOMAIN s = DOMAIN a
  BY <1>3, <1>4, <1>1
<1>6. Dispatch(a, t) = [s EXCEPT !.stat[t] = "RUNNING"]
  BY DEF Dispatch, s
<1> QED
  BY <1>1, <1>3, <1>5, <1>6 DEF r, s

\* To link a thread into the ready lists does not change the suspend lists.
LEMMA InsertWait ==
  ASSUME NEW a \in KernelState, NEW t
  PROVE  rt_schedule_insert_thread(a, t).wait = a.wait
BY DEF rt_schedule_insert_thread, KernelState

\* rt_schedule only decides who of the runnable threads runs; with a thread to
\* run and the scheduler unlocked, the current one runs after it.
LEMMA ScheduleCalm ==
  ASSUME NEW a, Calm(a)
  PROVE  LET u == rt_schedule(a) IN
         /\ Calm(u) /\ Unscheduled(a, u) /\ u.timer = a.timer
         /\ a.lock = 0 => u.stat[u.cur] = "RUNNING"
<1> DEFINE u == rt_schedule(a)
           to == Head(a.ready[__rt_ffs(a.group)])
<1>1. /\ Lists(a) /\ a \in KernelState /\ CurSound(a) /\ ReadyComplete(a, {})
      /\ a.cur \in Thread /\ Idle \in Thread
  BY KernelAssumption DEF Calm, Lists, KernelState
<1>2. /\ Lists(u) /\ CurSound(u) /\ ReadyComplete(u, {}) /\ OnlyScheduled(a, u)
      /\ a.lock = 0 /\ (a.group # {} \/ a.stat[a.cur] = "RUNNING") => u.stat[u.cur] = "RUNNING"
  BY <1>1, ScheduleFacts
<1>3. \A t \in Thread : ~Runnable(a, t) <=> a.stat[t] = "SUSPEND"
  BY DEF Calm, Runnable
<1>4. a.group # {} \/ a.stat[a.cur] = "RUNNING"
  <2>1. CASE a.cur = Idle
    BY <2>1, <1>1 DEF Calm, CurSound
  <2>2. CASE a.cur # Idle
    <3>1. a.stat[Idle] = "READY"
      BY <2>2, <1>1 DEF Calm, CurSound
    <3>2. a.prio[Idle] \in Prio /\ a.ready[a.prio[Idle]] \in Seq(Thread)
      BY <1>1 DEF KernelState
    <3>3. Member(Idle, a.ready[a.prio[Idle]])
      BY <3>1, <1>1 DEF ReadyComplete
    <3>4. a.ready[a.prio[Idle]] # <<>>
      BY <3>3 DEF Member
    <3> QED
      BY <3>2, <3>4, <1>1 DEF Lists, GroupExact
  <2> QED
    BY <2>1, <2>2
<1>5. \A t \in Thread : u.stat[t] = "SUSPEND" <=> a.stat[t] = "SUSPEND"
  <2>1. \A t \in Thread : u.stat[t] \in {"READY", "RUNNING"} <=> a.stat[t] \in {"READY", "RUNNING"}
    BY <1>2 DEF OnlyScheduled, Runnable
  <2> QED
    BY <2>1, <1>2, <1>3 DEF OnlyScheduled, Runnable
<1>6. u.wait = a.wait
  <2>1. \A t \in Thread, o \in Obj : a.stat[t] # "SUSPEND" => ~Member(t, a.wait[o])
    BY <1>1, OneKindOfList
  <2>2. CASE a.lock # 0 \/ a.group = {}
    BY <2>2 DEF rt_schedule
  <2>3. CASE ~(a.lock # 0 \/ a.group = {})
    <3> DEFINE c == ClearYield(a)
    <3>1. /\ a.group \in SUBSET Prio /\ a.group # {}
      BY <2>3, <1>1 DEF KernelState
    <3>2. __rt_ffs(a.group) \in Prio /\ __rt_ffs(a.group) \in a.group
      BY <3>1, FfsFacts
    <3>3. a.ready[__rt_ffs(a.group)] \in Seq(Thread) /\ a.ready[__rt_ffs(a.group)] # <<>>
      BY <3>2, <1>1 DEF KernelState, Lists, GroupExact
    <3>4. to \in Thread /\ a.stat[to] = "READY"
      <4>1. to \in Thread /\ Member(to, a.ready[__rt_ffs(a.group)])
        BY <3>3, EmptyFacts
      <4> QED
        BY <4>1, <3>2, <1>1 DEF Lists, ReadyListsSound
    <3>5. c \in KernelState /\ c.wait = a.wait /\ c.stat = a.stat
      BY <1>1, ClearYieldFacts DEF Lists
    <3> HIDE DEF to
    <3>6. CASE KeepsCpu(a) \/ to = a.cur
      <4>1. u = Dispatch(c, a.cur)
        BY <2>3, <3>6 DEF rt_schedule, to
      <4>2. a.stat[a.cur] # "SUSPEND"
        BY <3>4, <3>6 DEF KeepsCpu
      <4>3. \A o \in Obj : ~Member(a.cur, c.wait[o])
        BY <4>2, <2>1, <3>5, <1>1
      <4> HIDE DEF c, u
      <4> QED
        BY <4>1, <4>3, <3>5, RemoveWait
    <3>7. CASE ~(KeepsCpu(a) \/ to = a.cur)
      <4> DEFINE m == [c EXCEPT !.cur = to]
                 i == IF a.stat[a.cur] = "RUNNING" THEN rt_schedule_insert_thread(m, a.cur) ELSE m
      <4>1. u = SwitchTo(a, to)
        BY <2>3, <3>7 DEF rt_schedule, to
      <4>2. u = Dispatch(i, to)
        BY <4>1 DEF SwitchTo
      <4> HIDE DEF c, u
      <4>3. m \in KernelState /\ m.wait = a.wait
        BY <3>4, <3>5 DEF KernelState
      <4>4. (Lists(m) /\ Detached(m, a.cur)) \/ a.stat[a.cur] # "RUNNING"
        <5>1. /\ Lists(m) /\ m.ready = a.ready /\ m.wait = a.wait /\ m.defunct = a.defunct
          BY <3>4, <1>1, ClearYieldFacts DEF c
        <5>2. a.stat[a.cur] = "RUNNING" => Detached(a, a.cur)
          BY <1>1, OneKindOfList
        <5> QED
          BY <5>1, <5>2 DEF Detached
      <4> HIDE DEF m
      <4>5. i \in KernelState /\ i.wait = a.wait
        <5>1. CASE a.stat[a.cur] = "RUNNING"
          <6>1. i = rt_schedule_insert_thread(m, a.cur)
            BY <5>1
          <6> HIDE DEF i
          <6>2. Lists(i)
            BY <5>1, <6>1, <4>4, <1>1, InsertThreadFacts
          <6>3. i.wait = m.wait
            BY <6>1, <4>3, InsertWait
          <6> QED
            BY <6>2, <6>3, <4>3 DEF Lists
        <5>2. CASE a.stat[a.cur] # "RUNNING"
          BY <5>2, <4>3
        <5> QED
          BY <5>1, <5>2
      <4> HIDE DEF i
      <4>6. \A o \in Obj : ~Member(to, i.wait[o])
        BY <4>5, <2>1, <3>4
      <4> QED
        BY <4>2, <4>5, <4>6, RemoveWait
    <3> QED
      BY <3>6, <3>7
  <2> QED
    BY <2>2, <2>3
<1> HIDE DEF u
<1>7. Calm(u)
  <2>1. \A t \in Thread : u.stat[t] \in {"READY", "RUNNING", "SUSPEND"}
    BY <1>2, <1>3 DEF OnlyScheduled, Runnable
  <2>2. TimerSound(u)
    BY <1>2, <1>5, <1>1 DEF Calm, TimerSound, OnlyScheduled, KernelState
  <2> QED
    BY <2>1, <2>2, <1>1, <1>2, <1>5 DEF Calm
<1> QED
  BY <1>2, <1>4, <1>5, <1>6, <1>7 DEF u, Unscheduled, OnlyScheduled

\* A new answer for a thread changes no list.
LEMMA ErrorCalm ==
  ASSUME NEW a, Calm(a), NEW t \in Thread, NEW e \in Errno
  PROVE  LET u == [a EXCEPT !.error[t] = e] IN
         /\ Calm(u) /\ u.cur = a.cur /\ u.stat = a.stat /\ u.wait = a.wait
         /\ u.prio = a.prio /\ u.lock = a.lock /\ u.timer = a.timer
         /\ u.error = [a.error EXCEPT ![t] = e]
<1> DEFINE u == [a EXCEPT !.error[t] = e]
<1>1. a \in KernelState
  BY DEF Calm, Lists
<1>2. /\ u \in KernelState
      /\ u.ready = a.ready /\ u.group = a.group /\ u.wait = a.wait /\ u.defunct = a.defunct
      /\ u.cur = a.cur /\ u.stat = a.stat /\ u.prio = a.prio /\ u.lock = a.lock
      /\ u.timer = a.timer /\ u.error = [a.error EXCEPT ![t] = e]
  BY <1>1 DEF KernelState
<1> HIDE DEF u
<1>3. Lists(u)
  BY <1>2, Frame DEF Calm
<1>4. Calm(u)
  BY <1>2, <1>3 DEF Calm, CurSound, TimerSound, ReadyComplete
<1> QED
  BY <1>2, <1>4 DEF u

\* t, suspended in a, is runnable in u and out of every queue.
Awakened(a, u, t) ==
  /\ Calm(u) /\ u.cur = a.cur /\ u.prio = a.prio /\ u.lock = a.lock
  /\ u.timer = a.timer \ {t}
  /\ u.wait = [o \in Obj |-> Unlink(a.wait[o], t)]
  /\ u.stat = [a.stat EXCEPT ![t] = IF t = a.cur THEN "RUNNING" ELSE "READY"]

\* rt_thread_resume and _thread_timeout wake a suspended thread; the second one
\* also tells it so.
LEMMA WakeCalm ==
  ASSUME NEW a, Calm(a), NEW t \in Thread, a.stat[t] = "SUSPEND"
  PROVE  /\ Awakened(a, ResumeLocked(a, t), t) /\ ResumeLocked(a, t).error = a.error
         /\ Awakened(a, _thread_timeout(a, t), t)
         /\ _thread_timeout(a, t).error = [a.error EXCEPT ![t] = "RT_ETIMEOUT"]
<1> DEFINE r == rt_list_remove(a, t)
           m == StopTimer(r, t)
           n == [rt_list_remove(StopTimer(a, t), t) EXCEPT !.error[t] = "RT_ETIMEOUT"]
           W == [o \in Obj |-> Unlink(a.wait[o], t)]
<1>1. Lists(a) /\ a \in KernelState /\ "RT_ETIMEOUT" \in Errno
  BY DEF Calm, Lists, Errno
<1>2. r \in KernelState /\ r.error = a.error
  BY <1>1, RemoveFacts
<1>3. r.wait = W
  BY <1>1 DEF rt_list_remove, KernelState
<1>4. m \in KernelState /\ m.wait = W /\ m.error = a.error
  <2> HIDE DEF r, W
  <2> QED
    BY <1>2, <1>3 DEF StopTimer, KernelState
<1>5. n = [m EXCEPT !.error[t] = "RT_ETIMEOUT"]
  BY <1>1, StopThenRemove
<1>6. n \in KernelState /\ n.wait = W /\ n.error = [a.error EXCEPT ![t] = "RT_ETIMEOUT"]
  <2> HIDE DEF m, n, W
  <2> QED
    BY <1>1, <1>4, <1>5 DEF KernelState
<1>7. ResumeLocked(a, t) = rt_schedule_insert_thread(m, t)
  BY DEF ResumeLocked
<1>8. _thread_timeout(a, t) = rt_schedule_insert_thread(n, t)
  BY DEF _thread_timeout
<1> HIDE DEF r, m, n
<1>9. ASSUME NEW u, u \in {ResumeLocked(a, t), _thread_timeout(a, t)}, u.wait = W
      PROVE  Awakened(a, u, t)
  <2>1. /\ Lists(u) /\ OthersStay(a, u, t)
        /\ u.stat = [a.stat EXCEPT ![t] = IF t = a.cur THEN "RUNNING" ELSE "READY"]
        /\ t # a.cur => Member(t, u.ready[a.prio[t]])
        /\ u.prio = a.prio /\ u.cur = a.cur /\ u.lock = a.lock /\ u.timer = a.timer \ {t}
    <3>1. /\ Lists(a) /\ t \in Thread /\ a.stat[t] = "SUSPEND"
          /\ u \in {ResumeLocked(a, t), _thread_timeout(a, t)}
      BY <1>1, <1>9
    <3> QED
      BY ONLY <3>1, WakeFacts
  <2>2. a.stat \in [Thread -> Stat] /\ a.cur \in Thread /\ a.prio \in [Thread -> Prio]
    BY <1>1 DEF KernelState
  <2>3. CurSound(u)
    BY <2>1, <2>2 DEF Calm, CurSound
  <2>4. TimerSound(u)
    BY <2>1, <2>2, <1>1 DEF Calm, TimerSound, KernelState
  <2>5. ReadyComplete(u, {})
    <3> SUFFICES ASSUME NEW v \in Thread, u.stat[v] = "READY"
                 PROVE  Member(v, u.ready[u.prio[v]])
      BY DEF ReadyComplete
    <3>1. CASE v = t
      BY <3>1, <2>1, <2>2
    <3>2. CASE v # t
      <4>1. a.stat[v] = "READY" /\ Member(v, a.ready[a.prio[v]]) /\ a.prio[v] \in Prio
        BY <3>2, <2>1, <2>2 DEF Calm, ReadyComplete
      <4> QED
        BY <4>1, <3>2, <2>1 DEF OthersStay
    <3> QED
      BY <3>1, <3>2
  <2>6. Calm(u)
    BY <2>1, <2>2, <2>3, <2>4, <2>5, KernelAssumption DEF Calm
  <2> QED
    BY <2>1, <2>6, <1>9 DEF Awakened
<1>10. ASSUME NEW x \in KernelState
       PROVE  /\ rt_schedule_insert_thread(x, t).wait = x.wait
              /\ rt_schedule_insert_thread(x, t).error = x.error
  BY DEF rt_schedule_insert_thread, KernelState
<1> QED
  BY <1>4, <1>6, <1>7, <1>8, <1>9, <1>10

\* rt_thread_suspend on the running thread.
LEMMA SuspendCalm ==
  ASSUME NEW a, Calm(a), a.stat[a.cur] = "RUNNING", a.cur # Idle
  PROVE  LET u == rt_thread_suspend(a, a.cur) IN
         /\ Calm(u) /\ u.cur = a.cur /\ u.prio = a.prio /\ u.lock = a.lock
         /\ u.error = a.error /\ u.wait = a.wait
         /\ u.stat = [a.stat EXCEPT ![a.cur] = "SUSPEND"]
         /\ Detached(u, a.cur)
<1> DEFINE c == a.cur
           u == rt_thread_suspend(a, c)
           r == rt_schedule_remove_thread(a, c)
<1>1. Lists(a) /\ a \in KernelState /\ c \in Thread /\ Runnable(a, c)
  BY DEF Calm, Lists, KernelState, Runnable
<1>2. /\ Lists(u) /\ OthersStay(a, u, c)
      /\ u.stat = [a.stat EXCEPT ![c] = "SUSPEND"]
      /\ Detached(u, c)
      /\ u.prio = a.prio /\ u.error = a.error /\ u.cur = c /\ u.lock = a.lock
      /\ u.timer = a.timer \ {c}
  BY <1>1, SuspendFacts
<1>3. u.wait = a.wait
  <2>1. \A o \in Obj : ~Member(c, a.wait[o])
    BY <1>1, OneKindOfList
  <2>2. r.wait = a.wait
    BY <2>1, <1>1, RemoveWait
  <2>3. r \in KernelState
    BY <1>1, RemoveThreadFacts DEF Lists
  <2>4. u = StopTimer([r EXCEPT !.stat[c] = "SUSPEND"], c)
    BY DEF rt_thread_suspend
  <2> HIDE DEF r, u, c
  <2> QED
    BY <2>2, <2>3, <2>4 DEF StopTimer, KernelState
<1> HIDE DEF u
<1>4. /\ a.stat \in [Thread -> Stat] /\ a.prio \in [Thread -> Prio] /\ a.timer \subseteq Thread
  BY <1>1 DEF KernelState
<1>5. CurSound(u) /\ TimerSound(u)
  BY <1>1, <1>2, <1>4 DEF Calm, CurSound, TimerSound
<1>6. ReadyComplete(u, {})
  <2> SUFFICES ASSUME NEW v \in Thread, u.stat[v] = "READY"
               PROVE  Member(v, u.ready[u.prio[v]])
    BY DEF ReadyComplete
  <2>1. v # c /\ a.stat[v] = "READY" /\ a.prio[v] \in Prio
    BY <1>1, <1>2, <1>4
  <2>2. Member(v, a.ready[a.prio[v]])
    BY <2>1 DEF Calm, ReadyComplete
  <2> QED
    BY <2>1, <2>2, <1>2 DEF OthersStay
<1>7. Calm(u)
  BY <1>1, <1>2, <1>4, <1>5, <1>6, KernelAssumption DEF Calm
<1> QED
  BY <1>2, <1>3, <1>7 DEF u, c

\* To arm the timer of a suspended thread changes nothing else.
LEMMA StartTimerCalm ==
  ASSUME NEW a, Calm(a), NEW t \in Thread, a.stat[t] = "SUSPEND"
  PROVE  LET u == StartTimer(a, t) IN
         /\ Calm(u) /\ u.cur = a.cur /\ u.stat = a.stat /\ u.wait = a.wait
         /\ u.prio = a.prio /\ u.lock = a.lock /\ u.error = a.error
<1> DEFINE u == StartTimer(a, t)
<1>1. a \in KernelState
  BY DEF Calm, Lists
<1>2. /\ u \in KernelState
      /\ u.ready = a.ready /\ u.group = a.group /\ u.wait = a.wait /\ u.defunct = a.defunct
      /\ u.cur = a.cur /\ u.stat = a.stat /\ u.prio = a.prio /\ u.lock = a.lock
      /\ u.timer = a.timer \cup {t} /\ u.error = a.error
  BY <1>1 DEF KernelState, StartTimer
<1> HIDE DEF u
<1>3. Lists(u)
  BY <1>2, Frame DEF Calm
<1>4. Calm(u)
  BY <1>2, <1>3 DEF Calm, CurSound, TimerSound, ReadyComplete
<1> QED
  BY <1>2, <1>4 DEF u

-----------------------------------------------------------------------------
(* Blocking *)

\* The queue s with t in the place that the flag of the object says.
Queued(s, t, flag, prio) ==
  IF flag = "FIFO" THEN Append(s, t) ELSE InsertAt(s, PrioPosition(s, prio, t), t)

LEMMA QueuedFacts ==
  ASSUME NEW s \in Seq(Thread), IsInjective(s), NEW t \in Thread, ~Member(t, s),
         NEW prio \in [Thread -> Prio], NEW flag
  PROVE  LET r == Queued(s, t, flag, prio) IN
         /\ r \in Seq(Thread) /\ IsInjective(r)
         /\ \A v : Member(v, r) <=> Member(v, s) \/ v = t
         /\ flag # "FIFO" /\ Ordered(s, prio) => Ordered(r, prio)
<1> DEFINE n == PrioPosition(s, prio, t)
<1>1. n \in 1 .. Len(s) + 1
  BY PrioPositionFacts
<1>2. CASE flag = "FIFO"
  BY <1>2, LinkFacts DEF Queued
<1>3. CASE flag # "FIFO"
  <2>1. Queued(s, t, flag, prio) = InsertAt(s, n, t)
    BY <1>3 DEF Queued
  <2>2. Ordered(s, prio) => Ordered(InsertAt(s, n, t), prio)
    BY InsertOrdered
  <2> HIDE DEF n
  <2>3. InsertAt(s, n, t) \in Seq(Thread)
    BY <1>1, InsertAtFacts
  <2>4. /\ IsInjective(InsertAt(s, n, t))
        /\ \A v : Member(v, InsertAt(s, n, t)) <=> Member(v, s) \/ v = t
    BY <1>1, InsertFacts
  <2> QED
    BY <2>1, <2>2, <2>3, <2>4
<1> QED
  BY <1>2, <1>3

Linked(a, o, t, flag) == [a EXCEPT !.wait[o] = Queued(@, t, flag, a.prio)]

\* A suspended thread that is linked nowhere joins a queue.
LEMMA LinkCalm ==
  ASSUME NEW a, Calm(a), NEW o \in Obj, NEW t \in Thread, NEW flag,
         a.stat[t] = "SUSPEND", Detached(a, t)
  PROVE  LET u == Linked(a, o, t, flag) IN
         /\ Calm(u) /\ u.cur = a.cur /\ u.stat = a.stat
         /\ u.prio = a.prio /\ u.lock = a.lock /\ u.error = a.error /\ u.timer = a.timer
         /\ u.wait = [a.wait EXCEPT ![o] = Queued(a.wait[o], t, flag, a.prio)]
         /\ \A v \in Thread, q \in Obj : Member(v, u.wait[q]) <=> Member(v, a.wait[q]) \/ (v = t /\ q = o)
<1> DEFINE r == Queued(a.wait[o], t, flag, a.prio)
           u == Linked(a, o, t, flag)
<1>1. a \in KernelState /\ Lists(a) /\ u = [a EXCEPT !.wait[o] = r]
  BY DEF Calm, Lists, Linked
<1>2. /\ a.wait \in [Obj -> Seq(Thread)] /\ a.prio \in [Thread -> Prio]
      /\ IsInjective(a.wait[o]) /\ ~Member(t, a.wait[o])
  BY <1>1 DEF KernelState, Lists, WaitListsSound, Detached
<1>3. /\ r \in Seq(Thread) /\ IsInjective(r)
      /\ \A v : Member(v, r) <=> Member(v, a.wait[o]) \/ v = t
  BY <1>2, QueuedFacts
<1> HIDE DEF r, u
<1>4. /\ u \in KernelState
      /\ u.ready = a.ready /\ u.group = a.group /\ u.defunct = a.defunct
      /\ u.cur = a.cur /\ u.stat = a.stat /\ u.prio = a.prio /\ u.lock = a.lock
      /\ u.timer = a.timer /\ u.error = a.error /\ u.wait = [a.wait EXCEPT ![o] = r]
  BY <1>1, <1>3 DEF KernelState
<1>5. ASSUME NEW v, NEW q \in Obj
      PROVE  Member(v, u.wait[q]) <=> Member(v, a.wait[q]) \/ (v = t /\ q = o)
  BY <1>2, <1>3, <1>4
<1>6. WaitListsSound(u)
  <2> SUFFICES ASSUME NEW q \in Obj
               PROVE  /\ IsInjective(u.wait[q])
                      /\ \A v \in Thread : Member(v, u.wait[q]) =>
                           /\ u.stat[v] = "SUSPEND"
                           /\ \A p \in Obj : Member(v, u.wait[p]) => p = q
    BY DEF WaitListsSound
  <2>1. IsInjective(u.wait[q])
    BY <1>1, <1>2, <1>3, <1>4 DEF Lists, WaitListsSound
  <2>2. ASSUME NEW v \in Thread, Member(v, u.wait[q])
        PROVE  u.stat[v] = "SUSPEND" /\ \A p \in Obj : Member(v, u.wait[p]) => p = q
    <3>1. CASE v = t
      <4>1. q = o
        BY <3>1, <2>2, <1>5 DEF Detached
      <4>2. ASSUME NEW p \in Obj, Member(v, u.wait[p]) PROVE p = q
        BY <3>1, <4>1, <4>2, <1>5 DEF Detached
      <4> QED
        BY <3>1, <4>2, <1>4
    <3>2. CASE v # t
      <4>1. Member(v, a.wait[q])
        BY <3>2, <2>2, <1>5
      <4>2. ASSUME NEW p \in Obj, Member(v, u.wait[p]) PROVE p = q
        BY <3>2, <4>1, <4>2, <1>1, <1>5 DEF Lists, WaitListsSound
      <4> QED
        BY <4>1, <4>2, <1>1, <1>4 DEF Lists, WaitListsSound
    <3> QED
      BY <3>1, <3>2
  <2> QED
    BY <2>1, <2>2
<1>7. Lists(u)
  BY <1>1, <1>4, <1>6 DEF Lists, ReadyListsSound, GroupExact, DefunctSound
<1>8. Calm(u)
  BY <1>4, <1>7 DEF Calm, CurSound, TimerSound, ReadyComplete
<1> QED
  BY <1>3, <1>4, <1>5, <1>8 DEF r, u

\* t, running in a, waits for o in u, with no answer yet.
Blocked(a, u, o, flag) ==
  /\ Calm(u) /\ u.cur = a.cur /\ u.prio = a.prio /\ u.lock = a.lock
  /\ u.stat = [a.stat EXCEPT ![a.cur] = "SUSPEND"]
  /\ u.error = [a.error EXCEPT ![a.cur] = "RT_EOK"]
  /\ u.wait = [a.wait EXCEPT ![o] = Queued(a.wait[o], a.cur, flag, a.prio)]
  /\ \A v \in Thread, q \in Obj : Member(v, u.wait[q]) <=> Member(v, a.wait[q]) \/ (v = a.cur /\ q = o)

LEMMA BlockCalm ==
  ASSUME NEW a, Calm(a), a.stat[a.cur] = "RUNNING", a.cur # Idle,
         NEW o \in Obj, NEW flag, NEW time
  PROVE  Blocked(a, Block(a, o, flag, time), o, flag)
<1> DEFINE c == a.cur
           e == [a EXCEPT !.error[c] = "RT_EOK"]
           s == rt_thread_suspend(e, c)
           l == Linked(s, o, c, flag)
           u == Block(a, o, flag, time)
<1>1. c \in Thread /\ "RT_EOK" \in Errno
  BY DEF Calm, Lists, KernelState, Errno
<1>2. /\ Calm(e) /\ e.cur = c /\ e.stat = a.stat /\ e.wait = a.wait
      /\ e.prio = a.prio /\ e.lock = a.lock /\ e.error = [a.error EXCEPT ![c] = "RT_EOK"]
  BY <1>1, ErrorCalm
<1>3. u = IF time = "some" THEN StartTimer(l, c) ELSE l
  BY DEF Block, _ipc_list_suspend, Queued, Linked
<1> HIDE DEF e, c, u, l
<1>4. /\ Calm(s) /\ s.cur = e.cur /\ s.prio = e.prio /\ s.lock = e.lock
      /\ s.error = e.error /\ s.wait = e.wait
      /\ s.stat = [e.stat EXCEPT ![c] = "SUSPEND"]
      /\ Detached(s, c)
  BY <1>2, SuspendCalm DEF c
<1> HIDE DEF s
<1>5. s.stat[c] = "SUSPEND"
  BY <1>1, <1>2, <1>4 DEF Calm, Lists, KernelState
<1>6. /\ Calm(l) /\ l.cur = s.cur /\ l.stat = s.stat
      /\ l.prio = s.prio /\ l.lock = s.lock /\ l.error = s.error
      /\ l.wait = [s.wait EXCEPT ![o] = Queued(s.wait[o], c, flag, s.prio)]
      /\ \A v \in Thread, q \in Obj : Member(v, l.wait[q]) <=> Member(v, s.wait[q]) \/ (v = c /\ q = o)
  <2>1. Calm(s) /\ c \in Thread /\ s.stat[c] = "SUSPEND" /\ Detached(s, c)
    BY <1>1, <1>4, <1>5
  <2> QED
    BY <2>1, LinkCalm DEF l
<1>7. /\ Calm(u) /\ u.cur = l.cur /\ u.stat = l.stat /\ u.wait = l.wait
      /\ u.prio = l.prio /\ u.lock = l.lock /\ u.error = l.error
  <2>1. CASE time = "some"
    <3>1. u = StartTimer(l, c)
      BY <2>1, <1>3
    <3> QED
      BY <3>1, <1>1, <1>5, <1>6, StartTimerCalm
  <2>2. CASE time # "some"
    BY <2>2, <1>3, <1>6
  <2> QED
    BY <2>1, <2>2
<1> QED
  BY <1>2, <1>4, <1>6, <1>7 DEF Blocked, c, u

\* rt_thread_delay suspends the caller, which waits for no object.
LEMMA DelayCalm ==
  ASSUME NEW a, Calm(a), a.stat[a.cur] = "RUNNING", a.cur # Idle
  PROVE  LET u == StartTimer(rt_thread_suspend([a EXCEPT !.error[a.cur] = "RT_EOK"], a.cur), a.cur)
         IN  /\ Calm(u) /\ u.cur = a.cur /\ u.prio = a.prio /\ u.lock = a.lock
             /\ u.wait = a.wait /\ u.error = [a.error EXCEPT ![a.cur] = "RT_EOK"]
             /\ u.stat = [a.stat EXCEPT ![a.cur] = "SUSPEND"]
<1> DEFINE c == a.cur
           e == [a EXCEPT !.error[c] = "RT_EOK"]
           s == rt_thread_suspend(e, c)
<1>1. c \in Thread /\ "RT_EOK" \in Errno
  BY DEF Calm, Lists, KernelState, Errno
<1>2. /\ Calm(e) /\ e.cur = c /\ e.stat = a.stat /\ e.wait = a.wait
      /\ e.prio = a.prio /\ e.lock = a.lock /\ e.error = [a.error EXCEPT ![c] = "RT_EOK"]
  BY <1>1, ErrorCalm
<1> HIDE DEF e, c
<1>3. /\ Calm(s) /\ s.cur = e.cur /\ s.prio = e.prio /\ s.lock = e.lock
      /\ s.error = e.error /\ s.wait = e.wait
      /\ s.stat = [e.stat EXCEPT ![c] = "SUSPEND"]
  BY <1>2, SuspendCalm DEF c
<1> HIDE DEF s
<1>4. s.stat[c] = "SUSPEND"
  BY <1>1, <1>2, <1>3 DEF Calm, Lists, KernelState
<1> QED
  BY <1>1, <1>2, <1>3, <1>4, StartTimerCalm DEF s, e, c

-----------------------------------------------------------------------------
(* Resuming *)

\* From a to u threads left the queues and none joined them; those that were
\* answered were all suspended, and who is suspended in u was so in a.
Released(a, u) ==
  /\ Calm(u) /\ u.cur = a.cur /\ u.prio = a.prio /\ u.lock = a.lock
  /\ \A o \in Obj : /\ a.wait[o] = <<>> => u.wait[o] = <<>>
                    /\ Ordered(a.wait[o], a.prio) => Ordered(u.wait[o], u.prio)
  /\ \A t \in Thread, o \in Obj :
       /\ Member(t, u.wait[o]) => Member(t, a.wait[o])
       /\ u.stat[t] = "SUSPEND" /\ Member(t, a.wait[o]) => Member(t, u.wait[o])
  /\ \A t \in Thread :
       /\ a.stat[t] # "SUSPEND" => u.stat[t] = a.stat[t] /\ u.error[t] = a.error[t]
       /\ u.stat[t] = "SUSPEND" => u.error[t] = a.error[t]

LEMMA ReleasedTrans ==
  ASSUME NEW a, NEW b, NEW c, Released(a, b), Released(b, c)
  PROVE  Released(a, c)
BY DEF Released

LEMMA ReleasedNone ==
  ASSUME NEW a, Calm(a)
  PROVE  Released(a, a)
BY DEF Released

\* A member that is unlinked makes the list shorter by one.
LEMMA UnlinkLen ==
  ASSUME NEW S, NEW s \in Seq(S), NEW t, Member(t, s)
  PROVE  Len(Unlink(s, t)) = Len(s) - 1
<1> DEFINE n == CHOOSE i \in DOMAIN s : s[i] = t
<1>1. n \in 1 .. Len(s)
  BY DEF Member
<1>2. Unlink(s, t) = RemoveAt(s, n)
  BY DEF Unlink
<1> HIDE DEF n
<1> QED
  BY <1>1, <1>2, RemoveAtFacts

\* Nobody but t gets another answer.
OneTold(a, u, t) == \A v \in Thread \ {t} : u.error[v] = a.error[v]

\* Unlinking t takes nobody else out of a queue, and keeps its order.
LEMMA AwakenedReleases ==
  ASSUME NEW a, Calm(a), NEW t \in Thread, a.stat[t] = "SUSPEND",
         NEW u, Awakened(a, u, t), OneTold(a, u, t)
  PROVE  /\ Released(a, u) /\ u.stat[t] # "SUSPEND"
         /\ \A o \in Obj : ~Member(t, u.wait[o])
         /\ \A v \in Thread \ {t} : u.stat[v] = a.stat[v] /\ u.error[v] = a.error[v]
         /\ \A o \in Obj : Member(t, a.wait[o]) => Len(u.wait[o]) = Len(a.wait[o]) - 1
<1>1. /\ a \in KernelState /\ Lists(a)
      /\ a.wait \in [Obj -> Seq(Thread)] /\ a.stat \in [Thread -> Stat]
      /\ a.error \in [Thread -> Errno]
  BY DEF Calm, Lists, KernelState
<1>2. /\ Calm(u) /\ u.cur = a.cur /\ u.prio = a.prio /\ u.lock = a.lock
      /\ u.wait = [o \in Obj |-> Unlink(a.wait[o], t)]
      /\ u.stat = [a.stat EXCEPT ![t] = IF t = a.cur THEN "RUNNING" ELSE "READY"]
  BY DEF Awakened
<1>3. ASSUME NEW o \in Obj
      PROVE  /\ a.wait[o] = <<>> => u.wait[o] = <<>>
             /\ Ordered(a.wait[o], a.prio) => Ordered(u.wait[o], u.prio)
             /\ \A v : Member(v, u.wait[o]) <=> Member(v, a.wait[o]) /\ v # t
             /\ Member(t, a.wait[o]) => Len(u.wait[o]) = Len(a.wait[o]) - 1
  <2>1. u.wait[o] = Unlink(a.wait[o], t) /\ a.wait[o] \in Seq(Thread) /\ IsInjective(a.wait[o])
    BY <1>1, <1>2 DEF Lists, WaitListsSound
  <2>2. a.wait[o] = <<>> => u.wait[o] = <<>>
    BY <2>1 DEF Unlink, Member
  <2>3. Ordered(a.wait[o], a.prio) => Ordered(u.wait[o], u.prio)
    BY <2>1, <1>2, UnlinkOrdered
  <2>4. \A v : Member(v, u.wait[o]) <=> Member(v, a.wait[o]) /\ v # t
    BY <2>1, UnlinkFacts
  <2>5. Member(t, a.wait[o]) => Len(u.wait[o]) = Len(a.wait[o]) - 1
    BY <2>1, UnlinkLen
  <2> QED
    BY <2>2, <2>3, <2>4, <2>5
<1>4. /\ u.stat[t] # "SUSPEND"
      /\ \A v \in Thread \ {t} : u.stat[v] = a.stat[v] /\ u.error[v] = a.error[v]
  BY <1>1, <1>2 DEF OneTold
<1>5. Released(a, u)
  BY <1>2, <1>3, <1>4 DEF Released
<1> QED
  BY <1>3, <1>4, <1>5

\* rt_thread_resume on a suspended thread, with the answer it has or a new one.
LEMMA ResumeReleases ==
  ASSUME NEW a, Calm(a), NEW t \in Thread, a.stat[t] = "SUSPEND", NEW e \in Errno
  PROVE  LET u == rt_thread_resume([a EXCEPT !.error[t] = e], t) IN
         /\ Released(a, u) /\ u.stat[t] # "SUSPEND" /\ u.error[t] = e
         /\ \A o \in Obj : ~Member(t, u.wait[o])
         /\ \A v \in Thread \ {t} : u.stat[v] = a.stat[v] /\ u.error[v] = a.error[v]
         /\ \A o \in Obj : Member(t, a.wait[o]) => Len(u.wait[o]) = Len(a.wait[o]) - 1
<1> DEFINE b == [a EXCEPT !.error[t] = e]
           u == rt_thread_resume(b, t)
<1>1. /\ Calm(b) /\ b.cur = a.cur /\ b.stat = a.stat /\ b.wait = a.wait
      /\ b.prio = a.prio /\ b.lock = a.lock /\ b.timer = a.timer
      /\ b.error = [a.error EXCEPT ![t] = e]
  BY ErrorCalm
<1>2. u = ResumeLocked(b, t)
  BY <1>1 DEF rt_thread_resume
<1> HIDE DEF b, u
<1>3. Awakened(b, u, t) /\ u.error = b.error
  <2>1. Calm(b) /\ b.stat[t] = "SUSPEND"
    BY <1>1
  <2> QED
    BY <2>1, <1>2, WakeCalm
<1>4. Awakened(a, u, t)
  BY <1>1, <1>3 DEF Awakened
<1>5. u.error[t] = e /\ OneTold(a, u, t)
  <2>1. a.error \in [Thread -> Errno]
    BY DEF Calm, Lists, KernelState
  <2> QED
    BY <1>1, <1>3, <2>1 DEF OneTold
<1> QED
  BY <1>4, <1>5, AwakenedReleases DEF u, b

LEMMA TimeoutReleases ==
  ASSUME NEW a, Calm(a), NEW t \in Thread, a.stat[t] = "SUSPEND"
  PROVE  LET u == _thread_timeout(a, t) IN
         /\ Released(a, u) /\ u.stat[t] # "SUSPEND" /\ u.error[t] = "RT_ETIMEOUT"
         /\ \A v \in Thread \ {t} : u.stat[v] = a.stat[v] /\ u.error[v] = a.error[v]
<1> DEFINE u == _thread_timeout(a, t)
<1>1. Awakened(a, u, t) /\ u.error = [a.error EXCEPT ![t] = "RT_ETIMEOUT"]
  BY WakeCalm
<1> HIDE DEF u
<1>2. u.error[t] = "RT_ETIMEOUT" /\ OneTold(a, u, t)
  <2>1. a.error \in [Thread -> Errno]
    BY DEF Calm, Lists, KernelState
  <2> QED
    BY <1>1, <2>1 DEF OneTold
<1>3. /\ Released(a, u) /\ u.stat[t] # "SUSPEND"
      /\ \A v \in Thread \ {t} : u.stat[v] = a.stat[v] /\ u.error[v] = a.error[v]
  BY <1>1, <1>2, AwakenedReleases
<1> QED
  BY <1>2, <1>3 DEF u

\* The first of a queue is suspended and waits there only.
LEMMA HeadFacts ==
  ASSUME NEW a, Calm(a), NEW o \in Obj, a.wait[o] # <<>>
  PROVE  LET t == Head(a.wait[o]) IN
         /\ t \in Thread /\ Member(t, a.wait[o]) /\ a.stat[t] = "SUSPEND"
         /\ \A q \in Obj : Member(t, a.wait[q]) => q = o
<1>1. a.wait[o] \in Seq(Thread) /\ WaitListsSound(a)
  BY DEF Calm, Lists, KernelState
<1>2. Head(a.wait[o]) \in Thread /\ Member(Head(a.wait[o]), a.wait[o])
  BY <1>1, EmptyFacts
<1> QED
  BY <1>1, <1>2 DEF WaitListsSound

\* _ipc_list_resume grants the wait of the first thread of the queue.
LEMMA ListResume ==
  ASSUME NEW a, Calm(a), NEW o \in Obj, a.wait[o] # <<>>
  PROVE  LET u == _ipc_list_resume(a, o)
             t == Head(a.wait[o])
         IN  /\ Released(a, u) /\ u.stat[t] # "SUSPEND" /\ u.error = a.error
             /\ \A q \in Obj : ~Member(t, u.wait[q])
             /\ \A v \in Thread \ {t} : u.stat[v] = a.stat[v]
<1> DEFINE t == Head(a.wait[o])
           u == _ipc_list_resume(a, o)
<1>1. t \in Thread /\ a.stat[t] = "SUSPEND"
  BY HeadFacts
<1>2. u = ResumeLocked(a, t)
  BY <1>1 DEF _ipc_list_resume, rt_thread_resume
<1> HIDE DEF t, u
<1>3. Awakened(a, u, t) /\ u.error = a.error
  BY <1>1, <1>2, WakeCalm
<1>4. OneTold(a, u, t)
  BY <1>3 DEF OneTold
<1>5. /\ Released(a, u) /\ u.stat[t] # "SUSPEND"
      /\ \A q \in Obj : ~Member(t, u.wait[q])
      /\ \A v \in Thread \ {t} : u.stat[v] = a.stat[v]
  BY <1>1, <1>3, <1>4, AwakenedReleases
<1> QED
  BY <1>3, <1>5 DEF t, u

\* An iteration of _ipc_list_resume_all ends the wait of the first with an error.
LEMMA ResumeOneReleases ==
  ASSUME NEW a, Calm(a), NEW o \in Obj, a.wait[o] # <<>>
  PROVE  LET u == ResumeOneWithError(a, o)
             t == Head(a.wait[o])
         IN  /\ Released(a, u) /\ u.stat[t] # "SUSPEND" /\ u.error[t] = "RT_ERROR"
             /\ \A q \in Obj : ~Member(t, u.wait[q])
             /\ \A v \in Thread \ {t} : u.stat[v] = a.stat[v] /\ u.error[v] = a.error[v]
             /\ Len(u.wait[o]) = Len(a.wait[o]) - 1
<1> DEFINE t == Head(a.wait[o])
           u == ResumeOneWithError(a, o)
<1>1. /\ t \in Thread /\ a.stat[t] = "SUSPEND" /\ "RT_ERROR" \in Errno
      /\ Member(t, a.wait[o])
  BY HeadFacts DEF Errno
<1>2. u = rt_thread_resume([a EXCEPT !.error[t] = "RT_ERROR"], t)
  BY DEF ResumeOneWithError
<1> HIDE DEF t
<1>3. /\ Released(a, u) /\ u.stat[t] # "SUSPEND" /\ u.error[t] = "RT_ERROR"
      /\ \A q \in Obj : ~Member(t, u.wait[q])
      /\ \A v \in Thread \ {t} : u.stat[v] = a.stat[v] /\ u.error[v] = a.error[v]
      /\ Len(u.wait[o]) = Len(a.wait[o]) - 1
  <2> HIDE DEF u
  <2> QED
    BY <1>1, <1>2, ResumeReleases
<1> QED
  BY <1>3 DEF t

-----------------------------------------------------------------------------
(* The loop of RT_IPC_CMD_RESET.  Naturals are well-founded, so that what  *)
(* its iterations do is shown by the least iteration that does not do it.  *)

\* The states of the loop after 0 .. n iterations.
IsLoop(f, a, o, n) ==
  f = [i \in 0 .. n |-> IF i = 0 THEN a ELSE ResumeOneWithError(f[i - 1], o)]

LEMMA LoopExists ==
  ASSUME NEW a, NEW o, NEW n \in Nat
  PROVE  \E f : IsLoop(f, a, o, n)
<1> DEFINE Bad == {m \in Nat : ~\E f : IsLoop(f, a, o, m)}
<1>1. SUFFICES ASSUME Bad # {} PROVE FALSE
  OBVIOUS
<1>2. PICK m \in Bad : \A i \in Bad : m <= i
  BY <1>1, LeastOf
<1> HIDE DEF Bad
<1>3. m \in Nat /\ ~\E f : IsLoop(f, a, o, m)
  BY DEF Bad
<1>4. m # 0
  <2> DEFINE g == [i \in 0 .. 0 |-> a]
  <2>1. g = [i \in 0 .. 0 |-> IF i = 0 THEN a ELSE ResumeOneWithError(g[i - 1], o)]
    OBVIOUS
  <2> HIDE DEF g
  <2>2. IsLoop(g, a, o, 0)
    BY <2>1 DEF IsLoop
  <2> QED
    BY <2>2, <1>3
<1>5. m - 1 \in Nat /\ m - 1 \notin Bad
  BY <1>2, <1>3, <1>4
<1>6. PICK f : IsLoop(f, a, o, m - 1)
  BY <1>5 DEF Bad
<1> DEFINE g == [i \in 0 .. m |-> IF i = m THEN ResumeOneWithError(f[m - 1], o) ELSE f[i]]
           h == [i \in 0 .. m |-> IF i = 0 THEN a ELSE ResumeOneWithError(g[i - 1], o)]
<1>7. ASSUME NEW i \in 0 .. m PROVE g[i] = h[i]
  <2>1. CASE i = m
    <3>1. g[i] = ResumeOneWithError(f[m - 1], o)
      BY <2>1
    <3>2. h[i] = ResumeOneWithError(g[m - 1], o)
      BY <2>1, <1>4
    <3>3. m - 1 \in 0 .. m /\ m - 1 # m
      BY <1>3, <1>4
    <3>4. g[m - 1] = f[m - 1]
      BY <3>3
    <3> HIDE DEF g, h
    <3> QED
      BY <3>1, <3>2, <3>4, <2>1
  <2>2. CASE i # m
    <3>1. i \in 0 .. m - 1 /\ g[i] = f[i]
      BY <2>2, <1>3
    <3>2. f[i] = IF i = 0 THEN a ELSE ResumeOneWithError(f[i - 1], o)
      BY <3>1, <1>6 DEF IsLoop
    <3>3. i # 0 => g[i - 1] = f[i - 1]
      BY <3>1, <1>3
    <3>4. h[i] = IF i = 0 THEN a ELSE ResumeOneWithError(g[i - 1], o)
      OBVIOUS
    <3> HIDE DEF g, h
    <3> QED
      BY <3>1, <3>2, <3>3, <3>4
  <2> QED
    BY <2>1, <2>2
<1>8. g = h
  <2>1. DOMAIN g = 0 .. m /\ DOMAIN h = 0 .. m
    OBVIOUS
  <2>2. g = [i \in 0 .. m |-> g[i]] /\ h = [i \in 0 .. m |-> h[i]]
    OBVIOUS
  <2> HIDE DEF g, h
  <2> QED
    BY <2>2, <1>7
<1>9. IsLoop(g, a, o, m)
  <2>1. g = [i \in 0 .. m |-> IF i = 0 THEN a ELSE ResumeOneWithError(g[i - 1], o)]
    BY <1>8, Zenon DEF h
  <2> HIDE DEF g
  <2> QED
    BY <2>1, Zenon DEF IsLoop
<1> QED
  BY <1>3, <1>9

\* What n iterations on a have done to the list of o: n threads have left it, each
\* with an error.
Upto(a, b, o, n) ==
  /\ Released(a, b) /\ Len(b.wait[o]) = Len(a.wait[o]) - n
  /\ \A t \in Thread :
       IF Member(t, a.wait[o]) /\ ~Member(t, b.wait[o])
       THEN b.stat[t] # "SUSPEND" /\ b.error[t] = "RT_ERROR"
       ELSE b.stat[t] = a.stat[t] /\ b.error[t] = a.error[t]

LEMMA UptoStep ==
  ASSUME NEW a, Calm(a), NEW o \in Obj, NEW n \in Nat, NEW b, Upto(a, b, o, n),
         b.wait[o] # <<>>
  PROVE  Upto(a, ResumeOneWithError(b, o), o, n + 1)
<1> DEFINE c == ResumeOneWithError(b, o)
           t == Head(b.wait[o])
<1>1. /\ Released(a, b) /\ Calm(b) /\ Len(b.wait[o]) = Len(a.wait[o]) - n
      /\ Calm(b) => b \in KernelState
  BY DEF Upto, Released, Calm, Lists
<1>2. /\ Released(b, c) /\ c.stat[t] # "SUSPEND" /\ c.error[t] = "RT_ERROR"
      /\ ~Member(t, c.wait[o])
      /\ \A v \in Thread \ {t} : c.stat[v] = b.stat[v] /\ c.error[v] = b.error[v]
      /\ Len(c.wait[o]) = Len(b.wait[o]) - 1
  BY <1>1, ResumeOneReleases
<1>3. t \in Thread /\ Member(t, b.wait[o])
  BY <1>1, HeadFacts
<1>4. Released(a, c)
  <2> HIDE DEF c
  <2> QED
    BY <1>1, <1>2, ReleasedTrans
<1>5. Member(t, a.wait[o])
  BY <1>1, <1>3 DEF Released
<1> HIDE DEF c, t
<1>6. ASSUME NEW v \in Thread \ {t} PROVE Member(v, c.wait[o]) <=> Member(v, b.wait[o])
  <2>1. Member(v, c.wait[o]) => Member(v, b.wait[o])
    BY <1>2 DEF Released
  <2>2. Member(v, b.wait[o]) => b.stat[v] = "SUSPEND"
    BY <1>1 DEF Calm, Lists, WaitListsSound
  <2>3. Member(v, b.wait[o]) /\ c.stat[v] = "SUSPEND" => Member(v, c.wait[o])
    BY <1>2 DEF Released
  <2> QED
    BY <1>2, <2>1, <2>2, <2>3
<1>7. ASSUME NEW v \in Thread
      PROVE  IF Member(v, a.wait[o]) /\ ~Member(v, c.wait[o])
             THEN c.stat[v] # "SUSPEND" /\ c.error[v] = "RT_ERROR"
             ELSE c.stat[v] = a.stat[v] /\ c.error[v] = a.error[v]
  <2>1. CASE v = t
    BY <2>1, <1>2, <1>5
  <2>2. CASE v # t
    BY <2>2, <1>2, <1>6 DEF Upto
  <2> QED
    BY <2>1, <2>2
<1>8. Len(c.wait[o]) = Len(a.wait[o]) - (n + 1)
  <2>1. Len(a.wait[o]) \in Nat /\ Len(b.wait[o]) \in Nat
    <3>1. a.wait[o] \in Seq(Thread) /\ b.wait[o] \in Seq(Thread)
      BY <1>1 DEF KernelState, Calm, Lists
    <3> QED
      BY <3>1
  <2> DEFINE A == Len(a.wait[o])
             B == Len(b.wait[o])
             C == Len(c.wait[o])
  <2>2. A \in Nat /\ B \in Nat /\ B = A - n /\ C = B - 1
    BY <1>1, <1>2, <2>1
  <2> HIDE DEF A, B, C
  <2>3. C = A - (n + 1)
    BY <2>2
  <2> QED
    BY <2>3 DEF A, C
<1> QED
  BY <1>4, <1>7, <1>8 DEF Upto, c

\* What RT_IPC_CMD_RESET does to a list: everybody leaves it with an error.
Emptied(a, u, o) ==
  /\ Released(a, u) /\ u.wait[o] = <<>>
  /\ \A t \in Thread :
       IF Member(t, a.wait[o]) THEN u.stat[t] # "SUSPEND" /\ u.error[t] = "RT_ERROR"
                               ELSE u.stat[t] = a.stat[t] /\ u.error[t] = a.error[t]

LEMMA ResumeEveryoneFacts ==
  ASSUME NEW a, Calm(a), NEW o \in Obj
  PROVE  Emptied(a, ResumeEveryone(a, o), o)
<1> DEFINE N == Len(a.wait[o])
           f[i \in 0 .. N] == IF i = 0 THEN a ELSE ResumeOneWithError(f[i - 1], o)
<1>1. a \in KernelState /\ a.wait[o] \in Seq(Thread) /\ N \in Nat
  BY DEF Calm, Lists, KernelState
<1> HIDE DEF N
<1>2. ResumeEveryone(a, o) = f[N]
  BY DEF ResumeEveryone, N
<1>3. IsLoop(f, a, o, N)
  <2> DEFINE g == CHOOSE h : IsLoop(h, a, o, N)
  <2>1. IsLoop(g, a, o, N)
    BY <1>1, LoopExists
  <2>2. f = g
    BY DEF IsLoop
  <2> QED
    BY <2>1, <2>2
<1> HIDE DEF f
<1> DEFINE Bad == {n \in 0 .. N : ~Upto(a, f[n], o, n)}
<1>4. Bad = {}
  <2>1. SUFFICES ASSUME Bad # {} PROVE FALSE
    OBVIOUS
  <2>2. PICK n \in Bad : \A i \in Bad : n <= i
    <3>1. Bad \in SUBSET Nat
      BY <1>1
    <3> HIDE DEF Bad
    <3> QED
      BY <2>1, <3>1, LeastOf
  <2>3. n \in 0 .. N /\ ~Upto(a, f[n], o, n)
    OBVIOUS
  <2>4. CASE n = 0
    <3>1. f[0] = a
      BY <1>1, <1>3 DEF IsLoop
    <3>2. Upto(a, a, o, 0)
      BY <1>1, ReleasedNone DEF Upto, N
    <3> QED
      BY <2>3, <2>4, <3>1, <3>2
  <2>5. CASE n # 0
    <3>1. n - 1 \in Nat /\ n - 1 \in 0 .. N /\ n - 1 \notin Bad /\ n - 1 < N
      BY <2>2, <2>3, <2>5, <1>1
    <3>2. Upto(a, f[n - 1], o, n - 1)
      BY <3>1
    <3>3. Len(f[n - 1].wait[o]) = N - (n - 1)
      BY <3>2 DEF Upto, N
    <3>4. f[n - 1].wait[o] # <<>>
      <4>1. Len(f[n - 1].wait[o]) > 0
        BY <3>3, <3>1, <1>1
      <4> QED
        BY <4>1
    <3>5. Upto(a, ResumeOneWithError(f[n - 1], o), o, n - 1 + 1)
      BY <3>1, <3>2, <3>4, UptoStep
    <3>6. n - 1 + 1 = n
      BY <3>1
    <3>7. f[n] = ResumeOneWithError(f[n - 1], o)
      <4>1. f[n] = IF n = 0 THEN a ELSE ResumeOneWithError(f[n - 1], o)
        BY <1>3, <2>3, Zenon DEF IsLoop
      <4> QED
        BY <4>1, <2>5
    <3> QED
      BY <3>5, <3>6, <3>7, <2>3
  <2> QED
    BY <2>4, <2>5
<1>5. Upto(a, f[N], o, N)
  BY <1>4, <1>1
<1>6. f[N].wait[o] = <<>>
  <2>1. f[N].wait[o] \in Seq(Thread)
    BY <1>5 DEF Upto, Released, Calm, Lists, KernelState
  <2>2. Len(f[N].wait[o]) = 0
    BY <1>1, <1>5 DEF Upto, N
  <2> QED
    BY <2>1, <2>2
<1>7. \A t \in Thread : ~Member(t, f[N].wait[o])
  BY <1>6 DEF Member
<1> QED
  BY <1>2, <1>5, <1>6, <1>7 DEF Upto, Emptied

-----------------------------------------------------------------------------
(* The threads and the lists of any service whose calls are made of the    *)
(* steps of Ipc: an inductive invariant, and what each kind of step does.  *)

\* The threads on the list of an object are those whose call on it is not over,
\* and such a thread has no answer yet.
Joined ==
  \A t \in Thread, o \in Obj :
    /\ Member(t, k.wait[o]) => InCall(t, o)
    /\ InCall(t, o) /\ k.stat[t] = "SUSPEND" => Member(t, k.wait[o]) /\ k.error[t] = "RT_EOK"

\* The current thread is suspended only on its way to rt_schedule; the idle thread
\* calls nothing that waits.
IpcInv ==
  /\ IpcTypeOK /\ Calm(k) /\ k.lock = 0
  /\ k.stat[k.cur] = "SUSPEND" => pc[k.cur] \in {"block", "sleep"}
  /\ pc[Idle] = "run"
  /\ Joined

\* What a step of the kernel that blocks nobody does to calls and answers: threads
\* leave lists; nobody who is not waiting is touched.
Loosened(a, u) ==
  /\ \A o \in Obj : a.wait[o] = <<>> => u.wait[o] = <<>>
  /\ \A t \in Thread, o \in Obj :
       /\ Member(t, u.wait[o]) => Member(t, a.wait[o])
       /\ u.stat[t] = "SUSPEND" /\ Member(t, a.wait[o]) => Member(t, u.wait[o])
  /\ \A t \in Thread :
       /\ a.stat[t] # "SUSPEND" => u.stat[t] # "SUSPEND" /\ u.error[t] = a.error[t]
       /\ u.stat[t] = "SUSPEND" => u.error[t] = a.error[t]

\* The same without a change of priorities: the lists stay in order.
Eased(a, u) ==
  /\ Loosened(a, u) /\ u.prio = a.prio
  /\ \A o \in Obj : Ordered(a.wait[o], a.prio) => Ordered(u.wait[o], a.prio)

\* The lists of waiting threads get shorter only, in the same order.
WaitsEased ==
  /\ k'.prio = k.prio
  /\ \A o \in Obj : /\ k.wait[o] = <<>> => k'.wait[o] = <<>>
                    /\ InPrioOrder(o) => InPrioOrder(o)'
  /\ \A t \in Thread, o \in Obj : Member(t, k'.wait[o]) => Member(t, k.wait[o])

SameCalls == \A t \in Thread, o \in Obj : InCall(t, o)' <=> InCall(t, o)
SameGrants == \A t \in Thread, o \in Obj : Granted(t, o)' <=> Granted(t, o)

LEMMA ReleasedEased ==
  ASSUME NEW a, NEW u, Released(a, u)
  PROVE  Eased(a, u)
BY DEF Released, Eased, Loosened

LEMMA UnscheduledEased ==
  ASSUME NEW a, NEW u, Unscheduled(a, u)
  PROVE  Eased(a, u)
BY DEF Unscheduled, Eased, Loosened

LEMMA EasedTrans ==
  ASSUME NEW a, NEW b, NEW c, Eased(a, b), Eased(b, c)
  PROVE  Eased(a, c)
BY DEF Eased, Loosened

LEMMA EasedWaits ==
  ASSUME Eased(k, k') PROVE WaitsEased
BY DEF Eased, Loosened, WaitsEased, InPrioOrder, Ordered

\* A thread that waits is not taken from its call by a step that blocks nobody.
LEMMA LoosenedJoined ==
  ASSUME Joined, Loosened(k, k'), SameCalls
  PROVE  Joined'
<1>1. SUFFICES ASSUME NEW t \in Thread, NEW o \in Obj
               PROVE  /\ Member(t, k'.wait[o]) => InCall(t, o)'
                      /\ InCall(t, o)' /\ k'.stat[t] = "SUSPEND" =>
                           Member(t, k'.wait[o]) /\ k'.error[t] = "RT_EOK"
  BY DEF Joined
<1>2. InCall(t, o)' <=> InCall(t, o)
  BY DEF SameCalls
<1>3. /\ Member(t, k'.wait[o]) => Member(t, k.wait[o])
      /\ k'.stat[t] = "SUSPEND" /\ Member(t, k.wait[o]) => Member(t, k'.wait[o])
      /\ k'.stat[t] = "SUSPEND" => k.stat[t] = "SUSPEND" /\ k'.error[t] = k.error[t]
  BY DEF Eased, Loosened
<1>4. /\ Member(t, k.wait[o]) => InCall(t, o)
      /\ InCall(t, o) /\ k.stat[t] = "SUSPEND" => Member(t, k.wait[o]) /\ k.error[t] = "RT_EOK"
  BY DEF Joined
<1> QED
  BY <1>2, <1>3, <1>4

\* The caller goes on at another place of the same call.
LEMMA GotoFacts ==
  ASSUME IpcTypeOK, NEW label \in Pc, Goto(label)
  PROVE  /\ pc' \in [Thread -> Pc] /\ pc'[k.cur] = label
         /\ \A t \in Thread \ {k.cur} : pc'[t] = pc[t]
BY DEF IpcTypeOK, Goto, KernelState

\* The current thread is running unless it is on its way to rt_schedule.
LEMMA CurRuns ==
  ASSUME IpcInv
  PROVE  /\ k \in KernelState /\ k.cur \in Thread
         /\ pc[k.cur] \notin {"block", "sleep"} => k.stat[k.cur] = "RUNNING"
         /\ pc[k.cur] # "run" => k.cur # Idle
         /\ k.stat[k.cur] \in {"RUNNING", "SUSPEND"}
BY DEF IpcInv, IpcTypeOK, Calm, CurSound, KernelState

\* Whoever is not suspended is on no list.
LEMMA AwakeUnlisted ==
  ASSUME NEW a, Calm(a), NEW t \in Thread, a.stat[t] # "SUSPEND"
  PROVE  \A o \in Obj : ~Member(t, a.wait[o])
BY DEF Calm, Lists, WaitListsSound

-----------------------------------------------------------------------------
(* The steps of every service *)

\* rt_schedule after a change b of the kernel that blocks nobody, made by the
\* application, by a service or by an interrupt: nobody is taken from a call.
LEMMA ScheduledStep ==
  ASSUME IpcInv, NEW b, Calm(b), b.lock = 0, Eased(k, b), k' = rt_schedule(b),
         SameCalls
  PROVE  /\ Calm(k') /\ k'.lock = 0 /\ Eased(k, k') /\ k'.stat[k'.cur] = "RUNNING"
         /\ Joined' /\ WaitsEased
<1> DEFINE u == rt_schedule(b)
<1>1. Calm(u) /\ Unscheduled(b, u) /\ u.stat[u.cur] = "RUNNING"
  BY ScheduleCalm
<1>2. u.lock = 0
  BY <1>1 DEF Unscheduled
<1> HIDE DEF u
<1>3. Eased(k, u)
  BY <1>1, UnscheduledEased, EasedTrans
<1>4. k' = u
  BY DEF u
<1>5. Joined'
  BY <1>3, <1>4, LoosenedJoined DEF IpcInv, Eased
<1>6. WaitsEased
  BY <1>3, <1>4, EasedWaits
<1> QED
  BY <1>1, <1>2, <1>3, <1>4, <1>5, <1>6

\* Who is granted what does not change while nobody begins or ends a call, wakes
\* without an error, or has its answer changed.
LEMMA SteadyGrants ==
  ASSUME SameCalls,
         \A t \in Thread : /\ k'.stat[t] = "SUSPEND" <=> k.stat[t] = "SUSPEND"
                           /\ k'.error[t] = k.error[t]
  PROVE  SameGrants
BY DEF SameCalls, SameGrants, Granted

LEMMA RescheduleKeeps ==
  ASSUME IpcInv, Reschedule
  PROVE  IpcInv' /\ SameGrants /\ WaitsEased
<1>1. Calm(k) /\ k.lock = 0 /\ k \in KernelState /\ k.cur \in Thread /\ IpcTypeOK
  BY CurRuns DEF IpcInv
<1>2. k' = rt_schedule(k) /\ on' = on /\ live' = live /\ phantom' = phantom
  BY DEF Reschedule
<1>3. PICK label \in {"run", "woken"} :
        /\ Goto(label) /\ pc[k.cur] \in {"sched", "block", "sleep"}
        /\ pc[k.cur] = "block" <=> label = "woken"
  BY DEF Reschedule, At
<1>4. /\ pc' \in [Thread -> Pc] /\ pc'[k.cur] = label
      /\ \A t \in Thread \ {k.cur} : pc'[t] = pc[t]
  BY <1>1, <1>3, GotoFacts DEF Pc
<1>5. SameCalls
  BY <1>2, <1>3, <1>4 DEF SameCalls, InCall
<1>6. Eased(k, k)
  BY DEF Eased, Loosened
<1>7. /\ Calm(k') /\ k'.lock = 0 /\ k'.stat[k'.cur] = "RUNNING" /\ Joined' /\ WaitsEased
  BY <1>1, <1>2, <1>5, <1>6, ScheduledStep
<1>8. Unscheduled(k, k')
  BY <1>1, <1>2, ScheduleCalm
<1>9. SameGrants
  BY <1>5, <1>8, SteadyGrants DEF Unscheduled
<1>10. pc'[Idle] = "run"
  BY <1>3, <1>4, KernelAssumption DEF IpcInv
<1>11. IpcTypeOK'
  BY <1>1, <1>2, <1>4, <1>7 DEF IpcTypeOK, Calm, Lists
<1> QED
  BY <1>7, <1>9, <1>10, <1>11 DEF IpcInv

LEMMA YieldCalm ==
  ASSUME NEW a, Calm(a)
  PROVE  LET u == [a EXCEPT !.yield[a.cur] = TRUE] IN
         /\ Calm(u) /\ u.cur = a.cur /\ u.stat = a.stat /\ u.wait = a.wait
         /\ u.prio = a.prio /\ u.lock = a.lock /\ u.timer = a.timer /\ u.error = a.error
<1> DEFINE u == [a EXCEPT !.yield[a.cur] = TRUE]
<1>1. a \in KernelState
  BY DEF Calm, Lists
<1>2. /\ u \in KernelState
      /\ u.ready = a.ready /\ u.group = a.group /\ u.wait = a.wait /\ u.defunct = a.defunct
      /\ u.cur = a.cur /\ u.stat = a.stat /\ u.prio = a.prio /\ u.lock = a.lock
      /\ u.timer = a.timer /\ u.error = a.error
  BY <1>1 DEF KernelState
<1> HIDE DEF u
<1>3. Lists(u)
  BY <1>2, Frame DEF Calm
<1>4. Calm(u)
  BY <1>2, <1>3 DEF Calm, CurSound, TimerSound, ReadyComplete
<1> QED
  BY <1>2, <1>4 DEF u

\* An interrupt that changes the kernel and reschedules: nobody's place changes.
LEMMA InterruptKeeps ==
  ASSUME IpcInv, NEW b, Calm(b), b.lock = 0, Eased(k, b), k' = rt_schedule(b),
         UNCHANGED <<pc, on>>, live' \subseteq Obj, phantom' \in BOOLEAN
  PROVE  IpcInv' /\ WaitsEased /\ Eased(k, k') /\ SameCalls
<1>1. SameCalls
  BY DEF SameCalls, InCall
<1>2. /\ Calm(k') /\ k'.lock = 0 /\ Eased(k, k') /\ k'.stat[k'.cur] = "RUNNING"
      /\ Joined' /\ WaitsEased
  BY <1>1, ScheduledStep
<1>3. IpcTypeOK'
  BY <1>2 DEF IpcInv, IpcTypeOK, Calm, Lists
<1> QED
  BY <1>1, <1>2, <1>3 DEF IpcInv

LEMMA SliceEndKeeps ==
  ASSUME IpcInv, SliceEnd
  PROVE  IpcInv' /\ SameGrants /\ WaitsEased
<1> DEFINE b == [k EXCEPT !.yield[k.cur] = TRUE]
<1>1. Calm(k) /\ k.lock = 0 /\ IpcTypeOK
  BY DEF IpcInv
<1>2. /\ Calm(b) /\ b.stat = k.stat /\ b.wait = k.wait
      /\ b.prio = k.prio /\ b.lock = k.lock /\ b.error = k.error
  BY <1>1, YieldCalm
<1>3. k' = rt_schedule(b) /\ pc' = pc /\ on' = on /\ live' = live /\ phantom' = phantom
  BY DEF SliceEnd
<1> HIDE DEF b
<1>4. Eased(k, b)
  BY <1>2 DEF Eased, Loosened
<1>5. IpcInv' /\ WaitsEased /\ SameCalls
  BY <1>1, <1>2, <1>3, <1>4, InterruptKeeps DEF IpcTypeOK
<1>6. Unscheduled(b, k')
  BY <1>2, <1>3, ScheduleCalm
<1>7. SameGrants
  BY <1>2, <1>5, <1>6, SteadyGrants DEF Unscheduled
<1> QED
  BY <1>5, <1>7

\* A timeout ends a wait, but grants nothing.
LEMMA TimeoutKeeps ==
  ASSUME IpcInv, NEW t \in Thread, Timeout(t)
  PROVE  IpcInv' /\ SameGrants /\ WaitsEased
<1> DEFINE b == _thread_timeout(k, t)
<1>1. Calm(k) /\ k.lock = 0 /\ IpcTypeOK /\ Joined /\ k \in KernelState
  BY CurRuns DEF IpcInv
<1>2. k.stat[t] = "SUSPEND"
  BY <1>1 DEF Timeout, Calm, TimerSound
<1>3. /\ Released(k, b) /\ b.stat[t] # "SUSPEND" /\ b.error[t] = "RT_ETIMEOUT"
      /\ \A v \in Thread \ {t} : b.stat[v] = k.stat[v] /\ b.error[v] = k.error[v]
  BY <1>1, <1>2, TimeoutReleases
<1>4. k' = rt_schedule(b) /\ pc' = pc /\ on' = on /\ live' = live /\ phantom' = phantom
  BY DEF Timeout
<1> HIDE DEF b
<1>5. Calm(b) /\ b.lock = 0 /\ Eased(k, b)
  BY <1>1, <1>3, ReleasedEased DEF Released
<1>6. IpcInv' /\ WaitsEased /\ SameCalls
  BY <1>1, <1>4, <1>5, InterruptKeeps DEF IpcTypeOK
<1>7. Unscheduled(b, k')
  BY <1>4, <1>5, ScheduleCalm
<1>8. \A v \in Thread, o \in Obj : Granted(v, o)' <=> Granted(v, o)
  BY <1>2, <1>3, <1>6, <1>7 DEF Unscheduled, SameCalls, Granted
<1> QED
  BY <1>6, <1>8 DEF SameGrants

LEMMA DelayKeeps ==
  ASSUME IpcInv, Delay
  PROVE  IpcInv' /\ SameGrants /\ WaitsEased
<1> DEFINE c == k.cur
           b == StartTimer(rt_thread_suspend([k EXCEPT !.error[c] = "RT_EOK"], c), c)
<1>1. Calm(k) /\ k.lock = 0 /\ IpcTypeOK /\ Joined /\ k \in KernelState /\ c \in Thread
  BY CurRuns DEF IpcInv
<1>2. pc[c] = "run" /\ c # Idle /\ k.stat[c] = "RUNNING"
  BY CurRuns DEF Delay, App, At
<1>3. /\ Calm(b) /\ b.cur = c /\ b.prio = k.prio /\ b.lock = k.lock
      /\ b.wait = k.wait /\ b.error = [k.error EXCEPT ![c] = "RT_EOK"]
      /\ b.stat = [k.stat EXCEPT ![c] = "SUSPEND"]
  BY <1>1, <1>2, DelayCalm
<1>4. k' = b /\ on' = on /\ live' = live /\ phantom' = phantom /\ Goto("sleep")
  BY DEF Delay
<1> HIDE DEF b
<1>5. /\ pc' \in [Thread -> Pc] /\ pc'[c] = "sleep"
      /\ \A t \in Thread \ {c} : pc'[t] = pc[t]
  BY <1>1, <1>4, GotoFacts DEF Pc
<1>6. SameCalls
  BY <1>2, <1>4, <1>5 DEF SameCalls, InCall
<1>7. \A t \in Thread \ {c} : k'.stat[t] = k.stat[t] /\ k'.error[t] = k.error[t]
  BY <1>1, <1>3, <1>4 DEF KernelState
<1>8. Joined'
  <2>1. \A t \in Thread, o \in Obj : t = c => ~InCall(t, o)'
    BY <1>1, <1>2, <1>6 DEF SameCalls, InCall
  <2> QED
    BY <1>1, <1>3, <1>4, <1>6, <1>7, <2>1 DEF Joined, SameCalls
<1>9. SameGrants
  BY <1>2, <1>6, <1>7 DEF SameGrants, SameCalls, Granted, InCall
<1>10. WaitsEased
  BY <1>3, <1>4 DEF WaitsEased, InPrioOrder
<1>11. pc'[Idle] = "run"
  BY <1>2, <1>5, KernelAssumption DEF IpcInv
<1>12. IpcTypeOK'
  BY <1>1, <1>3, <1>4, <1>5 DEF IpcTypeOK, Calm, Lists
<1> QED
  BY <1>1, <1>3, <1>4, <1>5, <1>8, <1>9, <1>10, <1>11, <1>12 DEF IpcInv

\* The steps that touch no object of the service grant nothing.
LEMMA BackgroundKeeps ==
  ASSUME IpcInv, Background
  PROVE  IpcInv' /\ SameGrants /\ WaitsEased
BY RescheduleKeeps, DelayKeeps, SliceEndKeeps, TimeoutKeeps DEF Background

\* A step of the current thread from a place outside its calls to another one, in
\* which the kernel blocks nobody and k'.cur = k.cur.
LEMMA CallerStep ==
  ASSUME IpcInv, Calm(k'), k'.lock = 0, k'.cur = k.cur, Eased(k, k'),
         pc[k.cur] \notin {"block", "sleep", "woken"},
         NEW label \in Pc, label \notin {"block", "sleep", "woken"}, Goto(label),
         k.cur # Idle,
         NEW o \in Obj, on' \in {on, [on EXCEPT ![k.cur] = o]},
         live' \subseteq Obj, phantom' \in BOOLEAN
  PROVE  IpcInv' /\ WaitsEased /\ SameCalls
<1>1. Calm(k) /\ IpcTypeOK /\ k \in KernelState /\ k.cur \in Thread /\ k.stat[k.cur] = "RUNNING"
  BY CurRuns DEF IpcInv
<1>2. /\ pc' \in [Thread -> Pc] /\ pc'[k.cur] = label
      /\ \A t \in Thread \ {k.cur} : pc'[t] = pc[t]
  BY <1>1, GotoFacts
<1>3. on' \in [Thread -> Obj] /\ \A t \in Thread \ {k.cur} : on'[t] = on[t]
  BY <1>1 DEF IpcTypeOK
<1>4. SameCalls
  BY <1>2, <1>3 DEF SameCalls, InCall
<1>5. Joined' /\ WaitsEased
  BY <1>4, LoosenedJoined, EasedWaits DEF IpcInv, Eased
<1>6. pc'[Idle] = "run"
  BY <1>2, KernelAssumption DEF IpcInv
<1>7. k'.stat[k'.cur] # "SUSPEND"
  BY <1>1 DEF Eased, Loosened
<1>8. IpcTypeOK'
  BY <1>2, <1>3 DEF IpcTypeOK, Calm, Lists
<1> QED
  BY <1>4, <1>5, <1>6, <1>7, <1>8 DEF IpcInv

-----------------------------------------------------------------------------
(* The steps of the calls themselves *)

LEMMA AppFacts ==
  ASSUME IpcInv, App
  PROVE  /\ k.cur \in Thread /\ k.cur # Idle /\ pc[k.cur] = "run" /\ k.stat[k.cur] = "RUNNING"
         /\ Calm(k) /\ k.lock = 0 /\ IpcTypeOK
         /\ \A t \in Thread, o \in Obj : t = k.cur => ~InCall(t, o)
BY CurRuns DEF App, At, IpcInv, InCall

\* b differs from a in priorities at most, and in what goes with them.
Similar(a, b) ==
  /\ Calm(b) /\ b.cur = a.cur /\ b.stat = a.stat /\ b.wait = a.wait
  /\ b.error = a.error /\ b.lock = a.lock

LEMMA SimilarSelf ==
  ASSUME NEW a, Calm(a) PROVE Similar(a, a)
BY DEF Similar

\* The caller joins the list of o, at the place that flag says, and waits.
LEMMA BlockKeeps ==
  ASSUME IpcInv, App, NEW b, Similar(k, b), NEW o \in Obj, NEW flag, NEW time,
         k' = Block(b, o, flag, time), Goto("block"),
         on' = [on EXCEPT ![k.cur] = o], live' = live, phantom' = phantom
  PROVE  /\ IpcInv' /\ SameGrants /\ k'.prio = b.prio
         /\ k'.wait = [k.wait EXCEPT ![o] = Queued(k.wait[o], k.cur, flag, b.prio)]
<1> DEFINE c == k.cur
<1>1. /\ c \in Thread /\ c # Idle /\ pc[c] = "run" /\ k.stat[c] = "RUNNING"
      /\ Calm(k) /\ k.lock = 0 /\ IpcTypeOK /\ Joined /\ k \in KernelState
  BY AppFacts, CurRuns DEF IpcInv
<1>2. /\ Calm(b) /\ b.cur = c /\ b.stat = k.stat /\ b.wait = k.wait
      /\ b.error = k.error /\ b.lock = k.lock
  BY DEF Similar
<1>3. Blocked(b, k', o, flag)
  <2>1. b.stat[b.cur] = "RUNNING" /\ b.cur # Idle
    BY <1>1, <1>2
  <2> QED
    BY <1>2, <2>1, BlockCalm
<1>4. /\ Calm(k') /\ k'.cur = c /\ k'.prio = b.prio /\ k'.lock = 0
      /\ k'.stat[c] = "SUSPEND" /\ k'.error[c] = "RT_EOK"
      /\ \A t \in Thread : t # c => k'.stat[t] = k.stat[t] /\ k'.error[t] = k.error[t]
      /\ k'.wait = [k.wait EXCEPT ![o] = Queued(k.wait[o], c, flag, b.prio)]
      /\ \A t \in Thread, q \in Obj : Member(t, k'.wait[q]) <=> Member(t, k.wait[q]) \/ (t = c /\ q = o)
  BY <1>1, <1>2, <1>3 DEF Blocked, KernelState
<1>5. /\ pc' \in [Thread -> Pc] /\ pc'[c] = "block"
      /\ \A t \in Thread : t # c => pc'[t] = pc[t]
  BY <1>1, GotoFacts DEF Pc
<1>6. /\ on' \in [Thread -> Obj] /\ on'[c] = o
      /\ \A t \in Thread : t # c => on'[t] = on[t]
  BY <1>1 DEF IpcTypeOK
<1> HIDE DEF c
<1>7. \A t \in Thread, q \in Obj : /\ t # c => (InCall(t, q)' <=> InCall(t, q))
                                   /\ t = c => (InCall(t, q)' <=> q = o)
  BY <1>5, <1>6 DEF InCall
<1>8. \A q \in Obj : ~Member(c, k.wait[q])
  BY <1>1, AwakeUnlisted
<1>9. Joined'
  BY <1>1, <1>4, <1>7, <1>8 DEF Joined
<1>10. SameGrants
  <2>1. \A t \in Thread, q \in Obj : t = c => ~InCall(t, q)
    BY AppFacts DEF c
  <2> QED
    BY <1>4, <1>7, <2>1 DEF SameGrants, Granted
<1>11. pc'[Idle] = "run"
  BY <1>1, <1>5, KernelAssumption DEF IpcInv
<1>12. IpcTypeOK'
  BY <1>1, <1>4, <1>5, <1>6 DEF IpcTypeOK, Calm, Lists
<1> QED
  BY <1>4, <1>5, <1>9, <1>10, <1>11, <1>12 DEF IpcInv, c

\* A call that neither waits nor wakes anybody; it may set the caller's answer.
LEMMA QuietCall ==
  ASSUME IpcInv, App, NEW b, Similar(k, b), NEW e \in Errno,
         k' \in {b, [b EXCEPT !.error[k.cur] = e]}, NEW label \in Pc,
         label \notin {"block", "sleep", "woken"}, Goto(label),
         NEW o \in Obj, on' \in {on, [on EXCEPT ![k.cur] = o]},
         live' \subseteq Obj, phantom' \in BOOLEAN
  PROVE  IpcInv' /\ SameGrants /\ k'.prio = b.prio /\ k'.wait = k.wait
<1> DEFINE c == k.cur
<1>1. /\ c \in Thread /\ c # Idle /\ pc[c] = "run" /\ k.stat[c] = "RUNNING"
      /\ Calm(k) /\ k.lock = 0 /\ IpcTypeOK /\ Joined /\ k \in KernelState
  BY AppFacts, CurRuns DEF IpcInv
<1>2. /\ Calm(b) /\ b.cur = c /\ b.stat = k.stat /\ b.wait = k.wait
      /\ b.error = k.error /\ b.lock = k.lock
  BY DEF Similar
<1>3. /\ Calm(k') /\ k'.cur = c /\ k'.stat = k.stat /\ k'.wait = k.wait
      /\ k'.prio = b.prio /\ k'.lock = 0 /\ k'.error \in {b.error, [b.error EXCEPT ![c] = e]}
  <2>1. CASE k' = b
    BY <2>1, <1>1, <1>2
  <2>2. CASE k' = [b EXCEPT !.error[c] = e]
    BY <2>2, <1>1, <1>2, ErrorCalm
  <2> QED
    BY <2>1, <2>2
<1>4. \A t \in Thread : t # c => k'.error[t] = k.error[t]
  BY <1>1, <1>2, <1>3 DEF KernelState
<1>5. /\ pc' \in [Thread -> Pc] /\ pc'[c] = label
      /\ \A t \in Thread : t # c => pc'[t] = pc[t]
  BY <1>1, GotoFacts
<1>6. /\ on' \in [Thread -> Obj] /\ \A t \in Thread : t # c => on'[t] = on[t]
  BY <1>1 DEF IpcTypeOK
<1> HIDE DEF c
<1>7. \A t \in Thread, q \in Obj : /\ InCall(t, q)' <=> InCall(t, q)
                                   /\ t = c => ~InCall(t, q)
  BY <1>1, <1>5, <1>6 DEF InCall
<1>8. Joined'
  BY <1>1, <1>3, <1>4, <1>7 DEF Joined
<1>9. SameGrants
  BY <1>3, <1>4, <1>7 DEF SameGrants, Granted
<1>10. pc'[Idle] = "run"
  BY <1>1, <1>5, KernelAssumption DEF IpcInv
<1>11. IpcTypeOK'
  BY <1>1, <1>3, <1>5, <1>6 DEF IpcTypeOK, Calm, Lists
<1> QED
  BY <1>1, <1>3, <1>8, <1>9, <1>10, <1>11 DEF IpcInv

\* h is granted its wait on o, and nothing else changes hands.
GrantsTo(h, o) ==
  /\ h \in Thread /\ InCall(h, o) /\ ~Granted(h, o) /\ k.stat[h] = "SUSPEND"
  /\ \A t \in Thread, q \in Obj : Granted(t, q)' <=> Granted(t, q) \/ (t = h /\ q = o)

\* What the resumption of the first of o leaves, before and after an rt_schedule.
FirstResumed(a, u, o) ==
  LET h == Head(a.wait[o]) IN
  /\ Loosened(a, u) /\ u.stat[h] # "SUSPEND" /\ u.error[h] = a.error[h]
  /\ \A v \in Thread \ {h} : /\ u.stat[v] = "SUSPEND" <=> a.stat[v] = "SUSPEND"
                             /\ u.error[v] = a.error[v]

LEMMA FirstGranted ==
  ASSUME IpcInv, NEW o \in Obj, k.wait[o] # <<>>, FirstResumed(k, k', o), SameCalls
  PROVE  GrantsTo(Head(k.wait[o]), o)
<1> DEFINE h == Head(k.wait[o])
<1>1. Calm(k) /\ Joined
  BY DEF IpcInv
<1>2. h \in Thread /\ Member(h, k.wait[o]) /\ k.stat[h] = "SUSPEND"
  BY <1>1, HeadFacts
<1>3. /\ k'.stat[h] # "SUSPEND" /\ k'.error[h] = k.error[h]
      /\ \A v \in Thread : v # h => /\ k'.stat[v] = "SUSPEND" <=> k.stat[v] = "SUSPEND"
                                    /\ k'.error[v] = k.error[v]
  BY DEF FirstResumed
<1> HIDE DEF h
<1>4. InCall(h, o) /\ k.error[h] = "RT_EOK"
  BY <1>1, <1>2 DEF Joined
<1>5. ASSUME NEW t \in Thread, NEW q \in Obj
      PROVE  Granted(t, q)' <=> Granted(t, q) \/ (t = h /\ q = o)
  <2>1. InCall(t, q)' <=> InCall(t, q)
    BY DEF SameCalls
  <2>2. CASE t = h
    <3>1. InCall(h, q) <=> q = o
      BY <1>4 DEF InCall
    <3> QED
      BY <3>1, <2>1, <2>2, <1>2, <1>3, <1>4 DEF Granted
  <2>3. CASE t # h
    BY <2>1, <2>3, <1>3 DEF Granted
  <2> QED
    BY <2>2, <2>3
<1> QED
  BY <1>2, <1>4, <1>5 DEF GrantsTo, Granted, h

\* A release by a thread: the first of o is resumed, and the caller goes on to its
\* rt_schedule.
LEMMA ReleaseKeeps ==
  ASSUME IpcInv, App, NEW b, Similar(k, b), NEW o \in Obj, k.wait[o] # <<>>,
         k' = _ipc_list_resume(b, o), Goto("sched"), on' = on, live' = live, phantom' = phantom
  PROVE  /\ IpcInv' /\ GrantsTo(Head(k.wait[o]), o) /\ k'.prio = b.prio
         /\ b.prio = k.prio => WaitsEased
         /\ Eased(b, k') /\ \A q \in Obj : ~Member(Head(k.wait[o]), k'.wait[q])
         /\ \A q \in Obj : k.wait[q] = <<>> => k'.wait[q] = <<>>
<1> DEFINE c == k.cur
           h == Head(k.wait[o])
<1>1. /\ c \in Thread /\ c # Idle /\ pc[c] = "run" /\ k.stat[c] = "RUNNING"
      /\ Calm(k) /\ k.lock = 0 /\ IpcTypeOK /\ Joined /\ k \in KernelState
  BY AppFacts, CurRuns DEF IpcInv
<1>2. /\ Calm(b) /\ b.cur = c /\ b.stat = k.stat /\ b.wait = k.wait
      /\ b.error = k.error /\ b.lock = k.lock
  BY DEF Similar
<1>3. /\ Released(b, k') /\ k'.stat[h] # "SUSPEND" /\ k'.error = b.error
      /\ \A q \in Obj : ~Member(h, k'.wait[q])
      /\ \A v \in Thread \ {h} : k'.stat[v] = b.stat[v]
  <2>1. b.wait[o] # <<>>
    BY <1>2
  <2>2. LET u == _ipc_list_resume(b, o)
            t == Head(b.wait[o])
        IN  /\ Released(b, u) /\ u.stat[t] # "SUSPEND" /\ u.error = b.error
            /\ \A q \in Obj : ~Member(t, u.wait[q])
            /\ \A v \in Thread \ {t} : u.stat[v] = b.stat[v]
    BY <1>2, <2>1, ListResume
  <2> QED
    BY <1>2, <2>2
<1> HIDE DEF h
<1>4. Eased(b, k') /\ Calm(k') /\ k'.cur = c /\ k'.prio = b.prio /\ k'.lock = 0
  BY <1>1, <1>2, <1>3, ReleasedEased DEF Released
<1>5. Loosened(k, k')
  BY <1>2, <1>4 DEF Eased, Loosened
<1>6. b.prio = k.prio => WaitsEased
  <2>1. b.prio = k.prio => Eased(k, k')
    BY <1>2, <1>4, <1>5 DEF Eased
  <2> QED
    BY <2>1, EasedWaits
<1>7. /\ pc' \in [Thread -> Pc] /\ pc'[c] = "sched"
      /\ \A t \in Thread : t # c => pc'[t] = pc[t]
  BY <1>1, GotoFacts DEF Pc
<1>8. SameCalls
  BY <1>1, <1>7 DEF SameCalls, InCall
<1>9. Joined'
  BY <1>1, <1>5, <1>8, LoosenedJoined
<1>10. FirstResumed(k, k', o)
  BY <1>2, <1>3, <1>5 DEF FirstResumed, h
<1>11. GrantsTo(h, o)
  BY <1>8, <1>10, FirstGranted DEF h
<1>12. pc'[Idle] = "run"
  BY <1>1, <1>7, KernelAssumption DEF IpcInv
<1>13. IpcTypeOK'
  BY <1>1, <1>4, <1>7 DEF IpcTypeOK, Calm, Lists
<1>14. k'.stat[k'.cur] # "SUSPEND"
  BY <1>1, <1>4, <1>5 DEF Loosened
<1>15. \A q \in Obj : k.wait[q] = <<>> => k'.wait[q] = <<>>
  BY <1>5 DEF Loosened
<1> QED
  BY <1>3, <1>4, <1>6, <1>9, <1>11, <1>12, <1>13, <1>14, <1>15 DEF IpcInv, h

\* A release by an interrupt, which reschedules.
LEMMA IsrReleaseKeeps ==
  ASSUME IpcInv, NEW o \in Obj, k.wait[o] # <<>>, k' = rt_schedule(_ipc_list_resume(k, o)),
         pc' = pc, on' = on, live' = live, phantom' = phantom
  PROVE  IpcInv' /\ GrantsTo(Head(k.wait[o]), o) /\ WaitsEased
<1> DEFINE h == Head(k.wait[o])
           b == _ipc_list_resume(k, o)
<1>1. Calm(k) /\ k.lock = 0 /\ IpcTypeOK
  BY DEF IpcInv
<1>2. /\ Released(k, b) /\ b.stat[h] # "SUSPEND" /\ b.error = k.error
      /\ \A v \in Thread \ {h} : b.stat[v] = k.stat[v]
  BY <1>1, ListResume
<1>3. h \in Thread
  BY <1>1, HeadFacts
<1> HIDE DEF h, b
<1>4. Calm(b) /\ b.lock = 0 /\ Eased(k, b)
  BY <1>1, <1>2, ReleasedEased DEF Released
<1>5. k' = rt_schedule(b)
  BY DEF b
<1>6. IpcInv' /\ WaitsEased /\ Eased(k, k') /\ SameCalls
  BY <1>1, <1>4, <1>5, InterruptKeeps DEF IpcTypeOK
<1>7. Unscheduled(b, k')
  BY <1>4, <1>5, ScheduleCalm
<1>8. FirstResumed(k, k', o)
  BY <1>2, <1>3, <1>6, <1>7 DEF FirstResumed, Unscheduled, Eased, h
<1> QED
  BY <1>6, <1>8, FirstGranted DEF h

\* Back from rt_schedule, the call ends: whatever its answer, the caller is granted
\* nothing any more.
LEMMA ReturnKeeps ==
  ASSUME IpcInv, At("woken"), Goto("run"), k' = k, on' = on, live' = live, phantom' = phantom
  PROVE  /\ IpcInv' /\ WaitsEased
         /\ k.cur \in Thread /\ k.stat[k.cur] = "RUNNING" /\ InCall(k.cur, on[k.cur])
         /\ on[k.cur] \in Obj
         /\ \A t \in Thread, q \in Obj : Granted(t, q)' <=> Granted(t, q) /\ t # k.cur
<1> DEFINE c == k.cur
<1>1. /\ c \in Thread /\ c # Idle /\ pc[c] = "woken" /\ k.stat[c] = "RUNNING"
      /\ Calm(k) /\ k.lock = 0 /\ IpcTypeOK /\ Joined /\ k \in KernelState
  BY CurRuns DEF IpcInv, At
<1>2. /\ pc' \in [Thread -> Pc] /\ pc'[c] = "run"
      /\ \A t \in Thread : t # c => pc'[t] = pc[t]
  BY <1>1, GotoFacts DEF Pc
<1> HIDE DEF c
<1>3. \A t \in Thread, q \in Obj : /\ t # c => (InCall(t, q)' <=> InCall(t, q))
                                   /\ t = c => ~InCall(t, q)'
  BY <1>2 DEF InCall
<1>4. \A q \in Obj : ~Member(c, k.wait[q])
  BY <1>1, AwakeUnlisted
<1>5. Joined'
  BY <1>1, <1>3, <1>4 DEF Joined
<1>6. \A t \in Thread, q \in Obj : Granted(t, q)' <=> Granted(t, q) /\ t # c
  BY <1>3 DEF Granted
<1>7. WaitsEased
  BY DEF WaitsEased, InPrioOrder
<1>8. pc'[Idle] = "run"
  BY <1>1, <1>2, KernelAssumption DEF IpcInv
<1>9. InCall(c, on[c]) /\ on[c] \in Obj
  BY <1>1 DEF InCall, IpcTypeOK
<1>10. IpcInv'
  BY <1>1, <1>2, <1>5, <1>8 DEF IpcInv, IpcTypeOK, c
<1> QED
  BY <1>1, <1>6, <1>7, <1>9, <1>10 DEF c

\* RT_IPC_CMD_RESET: the list of o is emptied with interrupts disabled, and nobody
\* is granted anything.
LEMMA ControlKeeps ==
  ASSUME IpcInv, App, NEW o \in Obj, k' = ResumeEveryone(k, o), Goto("sched"),
         on' = on, live' = live, phantom' = phantom
  PROVE  IpcInv' /\ SameGrants /\ WaitsEased /\ k'.wait[o] = <<>>
<1>1. Calm(k) /\ k.lock = 0 /\ IpcTypeOK /\ k.cur # Idle /\ pc[k.cur] = "run"
  BY AppFacts
<1>2. Emptied(k, k', o)
  BY <1>1, ResumeEveryoneFacts
<1>3. Released(k, k') /\ k'.wait[o] = <<>>
  BY <1>2 DEF Emptied
<1>4. Calm(k') /\ k'.lock = 0 /\ k'.cur = k.cur /\ Eased(k, k')
  BY <1>1, <1>3, ReleasedEased DEF Released
<1>5. IpcInv' /\ WaitsEased /\ SameCalls
  <2>1. "sched" \in Pc /\ live' \subseteq Obj /\ phantom' \in BOOLEAN
    BY <1>1 DEF Pc, IpcTypeOK
  <2>2. pc[k.cur] \notin {"block", "sleep", "woken"}
    BY <1>1
  <2> QED
    BY <1>1, <1>4, <2>1, <2>2, CallerStep
<1>6. ASSUME NEW t \in Thread, NEW q \in Obj PROVE Granted(t, q)' <=> Granted(t, q)
  <2>1. CASE Member(t, k.wait[o])
    <3>1. k.stat[t] = "SUSPEND"
      BY <1>1, <2>1 DEF Calm, Lists, WaitListsSound
    <3> QED
      BY <2>1, <3>1, <1>2 DEF Emptied, Granted
  <2>2. CASE ~Member(t, k.wait[o])
    BY <2>2, <1>2, <1>5 DEF Emptied, Granted, SameCalls
  <2> QED
    BY <2>1, <2>2
<1> QED
  BY <1>3, <1>5, <1>6 DEF SameGrants

LEMMA DetachBeginKeeps ==
  ASSUME IpcInv, NEW o \in Obj, DetachBegin(o)
  PROVE  IpcInv' /\ SameGrants /\ WaitsEased /\ k' = k
<1>1. Calm(k) /\ IpcTypeOK /\ Similar(k, k) /\ App /\ "RT_EOK" \in Errno /\ "test" \in Pc
  BY AppFacts, SimilarSelf DEF DetachBegin, Errno, Pc
<1>2. /\ k' = k /\ Goto("test") /\ on' = [on EXCEPT ![k.cur] = o]
      /\ live' \subseteq Obj /\ phantom' \in BOOLEAN
  BY <1>1 DEF DetachBegin, IpcTypeOK
<1>3. IpcInv' /\ SameGrants
  BY <1>1, <1>2, QuietCall
<1> QED
  BY <1>2, <1>3 DEF WaitsEased, InPrioOrder

\* The places inside _ipc_list_resume_all are outside the waiting calls.
LEMMA ResumingFacts ==
  ASSUME IpcInv, pc[k.cur] \in {"test", "each"}
  PROVE  /\ Calm(k) /\ k.lock = 0 /\ IpcTypeOK /\ k.cur \in Thread /\ k.cur # Idle
         /\ pc[k.cur] \notin {"block", "sleep", "woken"} /\ on[k.cur] \in Obj
BY CurRuns DEF IpcInv, IpcTypeOK

LEMMA ResumeAllTestKeeps ==
  ASSUME IpcInv, ResumeAllTest
  PROVE  IpcInv' /\ SameGrants /\ WaitsEased
<1>1. /\ Calm(k) /\ k.lock = 0 /\ IpcTypeOK /\ k.cur # Idle
      /\ pc[k.cur] \notin {"block", "sleep", "woken"} /\ on[k.cur] \in Obj
  BY ResumingFacts DEF ResumeAllTest, At
<1>2. PICK label \in {"run", "each"} : Goto(label)
  BY DEF ResumeAllTest
<1>3. /\ k' = k /\ on' = on /\ live' \subseteq Obj /\ phantom' \in BOOLEAN
      /\ label \in Pc /\ label \notin {"block", "sleep", "woken"}
  BY <1>1 DEF ResumeAllTest, IpcTypeOK, Pc
<1>4. Eased(k, k)
  BY DEF Eased, Loosened
<1>5. Calm(k') /\ k'.lock = 0 /\ k'.cur = k.cur /\ Eased(k, k')
  BY <1>1, <1>3, <1>4
<1>6. IpcInv' /\ WaitsEased /\ SameCalls
  BY <1>1, <1>2, <1>3, <1>5, CallerStep
<1>7. SameGrants
  BY <1>3, <1>6, SteadyGrants
<1> QED
  BY <1>6, <1>7

\* An iteration of _ipc_list_resume_all ends a wait, but grants nothing.
LEMMA ResumeAllKeeps ==
  ASSUME IpcInv, _ipc_list_resume_all
  PROVE  IpcInv' /\ SameGrants /\ WaitsEased
<1> DEFINE o == on[k.cur]
           h == Head(k.wait[o])
<1>1. /\ Calm(k) /\ k.lock = 0 /\ IpcTypeOK /\ k.cur # Idle
      /\ pc[k.cur] \notin {"block", "sleep", "woken"} /\ o \in Obj
  BY ResumingFacts DEF _ipc_list_resume_all, At
<1>2. /\ on' = on /\ live' \subseteq Obj /\ phantom' \in BOOLEAN /\ Goto("test")
      /\ "test" \in Pc /\ on' \in {on, [on EXCEPT ![k.cur] = o]}
  BY <1>1 DEF _ipc_list_resume_all, IpcTypeOK, Pc
<1>3. k.wait[o] = <<>> => k' = k
  BY DEF _ipc_list_resume_all
<1>4. k.wait[o] # <<>> => k' = ResumeOneWithError(k, o)
  BY DEF _ipc_list_resume_all
<1>5. CASE k.wait[o] = <<>>
  <2>1. Eased(k, k)
    BY DEF Eased, Loosened
  <2>2. Calm(k') /\ k'.lock = 0 /\ k'.cur = k.cur /\ Eased(k, k')
    BY <1>1, <1>3, <1>5, <2>1
  <2> HIDE DEF o
  <2>3. IpcInv' /\ WaitsEased /\ SameCalls
    BY <1>1, <1>2, <2>2, CallerStep
  <2>4. SameGrants
    BY <1>3, <1>5, <2>3, SteadyGrants
  <2> QED
    BY <2>3, <2>4
<1>6. CASE k.wait[o] # <<>>
  <2> HIDE DEF o
  <2>1. /\ Released(k, k') /\ k'.stat[h] # "SUSPEND" /\ k'.error[h] = "RT_ERROR"
        /\ \A v \in Thread \ {h} : k'.stat[v] = k.stat[v] /\ k'.error[v] = k.error[v]
    BY <1>1, <1>4, <1>6, ResumeOneReleases
  <2>2. h \in Thread /\ k.stat[h] = "SUSPEND"
    BY <1>1, <1>6, HeadFacts
  <2> HIDE DEF h
  <2>3. Calm(k') /\ k'.lock = 0 /\ k'.cur = k.cur /\ Eased(k, k')
    BY <1>1, <2>1, ReleasedEased DEF Released
  <2>4. IpcInv' /\ WaitsEased /\ SameCalls
    BY <1>1, <1>2, <2>3, CallerStep
  <2>5. \A t \in Thread, q \in Obj : Granted(t, q)' <=> Granted(t, q)
    BY <2>1, <2>2, <2>4 DEF Granted, SameCalls
  <2> QED
    BY <2>4, <2>5 DEF SameGrants
<1> QED
  BY <1>5, <1>6

\* An object is set up again while nobody is in a call on it, so that its list,
\* which is emptied, was empty.
LEMMA InitObjectKeeps ==
  ASSUME IpcInv, NEW o \in Obj, InitObject(o)
  PROVE  /\ IpcInv' /\ SameGrants /\ WaitsEased /\ k' = k /\ k.wait[o] = <<>>
         /\ \A t \in Thread : ~InCall(t, o)
<1>1. Calm(k) /\ k.lock = 0 /\ IpcTypeOK /\ Joined /\ k \in KernelState
  BY CurRuns DEF IpcInv
<1>2. \A t \in Thread : ~InCall(t, o)
  BY DEF InitObject, Reusable, InCall
<1>3. k.wait[o] = <<>>
  <2>1. k.wait[o] \in Seq(Thread)
    BY <1>1 DEF KernelState
  <2>2. \A t \in Thread : ~Member(t, k.wait[o])
    BY <1>1, <1>2 DEF Joined
  <2> QED
    BY <2>1, <2>2, EmptyFacts
<1>4. k' = k
  <2>1. k' = [k EXCEPT !.wait[o] = <<>>]
    BY DEF InitObject
  <2>2. [k.wait EXCEPT ![o] = <<>>] = k.wait
    BY <1>1, <1>3 DEF KernelState
  <2> QED
    BY <1>1, <2>1, <2>2 DEF KernelState
<1>5. /\ pc' = pc /\ on' = on /\ live' \subseteq Obj /\ phantom' = phantom
  BY <1>1 DEF InitObject, IpcTypeOK
<1>6. IpcInv'
  BY <1>1, <1>4, <1>5 DEF IpcInv, IpcTypeOK, Joined, InCall
<1>7. SameGrants /\ WaitsEased
  BY <1>4, <1>5 DEF SameGrants, Granted, InCall, WaitsEased, InPrioOrder
<1> QED
  BY <1>2, <1>3, <1>4, <1>6, <1>7

-----------------------------------------------------------------------------
(* The start of the system *)

\* A finite set as a list: each element once.
LEMMA SetToSeqFacts ==
  ASSUME NEW S, IsFiniteSet(S)
  PROVE  LET s == SetToSeq(S) IN
         /\ s \in Seq(S) /\ IsInjective(s)
         /\ \A t : Member(t, s) <=> t \in S
<1> DEFINE n == Cardinality(S)
           s == SetToSeq(S)
<1>1. n \in Nat /\ ExistsBijection(1 .. n, S)
  BY FS_CardinalityType
<1> HIDE DEF n
<1>2. \E f \in [1 .. n -> S] : IsInjective(f)
  BY <1>1 DEF ExistsBijection, Bijection, Injection, IsInjective
<1>3. s \in [1 .. n -> S] /\ IsInjective(s)
  BY <1>2 DEF SetToSeq, n
<1> HIDE DEF s
<1>4. s \in Injection(1 .. n, S)
  BY <1>3 DEF Injection, IsInjective
<1>5. s \in Surjection(1 .. n, S)
  <2>1. Cardinality(1 .. n) = n
    BY <1>1, FS_Interval
  <2> QED
    BY <1>4, <2>1, FS_Injection DEF n
<1>6. s \in Seq(S) /\ DOMAIN s = 1 .. n
  BY <1>1, <1>3
<1>7. \A t : Member(t, s) <=> t \in S
  BY <1>3, <1>5, <1>6 DEF Member, Surjection
<1> QED
  BY <1>3, <1>6, <1>7 DEF s

LEMMA BootCalm == Calm(BootState)
<1> DEFINE b == BootState
           R(p) == {t \in Thread \ {First} : InitPrio[t] = p}
<1>1. /\ First \in Thread /\ First # Idle /\ Idle \in Thread /\ IsFiniteSet(Thread)
      /\ InitPrio \in [Thread -> Prio]
  BY IpcAssumption, KernelAssumption
<1>2. \A p \in Prio : IsFiniteSet(R(p)) /\ R(p) \subseteq Thread
  BY <1>1, FS_Subset
<1>3. ASSUME NEW p \in Prio
      PROVE  /\ SetToSeq(R(p)) \in Seq(Thread) /\ IsInjective(SetToSeq(R(p)))
             /\ \A t \in Thread : Member(t, SetToSeq(R(p))) <=> t # First /\ InitPrio[t] = p
             /\ SetToSeq(R(p)) = <<>> <=> R(p) = {}
  <2> DEFINE S == R(p)
             s == SetToSeq(S)
  <2>1. IsFiniteSet(S) /\ S \subseteq Thread
    BY <1>2
  <2>2. \A t : t \in S <=> t \in Thread /\ t # First /\ InitPrio[t] = p
    OBVIOUS
  <2> HIDE DEF S
  <2>3. s \in Seq(S) /\ IsInjective(s) /\ \A t : Member(t, s) <=> t \in S
    BY <2>1, SetToSeqFacts
  <2> HIDE DEF s
  <2>4. s \in Seq(Thread)
    BY <2>1, <2>3
  <2>5. s = <<>> <=> S = {}
    BY <2>1, <2>3, <2>4, EmptyFacts
  <2> QED
    BY <2>2, <2>3, <2>4, <2>5 DEF s, S
<1>4. /\ b.stat = [t \in Thread |-> IF t = First THEN "RUNNING" ELSE "READY"]
      /\ b.ready = [p \in Prio |-> SetToSeq(R(p))]
      /\ b.group = {InitPrio[t] : t \in Thread \ {First}}
      /\ b.cur = First /\ b.prio = InitPrio /\ b.timer = {} /\ b.defunct = <<>>
      /\ b.wait = [o \in Obj |-> <<>>]
      /\ b.yield = [t \in Thread |-> FALSE] /\ b.lock = 0
      /\ b.error = [t \in Thread |-> "RT_EOK"]
  BY DEF BootState
<1>5. b \in KernelState
  <2> DEFINE q == [p \in Prio |-> SetToSeq(R(p))]
             g == {InitPrio[t] : t \in Thread \ {First}}
  <2>1. q \in [Prio -> Seq(Thread)] /\ g \in SUBSET Prio
    BY <1>1, <1>3
  <2>2. b = [stat |-> [t \in Thread |-> IF t = First THEN "RUNNING" ELSE "READY"],
             yield |-> [t \in Thread |-> FALSE], prio |-> InitPrio, ready |-> q,
             group |-> g, cur |-> First, lock |-> 0, wait |-> [o \in Obj |-> <<>>],
             timer |-> {}, error |-> [t \in Thread |-> "RT_EOK"], defunct |-> <<>>]
    BY DEF BootState
  <2> HIDE DEF q, g, b
  <2> QED
    BY <1>1, <2>1, <2>2 DEF KernelState, Stat, Errno
<1> HIDE DEF b
<1>6. ReadyListsSound(b)
  <2>1. ASSUME NEW p \in Prio PROVE IsInjective(b.ready[p])
    BY <1>3, <1>4
  <2>2. ASSUME NEW p \in Prio, NEW t \in Thread, Member(t, b.ready[p])
        PROVE  b.stat[t] = "READY" /\ b.prio[t] = p
    <3>1. Member(t, SetToSeq(R(p)))
      BY <1>4, <2>2
    <3>2. t # First /\ InitPrio[t] = p
      BY <1>3, <3>1
    <3> QED
      BY <1>4, <3>2
  <2> QED
    BY <2>1, <2>2 DEF ReadyListsSound
<1>7. GroupExact(b)
  <2>1. ASSUME NEW p \in Prio PROVE p \in b.group <=> b.ready[p] # <<>>
    <3>1. b.ready[p] = <<>> <=> R(p) = {}
      BY <1>3, <1>4
    <3> QED
      BY <3>1, <1>4
  <2> QED
    BY <2>1 DEF GroupExact
<1>8. \A t : ~Member(t, <<>>)
  BY DEF Member
<1>9. WaitListsSound(b) /\ DefunctSound(b)
  BY <1>4, <1>8 DEF WaitListsSound, DefunctSound, IsInjective
<1>10. CurSound(b) /\ TimerSound(b)
  BY <1>1, <1>4 DEF CurSound, TimerSound
<1>11. ReadyComplete(b, {})
  <2>1. ASSUME NEW t \in Thread, b.stat[t] = "READY" PROVE Member(t, b.ready[b.prio[t]])
    <3>1. t # First /\ InitPrio[t] \in Prio
      BY <1>1, <1>4, <2>1
    <3>2. PICK p \in Prio : p = InitPrio[t]
      BY <3>1
    <3>3. Member(t, SetToSeq(R(p)))
      BY <1>3, <3>1, <3>2
    <3>4. b.ready[p] = SetToSeq(R(p)) /\ b.prio[t] = p
      BY <1>4, <3>2
    <3> QED
      BY <3>3, <3>4
  <2> QED
    BY <2>1 DEF ReadyComplete
<1> QED
  BY <1>1, <1>4, <1>5, <1>6, <1>7, <1>9, <1>10, <1>11 DEF Calm, Lists, b

LEMMA InitKeeps ==
  ASSUME IpcInit
  PROVE  /\ IpcInv /\ k.cur = First /\ k.prio = InitPrio
         /\ \A o \in Obj : k.wait[o] = <<>> /\ InPrioOrder(o)
         /\ \A t \in Thread, o \in Obj : ~InCall(t, o)
<1>1. Calm(k) /\ k = BootState
  BY BootCalm DEF IpcInit
<1>2. /\ k.stat = [t \in Thread |-> IF t = First THEN "RUNNING" ELSE "READY"]
      /\ k.cur = First /\ k.prio = InitPrio /\ k.wait = [o \in Obj |-> <<>>] /\ k.lock = 0
  BY <1>1 DEF BootState
<1>3. pc = [t \in Thread |-> "run"] /\ live = Obj /\ phantom = FALSE
  BY DEF IpcInit
<1>4. on \in [Thread -> Obj]
  <2>1. (CHOOSE o \in Obj : TRUE) \in Obj
    BY IpcAssumption
  <2> QED
    BY <2>1 DEF IpcInit
<1>5. IpcTypeOK
  BY <1>1, <1>3, <1>4 DEF IpcTypeOK, Calm, Lists, Pc
<1>6. \A t \in Thread, o \in Obj : ~InCall(t, o)
  BY <1>3 DEF InCall
<1>7. Joined
  BY <1>2, <1>6 DEF Joined, Member
<1>8. \A o \in Obj : k.wait[o] = <<>> /\ InPrioOrder(o)
  BY <1>2 DEF InPrioOrder
<1> QED
  BY <1>1, <1>2, <1>3, <1>5, <1>6, <1>7, <1>8, IpcAssumption, KernelAssumption DEF IpcInv

\* Every wait ends one way only, and what the lists, timers and states of threads
\* tell agrees.
LEMMA CalmAnswer ==
  ASSUME Calm(k), Joined PROVE OneAnswer
<1>1. ListsSound(k) /\ ReadyComplete(k, {})
  BY DEF Calm, Lists, ListsSound
<1>2. ASSUME NEW t \in Thread, NEW o \in Obj, InCall(t, o)
      PROVE  /\ Member(t, k.wait[o]) <=> k.stat[t] = "SUSPEND"
             /\ k.stat[t] = "SUSPEND" => k.error[t] = "RT_EOK"
  BY <1>2, AwakeUnlisted DEF Joined
<1> QED
  BY <1>1, <1>2 DEF OneAnswer

LEMMA InvOneAnswer ==
  ASSUME IpcInv PROVE OneAnswer
BY CalmAnswer DEF IpcInv

-----------------------------------------------------------------------------
(* How many threads are granted something *)

LEMMA CountSame ==
  ASSUME SameGrants, NEW o \in Obj
  PROVE  Resumed(o) \in Nat /\ Resumed(o)' = Resumed(o)
<1>1. {t \in Thread : Granted(t, o)}' = {t \in Thread : Granted(t, o)}
  BY DEF SameGrants
<1>2. IsFiniteSet({t \in Thread : Granted(t, o)})
  BY IpcAssumption, FS_Subset
<1> QED
  BY <1>1, <1>2, FS_CardinalityType DEF Resumed

LEMMA CountGrants ==
  ASSUME NEW h, NEW o \in Obj, GrantsTo(h, o), NEW q \in Obj
  PROVE  /\ Resumed(q) \in Nat
         /\ Resumed(q)' = IF q = o THEN Resumed(q) + 1 ELSE Resumed(q)
<1> DEFINE G == {t \in Thread : Granted(t, q)}
<1>1. IsFiniteSet(G)
  BY IpcAssumption, FS_Subset
<1>2. Cardinality(G) \in Nat
  BY <1>1, FS_CardinalityType
<1>3. CASE q = o
  <2>1. G' = G \cup {h} /\ h \notin G
    BY <1>3 DEF GrantsTo
  <2> QED
    BY <1>1, <1>2, <1>3, <2>1, FS_AddElement DEF Resumed
<1>4. CASE q # o
  <2>1. G' = G
    BY <1>4 DEF GrantsTo
  <2> QED
    BY <1>2, <1>4, <2>1 DEF Resumed
<1> QED
  BY <1>3, <1>4

\* A call returns: what c was granted, if anything, is granted no more.
LEMMA CountReturn ==
  ASSUME NEW c \in Thread, NEW o \in Obj, InCall(c, o),
         \A t \in Thread, q \in Obj : Granted(t, q)' <=> Granted(t, q) /\ t # c,
         NEW q \in Obj
  PROVE  /\ Resumed(q) \in Nat
         /\ Resumed(q)' = IF q = o /\ Granted(c, o) THEN Resumed(q) - 1 ELSE Resumed(q)
<1> DEFINE G == {t \in Thread : Granted(t, q)}
<1>1. IsFiniteSet(G)
  BY IpcAssumption, FS_Subset
<1>2. Cardinality(G) \in Nat
  BY <1>1, FS_CardinalityType
<1>3. CASE q = o /\ Granted(c, o)
  <2>1. G' = G \ {c} /\ c \in G
    BY <1>3
  <2> QED
    BY <1>1, <1>2, <1>3, <2>1, FS_RemoveElement DEF Resumed
<1>4. CASE ~(q = o /\ Granted(c, o))
  <2>1. ~Granted(c, q)
    BY <1>4 DEF Granted, InCall
  <2>2. G' = G
    BY <2>1
  <2> QED
    BY <1>2, <1>4, <2>2 DEF Resumed
<1> QED
  BY <1>3, <1>4

LEMMA CountNone ==
  ASSUME NEW o \in Obj, \A t \in Thread : ~InCall(t, o)
  PROVE  Resumed(o) = 0
<1>1. {t \in Thread : Granted(t, o)} = {}
  BY DEF Granted
<1> QED
  BY <1>1, FS_EmptySet DEF Resumed
=============================================================================
