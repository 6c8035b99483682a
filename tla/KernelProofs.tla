---------------------------- MODULE KernelProofs ----------------------------
(***************************************************************************)
(* Lemmas about the operators of Kernel: each keeps a kernel state well    *)
(* typed and keeps its lists, its bitmap and its thread states in          *)
(* agreement.  They hold for every set of threads and every number of      *)
(* priorities.                                                             *)
(***************************************************************************)
EXTENDS Kernel, SequenceTheorems, WellFoundedInduction, TLAPS

-----------------------------------------------------------------------------
(* Lists *)

\* RemoveAt closes the gap at position n.
LEMMA RemoveAtFacts ==
  ASSUME NEW S, NEW s \in Seq(S), NEW n \in 1 .. Len(s)
  PROVE  /\ RemoveAt(s, n) \in Seq(S)
         /\ Len(RemoveAt(s, n)) = Len(s) - 1
         /\ \A i \in 1 .. Len(s) - 1 :
              RemoveAt(s, n)[i] = IF i < n THEN s[i] ELSE s[i + 1]
<1> DEFINE A == SubSeq(s, 1, n - 1)
           B == SubSeq(s, n + 1, Len(s))
<1>1. /\ A \in Seq(S) /\ Len(A) = n - 1
      /\ \A i \in 1 .. n - 1 : A[i] = s[i]
  BY SubSeqProperties
<1>2. /\ B \in Seq(S) /\ Len(B) = Len(s) - n
      /\ \A i \in 1 .. Len(s) - n : B[i] = s[n + i]
  BY SubSeqProperties
<1>3. RemoveAt(s, n) = A \o B
  BY DEF RemoveAt
<1> HIDE DEF A, B
<1>4. /\ A \o B \in Seq(S) /\ Len(A \o B) = Len(A) + Len(B)
      /\ \A i \in 1 .. Len(A) + Len(B) :
           (A \o B)[i] = IF i <= Len(A) THEN A[i] ELSE B[i - Len(A)]
  BY <1>1, <1>2, ConcatProperties
<1>5. ASSUME NEW i \in 1 .. Len(s) - 1
      PROVE  (A \o B)[i] = IF i < n THEN s[i] ELSE s[i + 1]
  BY <1>1, <1>2, <1>4
<1> QED
  BY <1>1, <1>2, <1>3, <1>4, <1>5

\* Unlinking keeps a duplicate-free list duplicate-free and drops exactly t.
LEMMA UnlinkFacts ==
  ASSUME NEW S, NEW s \in Seq(S), NEW t, IsInjective(s)
  PROVE  /\ Unlink(s, t) \in Seq(S)
         /\ IsInjective(Unlink(s, t))
         /\ \A u : Member(u, Unlink(s, t)) <=> Member(u, s) /\ u # t
<1>1. CASE ~Member(t, s)
  BY <1>1 DEF Unlink, Member
<1>2. CASE Member(t, s)
  <2> DEFINE n == CHOOSE i \in DOMAIN s : s[i] = t
             r == RemoveAt(s, n)
  <2>1. n \in 1 .. Len(s) /\ s[n] = t
    BY <1>2 DEF Member
  <2>2. Unlink(s, t) = r
    BY <1>2 DEF Unlink
  <2> HIDE DEF n
  <2>3. /\ r \in Seq(S)
        /\ Len(r) = Len(s) - 1
        /\ \A i \in 1 .. Len(s) - 1 : r[i] = IF i < n THEN s[i] ELSE s[i + 1]
    BY <2>1, RemoveAtFacts
  <2> HIDE DEF r
  <2>4. IsInjective(r)
    <3>0. \A x, y \in 1 .. Len(s) : s[x] = s[y] => x = y
      BY DEF IsInjective
    <3>1. ASSUME NEW i \in 1 .. Len(r), NEW j \in 1 .. Len(r), r[i] = r[j] PROVE i = j
      <4> DEFINE at(x) == IF x < n THEN x ELSE x + 1
      <4>1. /\ at(i) \in 1 .. Len(s) /\ at(j) \in 1 .. Len(s)
            /\ i \in 1 .. Len(s) - 1 /\ j \in 1 .. Len(s) - 1
        BY <2>1, <2>3
      <4>2. r[i] = s[at(i)] /\ r[j] = s[at(j)]
        BY <2>3, <4>1
      <4>3. at(i) = at(j)
        <5> HIDE DEF at
        <5> QED
          BY <3>0, <3>1, <4>1, <4>2
      <4> QED
        BY <2>1, <4>1, <4>3
    <3> QED
      BY <2>3, <3>1 DEF IsInjective
  <2>5. ASSUME NEW u PROVE Member(u, r) <=> Member(u, s) /\ u # t
    <3>1. ASSUME Member(u, r) PROVE Member(u, s) /\ u # t
      <4>1. PICK i \in 1 .. Len(s) - 1 : r[i] = u
        BY <2>3, <3>1 DEF Member
      <4>2. PICK x \in 1 .. Len(s) : s[x] = u /\ x # n
        BY <2>1, <2>3, <4>1
      <4> QED
        BY <2>1, <4>2 DEF Member, IsInjective
    <3>2. ASSUME Member(u, s), u # t PROVE Member(u, r)
      <4>1. PICK i \in 1 .. Len(s) : s[i] = u
        BY <3>2 DEF Member
      <4>2. i # n
        BY <2>1, <3>2, <4>1
      <4>3. CASE i < n
        BY <4>1, <4>3, <2>1, <2>3 DEF Member
      <4>4. CASE i > n
        <5>1. i - 1 \in 1 .. Len(s) - 1 /\ r[i - 1] = s[i]
          BY <4>1, <4>4, <2>1, <2>3
        <5> QED
          BY <5>1, <4>1, <2>3 DEF Member
      <4> QED
        BY <4>2, <4>3, <4>4, <4>1, <2>1
    <3> QED
      BY <3>1, <3>2
  <2> QED
    BY <2>2, <2>3, <2>4, <2>5
<1> QED
  BY <1>1, <1>2

\* Linking a new node at the front or at the end adds exactly t.
LEMMA LinkFacts ==
  ASSUME NEW S, NEW s \in Seq(S), NEW t \in S, IsInjective(s), ~Member(t, s)
  PROVE  /\ <<t>> \o s \in Seq(S) /\ Append(s, t) \in Seq(S)
         /\ IsInjective(<<t>> \o s) /\ IsInjective(Append(s, t))
         /\ \A u : Member(u, <<t>> \o s) <=> Member(u, s) \/ u = t
         /\ \A u : Member(u, Append(s, t)) <=> Member(u, s) \/ u = t
<1> DEFINE f == <<t>> \o s
           e == Append(s, t)
<1>1. /\ f \in Seq(S) /\ Len(f) = Len(s) + 1
      /\ f[1] = t /\ \A i \in 1 .. Len(s) : f[i + 1] = s[i]
  OBVIOUS
<1>2. /\ e \in Seq(S) /\ Len(e) = Len(s) + 1
      /\ e[Len(s) + 1] = t /\ \A i \in 1 .. Len(s) : e[i] = s[i]
  OBVIOUS
<1> HIDE DEF f, e
<1>3. \A i \in 2 .. Len(s) + 1 : f[i] = s[i - 1] /\ i - 1 \in 1 .. Len(s)
  BY <1>1
<1>4. IsInjective(f) /\ IsInjective(e)
  <2>1. \A i \in 1 .. Len(s) : s[i] # t
    BY DEF Member
  <2>2. ASSUME NEW i \in 1 .. Len(s) + 1, NEW j \in 1 .. Len(s) + 1, f[i] = f[j], i < j
        PROVE  FALSE
    <3>1. j \in 2 .. Len(s) + 1 /\ (i = 1 \/ i \in 2 .. Len(s) + 1)
      BY <2>2
    <3>2. f[j] = s[j - 1] /\ j - 1 \in 1 .. Len(s)
      BY <3>1, <1>3
    <3>3. i # 1
      BY <3>2, <2>1, <2>2, <1>1
    <3>4. f[i] = s[i - 1] /\ i - 1 \in 1 .. Len(s) /\ i - 1 # j - 1
      BY <3>1, <3>3, <1>3, <2>2
    <3>5. i - 1 \in DOMAIN s /\ j - 1 \in DOMAIN s /\ s[i - 1] = s[j - 1]
      BY <3>2, <3>4, <2>2
    <3> QED
      BY <3>4, <3>5 DEF IsInjective
  <2>3. IsInjective(f)
    BY <2>2, <1>1 DEF IsInjective
  <2>4. IsInjective(e)
    BY <2>1, <1>2 DEF IsInjective
  <2> QED
    BY <2>3, <2>4
<1>5. ASSUME NEW u PROVE Member(u, f) <=> Member(u, s) \/ u = t
  <2>1. ASSUME Member(u, s) PROVE Member(u, f)
    <3>1. PICK i \in 1 .. Len(s) : s[i] = u
      BY <2>1 DEF Member
    <3>2. i + 1 \in DOMAIN f /\ f[i + 1] = u
      BY <3>1, <1>1
    <3> QED
      BY <3>2 DEF Member
  <2>2. ASSUME u = t PROVE Member(u, f)
    BY <2>2, <1>1 DEF Member
  <2>3. ASSUME Member(u, f), u # t PROVE Member(u, s)
    <3>1. PICK i \in 1 .. Len(s) + 1 : f[i] = u
      BY <2>3, <1>1 DEF Member
    <3>2. i \in 2 .. Len(s) + 1
      BY <3>1, <2>3, <1>1
    <3>3. i - 1 \in DOMAIN s /\ s[i - 1] = u
      BY <3>1, <3>2, <1>3
    <3> QED
      BY <3>3 DEF Member
  <2> QED
    BY <2>1, <2>2, <2>3
<1>6. ASSUME NEW u PROVE Member(u, e) <=> Member(u, s) \/ u = t
  BY <1>2 DEF Member
<1> QED
  BY <1>1, <1>2, <1>4, <1>5, <1>6 DEF f, e

\* A list is empty exactly when it has no member; its head is one.
LEMMA EmptyFacts ==
  ASSUME NEW S, NEW s \in Seq(S)
  PROVE  /\ s = <<>> <=> \A u \in S : ~Member(u, s)
         /\ s # <<>> => Head(s) \in S /\ Member(Head(s), s)
<1>1. CASE s = <<>>
  BY <1>1 DEF Member
<1>2. CASE s # <<>>
  <2>1. Len(s) \in Nat /\ Len(s) > 0 /\ Head(s) = s[1] /\ s[1] \in S
    BY <1>2, EmptySeq
  <2>2. Member(Head(s), s)
    BY <2>1 DEF Member
  <2> QED
    BY <1>2, <2>1, <2>2
<1> QED
  BY <1>1, <1>2

-----------------------------------------------------------------------------
(* List surgery on kernel states *)

\* Well typed, and every list sound.
Lists(k) ==
  /\ k \in KernelState
  /\ ReadyListsSound(k) /\ GroupExact(k) /\ WaitListsSound(k) /\ DefunctSound(k)

\* A thread is linked in lists of one kind only, told by its stat.
LEMMA OneKindOfList ==
  ASSUME NEW k, Lists(k), NEW t \in Thread
  PROVE  /\ k.stat[t] \notin {"READY", "SUSPEND", "CLOSE"} => Detached(k, t)
         /\ k.stat[t] # "READY" => \A p \in Prio : ~Member(t, k.ready[p])
         /\ k.stat[t] # "SUSPEND" => \A o \in Obj : ~Member(t, k.wait[o])
         /\ k.stat[t] # "CLOSE" => ~Member(t, k.defunct)
BY DEF Lists, Detached, ReadyListsSound, WaitListsSound, DefunctSound

\* Soundness of the lists depends on the lists, on stat of the threads that
\* are linked and on prio of those that are ready.
LEMMA Frame ==
  ASSUME NEW k, Lists(k), NEW m \in KernelState,
         m.ready = k.ready, m.group = k.group, m.wait = k.wait, m.defunct = k.defunct,
         \A t \in Thread : \/ Detached(k, t)
                          \/ /\ m.stat[t] = k.stat[t]
                             /\ k.stat[t] = "READY" => m.prio[t] = k.prio[t]
  PROVE  /\ Lists(m)
         /\ \A t \in Thread : Detached(m, t) <=> Detached(k, t)
BY DEF Lists, Detached, ReadyListsSound, GroupExact, WaitListsSound, DefunctSound

\* rt_list_remove detaches t and leaves every other node where it is.
LEMMA RemoveFacts ==
  ASSUME NEW k, Lists(k), NEW t \in Thread
  PROVE  LET u == rt_list_remove(k, t) IN
         /\ u \in KernelState
         /\ u.stat = k.stat /\ u.yield = k.yield /\ u.prio = k.prio /\ u.group = k.group
         /\ u.cur = k.cur /\ u.lock = k.lock /\ u.timer = k.timer /\ u.error = k.error
         /\ Detached(u, t)
         /\ \A p \in Prio : /\ IsInjective(u.ready[p])
                            /\ \A v : Member(v, u.ready[p]) <=> Member(v, k.ready[p]) /\ v # t
         /\ \A o \in Obj : /\ IsInjective(u.wait[o])
                           /\ \A v : Member(v, u.wait[o]) <=> Member(v, k.wait[o]) /\ v # t
         /\ IsInjective(u.defunct)
         /\ \A v : Member(v, u.defunct) <=> Member(v, k.defunct) /\ v # t
<1> DEFINE u == rt_list_remove(k, t)
<1>1. k \in KernelState
  BY DEF Lists
<1>2. ASSUME NEW p \in Prio
      PROVE  /\ u.ready[p] \in Seq(Thread) /\ IsInjective(u.ready[p])
             /\ \A v : Member(v, u.ready[p]) <=> Member(v, k.ready[p]) /\ v # t
  <2>1. k.ready[p] \in Seq(Thread) /\ IsInjective(k.ready[p])
    BY <1>1 DEF Lists, ReadyListsSound, KernelState
  <2>2. u.ready[p] = Unlink(k.ready[p], t)
    BY <1>1 DEF rt_list_remove, KernelState
  <2> QED
    BY <2>1, <2>2, UnlinkFacts
<1>3. ASSUME NEW o \in Obj
      PROVE  /\ u.wait[o] \in Seq(Thread) /\ IsInjective(u.wait[o])
             /\ \A v : Member(v, u.wait[o]) <=> Member(v, k.wait[o]) /\ v # t
  <2>1. k.wait[o] \in Seq(Thread) /\ IsInjective(k.wait[o])
    BY <1>1 DEF Lists, WaitListsSound, KernelState
  <2>2. u.wait[o] = Unlink(k.wait[o], t)
    BY <1>1 DEF rt_list_remove, KernelState
  <2> QED
    BY <2>1, <2>2, UnlinkFacts
<1>4. /\ u.defunct \in Seq(Thread) /\ IsInjective(u.defunct)
      /\ \A v : Member(v, u.defunct) <=> Member(v, k.defunct) /\ v # t
  <2>1. k.defunct \in Seq(Thread) /\ IsInjective(k.defunct)
    BY <1>1 DEF Lists, DefunctSound, KernelState
  <2>2. u.defunct = Unlink(k.defunct, t)
    BY <1>1 DEF rt_list_remove, KernelState
  <2> QED
    BY <2>1, <2>2, UnlinkFacts
<1>5. /\ u.stat = k.stat /\ u.yield = k.yield /\ u.prio = k.prio /\ u.group = k.group
      /\ u.cur = k.cur /\ u.lock = k.lock /\ u.timer = k.timer /\ u.error = k.error
  BY <1>1 DEF rt_list_remove, KernelState
<1>6. u \in KernelState
  <2> DEFINE R == [p \in Prio |-> Unlink(k.ready[p], t)]
             W == [o \in Obj |-> Unlink(k.wait[o], t)]
             D == Unlink(k.defunct, t)
  <2>1. u = [k EXCEPT !.ready = R, !.wait = W, !.defunct = D]
    BY DEF rt_list_remove
  <2>2. u.ready = R /\ u.wait = W /\ u.defunct = D
    BY <1>1 DEF rt_list_remove, KernelState
  <2>3. R \in [Prio -> Seq(Thread)] /\ W \in [Obj -> Seq(Thread)] /\ D \in Seq(Thread)
    BY <2>2, <1>2, <1>3, <1>4
  <2> HIDE DEF u, R, W, D
  <2> QED
    BY <2>1, <2>3, <1>1 DEF KernelState
<1> HIDE DEF u
<1>7. Detached(u, t)
  BY <1>2, <1>3, <1>4 DEF Detached
<1> QED
  BY <1>2, <1>3, <1>4, <1>5, <1>6, <1>7 DEF u

\* Nobody but t changes list, and stat and prio stay as they are.
OthersStay(k, u, t) ==
  \A v \in Thread \ {t} :
    /\ \A p \in Prio : Member(v, u.ready[p]) <=> Member(v, k.ready[p])
    /\ \A o \in Obj : Member(v, u.wait[o]) <=> Member(v, k.wait[o])
    /\ Member(v, u.defunct) <=> Member(v, k.defunct)

\* rt_schedule_remove_thread detaches t and keeps the bitmap exact.
LEMMA RemoveThreadFacts ==
  ASSUME NEW k, Lists(k), NEW t \in Thread
  PROVE  LET u == rt_schedule_remove_thread(k, t) IN
         /\ Lists(u) /\ Detached(u, t) /\ OthersStay(k, u, t)
         /\ u.stat = k.stat /\ u.yield = k.yield /\ u.prio = k.prio
         /\ u.cur = k.cur /\ u.lock = k.lock /\ u.timer = k.timer /\ u.error = k.error
<1> DEFINE r == rt_list_remove(k, t)
           p == k.prio[t]
           u == rt_schedule_remove_thread(k, t)
<1>0. k \in KernelState /\ p \in Prio
  BY DEF Lists, KernelState
<1>1. /\ r \in KernelState
      /\ r.stat = k.stat /\ r.yield = k.yield /\ r.prio = k.prio /\ r.group = k.group
      /\ r.cur = k.cur /\ r.lock = k.lock /\ r.timer = k.timer /\ r.error = k.error
      /\ Detached(r, t)
  BY RemoveFacts
<1>2. /\ \A q \in Prio : /\ IsInjective(r.ready[q])
                         /\ \A v : Member(v, r.ready[q]) <=> Member(v, k.ready[q]) /\ v # t
      /\ \A o \in Obj : /\ IsInjective(r.wait[o])
                        /\ \A v : Member(v, r.wait[o]) <=> Member(v, k.wait[o]) /\ v # t
      /\ IsInjective(r.defunct)
      /\ \A v : Member(v, r.defunct) <=> Member(v, k.defunct) /\ v # t
  BY RemoveFacts
<1>3. u = IF r.ready[p] = <<>> THEN [r EXCEPT !.group = @ \ {p}] ELSE r
  BY DEF rt_schedule_remove_thread
<1> HIDE DEF r, u
<1>4. /\ u \in KernelState
      /\ u.ready = r.ready /\ u.wait = r.wait /\ u.defunct = r.defunct
      /\ u.stat = k.stat /\ u.yield = k.yield /\ u.prio = k.prio
      /\ u.cur = k.cur /\ u.lock = k.lock /\ u.timer = k.timer /\ u.error = k.error
      /\ u.group = IF r.ready[p] = <<>> THEN k.group \ {p} ELSE k.group
  BY <1>0, <1>1, <1>3 DEF KernelState
<1>5. ASSUME NEW q \in Prio
      PROVE  q \in u.group <=> u.ready[q] # <<>>
  <2>1. k.ready[q] \in Seq(Thread) /\ r.ready[q] \in Seq(Thread)
    BY <1>0, <1>1 DEF KernelState
  <2>2. q \in k.group <=> \E v \in Thread : Member(v, k.ready[q])
    BY <2>1, EmptyFacts DEF Lists, GroupExact
  <2>3. r.ready[q] # <<>> <=> \E v \in Thread : Member(v, r.ready[q])
    BY <2>1, EmptyFacts
  <2>4. q # p => ~Member(t, k.ready[q])
    BY DEF Lists, ReadyListsSound
  <2>5. CASE q = p
    BY <2>2, <2>3, <2>5, <1>2, <1>4
  <2>6. CASE q # p
    BY <2>2, <2>3, <2>4, <2>6, <1>2, <1>4
  <2> QED
    BY <2>5, <2>6
<1>6. ReadyListsSound(u) /\ WaitListsSound(u) /\ DefunctSound(u)
  <2>0. /\ u.ready = r.ready /\ u.wait = r.wait /\ u.defunct = r.defunct
        /\ u.stat = k.stat /\ u.prio = k.prio
    BY <1>4
  <2>1. ASSUME NEW q \in Prio, NEW v \in Thread
        PROVE  /\ IsInjective(u.ready[q])
               /\ Member(v, u.ready[q]) => u.stat[v] = "READY" /\ u.prio[v] = q
    <3>1. IsInjective(r.ready[q])
      BY <1>2
    <3>2. Member(v, r.ready[q]) => Member(v, k.ready[q])
      BY <1>2
    <3>3. Member(v, k.ready[q]) => k.stat[v] = "READY" /\ k.prio[v] = q
      BY DEF Lists, ReadyListsSound
    <3> QED
      BY <3>1, <3>2, <3>3, <2>0
  <2>2. ASSUME NEW o \in Obj, NEW v \in Thread
        PROVE  /\ IsInjective(u.wait[o])
               /\ Member(v, u.wait[o]) => /\ u.stat[v] = "SUSPEND"
                                          /\ \A q \in Obj : Member(v, u.wait[q]) => q = o
    <3>1. IsInjective(r.wait[o])
      BY <1>2
    <3>2. \A q \in Obj : Member(v, r.wait[q]) => Member(v, k.wait[q])
      BY <1>2
    <3>3. Member(v, k.wait[o]) => /\ k.stat[v] = "SUSPEND"
                                  /\ \A q \in Obj : Member(v, k.wait[q]) => q = o
      BY DEF Lists, WaitListsSound
    <3> QED
      BY <3>1, <3>2, <3>3, <2>0
  <2>3. DefunctSound(u)
    BY <1>2, <1>4 DEF Lists, DefunctSound
  <2> QED
    BY <2>1, <2>2, <2>3, KernelAssumption DEF ReadyListsSound, WaitListsSound
<1>7. OthersStay(k, u, t) /\ Detached(u, t)
  BY <1>1, <1>2, <1>4 DEF OthersStay, Detached
<1> QED
  BY <1>4, <1>5, <1>6, <1>7 DEF u, Lists, GroupExact

\* rt_schedule_insert_thread links a detached thread into the ready list of
\* its priority, or marks it RUNNING when it is the current one.
LEMMA InsertThreadFacts ==
  ASSUME NEW k, Lists(k), NEW t \in Thread, Detached(k, t)
  PROVE  LET u == rt_schedule_insert_thread(k, t) IN
         /\ Lists(u) /\ OthersStay(k, u, t)
         /\ u.stat = [k.stat EXCEPT ![t] = IF t = k.cur THEN "RUNNING" ELSE "READY"]
         /\ t # k.cur => Member(t, u.ready[k.prio[t]])
         /\ t = k.cur => Detached(u, t)
         /\ u.yield = k.yield /\ u.prio = k.prio
         /\ u.cur = k.cur /\ u.lock = k.lock /\ u.timer = k.timer /\ u.error = k.error
<1> DEFINE p == k.prio[t]
           u == rt_schedule_insert_thread(k, t)
<1>0. k \in KernelState /\ p \in Prio /\ "RUNNING" \in Stat /\ "READY" \in Stat
  BY DEF Lists, KernelState, Stat
<1>1. CASE t = k.cur
  <2>1. u = [k EXCEPT !.stat[t] = "RUNNING"]
    BY <1>1 DEF rt_schedule_insert_thread
  <2> HIDE DEF u
  <2>2. /\ u \in KernelState
        /\ u.ready = k.ready /\ u.group = k.group /\ u.wait = k.wait /\ u.defunct = k.defunct
        /\ u.stat = [k.stat EXCEPT ![t] = "RUNNING"]
        /\ u.yield = k.yield /\ u.prio = k.prio
        /\ u.cur = k.cur /\ u.lock = k.lock /\ u.timer = k.timer /\ u.error = k.error
    BY <1>0, <2>1 DEF KernelState
  <2>3. \A v \in Thread : Detached(k, v) \/ (u.stat[v] = k.stat[v] /\ u.prio[v] = k.prio[v])
    BY <1>0, <2>2 DEF KernelState
  <2>4. Lists(u) /\ Detached(u, t)
    BY <2>2, <2>3, Frame
  <2>5. OthersStay(k, u, t)
    BY <2>2 DEF OthersStay
  <2> QED
    BY <1>1, <2>2, <2>4, <2>5 DEF u
<1>2. CASE t # k.cur
  <2> DEFINE s == IF k.yield[t] THEN Append(k.ready[p], t) ELSE <<t>> \o k.ready[p]
  <2>1. u = [k EXCEPT !.stat[t] = "READY", !.ready[p] = s, !.group = @ \cup {p}]
    BY <1>0, <1>2 DEF rt_schedule_insert_thread, KernelState
  <2>2. k.ready[p] \in Seq(Thread) /\ IsInjective(k.ready[p]) /\ ~Member(t, k.ready[p])
    BY <1>0 DEF KernelState, Lists, ReadyListsSound, Detached
  <2>3. /\ s \in Seq(Thread) /\ IsInjective(s)
        /\ \A v : Member(v, s) <=> Member(v, k.ready[p]) \/ v = t
    BY <2>2, LinkFacts
  <2>4. s # <<>>
    BY <2>3, EmptyFacts
  <2> HIDE DEF u, s
  <2>5. /\ u \in KernelState
        /\ u.ready = [k.ready EXCEPT ![p] = s]
        /\ u.group = k.group \cup {p} /\ u.wait = k.wait /\ u.defunct = k.defunct
        /\ u.stat = [k.stat EXCEPT ![t] = "READY"]
        /\ u.yield = k.yield /\ u.prio = k.prio
        /\ u.cur = k.cur /\ u.lock = k.lock /\ u.timer = k.timer /\ u.error = k.error
    BY <1>0, <2>1, <2>3 DEF KernelState
  <2>6. /\ u.ready[p] = s
        /\ \A q \in Prio \ {p} : u.ready[q] = k.ready[q]
        /\ u.stat[t] = "READY" /\ \A v \in Thread \ {t} : u.stat[v] = k.stat[v]
    BY <1>0, <2>5 DEF KernelState
  <2>7. ReadyListsSound(u)
    <3>1. ASSUME NEW q \in Prio PROVE IsInjective(u.ready[q])
      BY <2>3, <2>6 DEF Lists, ReadyListsSound
    <3>2. ASSUME NEW q \in Prio, NEW v \in Thread, Member(v, u.ready[q])
          PROVE  u.stat[v] = "READY" /\ u.prio[v] = q
      <4>1. CASE v = t
        BY <4>1, <3>2, <2>5, <2>6 DEF Detached
      <4>2. CASE v # t
        BY <4>2, <3>2, <2>3, <2>5, <2>6 DEF Lists, ReadyListsSound
      <4> QED
        BY <4>1, <4>2
    <3> QED
      BY <3>1, <3>2 DEF ReadyListsSound
  <2>8. GroupExact(u)
    BY <2>4, <2>5, <2>6 DEF Lists, GroupExact
  <2>9. WaitListsSound(u) /\ DefunctSound(u)
    BY <2>5, <2>6 DEF Lists, Detached, WaitListsSound, DefunctSound
  <2>10. OthersStay(k, u, t)
    BY <2>3, <2>5, <2>6 DEF OthersStay
  <2>11. Member(t, u.ready[p])
    BY <2>3, <2>6
  <2> QED
    BY <1>2, <2>5, <2>7, <2>8, <2>9, <2>10, <2>11 DEF u, Lists
<1> QED
  BY <1>1, <1>2

-----------------------------------------------------------------------------
(* rt_schedule *)

\* A non-empty bitmap has a lowest bit, and __rt_ffs is it.
LEMMA FfsFacts ==
  ASSUME NEW g \in SUBSET Prio, g # {}
  PROVE  /\ __rt_ffs(g) \in g
         /\ \A q \in g : __rt_ffs(g) <= q
<1>1. g \subseteq Nat
  BY KernelAssumption DEF Prio
<1>2. PICK p \in g : \A q \in g : ~(<<q, p>> \in OpToRel(<, Nat))
  BY <1>1, NatLessThanWellFounded, WFMin
<1>3. ASSUME NEW q \in g PROVE p <= q
  <2>1. ~(q < p)
    BY <1>1, <1>2, Zenon DEF OpToRel
  <2> QED
    BY <1>1, <2>1
<1> QED
  BY <1>3 DEF __rt_ffs

\* Dispatch makes one thread RUNNING and takes it off its list.
LEMMA DispatchFacts ==
  ASSUME NEW k, Lists(k), NEW t \in Thread
  PROVE  LET u == Dispatch(k, t) IN
         /\ Lists(u) /\ Detached(u, t) /\ OthersStay(k, u, t)
         /\ u.stat = [k.stat EXCEPT ![t] = "RUNNING"]
         /\ u.yield = k.yield /\ u.prio = k.prio
         /\ u.cur = k.cur /\ u.lock = k.lock /\ u.timer = k.timer /\ u.error = k.error
<1> DEFINE r == rt_schedule_remove_thread(k, t)
           u == Dispatch(k, t)
<1>1. /\ Lists(r) /\ Detached(r, t) /\ OthersStay(k, r, t)
      /\ r.stat = k.stat /\ r.yield = k.yield /\ r.prio = k.prio
      /\ r.cur = k.cur /\ r.lock = k.lock /\ r.timer = k.timer /\ r.error = k.error
  BY RemoveThreadFacts
<1>2. u = [r EXCEPT !.stat[t] = "RUNNING"]
  BY DEF Dispatch
<1> HIDE DEF r, u
<1>3. r \in KernelState /\ "RUNNING" \in Stat
  BY <1>1 DEF Lists, Stat
<1>4. /\ u \in KernelState
      /\ u.ready = r.ready /\ u.group = r.group /\ u.wait = r.wait /\ u.defunct = r.defunct
      /\ u.stat = [k.stat EXCEPT ![t] = "RUNNING"]
      /\ u.yield = k.yield /\ u.prio = k.prio
      /\ u.cur = k.cur /\ u.lock = k.lock /\ u.timer = k.timer /\ u.error = k.error
  BY <1>1, <1>2, <1>3 DEF KernelState
<1>5. \A v \in Thread : Detached(r, v) \/ (u.stat[v] = r.stat[v] /\ u.prio[v] = r.prio[v])
  BY <1>1, <1>3, <1>4 DEF KernelState
<1>6. /\ Lists(u)
      /\ \A v \in Thread : Detached(u, v) <=> Detached(r, v)
  BY ONLY <1>1, <1>4, <1>5, Frame
<1>7. OthersStay(k, u, t)
  BY <1>1, <1>4 DEF OthersStay
<1> QED
  BY <1>1, <1>4, <1>6, <1>7 DEF u

Runnable(k, t) == k.stat[t] \in {"READY", "RUNNING"}

\* What rt_schedule may not touch: only who among the runnable threads runs.
OnlyScheduled(k, u) ==
  /\ u.prio = k.prio /\ u.lock = k.lock /\ u.timer = k.timer /\ u.error = k.error
  /\ \A t \in Thread : /\ Runnable(u, t) <=> Runnable(k, t)
                       /\ ~Runnable(k, t) => u.stat[t] = k.stat[t]
                       /\ Member(t, u.defunct) <=> Member(t, k.defunct)
                       /\ \A o \in Obj : Member(t, u.wait[o]) <=> Member(t, k.wait[o])

\* Changing yield or cur leaves the lists sound.
LEMMA ClearYieldFacts ==
  ASSUME NEW k, Lists(k), NEW t \in Thread
  PROVE  LET u == [ClearYield(k) EXCEPT !.cur = t] IN
         /\ Lists(u) /\ Lists(ClearYield(k)) /\ u.cur = t /\ ClearYield(k).cur = k.cur
         /\ u.ready = k.ready /\ u.group = k.group /\ u.wait = k.wait /\ u.defunct = k.defunct
         /\ u.stat = k.stat /\ u.prio = k.prio /\ u.lock = k.lock
         /\ u.timer = k.timer /\ u.error = k.error
         /\ ClearYield(k).stat = k.stat /\ ClearYield(k).prio = k.prio
         /\ ClearYield(k).ready = k.ready /\ ClearYield(k).group = k.group
         /\ ClearYield(k).wait = k.wait /\ ClearYield(k).defunct = k.defunct
         /\ ClearYield(k).lock = k.lock /\ ClearYield(k).timer = k.timer
         /\ ClearYield(k).error = k.error
<1> DEFINE c == ClearYield(k)
           u == [c EXCEPT !.cur = t]
<1>1. k \in KernelState
  BY DEF Lists
<1>2. /\ c \in KernelState /\ c.cur = k.cur
      /\ c.ready = k.ready /\ c.group = k.group /\ c.wait = k.wait /\ c.defunct = k.defunct
      /\ c.stat = k.stat /\ c.prio = k.prio /\ c.lock = k.lock
      /\ c.timer = k.timer /\ c.error = k.error
  BY <1>1 DEF ClearYield, KernelState
<1> HIDE DEF c
<1>3. /\ u \in KernelState /\ u.cur = t
      /\ u.ready = k.ready /\ u.group = k.group /\ u.wait = k.wait /\ u.defunct = k.defunct
      /\ u.stat = k.stat /\ u.prio = k.prio /\ u.lock = k.lock
      /\ u.timer = k.timer /\ u.error = k.error
  BY <1>2 DEF KernelState
<1> HIDE DEF u
<1>4. Lists(c)
  BY <1>2, Frame
<1>5. Lists(u)
  BY <1>3, Frame
<1> QED
  BY <1>2, <1>3, <1>4, <1>5 DEF u, c

\* A thread whose node is linked nowhere stays so, unless it is the thread
\* that gives the processor away and joins the ready lists.
KeptOut(k, u, t) ==
  Detached(k, t) => Detached(u, t) \/ (t = k.cur /\ u.stat[t] = "READY")

\* A switch to the first of a ready list.
LEMMA SwitchFacts ==
  ASSUME NEW k, Lists(k), CurSound(k), NEW S, ReadyComplete(k, S),
         NEW to \in Thread, k.stat[to] = "READY"
  PROVE  LET u == SwitchTo(k, to) IN
         /\ Lists(u) /\ CurSound(u) /\ ReadyComplete(u, S) /\ OnlyScheduled(k, u)
         /\ u.cur = to /\ u.stat[to] = "RUNNING"
         /\ k.stat[k.cur] = "RUNNING" => u.stat[k.cur] = "READY"
         /\ \A t \in Thread \ {k.cur} : u.stat[t] = "READY" => k.stat[t] = "READY"
         /\ \A t \in Thread \ {to} : KeptOut(k, u, t)
<1> DEFINE from == k.cur
           m == [ClearYield(k) EXCEPT !.cur = to]
           i == IF k.stat[from] = "RUNNING" THEN rt_schedule_insert_thread(m, from) ELSE m
           u == SwitchTo(k, to)
<1>0. k \in KernelState /\ from \in Thread /\ from # to /\ k.stat[from] # "READY"
  BY DEF Lists, KernelState, CurSound
<1>1. /\ Lists(m) /\ m.cur = to
      /\ m.ready = k.ready /\ m.group = k.group /\ m.wait = k.wait /\ m.defunct = k.defunct
      /\ m.stat = k.stat /\ m.prio = k.prio /\ m.lock = k.lock
      /\ m.timer = k.timer /\ m.error = k.error
  BY ClearYieldFacts
<1>2. u = Dispatch(i, to)
  BY DEF SwitchTo
<1> HIDE DEF m, u
<1>3. /\ Lists(i) /\ OthersStay(m, i, from)
      /\ i.stat = IF k.stat[from] = "RUNNING" THEN [k.stat EXCEPT ![from] = "READY"] ELSE k.stat
      /\ k.stat[from] = "RUNNING" => Member(from, i.ready[k.prio[from]])
      /\ i.prio = k.prio /\ i.cur = to /\ i.lock = k.lock
      /\ i.timer = k.timer /\ i.error = k.error
      /\ k.stat[from] # "RUNNING" => i = m
  <2>1. CASE k.stat[from] = "RUNNING"
    <3>1. Detached(m, from)
      <4>1. Detached(k, from)
        BY <2>1, <1>0, OneKindOfList
      <4> QED
        BY <4>1, <1>1 DEF Detached
    <3>2. i = rt_schedule_insert_thread(m, from)
      BY <2>1
    <3> HIDE DEF i
    <3>3. /\ Lists(i) /\ OthersStay(m, i, from)
          /\ i.stat = [m.stat EXCEPT ![from] = IF from = m.cur THEN "RUNNING" ELSE "READY"]
          /\ from # m.cur => Member(from, i.ready[m.prio[from]])
          /\ i.prio = m.prio /\ i.cur = m.cur /\ i.lock = m.lock
          /\ i.timer = m.timer /\ i.error = m.error
      BY <3>1, <3>2, <1>0, <1>1, InsertThreadFacts
    <3> QED
      BY <2>1, <3>3, <1>0, <1>1
  <2>2. CASE k.stat[from] # "RUNNING"
    <3>1. i = m
      BY <2>2
    <3>2. OthersStay(m, m, from)
      BY DEF OthersStay
    <3> QED
      BY <2>2, <3>1, <3>2, <1>1
  <2> QED
    BY <2>1, <2>2
<1> HIDE DEF i
<1>4. /\ Lists(u) /\ OthersStay(i, u, to)
      /\ u.stat = [i.stat EXCEPT ![to] = "RUNNING"]
      /\ u.prio = i.prio /\ u.cur = i.cur /\ u.lock = i.lock
      /\ u.timer = i.timer /\ u.error = i.error
  <2>1. Lists(i) /\ to \in Thread
    BY <1>3
  <2> QED
    BY ONLY <2>1, <1>2, DispatchFacts
<1>5. /\ u.stat[to] = "RUNNING"
      /\ \A t \in Thread \ {from, to} : u.stat[t] = k.stat[t]
      /\ u.stat[from] = IF k.stat[from] = "RUNNING" THEN "READY" ELSE k.stat[from]
  BY <1>0, <1>3, <1>4 DEF KernelState
<1>6. u.prio = k.prio /\ u.cur = to /\ u.lock = k.lock /\ u.timer = k.timer /\ u.error = k.error
  BY <1>3, <1>4
<1>7. CurSound(u)
  BY <1>5, <1>6 DEF CurSound
<1>8. ASSUME NEW t \in Thread \ S, u.stat[t] = "READY"
      PROVE  Member(t, u.ready[u.prio[t]])
  <2>0. k.prio[t] \in Prio /\ t # to
    BY <1>0, <1>5, <1>8 DEF KernelState
  <2>1. CASE t = from
    BY <2>0, <2>1, <1>0, <1>3, <1>4, <1>5, <1>6, <1>8 DEF OthersStay
  <2>2. CASE t # from
    <3>1. Member(t, k.ready[k.prio[t]])
      BY <2>0, <2>2, <1>5, <1>8 DEF ReadyComplete
    <3>2. Member(t, i.ready[k.prio[t]])
      BY <3>1, <2>0, <2>2, <1>1, <1>3 DEF OthersStay
    <3> QED
      BY <3>2, <2>0, <1>4, <1>6 DEF OthersStay
  <2> QED
    BY <2>1, <2>2
<1>9. OnlyScheduled(k, u)
  <2>1. ASSUME NEW t \in Thread
        PROVE  /\ Runnable(u, t) <=> Runnable(k, t)
               /\ ~Runnable(k, t) => u.stat[t] = k.stat[t]
    BY <1>0, <1>5 DEF Runnable
  <2>2. ASSUME NEW t \in Thread
        PROVE  /\ Member(t, u.defunct) <=> Member(t, k.defunct)
               /\ \A o \in Obj : Member(t, u.wait[o]) <=> Member(t, k.wait[o])
    <3>1. CASE u.stat[t] \in {"READY", "RUNNING"}
      <4>1. k.stat[t] \in {"READY", "RUNNING"}
        BY <2>1, <3>1 DEF Runnable
      <4>2. ~Member(t, u.defunct) /\ \A o \in Obj : ~Member(t, u.wait[o])
        BY <3>1, <1>4, OneKindOfList
      <4>3. ~Member(t, k.defunct) /\ \A o \in Obj : ~Member(t, k.wait[o])
        BY <4>1, OneKindOfList
      <4> QED
        BY <4>2, <4>3
    <3>2. CASE u.stat[t] \notin {"READY", "RUNNING"}
      <4>1. t # to
        BY <3>2, <1>5
      <4>2. /\ Member(t, u.defunct) <=> Member(t, i.defunct)
            /\ \A o \in Obj : Member(t, u.wait[o]) <=> Member(t, i.wait[o])
        BY <4>1, <1>4 DEF OthersStay
      <4>3. /\ Member(t, i.defunct) <=> Member(t, m.defunct)
            /\ \A o \in Obj : Member(t, i.wait[o]) <=> Member(t, m.wait[o])
        <5>1. CASE t # from
          BY <5>1, <1>3 DEF OthersStay
        <5>2. CASE t = from
          BY <5>2, <3>2, <1>3, <1>5
        <5> QED
          BY <5>1, <5>2
      <4> QED
        BY <4>2, <4>3, <1>1
    <3> QED
      BY <3>1, <3>2
  <2> QED
    BY <2>1, <2>2, <1>6 DEF OnlyScheduled
<1>10. ASSUME NEW t \in Thread \ {to} PROVE KeptOut(k, u, t)
  <2>1. ASSUME Detached(k, t), Detached(i, t) PROVE Detached(u, t)
    BY <2>1, <1>4 DEF Detached, OthersStay
  <2>2. ASSUME Detached(k, t) PROVE Detached(m, t)
    BY <2>2, <1>1 DEF Detached
  <2>3. CASE t # from
    <3>1. ASSUME Detached(m, t) PROVE Detached(i, t)
      BY <2>3, <3>1, <1>3 DEF Detached, OthersStay
    <3> QED
      BY <2>1, <2>2, <3>1 DEF KeptOut
  <2>4. CASE t = from /\ k.stat[from] # "RUNNING"
    BY <2>1, <2>2, <2>4, <1>3 DEF KeptOut
  <2>5. CASE t = from /\ k.stat[from] = "RUNNING"
    BY <2>5, <1>5 DEF KeptOut
  <2> QED
    BY <2>3, <2>4, <2>5
<1> QED
  BY <1>4, <1>5, <1>6, <1>7, <1>8, <1>9, <1>10 DEF u, ReadyComplete

\* rt_schedule keeps every list sound and loses nobody; it switches only when
\* the scheduler is unlocked, and then to a thread that nobody outranks.
LEMMA ScheduleFacts ==
  ASSUME NEW k, Lists(k), CurSound(k), NEW S, ReadyComplete(k, S)
  PROVE  LET u == rt_schedule(k) IN
         /\ Lists(u) /\ CurSound(u) /\ ReadyComplete(u, S) /\ OnlyScheduled(k, u)
         /\ u.cur # k.cur =>
              /\ k.lock = 0 /\ u.stat[u.cur] = "RUNNING" /\ MostUrgent(u, S)
              /\ k.stat[k.cur] = "RUNNING" => u.stat[k.cur] = "READY"
         /\ k.lock = 0 /\ (k.group # {} \/ k.stat[k.cur] = "RUNNING") =>
              u.stat[u.cur] = "RUNNING" /\ MostUrgent(u, S)
         /\ \A t \in Thread : KeptOut(k, u, t)
         /\ u.cur # k.cur => \E p \in Prio : Member(u.cur, k.ready[p])
<1> DEFINE hp == __rt_ffs(k.group)
           to == Head(k.ready[hp])
           u == rt_schedule(k)
<1>0. k \in KernelState /\ k.cur \in Thread /\ k.group \in SUBSET Prio /\ k.prio \in [Thread -> Prio]
  BY DEF Lists, KernelState
<1>1. ASSUME NEW t \in Thread \ S, k.stat[t] = "READY"
      PROVE  k.prio[t] \in k.group
  <2>1. k.prio[t] \in Prio /\ Member(t, k.ready[k.prio[t]])
    BY <1>0, <1>1 DEF ReadyComplete
  <2> QED
    BY <2>1 DEF Lists, GroupExact, Member
<1>2. CASE k.lock # 0 \/ k.group = {}
  <2>1. u = k
    BY <1>2 DEF rt_schedule
  <2>2. OnlyScheduled(k, k)
    BY DEF OnlyScheduled
  <2>3. k.lock = 0 => MostUrgent(k, S)
    BY <1>1, <1>2 DEF MostUrgent
  <2> QED
    BY <1>2, <2>1, <2>2, <2>3 DEF KeptOut
<1>3. CASE k.lock = 0 /\ k.group # {}
  <2>1. hp \in k.group /\ \A q \in k.group : hp <= q
    BY <1>0, <1>3, FfsFacts
  <2>2. hp \in Prio /\ k.ready[hp] \in Seq(Thread) /\ k.ready[hp] # <<>>
    BY <2>1, <1>0 DEF KernelState, Lists, GroupExact
  <2>3. to \in Thread /\ Member(to, k.ready[hp])
    BY <2>2, EmptyFacts
  <2>4. k.stat[to] = "READY" /\ k.prio[to] = hp
    BY <2>2, <2>3 DEF Lists, ReadyListsSound
  <2>5. to # k.cur
    BY <2>4 DEF CurSound
  <2>6. Prio \subseteq Int
    BY KernelAssumption DEF Prio
  <2>7. ASSUME NEW t \in Thread \ S, k.stat[t] = "READY"
        PROVE  hp <= k.prio[t]
    BY <2>7, <2>1, <1>1
  <2>8. CASE KeepsCpu(k)
    <3>1. u = Dispatch(ClearYield(k), k.cur)
      BY <1>3, <2>8 DEF rt_schedule
    <3>2. k.stat[k.cur] = "RUNNING" /\ k.prio[k.cur] <= hp
      <4>1. k.stat[k.cur] = "RUNNING" /\ (k.prio[k.cur] < hp \/ k.prio[k.cur] = hp)
        BY <2>8 DEF KeepsCpu
      <4>2. k.prio[k.cur] \in Int /\ hp \in Int
        BY <2>1, <2>6, <1>0
      <4> HIDE DEF hp
      <4> QED
        BY <4>1, <4>2
    <3> DEFINE c == ClearYield(k)
    <3>3. /\ Lists(c) /\ c.cur = k.cur /\ c.stat = k.stat /\ c.prio = k.prio
          /\ c.ready = k.ready /\ c.wait = k.wait /\ c.defunct = k.defunct
          /\ c.lock = k.lock /\ c.timer = k.timer /\ c.error = k.error
      BY <1>0, ClearYieldFacts
    <3> HIDE DEF c, u
    <3>4. /\ Lists(u) /\ OthersStay(c, u, k.cur) /\ Detached(u, k.cur)
          /\ u.stat = [c.stat EXCEPT ![k.cur] = "RUNNING"]
          /\ u.prio = c.prio /\ u.cur = c.cur /\ u.lock = c.lock
          /\ u.timer = c.timer /\ u.error = c.error
      BY <3>1, <3>3, <1>0, DispatchFacts DEF c
    <3>5. u.stat = k.stat /\ u.prio = k.prio /\ u.cur = k.cur
      BY <3>2, <3>3, <3>4, <1>0 DEF KernelState
    <3>6. ReadyComplete(u, S)
      BY <3>2, <3>3, <3>4, <3>5, <1>0 DEF ReadyComplete, OthersStay, KernelState
    <3>7. Detached(k, k.cur)
      BY <3>2, <1>0, OneKindOfList
    <3>8. OnlyScheduled(k, u)
      <4>1. ASSUME NEW t \in Thread
            PROVE  /\ Member(t, u.defunct) <=> Member(t, k.defunct)
                   /\ \A o \in Obj : Member(t, u.wait[o]) <=> Member(t, k.wait[o])
        BY <3>3, <3>4, <3>7 DEF OthersStay, Detached
      <4> QED
        BY <4>1, <3>3, <3>4, <3>5 DEF OnlyScheduled, Runnable
    <3>9. MostUrgent(u, S)
      <4>1. ASSUME NEW t \in Thread \ S, k.stat[t] = "READY"
            PROVE  k.prio[k.cur] <= k.prio[t]
        <5>1. hp \in Int /\ k.prio[k.cur] \in Int /\ k.prio[t] \in Int
          BY <2>2, <2>6, <1>0
        <5>2. hp <= k.prio[t]
          BY <4>1, <2>7
        <5> HIDE DEF hp
        <5> QED
          BY <5>1, <5>2, <3>2
      <4> QED
        BY <4>1, <3>5 DEF MostUrgent
    <3>10. CurSound(u)
      BY <3>5 DEF CurSound
    <3>11. ASSUME NEW t \in Thread PROVE KeptOut(k, u, t)
      BY <3>3, <3>4 DEF KeptOut, Detached, OthersStay
    <3> QED
      BY <3>2, <3>4, <3>5, <3>6, <3>8, <3>9, <3>10, <3>11 DEF u
  <2>9. CASE ~KeepsCpu(k)
    <3>1. u = SwitchTo(k, to)
      BY <1>3, <2>5, <2>9 DEF rt_schedule
    <3> HIDE DEF u
    <3>2. /\ Lists(u) /\ CurSound(u) /\ ReadyComplete(u, S) /\ OnlyScheduled(k, u)
          /\ u.cur = to /\ u.stat[to] = "RUNNING"
          /\ k.stat[k.cur] = "RUNNING" => u.stat[k.cur] = "READY"
          /\ \A t \in Thread \ {k.cur} : u.stat[t] = "READY" => k.stat[t] = "READY"
          /\ \A t \in Thread \ {to} : KeptOut(k, u, t)
      <4>1. /\ Lists(k) /\ CurSound(k) /\ ReadyComplete(k, S)
            /\ to \in Thread /\ k.stat[to] = "READY"
        BY <2>3, <2>4
      <4> QED
        BY ONLY <4>1, <3>1, SwitchFacts
    <3>3. ASSUME NEW t \in Thread \ S, u.stat[t] = "READY"
          PROVE  hp <= k.prio[t]
      <4>1. CASE t = k.cur
        <5>1. k.stat[k.cur] = "RUNNING"
          BY <4>1, <3>2, <3>3, <1>0 DEF OnlyScheduled, Runnable, CurSound
        <5>2. ~(k.prio[k.cur] < hp)
          BY <5>1, <2>9 DEF KeepsCpu
        <5>3. hp \in Int /\ k.prio[k.cur] \in Int
          BY <2>2, <2>6, <1>0
        <5> HIDE DEF hp
        <5> QED
          BY <5>2, <5>3, <4>1
      <4>2. CASE t # k.cur
        BY <4>2, <3>2, <3>3, <2>7
      <4> QED
        BY <4>1, <4>2
    <3>4. MostUrgent(u, S)
      BY <3>2, <3>3, <2>4 DEF MostUrgent, OnlyScheduled
    <3>5. KeptOut(k, u, to)
      BY <2>2, <2>3 DEF KeptOut, Detached
    <3>6. \A t \in Thread : KeptOut(k, u, t)
      BY <3>2, <3>5
    <3> QED
      BY <1>3, <2>2, <2>3, <3>2, <3>4, <3>6 DEF u
  <2> QED
    BY <2>8, <2>9
<1> QED
  <2>1. k.lock \in Nat
    BY <1>0 DEF KernelState
  <2> QED
    BY <1>2, <1>3, <2>1

-----------------------------------------------------------------------------
(* thread.c and idle.c *)

\* Unlinking a thread that is not READY leaves the ready lists alone.
LEMMA RemoveParkedFacts ==
  ASSUME NEW k, Lists(k), NEW t \in Thread, k.stat[t] # "READY"
  PROVE  LET u == rt_list_remove(k, t) IN
         /\ Lists(u) /\ Detached(u, t) /\ OthersStay(k, u, t)
         /\ u.stat = k.stat /\ u.yield = k.yield /\ u.prio = k.prio
         /\ u.cur = k.cur /\ u.lock = k.lock /\ u.timer = k.timer /\ u.error = k.error
<1> DEFINE r == rt_schedule_remove_thread(k, t)
           u == rt_list_remove(k, t)
           p == k.prio[t]
<1>1. k \in KernelState /\ p \in Prio
  BY DEF Lists, KernelState
<1>2. /\ Lists(r) /\ Detached(r, t) /\ OthersStay(k, r, t)
      /\ r.stat = k.stat /\ r.yield = k.yield /\ r.prio = k.prio
      /\ r.cur = k.cur /\ r.lock = k.lock /\ r.timer = k.timer /\ r.error = k.error
  BY RemoveThreadFacts
<1>3. u \in KernelState /\ u.group = k.group /\ \A v : Member(v, u.ready[p]) <=> Member(v, k.ready[p]) /\ v # t
  BY <1>1, RemoveFacts
<1>4. r = IF u.ready[p] = <<>> THEN [u EXCEPT !.group = @ \ {p}] ELSE u
  BY DEF rt_schedule_remove_thread
<1> HIDE DEF r, u
<1>5. u.ready[p] = <<>> => p \notin u.group
  <2>1. ~Member(t, k.ready[p])
    BY <1>1, OneKindOfList
  <2>2. k.ready[p] \in Seq(Thread) /\ u.ready[p] \in Seq(Thread)
    BY <1>1, <1>3 DEF KernelState
  <2>3. k.ready[p] = <<>> <=> \A v \in Thread : ~Member(v, k.ready[p])
    BY <2>2, EmptyFacts
  <2>4. u.ready[p] = <<>> <=> \A v \in Thread : ~Member(v, u.ready[p])
    BY <2>2, EmptyFacts
  <2>5. \A v \in Thread : Member(v, u.ready[p]) <=> Member(v, k.ready[p])
    BY <2>1, <1>3
  <2>6. u.ready[p] = <<>> => k.ready[p] = <<>>
    BY <2>3, <2>4, <2>5
  <2> QED
    BY <2>6, <1>1, <1>3 DEF Lists, GroupExact
<1>6. r = u
  BY <1>3, <1>4, <1>5 DEF KernelState
<1> QED
  BY <1>2, <1>6 DEF u, r

\* It does not matter whether the timer or the list node comes first.
LEMMA StopThenRemove ==
  ASSUME NEW k, k \in KernelState, NEW t
  PROVE  rt_list_remove(StopTimer(k, t), t) = StopTimer(rt_list_remove(k, t), t)
<1>1. StopTimer(k, t) = [k EXCEPT !.timer = k.timer \ {t}]
  BY DEF StopTimer
<1>2. /\ StopTimer(k, t).ready = k.ready /\ StopTimer(k, t).wait = k.wait
      /\ StopTimer(k, t).defunct = k.defunct
  BY <1>1 DEF KernelState
<1> DEFINE R == [p \in Prio |-> Unlink(k.ready[p], t)]
           W == [o \in Obj |-> Unlink(k.wait[o], t)]
           D == Unlink(k.defunct, t)
<1>3. rt_list_remove(StopTimer(k, t), t)
        = [[k EXCEPT !.timer = k.timer \ {t}] EXCEPT !.ready = R, !.wait = W, !.defunct = D]
  BY <1>1, <1>2, Zenon DEF rt_list_remove
<1>4. rt_list_remove(k, t) = [k EXCEPT !.ready = R, !.wait = W, !.defunct = D]
  BY DEF rt_list_remove
<1> HIDE DEF R, W, D
<1>5. [k EXCEPT !.ready = R, !.wait = W, !.defunct = D].timer = k.timer
  BY DEF KernelState
<1>6. StopTimer(rt_list_remove(k, t), t)
        = [[k EXCEPT !.ready = R, !.wait = W, !.defunct = D] EXCEPT !.timer = k.timer \ {t}]
  BY <1>4, <1>5 DEF StopTimer
<1>7. [[k EXCEPT !.timer = k.timer \ {t}] EXCEPT !.ready = R, !.wait = W, !.defunct = D]
        = [[k EXCEPT !.ready = R, !.wait = W, !.defunct = D] EXCEPT !.timer = k.timer \ {t}]
  BY DEF KernelState
<1> QED
  BY <1>3, <1>6, <1>7

\* rt_thread_resume and _thread_timeout share this: the thread leaves the
\* list it waits on, its timer is disarmed and it is runnable again.
LEMMA WakeFacts ==
  ASSUME NEW k, Lists(k), NEW t \in Thread, k.stat[t] = "SUSPEND"
  PROVE  \A u \in {ResumeLocked(k, t), _thread_timeout(k, t)} :
         /\ Lists(u) /\ OthersStay(k, u, t)
         /\ u.stat = [k.stat EXCEPT ![t] = IF t = k.cur THEN "RUNNING" ELSE "READY"]
         /\ t # k.cur => Member(t, u.ready[k.prio[t]])
         /\ u.yield = k.yield /\ u.prio = k.prio
         /\ u.cur = k.cur /\ u.lock = k.lock /\ u.timer = k.timer \ {t}
<1> DEFINE r == rt_list_remove(k, t)
           a == StopTimer(r, t)
           b == [rt_list_remove(StopTimer(k, t), t) EXCEPT !.error[t] = "RT_ETIMEOUT"]
<1>0. k \in KernelState /\ "RT_ETIMEOUT" \in Errno
  BY DEF Lists, Errno
<1>1. /\ Lists(r) /\ Detached(r, t) /\ OthersStay(k, r, t)
      /\ r.stat = k.stat /\ r.yield = k.yield /\ r.prio = k.prio
      /\ r.cur = k.cur /\ r.lock = k.lock /\ r.timer = k.timer /\ r.error = k.error
  BY RemoveParkedFacts
<1>2. /\ a.ready = r.ready /\ a.group = r.group /\ a.wait = r.wait /\ a.defunct = r.defunct
      /\ a.stat = r.stat /\ a.yield = r.yield /\ a.prio = r.prio
      /\ a.cur = r.cur /\ a.lock = r.lock /\ a.timer = r.timer \ {t}
      /\ a \in KernelState
  <2> HIDE DEF r
  <2>1. r \in KernelState
    BY <1>1 DEF Lists
  <2> QED
    BY <2>1 DEF StopTimer, KernelState
<1>3. b = [a EXCEPT !.error[t] = "RT_ETIMEOUT"]
  BY <1>0, StopThenRemove
<1>4. ResumeLocked(k, t) = rt_schedule_insert_thread(a, t)
  BY DEF ResumeLocked
<1>5. _thread_timeout(k, t) = rt_schedule_insert_thread(b, t)
  BY DEF _thread_timeout
<1> HIDE DEF r, a, b
<1>6. /\ b.ready = r.ready /\ b.group = r.group /\ b.wait = r.wait /\ b.defunct = r.defunct
      /\ b.stat = r.stat /\ b.yield = r.yield /\ b.prio = r.prio
      /\ b.cur = r.cur /\ b.lock = r.lock /\ b.timer = r.timer \ {t}
      /\ b \in KernelState
  BY <1>0, <1>2, <1>3 DEF KernelState
<1>7. ASSUME NEW m \in {a, b}, NEW u, u = rt_schedule_insert_thread(m, t)
      PROVE  /\ Lists(u) /\ OthersStay(k, u, t)
             /\ u.stat = [k.stat EXCEPT ![t] = IF t = k.cur THEN "RUNNING" ELSE "READY"]
             /\ t # k.cur => Member(t, u.ready[k.prio[t]])
             /\ u.yield = k.yield /\ u.prio = k.prio
             /\ u.cur = k.cur /\ u.lock = k.lock /\ u.timer = k.timer \ {t}
  <2>1. /\ m.ready = r.ready /\ m.group = r.group /\ m.wait = r.wait /\ m.defunct = r.defunct
        /\ m.stat = r.stat /\ m.yield = r.yield /\ m.prio = r.prio
        /\ m.cur = r.cur /\ m.lock = r.lock /\ m.timer = r.timer \ {t}
        /\ m \in KernelState
    BY <1>2, <1>6
  <2>2. Lists(m) /\ Detached(m, t)
    BY <2>1, <1>1, Frame
  <2>3. /\ Lists(u) /\ OthersStay(m, u, t)
        /\ u.stat = [m.stat EXCEPT ![t] = IF t = m.cur THEN "RUNNING" ELSE "READY"]
        /\ t # m.cur => Member(t, u.ready[m.prio[t]])
        /\ u.yield = m.yield /\ u.prio = m.prio
        /\ u.cur = m.cur /\ u.lock = m.lock /\ u.timer = m.timer
    BY <2>2, <1>7, InsertThreadFacts
  <2>4. OthersStay(k, u, t)
    BY <2>1, <2>3, <1>1 DEF OthersStay
  <2> QED
    BY <2>1, <2>3, <2>4, <1>1
<1> QED
  BY <1>4, <1>5, <1>7

\* rt_thread_suspend takes a runnable thread off the processor's lists.
LEMMA SuspendFacts ==
  ASSUME NEW k, Lists(k), NEW t \in Thread
  PROVE  LET u == rt_thread_suspend(k, t) IN
         /\ Lists(u) /\ OthersStay(k, u, t)
         /\ u.stat = IF Runnable(k, t) THEN [k.stat EXCEPT ![t] = "SUSPEND"] ELSE k.stat
         /\ Runnable(k, t) => Detached(u, t)
         /\ ~Runnable(k, t) => u = k
         /\ u.yield = k.yield /\ u.prio = k.prio /\ u.error = k.error
         /\ u.cur = k.cur /\ u.lock = k.lock
         /\ u.timer = IF Runnable(k, t) THEN k.timer \ {t} ELSE k.timer
<1> DEFINE u == rt_thread_suspend(k, t)
           r == rt_schedule_remove_thread(k, t)
<1>1. CASE ~Runnable(k, t)
  <2>1. u = k
    BY <1>1 DEF rt_thread_suspend, Runnable
  <2> QED
    BY <1>1, <2>1 DEF OthersStay
<1>2. CASE Runnable(k, t)
  <2>1. /\ Lists(r) /\ Detached(r, t) /\ OthersStay(k, r, t)
        /\ r.stat = k.stat /\ r.yield = k.yield /\ r.prio = k.prio
        /\ r.cur = k.cur /\ r.lock = k.lock /\ r.timer = k.timer /\ r.error = k.error
    BY RemoveThreadFacts
  <2>2. u = [[r EXCEPT !.stat[t] = "SUSPEND"] EXCEPT !.timer = @ \ {t}]
    BY <1>2 DEF rt_thread_suspend, Runnable, StopTimer
  <2> HIDE DEF r, u
  <2>3. r \in KernelState /\ "SUSPEND" \in Stat
    BY <2>1 DEF Lists, Stat
  <2>4. /\ u \in KernelState
        /\ u.ready = r.ready /\ u.group = r.group /\ u.wait = r.wait /\ u.defunct = r.defunct
        /\ u.stat = [r.stat EXCEPT ![t] = "SUSPEND"] /\ u.timer = r.timer \ {t}
        /\ u.yield = r.yield /\ u.prio = r.prio /\ u.error = r.error
        /\ u.cur = r.cur /\ u.lock = r.lock
    BY <2>2, <2>3 DEF KernelState
  <2>5. \A v \in Thread : \/ Detached(r, v)
                          \/ /\ u.stat[v] = r.stat[v]
                             /\ r.stat[v] = "READY" => u.prio[v] = r.prio[v]
    BY <2>1, <2>3, <2>4 DEF KernelState
  <2>6. Lists(u) /\ Detached(u, t)
    <3>1. Lists(u) /\ \A v \in Thread : Detached(u, v) <=> Detached(r, v)
      <4> HIDE DEF Lists, Detached
      <4>1. /\ Lists(r) /\ u \in KernelState
            /\ u.ready = r.ready /\ u.group = r.group /\ u.wait = r.wait /\ u.defunct = r.defunct
        BY <2>1, <2>4
      <4> QED
        BY ONLY <4>1, <2>5, Frame
    <3> QED
      BY <3>1, <2>1
  <2>7. OthersStay(k, u, t)
    BY <2>1, <2>4 DEF OthersStay
  <2> QED
    BY <1>2, <2>1, <2>4, <2>6, <2>7 DEF u
<1> QED
  BY <1>1, <1>2

\* RT_THREAD_CTRL_CHANGE_PRIORITY moves a READY thread to its new list and
\* changes nobody's stat.
LEMMA ChangePriorityFacts ==
  ASSUME NEW k, Lists(k), CurSound(k), NEW t \in Thread, NEW p \in Prio
  PROVE  LET u == ChangePriority(k, t, p) IN
         /\ Lists(u) /\ OthersStay(k, u, t)
         /\ u.stat = k.stat /\ u.prio = [k.prio EXCEPT ![t] = p]
         /\ k.stat[t] = "READY" => Member(t, u.ready[p])
         /\ k.stat[t] # "READY" => u.ready = k.ready /\ u.wait = k.wait /\ u.defunct = k.defunct
         /\ u.yield = k.yield /\ u.error = k.error
         /\ u.cur = k.cur /\ u.lock = k.lock /\ u.timer = k.timer
<1> DEFINE u == ChangePriority(k, t, p)
           r == rt_schedule_remove_thread(k, t)
           m == [r EXCEPT !.prio[t] = p]
<1>0. k \in KernelState
  BY DEF Lists
<1>1. CASE k.stat[t] # "READY"
  <2>1. u = [k EXCEPT !.prio[t] = p]
    BY <1>1 DEF ChangePriority
  <2> HIDE DEF u
  <2>2. /\ u \in KernelState
        /\ u.ready = k.ready /\ u.group = k.group /\ u.wait = k.wait /\ u.defunct = k.defunct
        /\ u.stat = k.stat /\ u.prio = [k.prio EXCEPT ![t] = p]
        /\ u.yield = k.yield /\ u.error = k.error
        /\ u.cur = k.cur /\ u.lock = k.lock /\ u.timer = k.timer
    BY <1>0, <2>1 DEF KernelState
  <2>3. \A v \in Thread : k.stat[v] = "READY" => u.prio[v] = k.prio[v]
    BY <1>0, <1>1, <2>2 DEF KernelState
  <2>4. Lists(u)
    BY <2>2, <2>3, Frame
  <2>5. OthersStay(k, u, t)
    BY <2>2 DEF OthersStay
  <2> QED
    BY <1>1, <2>2, <2>4, <2>5 DEF u
<1>2. CASE k.stat[t] = "READY"
  <2>1. /\ Lists(r) /\ Detached(r, t) /\ OthersStay(k, r, t)
        /\ r.stat = k.stat /\ r.yield = k.yield /\ r.prio = k.prio
        /\ r.cur = k.cur /\ r.lock = k.lock /\ r.timer = k.timer /\ r.error = k.error
    BY RemoveThreadFacts
  <2>2. u = rt_schedule_insert_thread(m, t)
    BY <1>2 DEF ChangePriority
  <2>3. r \in KernelState
    BY <2>1 DEF Lists
  <2> HIDE DEF r, u
  <2>4. /\ m \in KernelState
        /\ m.ready = r.ready /\ m.group = r.group /\ m.wait = r.wait /\ m.defunct = r.defunct
        /\ m.stat = k.stat /\ m.prio = [k.prio EXCEPT ![t] = p]
        /\ m.yield = k.yield /\ m.error = k.error
        /\ m.cur = k.cur /\ m.lock = k.lock /\ m.timer = k.timer
    BY <2>1, <2>3 DEF KernelState
  <2> HIDE DEF m
  <2>5. \A v \in Thread : \/ Detached(r, v)
                          \/ /\ m.stat[v] = r.stat[v]
                             /\ r.stat[v] = "READY" => m.prio[v] = r.prio[v]
    BY <1>0, <2>1, <2>4 DEF KernelState
  <2>6. Lists(m) /\ Detached(m, t)
    <3>1. Lists(m) /\ \A v \in Thread : Detached(m, v) <=> Detached(r, v)
      <4> HIDE DEF Lists, Detached
      <4>1. /\ Lists(r) /\ m \in KernelState
            /\ m.ready = r.ready /\ m.group = r.group /\ m.wait = r.wait /\ m.defunct = r.defunct
        BY <2>1, <2>4
      <4> QED
        BY ONLY <4>1, <2>5, Frame
    <3> QED
      BY <3>1, <2>1
  <2>7. /\ Lists(u) /\ OthersStay(m, u, t)
        /\ u.stat = [m.stat EXCEPT ![t] = IF t = m.cur THEN "RUNNING" ELSE "READY"]
        /\ t # m.cur => Member(t, u.ready[m.prio[t]])
        /\ u.yield = m.yield /\ u.prio = m.prio
        /\ u.cur = m.cur /\ u.lock = m.lock /\ u.timer = m.timer /\ u.error = m.error
    BY <2>2, <2>6, InsertThreadFacts
  <2>8. t # k.cur
    BY <1>2 DEF CurSound
  <2>9. u.stat = k.stat /\ m.prio[t] = p
    BY <1>0, <1>2, <2>4, <2>7, <2>8 DEF KernelState
  <2>10. OthersStay(k, u, t)
    BY <2>1, <2>4, <2>7 DEF OthersStay
  <2> QED
    BY <1>2, <2>4, <2>7, <2>8, <2>9, <2>10 DEF u
<1> QED
  BY <1>1, <1>2

\* Closing a detached thread puts it on the defunct list and nowhere else.
LEMMA CloseFacts ==
  ASSUME NEW k, Lists(k), NEW t \in Thread, Detached(k, t)
  PROVE  LET u == CloseThread(k, t) IN
         /\ Lists(u) /\ OthersStay(k, u, t)
         /\ u.stat = [k.stat EXCEPT ![t] = "CLOSE"]
         /\ u.prio = k.prio /\ u.error = k.error
         /\ u.cur = k.cur /\ u.lock = k.lock /\ u.timer = k.timer \ {t}
<1> DEFINE u == CloseThread(k, t)
           d == <<t>> \o k.defunct
<1>0. k \in KernelState /\ "CLOSE" \in Stat
  BY DEF Lists, Stat
<1>1. u = [[[k EXCEPT !.timer = @ \ {t}] EXCEPT !.stat[t] = "CLOSE", !.yield[t] = FALSE]
             EXCEPT !.defunct = d]
  BY <1>0 DEF CloseThread, rt_thread_defunct_enqueue, StopTimer, KernelState
<1>2. /\ d \in Seq(Thread) /\ IsInjective(d)
      /\ \A v : Member(v, d) <=> Member(v, k.defunct) \/ v = t
  <2>1. k.defunct \in Seq(Thread) /\ IsInjective(k.defunct) /\ ~Member(t, k.defunct)
    BY <1>0 DEF KernelState, Lists, DefunctSound, Detached
  <2> QED
    BY <2>1, LinkFacts
<1> HIDE DEF u, d
<1>3. /\ u \in KernelState
      /\ u.ready = k.ready /\ u.group = k.group /\ u.wait = k.wait /\ u.defunct = d
      /\ u.stat = [k.stat EXCEPT ![t] = "CLOSE"]
      /\ u.prio = k.prio /\ u.error = k.error
      /\ u.cur = k.cur /\ u.lock = k.lock /\ u.timer = k.timer \ {t}
  BY <1>0, <1>1, <1>2 DEF KernelState
<1>4. u.stat[t] = "CLOSE" /\ \A v \in Thread \ {t} : u.stat[v] = k.stat[v]
  BY <1>0, <1>3 DEF KernelState
<1>5. ReadyListsSound(u) /\ GroupExact(u)
  BY <1>3, <1>4 DEF Lists, ReadyListsSound, GroupExact, Detached
<1>6. WaitListsSound(u)
  BY <1>3, <1>4 DEF Lists, WaitListsSound, Detached
<1>7. DefunctSound(u)
  BY <1>2, <1>3, <1>4 DEF Lists, DefunctSound
<1>8. OthersStay(k, u, t)
  BY <1>2, <1>3 DEF OthersStay
<1> QED
  BY <1>3, <1>5, <1>6, <1>7, <1>8 DEF u, Lists
=============================================================================
