----------------------------- MODULE TimerProofs -----------------------------
(***************************************************************************)
(* The timers, proved for any timers of either kind, any width of the tick *)
(* counter and any times below half of it.                                 *)
(*                                                                         *)
(* HardInv, which holds whoever uses timers at whatever time, says that    *)
(* timeout_tick is what left counts (Aligned), that the list of hard       *)
(* timers is in order and that none of them is overdue by more than the    *)
(* tick that is being handled.  SoftInv adds, for applications that run    *)
(* while the timer thread waits, how late a soft timer can be (Late): not  *)
(* so late that rt_timer_start takes it for one that is due in the future, *)
(* also while the thread sleeps for another one (Following).               *)
(*                                                                         *)
(* The facts about lists are those of KernelProofs; nothing else of it is  *)
(* used.                                                                   *)
(***************************************************************************)
EXTENDS Timer, KernelProofs

-----------------------------------------------------------------------------
(* Lists of timers *)

Sorted(s, f) == \A i, j \in DOMAIN s : i < j => f[s[i]] <= f[s[j]]

\* To unlink a timer keeps the order of the others.
LEMMA UnlinkSorted ==
  ASSUME NEW S, NEW s \in Seq(S), IsInjective(s), NEW t, NEW f, NEW g, Sorted(s, f),
         \A i \in DOMAIN s : s[i] # t => g[s[i]] = f[s[i]]
  PROVE  Sorted(Unlink(s, t), g)
<1>0. DOMAIN s = 1 .. Len(s) /\ Len(s) \in Nat
  OBVIOUS
<1>1. CASE ~ Member(t, s)
  <2>1. \A i \in DOMAIN s : s[i] # t
    BY <1>1 DEF Member
  <2> QED
    BY <1>1, <2>1 DEF Unlink, Sorted
<1>2. CASE Member(t, s)
  <2>1. PICK n : n = CHOOSE i \in DOMAIN s : s[i] = t
    OBVIOUS
  <2>2. n \in 1 .. Len(s) /\ s[n] = t /\ Unlink(s, t) = RemoveAt(s, n)
    BY <1>0, <1>2, <2>1 DEF Member, Unlink
  <2>3. PICK r : r = RemoveAt(s, n)
    OBVIOUS
  <2>4. /\ r \in Seq(S) /\ Len(r) = Len(s) - 1
        /\ \A i \in 1 .. Len(s) - 1 : r[i] = IF i < n THEN s[i] ELSE s[i + 1]
    BY <2>2, <2>3, RemoveAtFacts
  <2>5. \A i, j \in 1 .. Len(s) : s[i] = s[j] => i = j
    BY <1>0 DEF IsInjective
  <2>6. ASSUME NEW i \in 1 .. Len(s) - 1, NEW j \in 1 .. Len(s) - 1, i < j
        PROVE  g[r[i]] <= g[r[j]]
    <3>1. PICK a \in 1 .. Len(s) : a = (IF i < n THEN i ELSE i + 1) /\ r[i] = s[a] /\ a # n
      BY <1>0, <2>2, <2>4
    <3>2. PICK b \in 1 .. Len(s) : b = (IF j < n THEN j ELSE j + 1) /\ r[j] = s[b] /\ b # n
      BY <1>0, <2>2, <2>4
    <3>3. a < b
      BY <2>2, <2>6, <3>1, <3>2, <1>0
    <3>4. s[a] # t /\ s[b] # t
      BY <2>2, <2>5, <3>1, <3>2
    <3>5. g[s[a]] = f[s[a]] /\ g[s[b]] = f[s[b]] /\ f[s[a]] <= f[s[b]]
      BY <1>0, <3>3, <3>4 DEF Sorted
    <3> QED
      BY <3>1, <3>2, <3>5
  <2> QED
    BY <1>0, <2>2, <2>3, <2>4, <2>6 DEF Sorted
<1> QED
  BY <1>1, <1>2

\* InsertAt makes room at position n.
LEMMA InsertFacts ==
  ASSUME NEW S, NEW s \in Seq(S), IsInjective(s), NEW t \in S, ~ Member(t, s),
         NEW n \in 1 .. Len(s) + 1
  PROVE  /\ InsertAt(s, n, t) \in Seq(S) /\ IsInjective(InsertAt(s, n, t))
         /\ Len(InsertAt(s, n, t)) = Len(s) + 1
         /\ \A i \in 1 .. Len(s) + 1 :
              InsertAt(s, n, t)[i] = IF i < n THEN s[i] ELSE IF i = n THEN t ELSE s[i - 1]
         /\ \A u : Member(u, InsertAt(s, n, t)) <=> Member(u, s) \/ u = t
<1>0. Len(s) \in Nat /\ DOMAIN s = 1 .. Len(s) /\ n \in Nat
  OBVIOUS
<1> DEFINE A == SubSeq(s, 1, n - 1)
           B == SubSeq(s, n, Len(s))
           C == A \o <<t>>
<1>1. A \in Seq(S) /\ Len(A) = n - 1 /\ \A i \in 1 .. n - 1 : A[i] = s[i]
  BY <1>0, SubSeqProperties
<1>2. /\ B \in Seq(S) /\ Len(B) = Len(s) - n + 1
      /\ \A i \in 1 .. Len(s) - n + 1 : B[i] = s[n + i - 1]
  BY <1>0, SubSeqProperties
<1>3. C \in Seq(S) /\ Len(C) = n /\ \A i \in 1 .. n : C[i] = IF i < n THEN s[i] ELSE t
  <2>1. PICK h : h = <<t>>
    OBVIOUS
  <2>2. h \in Seq(S) /\ Len(h) = 1 /\ h[1] = t
    BY <2>1
  <2>3. C = A \o h
    BY <2>1
  <2> HIDE DEF A, C
  <2>4. /\ A \o h \in Seq(S) /\ Len(A \o h) = Len(A) + Len(h)
        /\ \A i \in 1 .. Len(A) + Len(h) :
             (A \o h)[i] = IF i <= Len(A) THEN A[i] ELSE h[i - Len(A)]
    BY ONLY <1>1, <2>2, ConcatProperties
  <2> QED
    BY <1>0, <1>1, <2>2, <2>3, <2>4
<1>4. InsertAt(s, n, t) = C \o B
  BY DEF InsertAt
<1> HIDE DEF A, B, C
<1>5. /\ C \o B \in Seq(S) /\ Len(C \o B) = Len(C) + Len(B)
      /\ \A i \in 1 .. Len(C) + Len(B) :
           (C \o B)[i] = IF i <= Len(C) THEN C[i] ELSE B[i - Len(C)]
  BY <1>2, <1>3, ConcatProperties
<1>6. PICK z : z = C \o B
  OBVIOUS
<1>7. Len(z) = Len(s) + 1 /\ DOMAIN z = 1 .. Len(s) + 1
  BY <1>0, <1>2, <1>3, <1>5, <1>6
<1>8. ASSUME NEW i \in 1 .. Len(s) + 1
      PROVE  z[i] = IF i < n THEN s[i] ELSE IF i = n THEN t ELSE s[i - 1]
  <2>1. CASE i <= n
    BY <2>1, <1>0, <1>2, <1>3, <1>5, <1>6
  <2>2. CASE i > n
    <3>1. i - n \in 1 .. Len(s) - n + 1 /\ n + (i - n) - 1 = i - 1
      BY <2>2, <1>0
    <3> QED
      BY <2>2, <3>1, <1>0, <1>2, <1>3, <1>5, <1>6
  <2> QED
    BY <2>1, <2>2, <1>0
<1>9. ASSUME NEW u PROVE Member(u, z) <=> Member(u, s) \/ u = t
  <2>1. ASSUME Member(u, s) PROVE Member(u, z)
    <3>1. PICK i \in 1 .. Len(s) : s[i] = u
      BY <2>1, <1>0 DEF Member
    <3>2. CASE i < n
      BY <3>1, <3>2, <1>0, <1>7, <1>8 DEF Member
    <3>3. CASE i >= n
      <4>1. i + 1 \in 1 .. Len(s) + 1 /\ ~(i + 1 < n) /\ i + 1 # n /\ i + 1 - 1 = i
        BY <3>3, <1>0
      <4>2. z[i + 1] = u
        BY <3>1, <4>1, <1>8
      <4> QED
        BY <4>1, <4>2, <1>7 DEF Member
    <3> QED
      BY <3>2, <3>3, <1>0
  <2>2. Member(t, z)
    BY <1>0, <1>7, <1>8 DEF Member
  <2>3. ASSUME Member(u, z), u # t PROVE Member(u, s)
    <3>1. PICK i \in 1 .. Len(s) + 1 : z[i] = u
      BY <2>3, <1>7 DEF Member
    <3>2. CASE i < n
      BY <3>1, <3>2, <1>0, <1>8 DEF Member
    <3>3. CASE i > n
      <4>1. i - 1 \in 1 .. Len(s) /\ z[i] = s[i - 1]
        BY <3>3, <1>0, <1>8
      <4> QED
        BY <3>1, <4>1, <1>0 DEF Member
    <3>4. i # n
      BY <2>3, <3>1, <1>8
    <3> QED
      BY <3>2, <3>3, <3>4, <1>0
  <2> QED
    BY <2>1, <2>2, <2>3
<1>10. IsInjective(z)
  <2>1. \A i, j \in 1 .. Len(s) : s[i] = s[j] => i = j
    BY <1>0 DEF IsInjective
  <2>2. \A i \in 1 .. Len(s) : s[i] # t
    BY <1>0 DEF Member
  <2>3. ASSUME NEW i \in 1 .. Len(s) + 1, NEW j \in 1 .. Len(s) + 1, i < j
        PROVE  z[i] # z[j]
    <3>1. CASE j < n
      BY <2>3, <3>1, <2>1, <1>0, <1>8
    <3>2. CASE j = n
      BY <2>3, <3>2, <2>2, <1>0, <1>8
    <3>3. CASE j > n
      <4>1. z[j] = s[j - 1] /\ j - 1 \in 1 .. Len(s)
        BY <3>3, <1>0, <1>8
      <4>2. CASE i < n
        BY <2>3, <3>3, <4>1, <4>2, <2>1, <1>0, <1>8
      <4>3. CASE i = n
        BY <4>1, <4>3, <2>2, <1>0, <1>8
      <4>4. CASE i > n
        <5>1. z[i] = s[i - 1] /\ i - 1 \in 1 .. Len(s) /\ i - 1 # j - 1
          BY <2>3, <4>4, <1>0, <1>8
        <5> QED
          BY <5>1, <4>1, <2>1
      <4> QED
        BY <4>2, <4>3, <4>4, <1>0
    <3> QED
      BY <3>1, <3>2, <3>3, <1>0
  <2> QED
    BY <2>3, <1>7 DEF IsInjective
<1> QED
  BY <1>4, <1>5, <1>6, <1>7, <1>8, <1>9, <1>10

LEMMA InsertSorted ==
  ASSUME NEW S, NEW s \in Seq(S), IsInjective(s), NEW t \in S, ~ Member(t, s),
         NEW n \in 1 .. Len(s) + 1, NEW f, NEW g, Sorted(s, f),
         \A i \in DOMAIN s : g[s[i]] = f[s[i]],
         \A i \in DOMAIN s : IF i < n THEN f[s[i]] <= g[t] ELSE g[t] <= f[s[i]]
  PROVE  Sorted(InsertAt(s, n, t), g)
<1>0. Len(s) \in Nat /\ DOMAIN s = 1 .. Len(s) /\ n \in Nat
  OBVIOUS
<1>1. PICK z : z = InsertAt(s, n, t)
  OBVIOUS
<1>2. /\ z \in Seq(S) /\ Len(z) = Len(s) + 1 /\ DOMAIN z = 1 .. Len(s) + 1
      /\ \A i \in 1 .. Len(s) + 1 : z[i] = IF i < n THEN s[i] ELSE IF i = n THEN t ELSE s[i - 1]
  <2>1. z \in Seq(S) /\ Len(z) = Len(s) + 1
    BY <1>1, InsertFacts
  <2> QED
    BY <1>1, <2>1, InsertFacts
<1>3. ASSUME NEW i \in 1 .. Len(s) + 1, NEW j \in 1 .. Len(s) + 1, i < j
      PROVE  g[z[i]] <= g[z[j]]
  <2>1. CASE j < n
    BY <1>3, <2>1, <1>0, <1>2 DEF Sorted
  <2>2. CASE j = n
    BY <1>3, <2>2, <1>0, <1>2
  <2>3. CASE j > n
    <3>1. z[j] = s[j - 1] /\ j - 1 \in 1 .. Len(s) /\ ~(j - 1 < n)
      BY <2>3, <1>0, <1>2
    <3>2. CASE i < n
      BY <1>3, <2>3, <3>1, <3>2, <1>0, <1>2 DEF Sorted
    <3>3. CASE i = n
      BY <3>1, <3>3, <1>0, <1>2
    <3>4. CASE i > n
      <4>1. z[i] = s[i - 1] /\ i - 1 \in 1 .. Len(s) /\ i - 1 < j - 1
        BY <1>3, <3>4, <1>0, <1>2
      <4> QED
        BY <4>1, <3>1, <1>0 DEF Sorted
    <3> QED
      BY <3>2, <3>3, <3>4, <1>0
  <2> QED
    BY <2>1, <2>2, <2>3, <1>0
<1> QED
  BY <1>1, <1>2, <1>3 DEF Sorted

-----------------------------------------------------------------------------
(* Ticks modulo Ticks *)

LEMMA HalfFacts ==
  /\ Ticks \in Nat /\ Half \in Nat /\ Half >= 2
  /\ 2 * Half < Ticks /\ Ticks <= 2 * Half + 2
  /\ Times \subseteq 1 .. Half - 1 /\ MaxLate \in 0 .. Half - 2
BY ClockAssumption DEF Half

\* A time that is less than a round away, seen from tick.
LEMMA AheadIs ==
  ASSUME NEW tick \in Tick, NEW a \in Int, -Ticks < a, a < Ticks
  PROVE  /\ (tick + a) % Ticks \in Tick
         /\ (tick + a) % Ticks \in {tick + a, tick + a - Ticks, tick + a + Ticks}
<1>1. Ticks \in Nat \ {0}
  BY HalfFacts
<1>2. (tick + a) % Ticks \in Tick
  BY <1>1 DEF Tick
<1>3. CASE tick + a < 0
  BY <1>1, <1>3 DEF Tick
<1>4. CASE tick + a >= 0 /\ tick + a < Ticks
  BY <1>1, <1>4 DEF Tick
<1>5. CASE tick + a >= Ticks
  BY <1>1, <1>5 DEF Tick
<1> QED
  BY <1>1, <1>2, <1>3, <1>4, <1>5 DEF Tick

LEMMA RoundIs ==
  ASSUME NEW x \in Int, -Ticks < x, x < Ticks
  PROVE  x % Ticks = IF x < 0 THEN x + Ticks ELSE x
<1>1. Ticks \in Nat \ {0}
  BY HalfFacts
<1>2. CASE x < 0
  BY <1>1, <1>2
<1>3. CASE x >= 0
  BY <1>1, <1>3
<1> QED
  BY <1>2, <1>3

\* The comparison of rt_timer_start: a timer that is overdue by too much would
\* be taken for one that is due later.
LEMMA LaterMeans ==
  ASSUME NEW tick \in Tick, NEW a \in Int, NEW d \in 0 .. Half - 1,
         a < Half, d - a <= Ticks - Half
  PROVE  (/\ (tick + a) % Ticks # (tick + d) % Ticks
          /\ (((tick + a) % Ticks) - ((tick + d) % Ticks)) % Ticks < Half)
         <=> a > d
<1>1. PICK x \in Tick : x = (tick + a) % Ticks /\ x \in {tick + a, tick + a - Ticks, tick + a + Ticks}
  BY HalfFacts, AheadIs
<1>2. PICK y \in Tick : y = (tick + d) % Ticks /\ y \in {tick + d, tick + d - Ticks, tick + d + Ticks}
  BY HalfFacts, AheadIs
<1>3. x - y \in Int /\ -Ticks < x - y /\ x - y < Ticks
  BY HalfFacts DEF Tick
<1>4. (x - y) % Ticks = IF x - y < 0 THEN x - y + Ticks ELSE x - y
  BY <1>3, RoundIs
<1>5. x - y \in {a - d, a - d - Ticks, a - d + Ticks}
  BY <1>1, <1>2, <1>3, HalfFacts DEF Tick
<1>6. x # y /\ (IF x - y < 0 THEN x - y + Ticks ELSE x - y) < Half <=> a > d
  BY <1>3, <1>5, HalfFacts DEF Tick
<1> QED
  BY <1>1, <1>2, <1>4, <1>6

\* The comparison of rt_timer_check.
LEMMA ExpiredMeans ==
  ASSUME NEW tick \in Tick, NEW a \in Int, -Half < a, a < Half
  PROVE  (tick - ((tick + a) % Ticks)) % Ticks < Half <=> a <= 0
<1>1. PICK x \in Tick : x = (tick + a) % Ticks /\ x \in {tick + a, tick + a - Ticks, tick + a + Ticks}
  BY HalfFacts, AheadIs
<1>2. tick - x \in Int /\ -Ticks < tick - x /\ tick - x < Ticks
  BY HalfFacts DEF Tick
<1>3. (tick - x) % Ticks = IF tick - x < 0 THEN tick - x + Ticks ELSE tick - x
  BY <1>2, RoundIs
<1>4. tick - x \in {- a, - a - Ticks, - a + Ticks}
  BY <1>1, <1>2, HalfFacts DEF Tick
<1>5. (IF tick - x < 0 THEN tick - x + Ticks ELSE tick - x) < Half <=> a <= 0
  BY <1>2, <1>4, HalfFacts DEF Tick
<1> QED
  BY <1>1, <1>3, <1>5

\* One tick later, what is due is one tick less away.
LEMMA TickOn ==
  ASSUME NEW tick \in Tick, NEW a \in Int, -Ticks < a - 1, a < Ticks
  PROVE  (((tick + 1) % Ticks) + (a - 1)) % Ticks = (tick + a) % Ticks
<1>1. PICK x \in Tick : x = (tick + a) % Ticks /\ x \in {tick + a, tick + a - Ticks, tick + a + Ticks}
  BY HalfFacts, AheadIs
<1>2. PICK u \in Tick : u = (tick + 1) % Ticks /\ u \in {tick + 1, tick + 1 - Ticks, tick + 1 + Ticks}
  BY HalfFacts, AheadIs
<1>3. PICK y \in Tick : y = (u + (a - 1)) % Ticks
                        /\ y \in {u + (a - 1), u + (a - 1) - Ticks, u + (a - 1) + Ticks}
  BY HalfFacts, AheadIs
<1>4. x = y
  BY <1>1, <1>2, <1>3, HalfFacts DEF Tick
<1> QED
  BY <1>1, <1>2, <1>3, <1>4

-----------------------------------------------------------------------------
(* The functions of timer.c, field by field *)

ListsApart(m) == m \in TimerState /\ \A l \in ListKinds : IsInjective(m.list[l])

SameFields(m, r) ==
  /\ r.tick = m.tick /\ r.init = m.init /\ r.periodic = m.periodic
  /\ r.busy = m.busy /\ r.stat = m.stat /\ r.early = m.early

SameElsewhere(m, r, t) ==
  \A u \in Timers : u # t => r.left[u] = m.left[u] /\ r.timeout[u] = m.timeout[u]

IsStop(m, t, r) ==
  /\ r \in TimerState /\ SameFields(m, r) /\ SameElsewhere(m, r, t)
  /\ \A l \in ListKinds : r.list[l] = Unlink(m.list[l], t)
  /\ r.local = Unlink(m.local, t) /\ r.active = m.active \ {t}

IsInsert(m, t, d, r) ==
  /\ r \in TimerState /\ SameFields(m, r) /\ SameElsewhere(m, r, t)
  /\ r.left[t] = d /\ r.timeout[t] = (m.tick + d) % Ticks
  /\ r.active = m.active \cup {t} /\ r.local = Unlink(m.local, t)
  /\ \A l \in ListKinds : l # Kind(t) => r.list[l] = Unlink(m.list[l], t)

\* Where a timer with so many ticks to go is linked.
IsPlaced(m, t, d, r) ==
  LET s == Unlink(m.list[Kind(t)], t)
      due == (m.tick + d) % Ticks
      Later(i) == m.timeout[s[i]] # due /\ (m.timeout[s[i]] - due) % Ticks < Half
  IN  \E n \in 1 .. Len(s) + 1 :
        /\ r.list[Kind(t)] = InsertAt(s, n, t)
        /\ \A i \in DOMAIN s : i < n => ~ Later(i)
        /\ n \in DOMAIN s => Later(n)

LEMMA KindFacts ==
  /\ \A t \in Timers : Kind(t) \in ListKinds
  /\ \A t \in Hard : Kind(t) = "hard"
  /\ \A t \in Soft : Kind(t) = "soft"
  /\ Kind(ThreadTimer) = "hard"
  /\ \A t \in Timers : Kind(t) = "soft" => t \in Soft
BY TimerAssumption DEF Kind, ListKinds, Timers

\* The local list of rt_soft_timer_check holds one timer at most.
LEMMA LocalUnlink ==
  ASSUME NEW m \in TimerState, NEW t \in Timers
  PROVE  /\ Unlink(m.local, t) \in {<<>>} \cup {<<u>> : u \in Timers}
         /\ Unlink(m.local, t) = IF m.local = <<t>> THEN <<>> ELSE m.local
<1>1. m.local \in {<<>>} \cup {<<u>> : u \in Timers}
  BY DEF TimerState
<1>2. CASE m.local = <<>>
  BY <1>2 DEF Unlink, Member
<1>3. ASSUME NEW u \in Timers, m.local = <<u>>
      PROVE  /\ Unlink(m.local, t) \in {<<>>} \cup {<<x>> : x \in Timers}
             /\ Unlink(m.local, t) = IF m.local = <<t>> THEN <<>> ELSE m.local
  <2>1. PICK s : s = <<u>>
    OBVIOUS
  <2>2. s \in Seq(Timers) /\ Len(s) = 1 /\ DOMAIN s = 1 .. 1 /\ s[1] = u
    BY <2>1
  <2>3. CASE u # t
    <3>1. ~ Member(t, s)
      BY <2>2, <2>3 DEF Member
    <3> QED
      BY <1>1, <1>3, <2>1, <2>2, <2>3, <3>1 DEF Unlink
  <2>4. CASE u = t
    <3>1. IsInjective(s)
      BY <2>2 DEF IsInjective
    <3>2. PICK r : r = Unlink(s, t)
      OBVIOUS
    <3>3. r \in Seq(Timers) /\ \A x : Member(x, r) <=> Member(x, s) /\ x # t
      BY ONLY <2>2, <3>1, <3>2, UnlinkFacts
    <3>4. ASSUME NEW x, Member(x, r) PROVE FALSE
      <4>1. Member(x, s) /\ x # t
        BY <3>3, <3>4
      <4>2. PICK i \in 1 .. 1 : s[i] = x
        BY <2>2, <4>1 DEF Member
      <4>3. i = 1
        OBVIOUS
      <4> QED
        BY <2>2, <2>4, <4>1, <4>2, <4>3
    <3>5. r = <<>>
      BY ONLY <3>3, <3>4, EmptyFacts
    <3> QED
      BY <1>3, <2>1, <2>4, <3>2, <3>5
  <2> QED
    BY <2>3, <2>4
<1> QED
  BY <1>1, <1>2, <1>3

LEMMA RemoveIs ==
  ASSUME NEW m, ListsApart(m), NEW t \in Timers, NEW r, r = _timer_remove(m, t)
  PROVE  /\ r \in TimerState /\ SameFields(m, r) /\ SameElsewhere(m, r, t)
         /\ \A l \in ListKinds : r.list[l] = Unlink(m.list[l], t)
         /\ r.local = Unlink(m.local, t) /\ r.active = m.active
<1>1. PICK q : q = [l \in ListKinds |-> Unlink(m.list[l], t)]
  OBVIOUS
<1>2. q \in [ListKinds -> Seq(Timers)] /\ \A l \in ListKinds : q[l] = Unlink(m.list[l], t)
  <2>1. ASSUME NEW l \in ListKinds PROVE Unlink(m.list[l], t) \in Seq(Timers)
    <3>1. m.list[l] \in Seq(Timers) /\ IsInjective(m.list[l])
      BY DEF ListsApart, TimerState
    <3> QED
      BY <3>1, UnlinkFacts
  <2> QED
    BY <1>1, <2>1
<1>3. PICK o : o = Unlink(m.local, t) /\ o \in {<<>>} \cup {<<u>> : u \in Timers}
  BY LocalUnlink DEF ListsApart
<1>4. PICK x : x = [m.timeout EXCEPT ![t] = 0]
  OBVIOUS
<1>5. x \in [Timers -> Tick] /\ \A u \in Timers : u # t => x[u] = m.timeout[u]
  BY <1>4, HalfFacts DEF ListsApart, TimerState, Tick
<1>6. PICK y : y = [m.left EXCEPT ![t] = 0]
  OBVIOUS
<1>7. y \in [Timers -> Int] /\ \A u \in Timers : u # t => y[u] = m.left[u]
  BY <1>6 DEF ListsApart, TimerState
<1>8. r = [m EXCEPT !.list = q, !.local = o, !.timeout = x, !.left = y]
  BY <1>1, <1>3, <1>4, <1>6 DEF _timer_remove
<1> QED
  BY <1>2, <1>3, <1>5, <1>7, <1>8 DEF ListsApart, TimerState, SameFields, SameElsewhere

LEMMA StopIs ==
  ASSUME NEW m, ListsApart(m), NEW t \in Timers
  PROVE  IsStop(m, t, rt_timer_stop(m, t))
<1>1. PICK q : q = _timer_remove(m, t)
  OBVIOUS
<1>2. /\ q \in TimerState /\ SameFields(m, q) /\ SameElsewhere(m, q, t)
      /\ \A l \in ListKinds : q.list[l] = Unlink(m.list[l], t)
      /\ q.local = Unlink(m.local, t) /\ q.active = m.active
  BY <1>1, RemoveIs
<1>3. PICK r : r = [q EXCEPT !.active = @ \ {t}]
  OBVIOUS
<1>4. IsStop(m, t, r)
  BY <1>2, <1>3 DEF IsStop, TimerState, SameFields, SameElsewhere
<1> QED
  BY <1>1, <1>3, <1>4 DEF rt_timer_stop

\* The least position of a set.
LEMMA FirstOf ==
  ASSUME NEW n \in Nat, NEW L \in SUBSET (1 .. n), L # {}
  PROVE  \E i \in L : \A j \in L : i <= j
<1>1. L \subseteq Nat
  OBVIOUS
<1>2. PICK i \in L : \A j \in L : ~(<<j, i>> \in OpToRel(<, Nat))
  BY <1>1, NatLessThanWellFounded, WFMin
<1>3. ASSUME NEW j \in L PROVE i <= j
  <2>1. ~(j < i)
    BY <1>1, <1>2, Zenon DEF OpToRel
  <2> QED
    BY <1>1, <2>1
<1> QED
  BY <1>3

\* rt_timer_start links a timer before the first that is due later.
LEMMA InsertIs ==
  ASSUME NEW m, ListsApart(m), NEW t \in Timers, NEW d \in 0 .. Half - 1
  PROVE  IsInsert(m, t, d, InsertTimer(m, t, d)) /\ IsPlaced(m, t, d, InsertTimer(m, t, d))
<1>1. PICK r : r = rt_timer_stop(m, t)
  OBVIOUS
<1>2. IsStop(m, t, r)
  BY <1>1, StopIs
<1>3. PICK k \in ListKinds : k = Kind(t)
  BY KindFacts
<1>4. PICK s : s = r.list[k]
  OBVIOUS
<1>5. PICK due : due = (m.tick + d) % Ticks
  OBVIOUS
<1>6. due \in Tick
  BY <1>5, AheadIs, HalfFacts DEF ListsApart, TimerState
<1>7. m.list[k] \in Seq(Timers) /\ IsInjective(m.list[k])
  BY DEF ListsApart, TimerState
<1>8. s = Unlink(m.list[k], t) /\ r.tick = m.tick
  BY <1>2, <1>4 DEF IsStop, SameFields
<1>9. s \in Seq(Timers) /\ IsInjective(s) /\ \A u : Member(u, s) <=> Member(u, m.list[k]) /\ u # t
  BY <1>7, <1>8, UnlinkFacts
<1>10. Len(s) \in Nat /\ DOMAIN s = 1 .. Len(s)
  BY <1>9
<1>11. \A i \in DOMAIN s : s[i] \in Timers /\ s[i] # t
  BY <1>9, <1>10 DEF Member
<1>12. \A i \in DOMAIN s : r.timeout[s[i]] = m.timeout[s[i]]
  BY <1>2, <1>11 DEF IsStop, SameElsewhere
<1> DEFINE Later(i) == m.timeout[s[i]] # due /\ (m.timeout[s[i]] - due) % Ticks < Half
           L == {i \in DOMAIN s : Later(i)}
           n == Position(r, s, due)
<1>13. n = IF L = {} THEN Len(s) + 1 ELSE CHOOSE i \in L : \A j \in L : i <= j
  <2> DEFINE X == {i \in DOMAIN s : /\ r.timeout[s[i]] # due
                                    /\ (r.timeout[s[i]] - due) % Ticks < Half}
  <2>1. X = L
    BY <1>12
  <2>2. Position(r, s, due) = IF X = {} THEN Len(s) + 1 ELSE CHOOSE i \in X : \A j \in X : i <= j
    BY Zenon DEF Position
  <2> HIDE DEF X, L
  <2> QED
    BY <2>1, <2>2
<1>14. n \in 1 .. Len(s) + 1 /\ (\A i \in DOMAIN s : i < n => ~ Later(i)) /\ (n \in DOMAIN s => Later(n))
  <2>1. L \subseteq DOMAIN s /\ \A i \in DOMAIN s : Later(i) <=> i \in L
    OBVIOUS
  <2> HIDE DEF L, Later, n
  <2>2. CASE L = {}
    BY <1>10, <1>13, <2>1, <2>2
  <2>3. CASE L # {}
    <3>1. \E i \in L : \A j \in L : i <= j
      BY <1>10, <2>1, <2>3, FirstOf
    <3>2. n \in L /\ \A j \in L : n <= j
      BY <1>13, <2>3, <3>1
    <3> QED
      BY <1>10, <2>1, <3>2
  <2> QED
    BY <2>2, <2>3
<1>15. PICK p \in 1 .. Len(s) + 1 :
         /\ p = Position(r, s, due)
         /\ \A i \in DOMAIN s : i < p => ~ Later(i)
         /\ p \in DOMAIN s => Later(p)
  BY <1>14
<1> HIDE DEF n, L
<1>16. PICK z \in Seq(Timers) : z = InsertAt(s, p, t)
  BY <1>9, <1>10, InsertFacts
<1>17. InsertTimer(m, t, d) =
         [r EXCEPT !.list[k] = z, !.timeout[t] = due, !.left[t] = d, !.active = @ \cup {t}]
  BY <1>1, <1>3, <1>4, <1>5, <1>8, <1>15, <1>16 DEF InsertTimer
<1>18. PICK q : q = [r EXCEPT !.list[k] = z, !.timeout[t] = due, !.left[t] = d, !.active = @ \cup {t}]
  OBVIOUS
<1>19. r \in TimerState
  BY <1>2 DEF IsStop
<1>20. /\ q.list = [r.list EXCEPT ![k] = z] /\ q.timeout = [r.timeout EXCEPT ![t] = due]
       /\ q.left = [r.left EXCEPT ![t] = d] /\ q.active = r.active \cup {t}
       /\ q.local = r.local /\ SameFields(r, q)
  BY <1>18, <1>19 DEF TimerState, SameFields
<1>21. q \in TimerState
  <2>1. q = [tick |-> r.tick, list |-> [r.list EXCEPT ![k] = z],
             timeout |-> [r.timeout EXCEPT ![t] = due], init |-> r.init,
             periodic |-> r.periodic, active |-> r.active \cup {t}, local |-> r.local,
             busy |-> r.busy, stat |-> r.stat, left |-> [r.left EXCEPT ![t] = d],
             early |-> r.early]
    BY <1>18, <1>19 DEF TimerState
  <2>2. [r.list EXCEPT ![k] = z] \in [ListKinds -> Seq(Timers)]
    BY <1>16, <1>19 DEF TimerState
  <2>3. [r.timeout EXCEPT ![t] = due] \in [Timers -> Tick]
    BY <1>6, <1>19 DEF TimerState
  <2>4. [r.left EXCEPT ![t] = d] \in [Timers -> Int]
    BY <1>19, HalfFacts DEF TimerState
  <2>5. r.active \cup {t} \in SUBSET Timers
    BY <1>19 DEF TimerState
  <2> QED
    BY <1>19, <2>1, <2>2, <2>3, <2>4, <2>5 DEF TimerState
<1>22. q.left[t] = d /\ q.timeout[t] = due /\ SameElsewhere(r, q, t)
  BY <1>19, <1>20 DEF TimerState, SameElsewhere
<1>23. q.list[k] = z /\ \A l \in ListKinds : l # k => q.list[l] = r.list[l]
  BY <1>19, <1>20 DEF TimerState
<1>24. q.active = m.active \cup {t} /\ q.local = Unlink(m.local, t)
  BY <1>2, <1>20 DEF IsStop
<1>25. IsInsert(m, t, d, q)
  BY <1>2, <1>3, <1>5, <1>20, <1>21, <1>22, <1>23, <1>24
     DEF IsStop, IsInsert, SameFields, SameElsewhere
<1>26. IsPlaced(m, t, d, q)
  BY <1>3, <1>5, <1>8, <1>15, <1>16, <1>23 DEF IsPlaced
<1> QED
  BY <1>17, <1>18, <1>25, <1>26

\* Who is on which list afterwards.
LEMMA UnlinkedSorted ==
  ASSUME NEW z \in Seq(Timers), IsInjective(z), NEW t \in Timers,
         NEW f, NEW g, Sorted(z, f), \A u \in Timers : u # t => g[u] = f[u]
  PROVE  Sorted(Unlink(z, t), g)
<1>1. \A i \in DOMAIN z : z[i] \in Timers
  OBVIOUS
<1>2. \A i \in DOMAIN z : z[i] # t => g[z[i]] = f[z[i]]
  BY <1>1
<1>3. z \in Seq(Timers) /\ IsInjective(z) /\ Sorted(z, f)
  OBVIOUS
<1>4. PICK s : s = Unlink(z, t)
  OBVIOUS
<1>5. Sorted(s, g)
  BY ONLY <1>2, <1>3, <1>4, UnlinkSorted
<1> QED
  BY <1>4, <1>5

LEMMA InsertedLists ==
  ASSUME NEW m, ListsApart(m), NEW t \in Timers, NEW d \in 0 .. Half - 1,
         NEW r, IsInsert(m, t, d, r), IsPlaced(m, t, d, r), NEW l \in ListKinds
  PROVE  /\ IsInjective(r.list[l])
         /\ \A u : Member(u, r.list[l]) <=> (Member(u, m.list[l]) /\ u # t) \/ (u = t /\ l = Kind(t))
<1>1. PICK z \in Seq(Timers) : z = m.list[l] /\ IsInjective(z)
  BY DEF ListsApart, TimerState
<1>2. PICK s \in Seq(Timers) :
        s = Unlink(m.list[l], t) /\ IsInjective(s) /\ \A u : Member(u, s) <=> Member(u, m.list[l]) /\ u # t
  BY <1>1, UnlinkFacts
<1>3. CASE l # Kind(t)
  <2>1. r.list[l] = s
    BY <1>2, <1>3 DEF IsInsert
  <2> QED
    BY <1>2, <1>3, <2>1
<1>4. CASE l = Kind(t)
  <2>1. PICK n \in 1 .. Len(s) + 1 : r.list[l] = InsertAt(s, n, t)
    BY <1>2, <1>4 DEF IsPlaced
  <2>2. ~ Member(t, s)
    BY <1>2
  <2>3. PICK y : y = InsertAt(s, n, t)
    OBVIOUS
  <2>4. IsInjective(y) /\ \A u : Member(u, y) <=> Member(u, s) \/ u = t
    BY ONLY <1>2, <2>1, <2>2, <2>3, t \in Timers, InsertFacts
  <2> QED
    BY <1>2, <1>4, <2>1, <2>3, <2>4
<1> QED
  BY <1>3, <1>4

\* A list in order stays so, when no timer on it is overdue by too much.
LEMMA PlacedSorted ==
  ASSUME NEW m, ListsApart(m), NEW t \in Timers, NEW d \in 0 .. Half - 1,
         NEW r, IsInsert(m, t, d, r), IsPlaced(m, t, d, r),
         Sorted(m.list[Kind(t)], m.left),
         \A u \in Timers : Member(u, m.list[Kind(t)]) =>
           /\ m.left[u] < Half /\ d - m.left[u] <= Ticks - Half
           /\ m.timeout[u] = (m.tick + m.left[u]) % Ticks
  PROVE  Sorted(r.list[Kind(t)], r.left)
<1>1. PICK k \in ListKinds : k = Kind(t)
  BY KindFacts
<1>2. PICK s : s = Unlink(m.list[k], t)
  OBVIOUS
<1>3. /\ s \in Seq(Timers) /\ IsInjective(s) /\ \A u : Member(u, s) <=> Member(u, m.list[k]) /\ u # t
      /\ Sorted(s, m.left)
  <2>1. PICK z \in Seq(Timers) : z = m.list[k] /\ IsInjective(z)
    BY DEF ListsApart, TimerState
  <2>2. s = Unlink(z, t)
    BY <1>2, <2>1
  <2>3. s \in Seq(Timers) /\ IsInjective(s) /\ \A u : Member(u, s) <=> Member(u, z) /\ u # t
    BY ONLY <2>1, <2>2, UnlinkFacts
  <2>4. PICK f : f = m.left
    OBVIOUS
  <2>5. z \in Seq(Timers) /\ IsInjective(z) /\ Sorted(z, f) /\ \A u \in Timers : u # t => f[u] = f[u]
    BY <1>1, <2>1, <2>4
  <2>6. Sorted(s, f)
    BY ONLY <2>2, <2>5, t \in Timers, UnlinkedSorted
  <2> QED
    BY <2>1, <2>3, <2>4, <2>6
<1>4. Len(s) \in Nat /\ DOMAIN s = 1 .. Len(s)
  BY <1>3
<1>5. ASSUME NEW i \in DOMAIN s
      PROVE  /\ s[i] \in Timers /\ s[i] # t /\ m.left[s[i]] \in Int
             /\ (/\ m.timeout[s[i]] # (m.tick + d) % Ticks
                 /\ (m.timeout[s[i]] - ((m.tick + d) % Ticks)) % Ticks < Half)
                <=> m.left[s[i]] > d
  <2>1. PICK u : u = s[i]
    OBVIOUS
  <2>2. u \in Timers /\ u # t /\ Member(u, m.list[k])
    <3>1. u \in Timers
      BY <1>3, <1>4, <2>1
    <3>2. Member(u, s)
      BY <2>1 DEF Member
    <3> QED
      BY <1>3, <3>1, <3>2
  <2>3. PICK a \in Int : a = m.left[u]
    BY <2>2 DEF ListsApart, TimerState
  <2>4. a < Half /\ d - a <= Ticks - Half /\ m.timeout[u] = (m.tick + a) % Ticks
    BY <1>1, <2>2, <2>3
  <2>5. PICK now \in Tick : now = m.tick
    BY DEF ListsApart, TimerState
  <2>6. (/\ (now + a) % Ticks # (now + d) % Ticks
         /\ (((now + a) % Ticks) - ((now + d) % Ticks)) % Ticks < Half)
        <=> a > d
    BY <2>4, LaterMeans
  <2> QED
    BY <2>1, <2>2, <2>3, <2>4, <2>5, <2>6
<1>6. PICK n \in 1 .. Len(s) + 1 :
        /\ r.list[k] = InsertAt(s, n, t)
        /\ \A i \in DOMAIN s : i < n =>
             ~(/\ m.timeout[s[i]] # (m.tick + d) % Ticks
               /\ (m.timeout[s[i]] - ((m.tick + d) % Ticks)) % Ticks < Half)
        /\ n \in DOMAIN s =>
             (/\ m.timeout[s[n]] # (m.tick + d) % Ticks
              /\ (m.timeout[s[n]] - ((m.tick + d) % Ticks)) % Ticks < Half)
  BY <1>1, <1>2, Zenon DEF IsPlaced
<1>7. /\ \A i \in DOMAIN s : i < n => m.left[s[i]] <= d
      /\ n \in DOMAIN s => m.left[s[n]] > d
  BY <1>5, <1>6
<1>8. PICK g : g = r.left
  OBVIOUS
<1>9. g[t] = d /\ \A i \in DOMAIN s : g[s[i]] = m.left[s[i]]
  BY <1>5, <1>8 DEF IsInsert, SameElsewhere
<1>10. ASSUME NEW i \in DOMAIN s
       PROVE  IF i < n THEN m.left[s[i]] <= g[t] ELSE g[t] <= m.left[s[i]]
  <2>1. CASE i < n
    BY <1>7, <1>9, <2>1
  <2>2. CASE i = n
    BY <1>5, <1>7, <1>9, <2>2, HalfFacts
  <2>3. CASE i > n
    <3>1. n \in DOMAIN s /\ m.left[s[n]] \in Int /\ m.left[s[i]] \in Int
      BY <1>4, <1>5, <2>3
    <3>2. m.left[s[n]] <= m.left[s[i]]
      BY <1>3, <2>3, <3>1 DEF Sorted
    <3> QED
      BY <1>7, <1>9, <2>3, <3>1, <3>2, HalfFacts
  <2> QED
    BY <1>4, <2>1, <2>2, <2>3
<1>11. ~ Member(t, s)
  BY <1>3
<1>12. PICK f : f = m.left
  OBVIOUS
<1>13. Sorted(InsertAt(s, n, t), g)
  <2>1. Sorted(s, f) /\ \A i \in DOMAIN s : g[s[i]] = f[s[i]]
    BY <1>3, <1>9, <1>12
  <2>2. \A i \in DOMAIN s : IF i < n THEN f[s[i]] <= g[t] ELSE g[t] <= f[s[i]]
    BY <1>10, <1>12
  <2> QED
    BY ONLY <1>3, <1>6, <1>11, <2>1, <2>2, t \in Timers, InsertSorted
<1> QED
  BY <1>1, <1>6, <1>8, <1>13

-----------------------------------------------------------------------------
(* What every step keeps of the hard timers *)

\* What is left until a timer is due is what its timeout_tick says.
Aligned(m, u) ==
  /\ m.left[u] < Half
  /\ m.left[u] > - Ticks => m.timeout[u] = (m.tick + m.left[u]) % Ticks

KeptApart(m) ==
  \A l \in ListKinds :
    /\ IsInjective(m.list[l])
    /\ \A u \in Timers : Member(u, m.list[l]) => Kind(u) = l /\ u \in m.active /\ Aligned(m, u)

\* No hard timer is overdue by more than -low ticks.
HardGood(m, low) ==
  /\ Sorted(m.list["hard"], m.left)
  /\ \A u \in Timers : Member(u, m.list["hard"]) => m.left[u] >= low

Good(m, low) ==
  /\ m \in TimerState /\ m.early = FALSE
  /\ KeptApart(m) /\ HardGood(m, low)
  /\ ThreadTimer \in m.active => Member(ThreadTimer, m.list["hard"])

LEMMA GoodApart ==
  ASSUME NEW m, NEW low, Good(m, low)
  PROVE  ListsApart(m)
BY DEF Good, KeptApart, ListsApart

\* A timer is taken off its list.
LEMMA GoodUnlink ==
  ASSUME NEW m, NEW low \in Int, Good(m, low), NEW t \in Timers,
         NEW r \in TimerState, SameElsewhere(m, r, t), r.tick = m.tick, r.early = FALSE,
         \A l \in ListKinds : r.list[l] = Unlink(m.list[l], t),
         m.active \ {t} \subseteq r.active, r.active \subseteq m.active,
         ThreadTimer \in r.active => ThreadTimer # t
  PROVE  Good(r, low)
<1>1. ASSUME NEW l \in ListKinds
      PROVE  /\ IsInjective(r.list[l])
             /\ \A u : Member(u, r.list[l]) <=> Member(u, m.list[l]) /\ u # t
  <2>1. PICK z \in Seq(Timers) : z = m.list[l] /\ IsInjective(z)
    BY DEF Good, KeptApart, TimerState
  <2>2. PICK s \in Seq(Timers) : s = Unlink(z, t) /\ IsInjective(s) /\ \A u : Member(u, s) <=> Member(u, z) /\ u # t
    BY <2>1, UnlinkFacts
  <2>3. r.list[l] = s
    BY <1>1, <2>1, <2>2
  <2> QED
    BY <2>1, <2>2, <2>3
<1>2. KeptApart(r)
  <2>1. ASSUME NEW l \in ListKinds, NEW u \in Timers, Member(u, r.list[l])
        PROVE  Kind(u) = l /\ u \in r.active /\ Aligned(r, u)
    <3>1. Member(u, m.list[l]) /\ u # t
      BY <1>1, <2>1
    <3>2. Kind(u) = l /\ u \in m.active /\ Aligned(m, u)
      BY <3>1 DEF Good, KeptApart
    <3>3. r.left[u] = m.left[u] /\ r.timeout[u] = m.timeout[u]
      BY <3>1 DEF SameElsewhere
    <3> QED
      BY <3>1, <3>2, <3>3 DEF Aligned
  <2> QED
    BY <1>1, <2>1 DEF KeptApart
<1>3. HardGood(r, low)
  <2>0. "hard" \in ListKinds
    BY DEF ListKinds
  <2>1. PICK z \in Seq(Timers) : z = m.list["hard"] /\ IsInjective(z)
    BY <2>0 DEF Good, KeptApart, TimerState
  <2>2. PICK f, g : f = m.left /\ g = r.left
    OBVIOUS
  <2>3. Sorted(z, f) /\ \A u \in Timers : u # t => g[u] = f[u]
    BY <2>1, <2>2 DEF Good, HardGood, SameElsewhere
  <2>4. PICK s : s = Unlink(z, t)
    OBVIOUS
  <2>5. Sorted(s, g)
    BY ONLY <2>1, <2>3, <2>4, t \in Timers, UnlinkedSorted
  <2>6. r.list["hard"] = s
    BY <2>0, <2>1, <2>4
  <2>7. ASSUME NEW u \in Timers, Member(u, r.list["hard"]) PROVE r.left[u] >= low
    <3>1. Member(u, m.list["hard"]) /\ u # t
      BY <1>1, <2>0, <2>7
    <3> QED
      BY <3>1 DEF Good, HardGood, SameElsewhere
  <2> QED
    BY <2>2, <2>5, <2>6, <2>7 DEF HardGood
<1>4. ThreadTimer \in r.active => Member(ThreadTimer, r.list["hard"])
  BY <1>1 DEF Good, ListKinds
<1> QED
  BY <1>2, <1>3, <1>4 DEF Good

\* A timer is linked, to be due in d ticks.
LEMMA GoodInsert ==
  ASSUME NEW m, NEW low \in {-1, 0}, Good(m, low), NEW t \in Timers, NEW d \in 0 .. Half - 1,
         NEW r, IsInsert(m, t, d, r), IsPlaced(m, t, d, r)
  PROVE  Good(r, low)
<1>0. ListsApart(m) /\ "hard" \in ListKinds /\ d \in Nat /\ d < Half
  BY GoodApart, HalfFacts DEF ListKinds
<1>1. \A l \in ListKinds :
        /\ IsInjective(r.list[l])
        /\ \A u : Member(u, r.list[l]) <=> (Member(u, m.list[l]) /\ u # t) \/ (u = t /\ l = Kind(t))
  BY <1>0, InsertedLists
<1>2. /\ r \in TimerState /\ r.tick = m.tick /\ r.early = FALSE
      /\ r.left[t] = d /\ r.timeout[t] = (m.tick + d) % Ticks
      /\ r.active = m.active \cup {t}
      /\ \A u \in Timers : u # t => r.left[u] = m.left[u] /\ r.timeout[u] = m.timeout[u]
  BY DEF Good, IsInsert, SameFields, SameElsewhere
<1>3. KeptApart(r)
  <2>1. ASSUME NEW l \in ListKinds, NEW u \in Timers, Member(u, r.list[l])
        PROVE  Kind(u) = l /\ u \in r.active /\ Aligned(r, u)
    <3>1. CASE u = t
      BY <1>0, <1>1, <1>2, <2>1, <3>1 DEF Aligned
    <3>2. CASE u # t
      <4>1. Kind(u) = l /\ u \in m.active /\ Aligned(m, u)
        BY <1>1, <2>1, <3>2 DEF Good, KeptApart
      <4> QED
        BY <1>2, <3>2, <4>1 DEF Aligned
    <3> QED
      BY <3>1, <3>2
  <2> QED
    BY <1>1, <2>1 DEF KeptApart
<1>4. \A u \in Timers : Member(u, r.list["hard"]) => r.left[u] >= low
  <2>1. ASSUME NEW u \in Timers, Member(u, r.list["hard"]) PROVE r.left[u] >= low
    <3>1. CASE u = t
      BY <1>0, <1>2, <3>1
    <3>2. CASE u # t
      BY <1>0, <1>1, <1>2, <2>1, <3>2 DEF Good, HardGood
    <3> QED
      BY <3>1, <3>2
  <2> QED
    BY <2>1
<1>5. Sorted(r.list["hard"], r.left)
  <2>1. CASE Kind(t) = "hard"
    <3>1. Sorted(m.list[Kind(t)], m.left)
      BY <2>1 DEF Good, HardGood
    <3>2. ASSUME NEW u \in Timers, Member(u, m.list[Kind(t)])
          PROVE  /\ m.left[u] < Half /\ d - m.left[u] <= Ticks - Half
                 /\ m.timeout[u] = (m.tick + m.left[u]) % Ticks
      <4>1. m.left[u] >= low /\ m.left[u] \in Int
        BY <2>1, <3>2 DEF Good, HardGood, TimerState
      <4>2. Aligned(m, u)
        BY <1>0, <2>1, <3>2 DEF Good, KeptApart
      <4>3. m.left[u] >= -1 /\ m.left[u] < Half
        BY <4>1, <4>2 DEF Aligned
      <4>4. m.left[u] > - Ticks /\ d - m.left[u] <= Ticks - Half
        BY <1>0, <4>1, <4>3, HalfFacts
      <4> QED
        BY <4>2, <4>4 DEF Aligned
    <3>3. Sorted(r.list[Kind(t)], r.left)
      BY <1>0, <3>1, <3>2, PlacedSorted
    <3> QED
      BY <2>1, <3>3
  <2>2. CASE Kind(t) # "hard"
    <3>1. PICK z \in Seq(Timers) : z = m.list["hard"] /\ IsInjective(z)
      BY <1>0 DEF Good, KeptApart, TimerState
    <3>2. PICK f, g : f = m.left /\ g = r.left
      OBVIOUS
    <3>3. Sorted(z, f) /\ \A u \in Timers : u # t => g[u] = f[u]
      BY <1>2, <3>1, <3>2 DEF Good, HardGood
    <3>4. PICK s : s = Unlink(z, t)
      OBVIOUS
    <3>5. Sorted(s, g)
      BY ONLY <3>1, <3>3, <3>4, t \in Timers, UnlinkedSorted
    <3>6. r.list["hard"] = s
      BY <1>0, <2>2, <3>1, <3>4 DEF IsInsert
    <3> QED
      BY <3>2, <3>5, <3>6
  <2> QED
    BY <2>1, <2>2
<1>6. ThreadTimer \in r.active => Member(ThreadTimer, r.list["hard"])
  <2>1. CASE ThreadTimer = t
    BY <1>0, <1>1, <2>1, KindFacts
  <2>2. CASE ThreadTimer # t
    BY <1>0, <1>1, <1>2, <2>2 DEF Good
  <2> QED
    BY <2>1, <2>2
<1> QED
  BY <1>2, <1>3, <1>4, <1>5, <1>6 DEF Good, HardGood

\* Other fields may change.
LEMMA GoodSame ==
  ASSUME NEW m, NEW low, Good(m, low), NEW r \in TimerState,
         r.list = m.list, r.left = m.left, r.timeout = m.timeout, r.tick = m.tick,
         r.active = m.active, r.early = m.early
  PROVE  Good(r, low)
BY DEF Good, KeptApart, HardGood, Aligned

LEMMA InitDelay ==
  ASSUME NEW m \in TimerState, NEW t \in Hard \cup Soft
  PROVE  m.init[t] \in 0 .. Half - 1 /\ m.init[t] \in Times /\ t \in Timers /\ t # ThreadTimer
<1>1. m.init[t] \in Times
  BY DEF TimerState
<1>2. m.init[t] \in 1 .. Half - 1 /\ Half \in Nat
  BY <1>1, HalfFacts
<1>3. m.init[t] \in 0 .. Half - 1
  BY <1>2
<1>4. t \in Timers /\ t # ThreadTimer
  BY TimerAssumption DEF Timers
<1> QED
  BY <1>1, <1>3, <1>4

LEMMA StopGood ==
  ASSUME NEW m, NEW low \in Int, Good(m, low), NEW t \in Timers
  PROVE  Good(rt_timer_stop(m, t), low)
<1>1. PICK r : r = rt_timer_stop(m, t)
  OBVIOUS
<1>2. IsStop(m, t, r)
  BY <1>1, GoodApart, StopIs
<1>3. /\ r \in TimerState /\ SameElsewhere(m, r, t) /\ r.tick = m.tick /\ r.early = FALSE
      /\ \A l \in ListKinds : r.list[l] = Unlink(m.list[l], t)
      /\ m.active \ {t} \subseteq r.active /\ r.active \subseteq m.active
      /\ ThreadTimer \in r.active => ThreadTimer # t
  BY <1>2 DEF IsStop, SameFields, Good
<1>4. Good(r, low)
  BY ONLY <1>3, Good(m, low), low \in Int, t \in Timers, GoodUnlink
<1> QED
  BY <1>1, <1>4

LEMMA ReadyIs ==
  ASSUME NEW p \in TimerState, NEW x \in {"READY", "SUSPEND"}, NEW r, r = [p EXCEPT !.stat = x]
  PROVE  /\ r \in TimerState /\ r.stat = x
         /\ r.list = p.list /\ r.left = p.left /\ r.timeout = p.timeout /\ r.tick = p.tick
         /\ r.active = p.active /\ r.early = p.early /\ r.init = p.init
         /\ r.periodic = p.periodic /\ r.local = p.local /\ r.busy = p.busy
BY DEF TimerState

LEMMA ResumeGood ==
  ASSUME NEW m, NEW low \in Int, Good(m, low)
  PROVE  Good(ResumeTimerThread(m), low)
<1>0. ThreadTimer \in Timers
  BY DEF Timers
<1>1. PICK p : p = rt_timer_stop(m, ThreadTimer)
  OBVIOUS
<1>2. Good(p, low)
  BY <1>0, <1>1, StopGood
<1>3. PICK r : r = [p EXCEPT !.stat = "READY"]
  OBVIOUS
<1>4. p \in TimerState
  BY <1>2 DEF Good
<1>5. Good(r, low)
  BY <1>2, <1>3, <1>4, ReadyIs, GoodSame
<1> QED
  BY <1>1, <1>3, <1>5 DEF ResumeTimerThread

LEMMA InsertGood ==
  ASSUME NEW m, NEW low \in {-1, 0}, Good(m, low), NEW t \in Timers, NEW d \in 0 .. Half - 1
  PROVE  Good(InsertTimer(m, t, d), low)
<1>1. PICK r : r = InsertTimer(m, t, d)
  OBVIOUS
<1>2. IsInsert(m, t, d, r) /\ IsPlaced(m, t, d, r)
  BY <1>1, GoodApart, InsertIs
<1>3. Good(r, low)
  BY <1>2, GoodInsert
<1> QED
  BY <1>1, <1>3

LEMMA StartGood ==
  ASSUME NEW m, NEW low \in {-1, 0}, Good(m, low), NEW t \in Hard \cup Soft
  PROVE  Good(rt_timer_start(m, t), low)
<1>0. m \in TimerState /\ low \in Int
  BY DEF Good
<1>1. PICK d \in 0 .. Half - 1 : d = m.init[t] /\ t \in Timers
  BY <1>0, InitDelay
<1>2. PICK r : r = InsertTimer(m, t, d)
  OBVIOUS
<1>3. Good(r, low)
  BY <1>1, <1>2, InsertGood
<1>4. rt_timer_start(m, t) = r \/ rt_timer_start(m, t) = ResumeTimerThread(r)
  BY <1>1, <1>2 DEF rt_timer_start
<1> QED
  BY <1>0, <1>3, <1>4, ResumeGood

LEMMA SleepGood ==
  ASSUME NEW m, NEW low \in {-1, 0}, Good(m, low), NEW d \in 0 .. Half - 1
  PROVE  Good(SleepFor(m, d), low)
<1>0. ThreadTimer \in Timers /\ low \in Int
  BY DEF Timers
<1>1. PICK p : p = rt_timer_stop(m, ThreadTimer)
  OBVIOUS
<1>2. Good(p, low) /\ p \in TimerState
  BY <1>0, <1>1, StopGood DEF Good
<1>3. PICK r : r = [p EXCEPT !.stat = "SUSPEND"]
  OBVIOUS
<1>4. Good(r, low)
  BY <1>2, <1>3, ReadyIs, GoodSame
<1> QED
  BY <1>0, <1>1, <1>3, <1>4, InsertGood DEF SleepFor

\* A timer that has expired is taken off its list.
IsTake(m, t, r) ==
  /\ r \in TimerState /\ SameElsewhere(m, r, t)
  /\ r.tick = m.tick /\ r.init = m.init /\ r.periodic = m.periodic
  /\ r.busy = m.busy /\ r.stat = m.stat
  /\ \A l \in ListKinds : r.list[l] = Unlink(m.list[l], t)
  /\ r.local = <<t>> /\ r.active = (IF t \in m.periodic THEN m.active ELSE m.active \ {t})
  /\ r.early = (m.early \/ m.left[t] > 0)

LEMMA TakeIs ==
  ASSUME NEW m, ListsApart(m), NEW t \in Timers
  PROVE  IsTake(m, t, TakeExpired(m, t))
<1>0. PICK r : r = TakeExpired(m, t)
  OBVIOUS
<1>1. PICK q : q = _timer_remove(m, t)
  OBVIOUS
<1>2. /\ q \in TimerState /\ SameFields(m, q) /\ SameElsewhere(m, q, t)
      /\ \A l \in ListKinds : q.list[l] = Unlink(m.list[l], t)
      /\ q.active = m.active
  BY <1>1, RemoveIs
<1>3. PICK a : a = (IF t \in m.periodic THEN m.active ELSE m.active \ {t})
  OBVIOUS
<1>4. a \in SUBSET Timers
  BY <1>3 DEF ListsApart, TimerState
<1>5. PICK e \in BOOLEAN : e = (m.early \/ m.left[t] > 0)
  OBVIOUS
<1>6. r = [q EXCEPT !.active = a, !.local = <<t>>, !.early = e]
  BY <1>0, <1>1, <1>2, <1>3, <1>5 DEF TakeExpired, SameFields, TimerState
<1>7. PICK o : o = <<t>> /\ o \in {<<>>} \cup {<<u>> : u \in Timers}
  OBVIOUS
<1>8. r = [q EXCEPT !.active = a, !.local = o, !.early = e]
  BY <1>6, <1>7
<1>9. /\ r \in TimerState /\ r.active = a /\ r.local = o /\ r.early = e
      /\ r.tick = q.tick /\ r.init = q.init /\ r.periodic = q.periodic
      /\ r.busy = q.busy /\ r.stat = q.stat /\ r.list = q.list
      /\ r.left = q.left /\ r.timeout = q.timeout
  BY <1>2, <1>4, <1>5, <1>7, <1>8 DEF TimerState
<1> QED
  BY <1>0, <1>2, <1>3, <1>5, <1>7, <1>9 DEF SameFields, SameElsewhere, IsTake

LEMMA TakeGood ==
  ASSUME NEW m, NEW low \in Int, Good(m, low), NEW t \in Timers, m.left[t] <= 0
  PROVE  Good(TakeExpired(m, t), low)
<1>1. PICK r : r = TakeExpired(m, t)
  OBVIOUS
<1>0. ListsApart(m)
  BY GoodApart
<1>7. IsTake(m, t, r)
  BY <1>0, <1>1, TakeIs
<1>2. ListsApart(m) /\ m.left[t] \in Int /\ m.early = FALSE /\ ThreadTimer \notin m.periodic
  BY GoodApart, TimerAssumption DEF Good, TimerState
<1>3. /\ r \in TimerState /\ SameElsewhere(m, r, t) /\ r.tick = m.tick
      /\ \A l \in ListKinds : r.list[l] = Unlink(m.list[l], t)
  BY <1>7 DEF IsTake
<1>4. r.early = FALSE
  <2>1. r.early = (m.early \/ m.left[t] > 0)
    BY <1>7 DEF IsTake
  <2>2. ~(m.left[t] > 0)
    BY <1>2
  <2> QED
    BY <1>2, <2>1, <2>2
<1>5. /\ m.active \ {t} \subseteq r.active /\ r.active \subseteq m.active
      /\ ThreadTimer \in r.active => ThreadTimer # t
  <2>1. r.active = (IF t \in m.periodic THEN m.active ELSE m.active \ {t})
    BY <1>7 DEF IsTake
  <2> QED
    BY <1>2, <2>1
<1>6. Good(r, low)
  BY ONLY <1>3, <1>4, <1>5, Good(m, low), low \in Int, t \in Timers, GoodUnlink
<1> QED
  BY <1>1, <1>6

LEMMA ExpiredIs ==
  ASSUME NEW m \in TimerState, NEW u \in Timers, Aligned(m, u)
  PROVE  /\ Expired(m, u) => m.left[u] <= 0
         /\ - Half < m.left[u] /\ m.left[u] <= 0 => Expired(m, u)
<1>1. PICK a \in Int : a = m.left[u]
  BY DEF TimerState
<1>2. PICK now \in Tick : now = m.tick
  BY DEF TimerState
<1>3. a < Half /\ (a > - Ticks => m.timeout[u] = (now + a) % Ticks)
  BY <1>1, <1>2 DEF Aligned
<1>4. CASE - Half < a
  <2>1. a > - Ticks
    BY <1>4, HalfFacts
  <2>2. (now - ((now + a) % Ticks)) % Ticks < Half <=> a <= 0
    BY <1>3, <1>4, ExpiredMeans
  <2> QED
    BY <1>1, <1>2, <1>3, <2>1, <2>2 DEF Expired
<1>5. CASE ~(- Half < a)
  BY <1>1, <1>5, HalfFacts
<1> QED
  BY <1>4, <1>5

\* The first timer of a list.
LEMMA HeadIs ==
  ASSUME NEW m, NEW low \in {-1, 0}, Good(m, low), NEW l \in ListKinds, m.list[l] # <<>>
  PROVE  /\ Head(m.list[l]) \in Timers /\ Member(Head(m.list[l]), m.list[l])
         /\ Kind(Head(m.list[l])) = l /\ Aligned(m, Head(m.list[l]))
         /\ Expired(m, Head(m.list[l])) => m.left[Head(m.list[l])] <= 0
<1>0. m \in TimerState
  BY DEF Good
<1>1. PICK s \in Seq(Timers) : s = m.list[l]
  BY <1>0 DEF TimerState
<1>2. PICK t : t = Head(s)
  OBVIOUS
<1>3. t \in Timers /\ Member(t, s)
  BY <1>1, <1>2, EmptyFacts
<1>4. Kind(t) = l /\ Aligned(m, t)
  BY <1>1, <1>3 DEF Good, KeptApart
<1>5. Expired(m, t) => m.left[t] <= 0
  BY <1>0, <1>3, <1>4, ExpiredIs
<1> QED
  BY <1>1, <1>2, <1>3, <1>4, <1>5

\* In a list in order, the first is the first that is due.
LEMMA HeadLeast ==
  ASSUME NEW s \in Seq(Timers), s # <<>>, NEW f, Sorted(s, f), \A u \in Timers : f[u] \in Int,
         NEW u, Member(u, s)
  PROVE  f[Head(s)] <= f[u]
<1>1. PICK i \in 1 .. Len(s) : s[i] = u /\ u \in Timers
  BY DEF Member
<1>2. Len(s) \in Nat /\ Len(s) >= 1 /\ Head(s) = s[1] /\ DOMAIN s = 1 .. Len(s) /\ 1 \in DOMAIN s
  BY <1>1
<1>3. CASE i = 1
  BY <1>1, <1>2, <1>3
<1>4. CASE i > 1
  BY <1>1, <1>2, <1>4 DEF Sorted
<1> QED
  BY <1>1, <1>2, <1>3, <1>4

LEMMA CallbackGood ==
  ASSUME NEW m, NEW low \in {-1, 0}, Good(m, low), NEW t \in Timers,
         NEW does \in {"nothing", "stop", "start"}
  PROVE  Good(HardCallback(m, t, does), low)
<1>0. low \in Int /\ m \in TimerState
  BY DEF Good
<1>1. CASE t = ThreadTimer
  <2>1. PICK r : r = [m EXCEPT !.stat = "READY"]
    OBVIOUS
  <2>2. Good(r, low)
    BY <1>0, <2>1, ReadyIs, GoodSame
  <2> QED
    BY <1>1, <2>1, <2>2 DEF HardCallback
<1>2. CASE t # ThreadTimer
  <2>1. t \in Hard \cup Soft
    BY <1>2 DEF Timers
  <2>2. CASE does = "nothing"
    BY <1>2, <2>2 DEF HardCallback
  <2>3. CASE does = "stop"
    <3>1. HardCallback(m, t, does) = rt_timer_stop(m, t)
      BY <1>2, <2>3 DEF HardCallback
    <3> QED
      BY <1>0, <3>1, StopGood
  <2>4. CASE does = "start"
    <3>1. HardCallback(m, t, does) = rt_timer_start(m, t)
      BY <1>2, <2>4 DEF HardCallback
    <3> QED
      BY <2>1, <3>1, StartGood
  <2> QED
    BY <2>2, <2>3, <2>4
<1> QED
  BY <1>1, <1>2

LEMMA LocalIs ==
  ASSUME NEW m \in TimerState, NEW o \in {<<>>} \cup {<<u>> : u \in Timers},
         NEW r, r = [m EXCEPT !.local = o]
  PROVE  /\ r \in TimerState /\ r.local = o
         /\ r.list = m.list /\ r.left = m.left /\ r.timeout = m.timeout /\ r.tick = m.tick
         /\ r.active = m.active /\ r.early = m.early /\ r.init = m.init
         /\ r.periodic = m.periodic /\ r.stat = m.stat /\ r.busy = m.busy
BY DEF TimerState

LEMMA LocalGood ==
  ASSUME NEW m, NEW low, Good(m, low), NEW o \in {<<>>} \cup {<<u>> : u \in Timers}
  PROVE  Good([m EXCEPT !.local = o], low)
<1>1. PICK r : r = [m EXCEPT !.local = o]
  OBVIOUS
<1>2. m \in TimerState
  BY DEF Good
<1>3. Good(r, low)
  BY <1>1, <1>2, LocalIs, GoodSame
<1> QED
  BY <1>1, <1>3

LEMMA AfterGood ==
  ASSUME NEW m, NEW low \in {-1, 0}, Good(m, low)
  PROVE  Good(AfterCallback(m), low)
<1>0. m \in TimerState
  BY DEF Good
<1>1. PICK o : o = <<>> /\ o \in {<<>>} \cup {<<u>> : u \in Timers}
  OBVIOUS
<1>2. PICK r : r = [m EXCEPT !.local = o]
  OBVIOUS
<1>3. Good(r, low) /\ r \in TimerState
  BY <1>1, <1>2, LocalGood DEF Good
<1>4. \/ AfterCallback(m) = m \/ AfterCallback(m) = r
      \/ Head(m.local) \in r.periodic /\ AfterCallback(m) = rt_timer_start(r, Head(m.local))
  BY <1>1, <1>2 DEF AfterCallback
<1>5. r.periodic \subseteq Hard \cup Soft
  BY <1>3 DEF TimerState
<1> QED
  BY <1>3, <1>4, <1>5, StartGood

\* In the tick handler a hard timer may be overdue by one tick.
Low == IF handler_at = "none" THEN 0 ELSE -1

HardInv ==
  /\ TimersTyped /\ Good(timing, Low)
  /\ thread_at = "delay" => next_timeout < Half

LEMMA HardInit == TimersInit => HardInv
<1> SUFFICES ASSUME TimersInit PROVE HardInv
  OBVIOUS
<1>1. PICK tm \in [Hard \cup Soft -> Times], per \in SUBSET (Hard \cup Soft) :
         timing = [tick     |-> 0,
                   list     |-> [l \in ListKinds |-> <<>>],
                   timeout  |-> [t \in Timers |-> 0],
                   init     |-> tm,
                   periodic |-> per,
                   active   |-> {},
                   local    |-> <<>>,
                   busy     |-> FALSE,
                   stat     |-> "READY",
                   left     |-> [t \in Timers |-> 0],
                   early    |-> FALSE]
  BY DEF TimersInit
<1>2. 0 \in Tick /\ Half \in Nat
  BY HalfFacts DEF Tick
<1>3. PICK e \in Seq(Timers) : e = <<>>
  BY EmptySeq
<1>4. [l \in ListKinds |-> <<>>] \in [ListKinds -> Seq(Timers)]
  BY <1>3
<1>5. timing \in TimerState
  BY <1>1, <1>2, <1>4 DEF TimerState
<1>6. \A l \in ListKinds : timing.list[l] = e
  BY <1>1, <1>3
<1>7. IsInjective(e) /\ \A u : ~ Member(u, e)
  BY <1>3 DEF IsInjective, Member
<1>8. Sorted(e, timing.left) /\ "hard" \in ListKinds
  BY <1>3 DEF Sorted, ListKinds
<1>9. Good(timing, Low)
  BY <1>1, <1>5, <1>6, <1>7, <1>8 DEF Good, KeptApart, HardGood
<1> QED
  BY <1>2, <1>5, <1>9 DEF HardInv, TimersTyped, TimersInit, ThreadPlaces

\* A tick brings every linked timer nearer by one.
TickOf(m) ==
  [m EXCEPT !.tick = (@ + 1) % Ticks,
            !.left = [t \in Timers |-> IF \E l \in ListKinds : Member(t, m.list[l])
                                       THEN @[t] - 1 ELSE @[t]]]

LEMMA TickIs ==
  ASSUME NEW m \in TimerState, NEW r, r = TickOf(m)
  PROVE  /\ r \in TimerState /\ r.tick = (m.tick + 1) % Ticks
         /\ r.list = m.list /\ r.timeout = m.timeout /\ r.init = m.init /\ r.active = m.active
         /\ r.periodic = m.periodic /\ r.local = m.local /\ r.early = m.early
         /\ r.stat = m.stat /\ r.busy = m.busy
         /\ \A u \in Timers, l \in ListKinds : Member(u, m.list[l]) => r.left[u] = m.left[u] - 1
<1>1. PICK now : now = (m.tick + 1) % Ticks
  OBVIOUS
<1>2. now \in Tick
  BY <1>1, HalfFacts, AheadIs DEF TimerState
<1>3. PICK f : f = [t \in Timers |-> IF \E l \in ListKinds : Member(t, m.list[l])
                                   THEN m.left[t] - 1 ELSE m.left[t]]
  OBVIOUS
<1>4. /\ f \in [Timers -> Int]
      /\ \A u \in Timers, l \in ListKinds : Member(u, m.list[l]) => f[u] = m.left[u] - 1
  BY <1>3 DEF TimerState
<1>5. r = [m EXCEPT !.tick = now, !.left = f]
  BY <1>1, <1>3 DEF TickOf
<1>6. /\ r \in TimerState /\ r.tick = now /\ r.left = f
      /\ r.list = m.list /\ r.timeout = m.timeout /\ r.init = m.init /\ r.active = m.active
      /\ r.periodic = m.periodic /\ r.local = m.local /\ r.early = m.early
      /\ r.stat = m.stat /\ r.busy = m.busy
  BY <1>2, <1>4, <1>5 DEF TimerState
<1> QED
  BY <1>1, <1>4, <1>6

LEMMA TickSorted ==
  ASSUME NEW s \in Seq(Timers), NEW f, NEW g, Sorted(s, f), \A u \in Timers : f[u] \in Int,
         \A u \in Timers : Member(u, s) => g[u] = f[u] - 1
  PROVE  Sorted(s, g)
<1>1. \A i \in DOMAIN s : s[i] \in Timers /\ f[s[i]] \in Int
  OBVIOUS
<1>2. \A i \in DOMAIN s : g[s[i]] = f[s[i]] - 1
  BY <1>1 DEF Member
<1> QED
  BY <1>1, <1>2 DEF Sorted

LEMMA TickGood ==
  ASSUME NEW m, Good(m, 0)
  PROVE  Good(TickOf(m), -1)
<1>0. m \in TimerState /\ "hard" \in ListKinds
  BY DEF Good, ListKinds
<1>1. PICK r : r = TickOf(m)
  OBVIOUS
<1>2. /\ r \in TimerState /\ r.tick = (m.tick + 1) % Ticks
      /\ r.list = m.list /\ r.timeout = m.timeout /\ r.active = m.active /\ r.early = m.early
      /\ \A u \in Timers, l \in ListKinds : Member(u, m.list[l]) => r.left[u] = m.left[u] - 1
  BY <1>0, <1>1, TickIs
<1>3. ASSUME NEW l \in ListKinds, NEW u \in Timers, Member(u, m.list[l])
      PROVE  Kind(u) = l /\ u \in r.active /\ Aligned(r, u)
  <2>1. Kind(u) = l /\ u \in m.active /\ Aligned(m, u)
    BY <1>3 DEF Good, KeptApart
  <2>2. PICK a \in Int : a = m.left[u] /\ r.left[u] = a - 1
    BY <1>0, <1>2, <1>3 DEF TimerState
  <2>3. PICK now \in Tick : now = m.tick
    BY <1>0 DEF TimerState
  <2>4. a < Half /\ (a > - Ticks => m.timeout[u] = (now + a) % Ticks)
    BY <2>1, <2>2, <2>3 DEF Aligned
  <2>5. a - 1 < Half /\ a < Ticks /\ (a - 1 > - Ticks => a > - Ticks /\ - Ticks < a - 1)
    BY <2>4, HalfFacts
  <2>6. a - 1 > - Ticks => (((now + 1) % Ticks) + (a - 1)) % Ticks = (now + a) % Ticks
    BY <2>5, TickOn
  <2>7. Aligned(r, u)
    BY <1>2, <2>2, <2>3, <2>4, <2>5, <2>6 DEF Aligned
  <2> QED
    BY <1>2, <2>1, <2>7
<1>4. KeptApart(r)
  BY <1>2, <1>3 DEF Good, KeptApart
<1>5. HardGood(r, -1)
  <2>1. PICK s \in Seq(Timers) : s = m.list["hard"]
    BY <1>0 DEF TimerState
  <2>2. PICK f, g : f = m.left /\ g = r.left
    OBVIOUS
  <2>3. Sorted(s, f) /\ (\A u \in Timers : f[u] \in Int)
        /\ (\A u \in Timers : Member(u, s) => g[u] = f[u] - 1)
    BY <1>0, <1>2, <2>1, <2>2 DEF Good, HardGood, TimerState
  <2>4. Sorted(s, g)
    BY ONLY <2>1, <2>3, TickSorted
  <2>5. \A u \in Timers : Member(u, s) => g[u] >= -1
    BY <2>1, <2>2, <2>3 DEF Good, HardGood
  <2> QED
    BY <1>2, <2>1, <2>2, <2>4, <2>5 DEF HardGood
<1>6. Good(r, -1)
  BY <1>2, <1>4, <1>5 DEF Good
<1> QED
  BY <1>1, <1>6

\* The handler stays where it is, and so does the delay.
LEMMA HardKeeps ==
  ASSUME HardInv, handler_at' = handler_at, thread_at' = thread_at,
         next_timeout' = next_timeout, slack' = slack, Good(timing', Low)
  PROVE  HardInv'
BY DEF HardInv, TimersTyped, Good, Low

LEMMA LowIs ==
  Low \in {-1, 0} /\ Low \in Int /\ (handler_at' = handler_at => Low' = Low)
BY DEF Low

LEMMA FlagsGood ==
  ASSUME NEW m, NEW low, Good(m, low), NEW t \in Hard \cup Soft
  PROVE  /\ \A d \in Times : Good([m EXCEPT !.init[t] = d], low)
         /\ Good([m EXCEPT !.periodic = @ \cup {t}], low)
         /\ Good([m EXCEPT !.periodic = @ \ {t}], low)
<1>0. m \in TimerState
  BY DEF Good
<1>1. ASSUME NEW d \in Times PROVE Good([m EXCEPT !.init[t] = d], low)
  <2>1. PICK i \in [Hard \cup Soft -> Times] : i = [m.init EXCEPT ![t] = d]
    BY <1>0 DEF TimerState
  <2>2. PICK r : r = [m EXCEPT !.init = i]
    OBVIOUS
  <2>3. /\ r \in TimerState /\ r.list = m.list /\ r.left = m.left /\ r.timeout = m.timeout
        /\ r.tick = m.tick /\ r.active = m.active /\ r.early = m.early
    BY <1>0, <2>1, <2>2 DEF TimerState
  <2>4. Good(r, low)
    BY <2>3, GoodSame
  <2> QED
    BY <2>1, <2>2, <2>4
<1>2. ASSUME NEW p \in SUBSET (Hard \cup Soft) PROVE Good([m EXCEPT !.periodic = p], low)
  <2>1. PICK r : r = [m EXCEPT !.periodic = p]
    OBVIOUS
  <2>2. /\ r \in TimerState /\ r.list = m.list /\ r.left = m.left /\ r.timeout = m.timeout
        /\ r.tick = m.tick /\ r.active = m.active /\ r.early = m.early
    BY <1>0, <2>1 DEF TimerState
  <2>3. Good(r, low)
    BY <2>2, GoodSame
  <2> QED
    BY <2>1, <2>3
<1>3. m.periodic \cup {t} \in SUBSET (Hard \cup Soft) /\ m.periodic \ {t} \in SUBSET (Hard \cup Soft)
  BY <1>0 DEF TimerState
<1> QED
  BY <1>1, <1>2, <1>3

LEMMA HardRound ==
  ASSUME HardInv, NEW does \in {"nothing", "stop", "start"}, rt_timer_check(does)
  PROVE  HardInv'
<1>1. PICK t : t = Head(timing.list["hard"])
  OBVIOUS
<1>2. PICK m : m = timing
  OBVIOUS
<1>3. Good(m, Low) /\ Low \in {-1, 0} /\ Low \in Int /\ "hard" \in ListKinds /\ m \in TimerState
  BY <1>2, LowIs DEF HardInv, Good, ListKinds
<1>4. m.list["hard"] # <<>> /\ Expired(m, Head(m.list["hard"]))
  BY <1>2 DEF rt_timer_check, HeadExpired
<1>5. t \in Timers /\ m.left[t] <= 0
  BY <1>1, <1>2, <1>3, <1>4, HeadIs
<1>6. PICK q : q = TakeExpired(m, t)
  OBVIOUS
<1>7. Good(q, Low)
  BY <1>3, <1>5, <1>6, TakeGood
<1>8. PICK p : p = HardCallback(q, t, does)
  OBVIOUS
<1>9. Good(p, Low)
  BY <1>3, <1>5, <1>7, <1>8, CallbackGood
<1>10. PICK r : r = AfterCallback(p)
  OBVIOUS
<1>11. Good(r, Low)
  BY <1>3, <1>9, <1>10, AfterGood
<1>12. PICK o \in {<<>>} \cup {<<u>> : u \in Timers} : o = m.local
  BY <1>3 DEF TimerState
<1>13. timing' = [r EXCEPT !.local = o]
  BY <1>1, <1>2, <1>6, <1>8, <1>10, <1>12 DEF rt_timer_check
<1>14. PICK z : z = [r EXCEPT !.local = o]
  OBVIOUS
<1>15. Good(z, Low)
  BY <1>11, <1>14, LocalGood
<1>16. /\ handler_at' = handler_at /\ thread_at' = thread_at
       /\ next_timeout' = next_timeout /\ slack' = slack
  BY DEF rt_timer_check
<1> QED
  BY <1>13, <1>14, <1>15, <1>16, HardKeeps

\* When the handler ends, the first hard timer is due later.
LEMMA HardEnd ==
  ASSUME HardInv, TickEnd
  PROVE  HardInv'
<1>1. PICK m : m = timing
  OBVIOUS
<1>2. Good(m, -1) /\ m \in TimerState /\ "hard" \in ListKinds
  BY <1>1 DEF HardInv, Good, TickEnd, Low, ListKinds
<1>3. PICK s \in Seq(Timers) : s = m.list["hard"]
  BY <1>2 DEF TimerState
<1>4. ASSUME NEW u \in Timers, Member(u, s) PROVE m.left[u] >= 0
  <2>1. s # <<>>
    BY <1>4 DEF Member
  <2>2. PICK t : t = Head(s)
    OBVIOUS
  <2>3. t \in Timers /\ Member(t, s) /\ Aligned(m, t)
    BY <1>2, <1>3, <2>1, <2>2, HeadIs
  <2>4. PICK f : f = m.left
    OBVIOUS
  <2>5. Sorted(s, f) /\ \A x \in Timers : f[x] \in Int
    BY <1>2, <1>3, <2>4 DEF Good, HardGood, TimerState
  <2>6. f[Head(s)] <= f[u]
    BY ONLY <1>3, <1>4, <2>1, <2>5, HeadLeast
  <2>7. f[t] >= -1 /\ f[t] \in Int /\ f[u] \in Int
    BY <1>2, <1>3, <2>3, <2>4, <2>5 DEF Good, HardGood
  <2>8. ~ Expired(m, t)
    BY <1>1, <1>3, <2>1, <2>2 DEF TickEnd, HeadExpired
  <2>9. - Half < m.left[t] /\ m.left[t] <= 0 => Expired(m, t)
    BY <1>2, <2>3, ExpiredIs
  <2>10. ~(f[t] <= 0)
    BY <2>4, <2>7, <2>8, <2>9, HalfFacts
  <2> QED
    BY <2>2, <2>4, <2>6, <2>7, <2>10
<1>5. Good(m, 0)
  BY <1>2, <1>3, <1>4 DEF Good, HardGood
<1> QED
  BY <1>1, <1>5 DEF HardInv, TimersTyped, TickEnd, Low

\* The thread goes on, and its variables have their types.
LEMMA HardMoves ==
  ASSUME HardInv, handler_at' = handler_at, thread_at' \in ThreadPlaces,
         next_timeout' \in Tick, slack' \in Nat,
         thread_at' = "delay" => next_timeout' < Half, Good(timing', Low)
  PROVE  HardInv'
BY DEF HardInv, TimersTyped, Good, Low

LEMMA BusyIs ==
  ASSUME NEW m \in TimerState, NEW x \in BOOLEAN, NEW r, r = [m EXCEPT !.busy = x]
  PROVE  /\ r \in TimerState /\ r.busy = x
         /\ r.list = m.list /\ r.left = m.left /\ r.timeout = m.timeout /\ r.tick = m.tick
         /\ r.active = m.active /\ r.early = m.early /\ r.init = m.init
         /\ r.periodic = m.periodic /\ r.stat = m.stat /\ r.local = m.local
BY DEF TimerState

LEMMA BusyGood ==
  ASSUME NEW m, NEW low, Good(m, low), NEW x \in BOOLEAN
  PROVE  Good([m EXCEPT !.busy = x], low)
<1>1. PICK r : r = [m EXCEPT !.busy = x]
  OBVIOUS
<1>2. m \in TimerState
  BY DEF Good
<1>3. Good(r, low)
  BY <1>1, <1>2, BusyIs, GoodSame
<1> QED
  BY <1>1, <1>3

LEMMA HardNext ==
  ASSUME HardInv, NEW m, Good(m, Low), NextExpired(m)
  PROVE  HardInv'
<1>1. Low \in {-1, 0} /\ Low \in Int /\ "soft" \in ListKinds /\ TRUE \in BOOLEAN
  BY LowIs DEF ListKinds
<1>2. Good(timing', Low)
  <2>1. CASE HeadExpired(m, "soft")
    <3>1. m.list["soft"] # <<>> /\ Expired(m, Head(m.list["soft"]))
      BY <2>1 DEF HeadExpired
    <3>2. PICK t : t = Head(m.list["soft"])
      OBVIOUS
    <3>3. t \in Timers /\ m.left[t] <= 0
      BY <1>1, <3>1, <3>2, HeadIs
    <3>4. Good(TakeExpired(m, t), Low)
      BY <1>1, <3>3, TakeGood
    <3>5. PICK q : q = TakeExpired(m, t)
      OBVIOUS
    <3>6. Good([q EXCEPT !.busy = TRUE], Low)
      BY <1>1, <3>4, <3>5, BusyGood
    <3> QED
      BY <2>1, <3>2, <3>5, <3>6 DEF NextExpired
  <2>2. CASE ~ HeadExpired(m, "soft")
    BY <2>2 DEF NextExpired
  <2> QED
    BY <2>1, <2>2
<1>3. 0 \in Tick
  BY HalfFacts DEF Tick
<1> QED
  BY <1>2, <1>3, HardMoves DEF NextExpired, ThreadPlaces

LEMMA HardUser ==
  ASSUME HardInv, NEW t \in Hard \cup Soft, UserStarts(t) \/ UserStops(t) \/ UserControls(t)
  PROVE  HardInv'
<1>1. Low \in {-1, 0} /\ Low \in Int /\ Good(timing, Low) /\ t \in Timers
  BY LowIs DEF HardInv, Timers
<1>2. CASE UserStarts(t)
  <2>1. Good(timing', Low)
    BY <1>1, <1>2, StartGood DEF UserStarts
  <2> QED
    BY <1>2, <2>1, HardKeeps DEF UserStarts
<1>3. CASE UserStops(t)
  <2>1. Good(timing', Low)
    BY <1>1, <1>3, StopGood DEF UserStops
  <2> QED
    BY <1>3, <2>1, HardKeeps DEF UserStops
<1>4. CASE UserControls(t)
  <2>1. /\ \A d \in Times : Good([timing EXCEPT !.init[t] = d], Low)
        /\ Good([timing EXCEPT !.periodic = @ \cup {t}], Low)
        /\ Good([timing EXCEPT !.periodic = @ \ {t}], Low)
    BY <1>1, FlagsGood
  <2>2. \/ \E d \in Times : timing' = [timing EXCEPT !.init[t] = d]
        \/ timing' = [timing EXCEPT !.periodic = @ \cup {t}]
        \/ timing' = [timing EXCEPT !.periodic = @ \ {t}]
    BY <1>4 DEF UserControls
  <2>3. Good(timing', Low)
    BY <2>1, <2>2
  <2> QED
    BY <1>4, <2>3, HardKeeps DEF UserControls
<1> QED
  BY <1>2, <1>3, <1>4

LEMMA HardTick ==
  ASSUME HardInv, TickIncrease
  PROVE  HardInv'
<1>1. Good(timing, 0)
  BY DEF HardInv, TickIncrease, TickDue, Low
<1>2. timing' = TickOf(timing)
  BY DEF TickIncrease, TickOf
<1>3. Good(timing', -1)
  BY <1>1, <1>2, TickGood
<1>4. handler_at' = "check" /\ thread_at' = thread_at /\ next_timeout' = next_timeout /\ slack' \in Nat
  BY DEF TickIncrease, HardInv, TimersTyped
<1> QED
  BY <1>3, <1>4 DEF HardInv, TimersTyped, Good, Low

LEMMA HardThread ==
  ASSUME HardInv, ThreadStep \/ \E d \in Times : CallbackDelay(d)
  PROVE  HardInv'
<1>1. /\ Low \in {-1, 0} /\ Low \in Int /\ Good(timing, Low) /\ ThreadTimer \in Timers
      /\ FALSE \in BOOLEAN /\ timing \in TimerState /\ TimersTyped
      /\ Half \in Nat /\ Ticks \in Nat /\ 2 * Half < Ticks
  BY LowIs, HalfFacts DEF HardInv, Timers, Good
<1>2. CASE _timer_list_next_timeout
  <2>1. next_timeout' \in Tick
    <3>1. CASE timing.list["soft"] = <<>>
      BY <1>1, <1>2, <3>1 DEF _timer_list_next_timeout, TimersTyped
    <3>2. CASE timing.list["soft"] # <<>>
      <4>1. Head(timing.list["soft"]) \in Timers
        BY <1>1, <3>2, HeadIs DEF ListKinds
      <4> QED
        BY <1>1, <1>2, <3>2, <4>1 DEF _timer_list_next_timeout, TimerState
    <3> QED
      BY <3>1, <3>2
  <2>2. thread_at' \in {"empty", "found"}
    BY <1>2 DEF _timer_list_next_timeout
  <2> QED
    BY <1>1, <1>2, <2>1, <2>2, HardMoves DEF _timer_list_next_timeout, ThreadPlaces, TimersTyped
<1>3. CASE SuspendSelf
  <2>1. PICK q : q = rt_timer_stop(timing, ThreadTimer)
    OBVIOUS
  <2>2. Good(q, Low) /\ q \in TimerState
    BY <1>1, <2>1, StopGood DEF Good
  <2>3. PICK r : r = [q EXCEPT !.stat = "SUSPEND"]
    OBVIOUS
  <2>4. Good(r, Low)
    BY <2>2, <2>3, ReadyIs, GoodSame
  <2>5. timing' = r
    BY <1>3, <2>1, <2>3 DEF SuspendSelf
  <2> QED
    BY <1>1, <1>3, <2>4, <2>5, HardMoves DEF SuspendSelf, ThreadPlaces, TimersTyped
<1>4. CASE ReadTick
  <2>1. next_timeout \in Tick /\ timing.tick \in Tick
    BY <1>1 DEF TimersTyped, TimerState
  <2>2. (next_timeout - timing.tick) % Ticks \in Tick
    BY <1>1, <2>1 DEF Tick
  <2>3. CASE (next_timeout - timing.tick) % Ticks < Half
    BY <1>1, <1>4, <2>2, <2>3, HardMoves DEF ReadTick, ThreadPlaces, TimersTyped
  <2>4. CASE ~((next_timeout - timing.tick) % Ticks < Half)
    BY <1>1, <1>4, <2>1, <2>4, HardMoves DEF ReadTick, ThreadPlaces, TimersTyped
  <2> QED
    BY <2>3, <2>4
<1>5. CASE DelayThread
  <2>1. next_timeout \in 0 .. Half - 1
    BY <1>1, <1>5 DEF HardInv, TimersTyped, DelayThread, ThreadRuns, Tick
  <2>2. Good(SleepFor(timing, next_timeout), Low)
    BY <1>1, <2>1, SleepGood
  <2>3. 0 \in Tick
    BY <1>1 DEF Tick
  <2> QED
    BY <1>1, <1>5, <2>2, <2>3, HardMoves DEF DelayThread, ThreadPlaces, TimersTyped
<1>6. CASE rt_soft_timer_check
  BY <1>1, <1>6, HardNext DEF rt_soft_timer_check
<1>7. CASE CallbackEnd
  <2>1. PICK q : q = [timing EXCEPT !.busy = FALSE]
    OBVIOUS
  <2>2. Good(q, Low)
    BY <1>1, <2>1, BusyGood
  <2>3. PICK r : r = AfterCallback(q)
    OBVIOUS
  <2>4. Good(r, Low)
    BY <1>1, <2>2, <2>3, AfterGood
  <2>5. NextExpired(r)
    BY <1>7, <2>1, <2>3 DEF CallbackEnd
  <2> QED
    BY <2>4, <2>5, HardNext
<1>8. ASSUME NEW d \in Times, CallbackDelay(d) PROVE HardInv'
  <2>1. d \in 0 .. Half - 1
    <3>1. d \in 1 .. Half - 1
      BY HalfFacts
    <3> QED
      BY <3>1, <1>1
  <2>2. Good(SleepFor(timing, d), Low)
    BY <1>1, <2>1, SleepGood
  <2> QED
    BY <1>8, <2>2, HardKeeps DEF CallbackDelay
<1> QED
  BY <1>2, <1>3, <1>4, <1>5, <1>6, <1>7, <1>8 DEF ThreadStep

LEMMA HardStep == HardInv /\ [TimersNext]_timingVars => HardInv'
<1> SUFFICES ASSUME HardInv, [TimersNext]_timingVars PROVE HardInv'
  OBVIOUS
<1>1. ASSUME NEW t \in Hard \cup Soft, UserStarts(t) \/ UserStops(t) \/ UserControls(t)
      PROVE  HardInv'
  BY <1>1, HardUser
<1>2. CASE TickIncrease
  BY <1>2, HardTick
<1>3. CASE TickEnd
  BY <1>3, HardEnd
<1>4. ASSUME NEW does \in {"nothing", "stop", "start"}, rt_timer_check(does)
      PROVE  HardInv'
  BY <1>4, HardRound
<1>5. CASE ThreadStep \/ \E d \in Times : CallbackDelay(d)
  BY <1>5, HardThread
<1>6. CASE UNCHANGED timingVars
  BY <1>6 DEF HardInv, TimersTyped, Low, timingVars
<1> QED
  BY <1>1, <1>2, <1>3, <1>4, <1>5, <1>6 DEF TimersNext

LEMMA HardStays == TimersSpec => []HardInv
<1>1. TimersInit => HardInv
  BY HardInit
<1>2. HardInv /\ [TimersNext]_timingVars => HardInv'
  BY HardStep
<1> QED
  BY <1>1, <1>2, PTL DEF TimersSpec

\* The timers keep their types (timer.c).
THEOREM TimerTypes == TimersSpec => []TimersTyped
<1>1. HardInv => TimersTyped
  BY DEF HardInv
<1> QED
  BY <1>1, HardStays, PTL

\* No timer of either kind expires before its time, and when rt_timer_check
\* ends no hard timer is overdue, although the tick counter wraps around, and
\* whoever starts, stops and restarts timers, at whatever time.
THEOREM TimersOnTime == TimersSpec => []OnTime
<1>1. HardInv => OnTime
  <2> SUFFICES ASSUME HardInv PROVE OnTime
    OBVIOUS
  <2>1. timing.early = FALSE
    BY DEF HardInv, Good
  <2>2. handler_at = "none" => \A t \in Timers : Listed(t, "hard") => timing.left[t] >= 0
    BY DEF HardInv, Good, HardGood, Low, Listed
  <2> QED
    BY <2>1, <2>2 DEF OnTime
<1> QED
  BY <1>1, HardStays, PTL

-----------------------------------------------------------------------------
(* The soft timers and the timer thread *)

\* Times that rt_timer_start tells from those of overdue timers.
Unambiguous ==
  \A d \in Times : /\ d + MaxLate + 1 <= Ticks - Half
                   /\ \A e \in Times : d + e <= Ticks - Half

\* So late a soft timer may be: by MaxLate and the tick that is just counted, or
\* by what a callback that waits lets pass.
Late(x) == x >= -(MaxLate + 1) \/ \E d \in Times : x >= - d

SoftBase(m) ==
  /\ Sorted(m.list["soft"], m.left)
  /\ \/ m.local = <<>>
     \/ \E u \in Soft : m.local = <<u>> /\ ~ Member(u, m.list["soft"])
  /\ \A u \in Soft : Member(u, m.list["soft"]) => Late(m.left[u])

\* Nor will one be later when the timer thread's own timer expires.
Following(m) ==
  \A u \in Soft : Member(u, m.list["soft"]) /\ ThreadTimer \in m.active =>
    Late(m.left[u] - m.left[ThreadTimer] - 1)

SoftGood(m) == SoftBase(m) /\ Following(m)

ThreadGood(m, at, nt, sl) ==
  /\ m.busy = (at = "callback")
  /\ m.stat = "READY" => ThreadTimer \notin m.active
  /\ m.stat = "SUSPEND" => at \in {"check", "callback"}
  /\ at = "callback" /\ ThreadTimer \in m.active => \E d \in Times : m.left[ThreadTimer] <= d
  /\ at = "check" /\ m.stat = "SUSPEND" /\ m.list["soft"] # <<>> =>
       /\ ThreadTimer \in m.active
       /\ m.left[ThreadTimer] <= m.left[Head(m.list["soft"])] + sl
  /\ at = "empty" => m.list["soft"] = <<>>
  /\ at = "found" => m.list["soft"] # <<>> /\ nt = m.timeout[Head(m.list["soft"])]
  /\ at = "delay" => m.list["soft"] # <<>> /\ nt = m.left[Head(m.list["soft"])] + sl
  /\ at \in {"next", "empty", "found"} => sl = 0
  /\ sl <= MaxLate

SoftInv ==
  /\ HardInv
  /\ SoftGood(timing) /\ ThreadGood(timing, thread_at, next_timeout, slack)

LEMMA LateFacts ==
  /\ \A x, y \in Int : Late(x) /\ x <= y => Late(y)
  /\ \A x \in Int : Late(x) => x > - Half
  /\ \A x \in Int : x >= 0 => Late(x)
  /\ \A x \in Int : - MaxLate <= x + 1 => Late(x)
<1>1. Half \in Nat /\ MaxLate \in Nat /\ MaxLate <= Half - 2 /\ \A d \in Times : d \in 1 .. Half - 1
  BY HalfFacts
<1>2. ASSUME NEW x \in Int, NEW y \in Int, Late(x), x <= y PROVE Late(y)
  <2>1. CASE x >= -(MaxLate + 1)
    BY <1>1, <1>2, <2>1 DEF Late
  <2>2. ASSUME NEW d \in Times, x >= - d PROVE Late(y)
    BY <1>1, <1>2, <2>2 DEF Late
  <2> QED
    BY <1>2, <2>1, <2>2 DEF Late
<1>3. ASSUME NEW x \in Int, Late(x) PROVE x > - Half
  BY <1>1, <1>3 DEF Late
<1>4. ASSUME NEW x \in Int, x >= 0 \/ - MaxLate <= x + 1 PROVE Late(x)
  BY <1>1, <1>4 DEF Late
<1> QED
  BY <1>2, <1>3, <1>4

LEMMA LateClear ==
  ASSUME Unambiguous, NEW d \in Times, NEW x \in Int, Late(x)
  PROVE  d - x <= Ticks - Half
<1>1. Half \in Nat /\ Ticks \in Nat /\ MaxLate \in Nat /\ \A e \in Times : e \in 1 .. Half - 1
  BY HalfFacts
<1>2. CASE x >= -(MaxLate + 1)
  BY <1>1, <1>2 DEF Unambiguous
<1>3. ASSUME NEW e \in Times, x >= - e PROVE d - x <= Ticks - Half
  BY <1>1, <1>3 DEF Unambiguous
<1> QED
  BY <1>2, <1>3 DEF Late

\* The timers on the soft list are soft timers.
LEMMA SoftOn ==
  ASSUME NEW m, NEW low, Good(m, low)
  PROVE  /\ m.list["soft"] \in Seq(Timers) /\ IsInjective(m.list["soft"])
         /\ \A u : Member(u, m.list["soft"]) => u \in Soft /\ u \in Timers /\ Aligned(m, u)
<1>1. "soft" \in ListKinds
  BY DEF ListKinds
<1>2. PICK s \in Seq(Timers) : s = m.list["soft"]
  BY <1>1 DEF Good, TimerState
<1>3. ASSUME NEW u, Member(u, s) PROVE u \in Timers
  BY <1>3 DEF Member
<1>4. IsInjective(s) /\ \A u \in Timers : Member(u, s) => Kind(u) = "soft" /\ Aligned(m, u)
  BY <1>1, <1>2 DEF Good, KeptApart
<1> QED
  BY <1>2, <1>3, <1>4, KindFacts

LEMMA SoftOff ==
  ASSUME NEW m, NEW low, Good(m, low), NEW t, t \notin Soft
  PROVE  Unlink(m.list["soft"], t) = m.list["soft"]
<1>1. ~ Member(t, m.list["soft"])
  BY SoftOn
<1> QED
  BY <1>1 DEF Unlink

SoftSame(m, r) ==
  /\ r.list["soft"] = m.list["soft"]
  /\ \A u \in Soft : r.left[u] = m.left[u] /\ r.timeout[u] = m.timeout[u]

\* What does not concern the soft timers.
LEMMA BaseKept ==
  ASSUME NEW m, NEW low, Good(m, low), SoftBase(m), NEW r, SoftSame(m, r), r.local = m.local
  PROVE  SoftBase(r)
<1>1. PICK s \in Seq(Timers) : s = m.list["soft"] /\ r.list["soft"] = s
  BY SoftOn DEF SoftSame
<1>2. \A i \in DOMAIN s : r.left[s[i]] = m.left[s[i]]
  <2>1. ASSUME NEW i \in DOMAIN s PROVE r.left[s[i]] = m.left[s[i]]
    <3>1. s[i] \in Soft
      BY <1>1, SoftOn DEF Member
    <3> QED
      BY <3>1 DEF SoftSame
  <2> QED
    BY <2>1
<1>3. Sorted(s, m.left)
  BY <1>1 DEF SoftBase
<1>4. Sorted(s, r.left)
  BY <1>2, <1>3 DEF Sorted
<1>5. \A u \in Soft : Member(u, s) => Late(r.left[u])
  BY <1>1 DEF SoftSame, SoftBase
<1>6. \/ r.local = <<>>
      \/ \E u \in Soft : r.local = <<u>> /\ ~ Member(u, s)
  BY <1>1 DEF SoftBase
<1> QED
  BY <1>1, <1>4, <1>5, <1>6 DEF SoftBase

LEMMA SoftKept ==
  ASSUME NEW m, NEW low, Good(m, low), SoftGood(m), NEW r, SoftSame(m, r), r.local = m.local,
         ThreadTimer \in r.active => ThreadTimer \in m.active /\ r.left[ThreadTimer] = m.left[ThreadTimer]
  PROVE  SoftGood(r)
<1>1. SoftBase(r)
  BY BaseKept DEF SoftGood
<1>2. Following(r)
  BY DEF SoftGood, Following, SoftSame
<1> QED
  BY <1>1, <1>2 DEF SoftGood

\* To take, stop or link a hard timer leaves the soft timers alone.
LEMMA HardApart ==
  ASSUME NEW m, NEW low, Good(m, low), NEW t \in Timers, t \notin Soft, NEW r,
         SameElsewhere(m, r, t), r.list["soft"] = Unlink(m.list["soft"], t)
  PROVE  SoftSame(m, r)
BY SoftOff DEF SoftSame, SameElsewhere, Timers

\* The second and third part of SoftGood, for what is left of the soft list.
LEMMA SoftUnlink ==
  ASSUME NEW m, NEW low, Good(m, low), SoftGood(m), NEW t \in Soft,
         NEW r, SameElsewhere(m, r, t), r.list["soft"] = Unlink(m.list["soft"], t),
         r.active \subseteq m.active, r.local = Unlink(m.local, t) \/ r.local = <<t>>
  PROVE  /\ SoftGood(r)
         /\ \A u : Member(u, r.list["soft"]) <=> Member(u, m.list["soft"]) /\ u # t
<1>0. t \in Timers /\ ThreadTimer \in Timers /\ ThreadTimer # t /\ m \in TimerState
  BY TimerAssumption DEF Timers, Good
<1>1. PICK z \in Seq(Timers) : z = m.list["soft"] /\ IsInjective(z)
  BY SoftOn
<1>2. PICK s \in Seq(Timers) : s = Unlink(z, t) /\ IsInjective(s) /\ \A u : Member(u, s) <=> Member(u, z) /\ u # t
  BY <1>1, UnlinkFacts
<1>3. r.list["soft"] = s
  BY <1>1, <1>2
<1>4. Sorted(s, r.left)
  <2>1. PICK f, g : f = m.left /\ g = r.left
    OBVIOUS
  <2>2. Sorted(z, f) /\ \A u \in Timers : u # t => g[u] = f[u]
    BY <1>1, <2>1 DEF SoftGood, SoftBase, Following, SameElsewhere
  <2>3. Sorted(s, g)
    BY ONLY <1>0, <1>1, <1>2, <2>2, UnlinkedSorted
  <2> QED
    BY <2>1, <2>3
<1>5. ASSUME NEW u \in Soft, Member(u, s)
      PROVE  /\ Late(r.left[u])
             /\ ThreadTimer \in r.active => Late(r.left[u] - r.left[ThreadTimer] - 1)
  <2>1. u \in Timers /\ u # t /\ Member(u, z)
    BY <1>2, <1>5 DEF Timers
  <2>2. r.left[u] = m.left[u] /\ r.left[ThreadTimer] = m.left[ThreadTimer]
    BY <1>0, <2>1 DEF SameElsewhere
  <2> QED
    BY <1>1, <2>1, <2>2 DEF SoftGood, SoftBase, Following
<1>6. \/ r.local = <<>>
      \/ \E u \in Soft : r.local = <<u>> /\ ~ Member(u, s)
  <2>1. CASE r.local = <<t>>
    BY <1>2, <2>1
  <2>2. CASE r.local = Unlink(m.local, t)
    <3>1. r.local = IF m.local = <<t>> THEN <<>> ELSE m.local
      BY <1>0, <2>2, LocalUnlink
    <3> QED
      BY <1>1, <1>2, <3>1 DEF SoftGood, SoftBase, Following
  <2> QED
    BY <2>1, <2>2
<1> QED
  BY <1>1, <1>2, <1>3, <1>4, <1>5, <1>6 DEF SoftGood, SoftBase, Following

LEMMA SoftInsert ==
  ASSUME Unambiguous,
         NEW m, NEW low \in {-1, 0}, Good(m, low), SoftGood(m), NEW t \in Soft, NEW d \in Times,
         NEW r, IsInsert(m, t, d, r), IsPlaced(m, t, d, r)
  PROVE  /\ SoftBase(r)
         /\ (ThreadTimer \in m.active => \E e \in Times : m.left[ThreadTimer] <= e) => Following(r)
<1>0. /\ t \in Timers /\ ThreadTimer \in Timers /\ ThreadTimer # t /\ m \in TimerState
      /\ ListsApart(m) /\ Kind(t) = "soft" /\ "soft" \in ListKinds
  BY TimerAssumption, GoodApart, KindFacts DEF Timers, Good, ListKinds
<1>1. d \in 0 .. Half - 1 /\ d \in Int /\ d >= 1
  <2>1. d \in 1 .. Half - 1 /\ Half \in Nat
    BY HalfFacts
  <2> QED
    BY <2>1
<1>2. \A u : Member(u, r.list["soft"]) <=> (Member(u, m.list["soft"]) /\ u # t) \/ u = t
  BY <1>0, <1>1, InsertedLists
<1>3. ASSUME NEW u \in Timers, Member(u, m.list["soft"])
      PROVE  /\ m.left[u] < Half /\ d - m.left[u] <= Ticks - Half
             /\ m.timeout[u] = (m.tick + m.left[u]) % Ticks
  <2>1. u \in Soft /\ Aligned(m, u) /\ m.left[u] \in Int
    BY <1>0, <1>3, SoftOn DEF TimerState
  <2>2. Late(m.left[u])
    BY <1>3, <2>1 DEF SoftGood, SoftBase, Following
  <2>3. d - m.left[u] <= Ticks - Half /\ m.left[u] > - Half
    BY <2>1, <2>2, LateClear, LateFacts
  <2>4. m.left[u] > - Ticks
    BY <2>1, <2>3, HalfFacts
  <2> QED
    BY <2>1, <2>3, <2>4 DEF Aligned
<1>4. Sorted(m.list[Kind(t)], m.left)
  BY <1>0 DEF SoftGood, SoftBase, Following
<1>5. Sorted(r.list["soft"], r.left)
  BY <1>0, <1>1, <1>3, <1>4, PlacedSorted
<1>6. r.left[t] = d /\ \A u \in Timers : u # t => r.left[u] = m.left[u]
  BY DEF IsInsert, SameElsewhere
<1>7. ASSUME NEW u \in Soft, Member(u, r.list["soft"]) PROVE Late(r.left[u])
  <2>1. CASE u = t
    BY <1>1, <1>6, <2>1, LateFacts
  <2>2. CASE u # t
    <3>1. Member(u, m.list["soft"]) /\ u \in Timers
      BY <1>2, <1>7, <2>2 DEF Timers
    <3> QED
      BY <1>6, <2>2, <3>1 DEF SoftGood, SoftBase
  <2> QED
    BY <2>1, <2>2
<1>8. \/ r.local = <<>>
      \/ \E u \in Soft : r.local = <<u>> /\ ~ Member(u, r.list["soft"])
  <2>1. r.local = IF m.local = <<t>> THEN <<>> ELSE m.local
    BY <1>0, LocalUnlink DEF IsInsert
  <2>2. CASE m.local = <<>>
    BY <2>1, <2>2
  <2>3. ASSUME NEW u \in Soft, m.local = <<u>>, ~ Member(u, m.list["soft"])
        PROVE  \/ r.local = <<>>
               \/ \E x \in Soft : r.local = <<x>> /\ ~ Member(x, r.list["soft"])
    <3>1. CASE u = t
      BY <2>1, <2>3, <3>1
    <3>2. CASE u # t
      <4>1. ~ Member(u, r.list["soft"])
        BY <1>2, <2>3, <3>2
      <4>2. r.local = <<>> \/ r.local = <<u>>
        BY <2>1, <2>3
      <4> QED
        BY <4>1, <4>2
    <3> QED
      BY <3>1, <3>2
  <2> QED
    BY <2>2, <2>3 DEF SoftGood, SoftBase, Following
<1>9. ASSUME ThreadTimer \in m.active => \E e \in Times : m.left[ThreadTimer] <= e,
             NEW u \in Soft, Member(u, r.list["soft"]), ThreadTimer \in r.active
      PROVE  Late(r.left[u] - r.left[ThreadTimer] - 1)
  <2>1. ThreadTimer \in m.active /\ r.left[ThreadTimer] = m.left[ThreadTimer]
    BY <1>0, <1>6, <1>9 DEF IsInsert
  <2>2. CASE u = t
    <3>1. PICK e \in Times : m.left[ThreadTimer] <= e
      BY <1>9, <2>1
    <3>2. e \in 1 .. Half - 1 /\ Half \in Nat /\ m.left[ThreadTimer] \in Int
      BY <1>0, HalfFacts DEF TimerState
    <3>3. d - m.left[ThreadTimer] - 1 >= - e
      BY <1>1, <3>1, <3>2
    <3> QED
      BY <1>6, <2>1, <2>2, <3>3 DEF Late
  <2>3. CASE u # t
    <3>1. Member(u, m.list["soft"]) /\ u \in Timers
      BY <1>2, <1>9, <2>3 DEF Timers
    <3> QED
      BY <1>6, <2>1, <2>3, <3>1 DEF SoftGood, Following
  <2> QED
    BY <2>2, <2>3
<1> QED
  BY <1>5, <1>7, <1>8, <1>9 DEF SoftBase, Following

\* Neither the soft timers nor the timer thread are touched.
Aside(m, r) ==
  /\ SoftSame(m, r) /\ r.stat = m.stat /\ r.busy = m.busy
  /\ r.left[ThreadTimer] = m.left[ThreadTimer]
  /\ ThreadTimer \in r.active <=> ThreadTimer \in m.active

\* The timer thread is woken, and its timer is stopped.
Woken(m, r) ==
  /\ SoftSame(m, r) /\ r.stat = "READY" /\ r.busy = m.busy
  /\ ThreadTimer \notin r.active

LEMMA AsideTwice ==
  ASSUME NEW m, NEW q, NEW r, Aside(m, q), Aside(q, r)
  PROVE  Aside(m, r)
BY DEF Aside, SoftSame

LEMMA ThreadKept ==
  ASSUME NEW m, NEW low, Good(m, low), NEW at, NEW nt, NEW sl, ThreadGood(m, at, nt, sl),
         NEW r, Aside(m, r) \/ Woken(m, r)
  PROVE  ThreadGood(r, at, nt, sl)
<1>0. r.list["soft"] = m.list["soft"]
  BY DEF Aside, Woken, SoftSame
<1>1. m.list["soft"] # <<>> =>
        /\ r.left[Head(r.list["soft"])] = m.left[Head(m.list["soft"])]
        /\ r.timeout[Head(r.list["soft"])] = m.timeout[Head(m.list["soft"])]
  <2> SUFFICES ASSUME m.list["soft"] # <<>>
      PROVE  /\ r.left[Head(r.list["soft"])] = m.left[Head(m.list["soft"])]
             /\ r.timeout[Head(r.list["soft"])] = m.timeout[Head(m.list["soft"])]
    OBVIOUS
  <2>1. PICK s \in Seq(Timers) : s = m.list["soft"]
    BY SoftOn
  <2>2. Member(Head(s), s)
    BY <2>1, EmptyFacts
  <2>3. Head(s) \in Soft
    BY <2>1, <2>2, SoftOn
  <2> QED
    BY <1>0, <2>1, <2>3 DEF Aside, Woken, SoftSame
<1>2. CASE Aside(m, r)
  BY <1>0, <1>1, <1>2 DEF Aside, ThreadGood
<1>3. CASE Woken(m, r)
  BY <1>0, <1>1, <1>3 DEF Woken, ThreadGood
<1> QED
  BY <1>2, <1>3

LEMMA SoftStays ==
  ASSUME SoftInv, HardInv', thread_at' = thread_at, next_timeout' = next_timeout, slack' = slack,
         timing'.local = timing.local, Aside(timing, timing') \/ Woken(timing, timing')
  PROVE  SoftInv'
<1>1. PICK m, r : m = timing /\ r = timing'
  OBVIOUS
<1>2. Good(m, Low) /\ SoftGood(m) /\ ThreadGood(m, thread_at, next_timeout, slack)
  BY <1>1 DEF SoftInv, HardInv
<1>3. SoftSame(m, r) /\ r.local = m.local
      /\ (ThreadTimer \in r.active => ThreadTimer \in m.active /\ r.left[ThreadTimer] = m.left[ThreadTimer])
  BY <1>1 DEF Aside, Woken
<1>4. SoftGood(r)
  BY ONLY <1>2, <1>3, SoftKept
<1>5. Aside(m, r) \/ Woken(m, r)
  BY <1>1
<1>6. ThreadGood(r, thread_at, next_timeout, slack)
  BY ONLY <1>2, <1>5, ThreadKept
<1> QED
  BY <1>1, <1>4, <1>6 DEF SoftInv

LEMMA HardStart ==
  ASSUME NEW m, NEW low \in {-1, 0}, Good(m, low), NEW t \in Hard
  PROVE  /\ Aside(m, rt_timer_start(m, t))
         /\ rt_timer_start(m, t).local = Unlink(m.local, t)
<1>0. t \in Timers /\ t \notin Soft /\ t # ThreadTimer /\ ThreadTimer \in Timers /\ m \in TimerState
      /\ Kind(t) = "hard" /\ "soft" \in ListKinds
  BY TimerAssumption, KindFacts DEF Timers, Good, ListKinds
<1>1. PICK d \in 0 .. Half - 1 : d = m.init[t]
  BY <1>0, InitDelay
<1>2. PICK r : r = InsertTimer(m, t, d)
  OBVIOUS
<1>3. IsInsert(m, t, d, r)
  BY <1>0, <1>1, <1>2, GoodApart, InsertIs
<1>4. rt_timer_start(m, t) = r
  BY <1>0, <1>1, <1>2 DEF rt_timer_start
<1>5. SameElsewhere(m, r, t) /\ r.list["soft"] = Unlink(m.list["soft"], t)
  BY <1>0, <1>3 DEF IsInsert
<1>6. SoftSame(m, r)
  BY <1>0, <1>5, HardApart
<1> QED
  BY <1>0, <1>3, <1>4, <1>6 DEF Aside, IsInsert, SameFields, SameElsewhere

LEMMA HardStop ==
  ASSUME NEW m, NEW low \in {-1, 0}, Good(m, low), NEW t \in Hard
  PROVE  /\ Aside(m, rt_timer_stop(m, t))
         /\ rt_timer_stop(m, t).local = Unlink(m.local, t)
<1>0. t \in Timers /\ t \notin Soft /\ t # ThreadTimer /\ ThreadTimer \in Timers
      /\ "soft" \in ListKinds
  BY TimerAssumption DEF Timers, ListKinds
<1>1. PICK r : r = rt_timer_stop(m, t)
  OBVIOUS
<1>2. IsStop(m, t, r)
  BY <1>0, <1>1, GoodApart, StopIs
<1>3. SameElsewhere(m, r, t) /\ r.list["soft"] = Unlink(m.list["soft"], t)
  BY <1>0, <1>2 DEF IsStop
<1>4. SoftSame(m, r)
  BY <1>0, <1>3, HardApart
<1> QED
  BY <1>0, <1>1, <1>2, <1>4 DEF Aside, IsStop, SameFields, SameElsewhere

\* A hard timer is not the one whose callback the timer thread is in.
LEMMA LocalHard ==
  ASSUME NEW m \in TimerState, SoftBase(m), NEW t \in Timers, t \notin Soft
  PROVE  Unlink(m.local, t) = m.local
<1>1. Unlink(m.local, t) = IF m.local = <<t>> THEN <<>> ELSE m.local
  BY LocalUnlink
<1>2. ASSUME m.local = <<t>> PROVE FALSE
  <2>1. <<t>> # <<>>
    OBVIOUS
  <2>2. PICK u \in Soft : m.local = <<u>>
    BY <1>2, <2>1 DEF SoftGood, SoftBase, Following
  <2>3. <<u>> = <<t>>
    BY <1>2, <2>2
  <2>4. u = t
    BY ONLY <2>3
  <2> QED
    BY <2>4
<1> QED
  BY <1>1, <1>2

LEMMA AsideLocal ==
  ASSUME NEW m \in TimerState, NEW o \in {<<>>} \cup {<<u>> : u \in Timers}
  PROVE  Aside(m, [m EXCEPT !.local = o])
<1>1. PICK r : r = [m EXCEPT !.local = o]
  OBVIOUS
<1>2. Aside(m, r)
  BY <1>1, LocalIs DEF Aside, SoftSame
<1> QED
  BY <1>1, <1>2

\* The callback of a hard timer, and what rt_timer_check does after it.
LEMMA AsideRound ==
  ASSUME NEW m, NEW low \in {-1, 0}, Good(m, low), NEW t \in Hard, m.local = <<t>>,
         NEW does \in {"nothing", "stop", "start"}
  PROVE  Aside(m, AfterCallback(HardCallback(m, t, does)))
<1>0. t \in Timers /\ t # ThreadTimer /\ m \in TimerState /\ low \in Int
  BY TimerAssumption DEF Timers, Good
<1>1. Unlink(m.local, t) = <<>>
  BY <1>0, LocalUnlink
<1>2. PICK p : p = HardCallback(m, t, does)
  OBVIOUS
<1>3. Good(p, low) /\ p \in TimerState
  BY <1>0, <1>2, CallbackGood DEF Good
<1>4. Aside(m, p) /\ (p.local = <<>> \/ p.local = <<t>>)
  <2>1. CASE does = "nothing"
    <3>1. p = m
      BY <1>0, <1>2, <2>1 DEF HardCallback
    <3> QED
      BY <3>1 DEF Aside, SoftSame
  <2>2. CASE does = "stop"
    <3>1. p = rt_timer_stop(m, t)
      BY <1>0, <1>2, <2>2 DEF HardCallback
    <3> QED
      BY <1>1, <3>1, HardStop
  <2>3. CASE does = "start"
    <3>1. p = rt_timer_start(m, t)
      BY <1>0, <1>2, <2>3 DEF HardCallback
    <3> QED
      BY <1>1, <3>1, HardStart
  <2> QED
    BY <2>1, <2>2, <2>3
<1>5. Aside(p, AfterCallback(p))
  <2>1. CASE p.local = <<>>
    <3>1. AfterCallback(p) = p
      BY <2>1 DEF AfterCallback
    <3> QED
      BY <3>1 DEF Aside, SoftSame
  <2>2. CASE p.local = <<t>>
    <3>1. PICK o \in {<<>>} \cup {<<u>> : u \in Timers} : o = <<>>
      OBVIOUS
    <3>2. PICK b : b = [p EXCEPT !.local = o]
      OBVIOUS
    <3>3. Aside(p, b)
      BY <1>3, <3>2, AsideLocal
    <3>4. Good(b, low)
      BY <1>3, <3>2, LocalGood
    <3>5. Head(p.local) = t /\ p.local # <<>>
      BY <2>2
    <3>6. AfterCallback(p) = b \/ AfterCallback(p) = rt_timer_start(b, t)
      BY <3>1, <3>2, <3>5 DEF AfterCallback
    <3>7. Aside(b, rt_timer_start(b, t))
      BY <3>4, HardStart
    <3>8. Aside(p, rt_timer_start(b, t))
      BY <3>3, <3>7, AsideTwice
    <3> QED
      BY <3>3, <3>6, <3>8
  <2> QED
    BY <1>4, <2>1, <2>2
<1> QED
  BY <1>2, <1>4, <1>5, AsideTwice

LEMMA SoftRound ==
  ASSUME SoftInv, NEW does \in {"nothing", "stop", "start"}, rt_timer_check(does)
  PROVE  SoftInv'
<1>1. HardInv'
  BY HardRound DEF SoftInv
<1>2. PICK m, t : m = timing /\ t = Head(timing.list["hard"])
  OBVIOUS
<1>3. /\ Good(m, Low) /\ Low \in {-1, 0} /\ Low \in Int /\ m \in TimerState
      /\ "hard" \in ListKinds /\ "soft" \in ListKinds
  BY <1>2, LowIs DEF SoftInv, HardInv, Good, ListKinds
<1>4. m.list["hard"] # <<>> /\ Expired(m, Head(m.list["hard"]))
  BY <1>2 DEF rt_timer_check, HeadExpired
<1>5. t \in Timers /\ m.left[t] <= 0 /\ Kind(t) = "hard"
  BY <1>2, <1>3, <1>4, HeadIs
<1>6. t \notin Soft /\ (t \in Hard \/ t = ThreadTimer)
  BY <1>5, KindFacts DEF Timers
<1>7. PICK q : q = TakeExpired(m, t)
  OBVIOUS
<1>8. Good(q, Low) /\ q \in TimerState
  BY <1>3, <1>5, <1>7, TakeGood DEF Good
<1>9. IsTake(m, t, q)
  BY <1>3, <1>5, <1>7, GoodApart, TakeIs
<1>10. SoftSame(m, q)
  <2>1. SameElsewhere(m, q, t) /\ q.list["soft"] = Unlink(m.list["soft"], t)
    BY <1>3, <1>9 DEF IsTake
  <2> QED
    BY <1>3, <1>5, <1>6, <2>1, HardApart
<1>11. PICK o \in {<<>>} \cup {<<u>> : u \in Timers} : o = m.local
  BY <1>3 DEF TimerState
<1>12. PICK r : r = AfterCallback(HardCallback(q, t, does))
  OBVIOUS
<1>13. r \in TimerState
  <2>1. Good(HardCallback(q, t, does), Low)
    BY <1>3, <1>5, <1>8, CallbackGood
  <2> QED
    BY <1>3, <1>12, <2>1, AfterGood DEF Good
<1>14. PICK z : z = [r EXCEPT !.local = o]
  OBVIOUS
<1>15. timing' = z
  BY <1>2, <1>7, <1>11, <1>12, <1>14 DEF rt_timer_check
<1>16. z.local = m.local /\ Aside(r, z)
  BY <1>11, <1>13, <1>14, LocalIs, AsideLocal
<1>17. CASE t \in Hard
  <2>1. t # ThreadTimer /\ ThreadTimer \in Timers
    BY <1>17, TimerAssumption DEF Timers
  <2>2. Aside(m, q)
    <3>1. ThreadTimer \in q.active <=> ThreadTimer \in m.active
      BY <1>9, <2>1 DEF IsTake
    <3> QED
      BY <1>9, <1>10, <2>1, <3>1 DEF Aside, IsTake, SameElsewhere
  <2>3. q.local = <<t>>
    BY <1>9 DEF IsTake
  <2>4. Aside(q, r)
    BY <1>3, <1>8, <1>12, <1>17, <2>3, AsideRound
  <2>5. Aside(m, z)
    BY <1>16, <2>2, <2>4, AsideTwice
  <2> QED
    BY <1>1, <1>2, <1>15, <1>16, <2>5, SoftStays DEF rt_timer_check
<1>18. CASE t = ThreadTimer
  <2>1. PICK p : p = [q EXCEPT !.stat = "READY"]
    OBVIOUS
  <2>2. HardCallback(q, t, does) = p
    BY <1>18, <2>1 DEF HardCallback
  <2>3. p.local = <<t>> /\ p.periodic = m.periodic
    BY <1>8, <1>9, <2>1, ReadyIs DEF IsTake
  <2>4. t \notin m.periodic
    BY <1>3, <1>18, TimerAssumption DEF TimerState
  <2>5. PICK e \in {<<>>} \cup {<<u>> : u \in Timers} : e = <<>>
    OBVIOUS
  <2>6. p \in TimerState
    BY <1>8, <2>1, ReadyIs
  <2>7. PICK b : b = [p EXCEPT !.local = e]
    OBVIOUS
  <2>8. b.periodic = m.periodic
    BY <2>3, <2>6, <2>7, LocalIs
  <2>9. r = b
    <3>1. p.local # <<>> /\ Head(p.local) = t
      BY <2>3
    <3> QED
      BY <1>12, <2>2, <2>4, <2>5, <2>7, <2>8, <3>1 DEF AfterCallback
  <2>10. Aside(p, z)
    <3>1. Aside(p, b)
      BY <2>6, <2>7, AsideLocal
    <3> QED
      BY <1>16, <2>9, <3>1, AsideTwice
  <2>11. Woken(m, p)
    <3>1. ThreadTimer \notin q.active /\ q.busy = m.busy
      BY <1>9, <1>18, <2>4 DEF IsTake
    <3>2. /\ p.list = q.list /\ p.left = q.left /\ p.timeout = q.timeout
          /\ p.active = q.active /\ p.busy = q.busy /\ p.stat = "READY"
      BY <1>8, <2>1, ReadyIs
    <3> QED
      BY <1>10, <3>1, <3>2 DEF Woken, SoftSame
  <2>12. Woken(m, z)
    BY <2>10, <2>11 DEF Woken, Aside, SoftSame
  <2> QED
    BY <1>1, <1>2, <1>15, <1>16, <2>12, SoftStays DEF rt_timer_check
<1> QED
  BY <1>6, <1>17, <1>18

\* Who uses timers while nobody is more urgent than the timer thread.
LEMMA UsersWait ==
  ASSUME AnyTime = FALSE, SoftInv, CanUseTimers
  PROVE  /\ handler_at = "none" /\ Low = 0
         /\ \/ thread_at = "callback" /\ timing.busy = TRUE
            \/ thread_at = "check" /\ timing.busy = FALSE /\ timing.stat = "SUSPEND"
BY DEF CanUseTimers, SoftInv, ThreadGood, Low

\* Somebody starts a soft timer.
LEMMA SoftStart ==
  ASSUME AnyTime = FALSE, Unambiguous, SoftInv, NEW t \in Soft, UserStarts(t)
  PROVE  SoftInv'
<1>1. HardInv'
  BY HardUser DEF SoftInv
<1>2. PICK m : m = timing
  OBVIOUS
<1>3. /\ Good(m, Low) /\ Low \in {-1, 0} /\ Low \in Int /\ m \in TimerState /\ SoftGood(m)
      /\ ThreadGood(m, thread_at, next_timeout, slack)
      /\ t \in Timers /\ ThreadTimer \in Timers /\ t # ThreadTimer /\ ThreadTimer \notin Soft
      /\ Kind(t) = "soft" /\ "soft" \in ListKinds
  BY <1>2, LowIs, TimerAssumption, KindFacts DEF SoftInv, HardInv, Good, Timers, ListKinds
<1>4. PICK d \in Times : d = m.init[t] /\ d \in 0 .. Half - 1
  BY <1>3, InitDelay
<1>5. PICK q : q = InsertTimer(m, t, d)
  OBVIOUS
<1>6. IsInsert(m, t, d, q) /\ IsPlaced(m, t, d, q) /\ Good(q, Low)
  BY <1>3, <1>4, <1>5, GoodApart, InsertIs, InsertGood
<1>7. /\ \/ thread_at = "callback" /\ m.busy = TRUE
         \/ thread_at = "check" /\ m.busy = FALSE /\ m.stat = "SUSPEND"
      /\ timing' = rt_timer_start(m, t)
      /\ thread_at' = thread_at /\ next_timeout' = next_timeout /\ slack' = slack
  BY <1>2, UsersWait DEF UserStarts
<1>8. q.busy = m.busy /\ q.stat = m.stat /\ q.left[ThreadTimer] = m.left[ThreadTimer]
      /\ (ThreadTimer \in q.active <=> ThreadTimer \in m.active)
  BY <1>3, <1>6 DEF IsInsert, SameFields, SameElsewhere
<1>9. CASE thread_at = "callback" /\ m.busy = TRUE
  <2>1. timing' = q
    BY <1>4, <1>5, <1>7, <1>8, <1>9 DEF rt_timer_start
  <2>2. ThreadTimer \in m.active => \E e \in Times : m.left[ThreadTimer] <= e
    BY <1>3, <1>9 DEF ThreadGood
  <2>3. SoftGood(q)
    BY <1>3, <1>6, <2>2, SoftInsert DEF SoftGood
  <2>4. ThreadGood(q, thread_at, next_timeout, slack)
    BY <1>3, <1>8, <1>9 DEF ThreadGood
  <2> QED
    BY <1>1, <1>7, <2>1, <2>3, <2>4 DEF SoftInv
<1>10. CASE thread_at = "check" /\ m.busy = FALSE /\ m.stat = "SUSPEND"
  <2>1. PICK p : p = rt_timer_stop(q, ThreadTimer)
    OBVIOUS
  <2>2. IsStop(q, ThreadTimer, p)
    BY <1>3, <1>6, <2>1, GoodApart, StopIs
  <2>3. PICK r : r = [p EXCEPT !.stat = "READY"]
    OBVIOUS
  <2>4. timing' = r
    BY <1>4, <1>5, <1>7, <1>8, <1>10, <2>1, <2>3 DEF rt_timer_start, ResumeTimerThread
  <2>5. p \in TimerState
    BY <2>2 DEF IsStop
  <2>6. /\ r.list = p.list /\ r.left = p.left /\ r.timeout = p.timeout
        /\ r.active = p.active /\ r.busy = p.busy /\ r.local = p.local /\ r.stat = "READY"
    BY <2>3, <2>5, ReadyIs
  <2>7. SoftSame(q, p)
    <3>1. SameElsewhere(q, p, ThreadTimer) /\ p.list["soft"] = Unlink(q.list["soft"], ThreadTimer)
      BY <1>3, <2>2 DEF IsStop
    <3> QED
      BY <1>3, <1>6, <3>1, HardApart
  <2>8. ThreadTimer \notin r.active /\ r.busy = FALSE
    BY <1>8, <1>10, <2>2, <2>6 DEF IsStop, SameFields
  <2>9. SoftSame(q, r)
    BY <2>6, <2>7 DEF SoftSame
  <2>10. SoftBase(q)
    BY <1>3, <1>6, SoftInsert
  <2>11. r.local = q.local
    BY <1>3, <1>6, <2>2, <2>6, <2>10, LocalHard DEF IsStop, Good
  <2>12. SoftGood(r)
    <3>1. SoftBase(r)
      BY <1>6, <2>9, <2>10, <2>11, BaseKept
    <3> QED
      BY <2>8, <3>1 DEF SoftGood, Following
  <2>13. ThreadGood(r, thread_at, next_timeout, slack)
    BY <1>3, <1>10, <2>6, <2>8 DEF ThreadGood
  <2> QED
    BY <1>1, <1>7, <2>4, <2>12, <2>13 DEF SoftInv
<1> QED
  BY <1>7, <1>9, <1>10

\* Somebody stops a soft timer: the first one left is due no earlier.
LEMMA SoftStop ==
  ASSUME AnyTime = FALSE, SoftInv, NEW t \in Soft, UserStops(t)
  PROVE  SoftInv'
<1>1. HardInv'
  BY HardUser DEF SoftInv
<1>2. PICK m : m = timing
  OBVIOUS
<1>3. /\ Good(m, Low) /\ m \in TimerState /\ SoftGood(m)
      /\ ThreadGood(m, thread_at, next_timeout, slack) /\ slack \in Int
      /\ t \in Timers /\ ThreadTimer \in Timers /\ t # ThreadTimer /\ "soft" \in ListKinds
  BY <1>2, TimerAssumption DEF SoftInv, HardInv, TimersTyped, Good, Timers, ListKinds
<1>4. /\ \/ thread_at = "callback" /\ m.busy = TRUE
         \/ thread_at = "check" /\ m.busy = FALSE /\ m.stat = "SUSPEND"
      /\ timing' = rt_timer_stop(m, t)
      /\ thread_at' = thread_at /\ next_timeout' = next_timeout /\ slack' = slack
  BY <1>2, UsersWait DEF UserStops
<1>5. PICK r : r = rt_timer_stop(m, t)
  OBVIOUS
<1>6. IsStop(m, t, r)
  BY <1>3, <1>5, GoodApart, StopIs
<1>7. /\ SameElsewhere(m, r, t) /\ r.list["soft"] = Unlink(m.list["soft"], t)
      /\ r.active \subseteq m.active /\ r.local = Unlink(m.local, t)
      /\ r.busy = m.busy /\ r.stat = m.stat
      /\ (ThreadTimer \in r.active <=> ThreadTimer \in m.active)
      /\ r.left[ThreadTimer] = m.left[ThreadTimer] /\ r \in TimerState
  BY <1>3, <1>6 DEF IsStop, SameFields, SameElsewhere
<1>8. SoftGood(r) /\ \A u : Member(u, r.list["soft"]) <=> Member(u, m.list["soft"]) /\ u # t
  BY <1>3, <1>7, SoftUnlink
<1>9. ASSUME thread_at = "check", m.stat = "SUSPEND", r.list["soft"] # <<>>
      PROVE  /\ ThreadTimer \in r.active
             /\ r.left[ThreadTimer] <= r.left[Head(r.list["soft"])] + slack
  <2>1. PICK z \in Seq(Timers) : z = m.list["soft"]
    BY <1>3, SoftOn
  <2>2. PICK s \in Seq(Timers) : s = r.list["soft"]
    BY <1>3, <1>7 DEF TimerState
  <2>3. PICK u : u = Head(s)
    OBVIOUS
  <2>4. Member(u, s)
    BY <1>9, <2>2, <2>3, EmptyFacts
  <2>5. Member(u, z) /\ u # t
    BY <1>8, <2>1, <2>2, <2>4
  <2>6. z # <<>> /\ u \in Timers
    BY <2>5 DEF Member
  <2>7. PICK f : f = m.left
    OBVIOUS
  <2>8. Sorted(z, f) /\ \A x \in Timers : f[x] \in Int
    BY <1>3, <2>1, <2>7 DEF SoftGood, SoftBase, TimerState
  <2>9. f[Head(z)] <= f[u]
    BY ONLY <2>1, <2>5, <2>6, <2>8, HeadLeast
  <2>10. ThreadTimer \in m.active /\ f[ThreadTimer] <= f[Head(z)] + slack
    BY <1>3, <1>9, <2>1, <2>6, <2>7 DEF ThreadGood
  <2>11. Head(z) \in Timers
    BY <2>6, EmptyFacts
  <2>12. r.left[u] = f[u]
    BY <1>7, <2>5, <2>6, <2>7 DEF SameElsewhere
  <2>13. f[Head(z)] \in Int /\ f[u] \in Int /\ f[ThreadTimer] \in Int
    BY <1>3, <2>6, <2>8, <2>11
  <2>14. f[ThreadTimer] <= f[u] + slack
    BY <1>3, <2>9, <2>10, <2>13
  <2> QED
    BY <1>7, <2>2, <2>3, <2>7, <2>10, <2>12, <2>14
<1>10. ThreadGood(r, thread_at, next_timeout, slack)
  BY <1>3, <1>4, <1>7, <1>9 DEF ThreadGood
<1> QED
  BY <1>1, <1>4, <1>5, <1>8, <1>10 DEF SoftInv

LEMMA SoftUser ==
  ASSUME AnyTime = FALSE, Unambiguous, SoftInv, NEW t \in Hard \cup Soft,
         UserStarts(t) \/ UserStops(t) \/ UserControls(t)
  PROVE  SoftInv'
<1>1. HardInv'
  BY HardUser DEF SoftInv
<1>2. PICK m : m = timing
  OBVIOUS
<1>3. Good(m, Low) /\ Low \in {-1, 0} /\ SoftGood(m) /\ m \in TimerState
  BY <1>2, LowIs DEF SoftInv, HardInv, Good
<1>4. CASE UserControls(t)
  <2>1. \/ \E d \in Times : timing' = [m EXCEPT !.init[t] = d]
        \/ timing' = [m EXCEPT !.periodic = @ \cup {t}]
        \/ timing' = [m EXCEPT !.periodic = @ \ {t}]
    BY <1>2, <1>4 DEF UserControls
  <2>2. PICK r : r = timing'
    OBVIOUS
  <2>3. /\ r.list = m.list /\ r.left = m.left /\ r.timeout = m.timeout /\ r.stat = m.stat
        /\ r.busy = m.busy /\ r.active = m.active /\ r.local = m.local
    BY <1>3, <2>1, <2>2 DEF TimerState
  <2>4. Aside(m, r)
    BY <2>3 DEF Aside, SoftSame
  <2> QED
    BY <1>1, <1>2, <1>4, <2>2, <2>3, <2>4, SoftStays DEF UserControls
<1>5. CASE t \in Hard /\ UserStarts(t)
  <2>1. t \in Timers /\ t \notin Soft
    BY <1>5, TimerAssumption DEF Timers
  <2>2. PICK r : r = rt_timer_start(m, t)
    OBVIOUS
  <2>3. Aside(m, r) /\ r.local = m.local
    BY <1>3, <1>5, <2>1, <2>2, HardStart, LocalHard DEF SoftGood
  <2>4. timing' = r
    BY <1>2, <1>5, <2>2 DEF UserStarts
  <2> QED
    BY <1>1, <1>2, <1>5, <2>3, <2>4, SoftStays DEF UserStarts
<1>6. CASE t \in Hard /\ UserStops(t)
  <2>1. t \in Timers /\ t \notin Soft
    BY <1>6, TimerAssumption DEF Timers
  <2>2. PICK r : r = rt_timer_stop(m, t)
    OBVIOUS
  <2>3. Aside(m, r) /\ r.local = m.local
    BY <1>3, <1>6, <2>1, <2>2, HardStop, LocalHard DEF SoftGood
  <2>4. timing' = r
    BY <1>2, <1>6, <2>2 DEF UserStops
  <2> QED
    BY <1>1, <1>2, <1>6, <2>3, <2>4, SoftStays DEF UserStops
<1>7. CASE t \in Soft /\ UserStarts(t)
  BY <1>7, SoftStart
<1>8. CASE t \in Soft /\ UserStops(t)
  BY <1>8, SoftStop
<1> QED
  BY <1>4, <1>5, <1>6, <1>7, <1>8

\* A tick passes when no soft timer is late already, or when the thread's own
\* timer is running: then it is due in time.
LEMMA SoftTick ==
  ASSUME SoftInv, TickIncrease
  PROVE  SoftInv'
<1>1. HardInv'
  BY HardTick DEF SoftInv
<1>2. PICK m, r : m = timing /\ r = TickOf(m)
  OBVIOUS
<1>3. /\ Good(m, 0) /\ m \in TimerState /\ SoftGood(m)
      /\ ThreadGood(m, thread_at, next_timeout, slack) /\ slack \in Int
      /\ ThreadTimer \in Timers /\ "soft" \in ListKinds /\ "hard" \in ListKinds
  BY <1>2 DEF SoftInv, HardInv, TimersTyped, Good, Timers, ListKinds, TickIncrease, TickDue, Low
<1>4. /\ timing' = r /\ thread_at' = thread_at /\ next_timeout' = next_timeout
      /\ slack' = IF thread_at = "delay" THEN slack + 1 ELSE slack
      /\ thread_at = "delay" => slack < MaxLate
      /\ LateBy(1) => ThreadTimer \in m.active
  BY <1>2 DEF TickIncrease, TickDue, TickOf
<1>5. /\ r \in TimerState /\ r.list = m.list /\ r.timeout = m.timeout /\ r.active = m.active
      /\ r.local = m.local /\ r.stat = m.stat /\ r.busy = m.busy
      /\ \A u \in Timers, l \in ListKinds : Member(u, m.list[l]) => r.left[u] = m.left[u] - 1
  BY <1>2, <1>3, TickIs
<1>6. PICK z \in Seq(Timers) : z = m.list["soft"]
  BY <1>3, SoftOn
<1>7. PICK f, g : f = m.left /\ g = r.left
  OBVIOUS
<1>8. /\ \A u \in Timers : f[u] \in Int
      /\ \A u \in Timers : Member(u, z) => g[u] = f[u] - 1
      /\ Sorted(z, f)
  BY <1>3, <1>5, <1>6, <1>7 DEF TimerState, SoftGood, SoftBase
<1>9. Sorted(z, g)
  BY ONLY <1>6, <1>8, TickSorted
<1>10. ThreadTimer \in m.active => f[ThreadTimer] >= 0 /\ g[ThreadTimer] = f[ThreadTimer] - 1
  BY <1>3, <1>5, <1>7 DEF Good, HardGood
<1>11. ASSUME NEW u \in Soft, Member(u, z)
       PROVE  /\ Late(g[u])
              /\ ThreadTimer \in r.active => Late(g[u] - g[ThreadTimer] - 1)
  <2>1. u \in Timers /\ f[u] \in Int /\ g[u] = f[u] - 1
    BY <1>8, <1>11 DEF Timers
  <2>2. CASE ThreadTimer \in m.active
    <3>1. PICK a \in Int : a = f[ThreadTimer] /\ a >= 0 /\ g[ThreadTimer] = a - 1
      BY <1>3, <1>8, <1>10, <2>2
    <3>2. Late(f[u] - a - 1)
      BY <1>3, <1>6, <1>7, <1>11, <2>2, <3>1 DEF SoftGood, Following
    <3>3. f[u] - a - 1 \in Int /\ f[u] - 1 \in Int /\ f[u] - a - 1 <= f[u] - 1
      BY <2>1, <3>1
    <3>4. Late(f[u] - 1)
      BY <3>2, <3>3, LateFacts
    <3>5. g[u] - g[ThreadTimer] - 1 = f[u] - a - 1
      BY <2>1, <3>1
    <3> QED
      BY <2>1, <3>2, <3>4, <3>5
  <2>3. CASE ThreadTimer \notin m.active
    <3>1. ~(f[u] - 1 < - MaxLate)
      BY <1>2, <1>4, <1>6, <1>7, <1>11, <2>3 DEF LateBy
    <3>2. f[u] - 1 \in Int /\ - MaxLate <= (f[u] - 1) + 1
      BY <2>1, <3>1, HalfFacts
    <3>3. Late(f[u] - 1)
      BY <3>2, LateFacts
    <3> QED
      BY <1>5, <2>1, <2>3, <3>3
  <2> QED
    BY <2>2, <2>3
<1>12. SoftGood(r)
  BY <1>3, <1>5, <1>6, <1>7, <1>9, <1>11 DEF SoftGood, SoftBase, Following
<1>13. z # <<>> => Head(z) \in Timers /\ f[Head(z)] \in Int /\ g[Head(z)] = f[Head(z)] - 1
  BY <1>8, EmptyFacts
<1>14. ThreadGood(r, thread_at, next_timeout, slack')
  <2>1. r.busy = (thread_at = "callback") /\ (r.stat = "READY" => ThreadTimer \notin r.active)
        /\ (r.stat = "SUSPEND" => thread_at \in {"check", "callback"})
    BY <1>3, <1>5 DEF ThreadGood
  <2>2. thread_at = "callback" /\ ThreadTimer \in r.active => \E d \in Times : r.left[ThreadTimer] <= d
    <3> SUFFICES ASSUME thread_at = "callback", ThreadTimer \in r.active
                 PROVE  \E d \in Times : r.left[ThreadTimer] <= d
      OBVIOUS
    <3>1. PICK d \in Times : f[ThreadTimer] <= d
      BY <1>3, <1>5, <1>7 DEF ThreadGood
    <3>2. d \in Int
      BY HalfFacts
    <3>3. g[ThreadTimer] <= d
      BY <1>3, <1>5, <1>8, <1>10, <3>1, <3>2
    <3> QED
      BY <1>7, <3>3
  <2>3. thread_at = "check" /\ r.stat = "SUSPEND" /\ r.list["soft"] # <<>> =>
          /\ ThreadTimer \in r.active
          /\ r.left[ThreadTimer] <= r.left[Head(r.list["soft"])] + slack'
    <3> SUFFICES ASSUME thread_at = "check", r.stat = "SUSPEND", z # <<>>
                 PROVE  ThreadTimer \in r.active /\ g[ThreadTimer] <= g[Head(z)] + slack
      BY <1>4, <1>5, <1>6, <1>7
    <3>1. ThreadTimer \in m.active /\ f[ThreadTimer] <= f[Head(z)] + slack
      BY <1>3, <1>5, <1>6, <1>7 DEF ThreadGood
    <3> QED
      BY <1>3, <1>5, <1>8, <1>10, <1>13, <3>1
  <2>4. thread_at = "empty" => r.list["soft"] = <<>>
    BY <1>3, <1>5 DEF ThreadGood
  <2>5. thread_at = "found" => r.list["soft"] # <<>> /\ next_timeout = r.timeout[Head(r.list["soft"])]
    BY <1>3, <1>5 DEF ThreadGood
  <2>6. thread_at = "delay" =>
          r.list["soft"] # <<>> /\ next_timeout = r.left[Head(r.list["soft"])] + slack'
    <3> SUFFICES ASSUME thread_at = "delay"
                 PROVE  z # <<>> /\ next_timeout = g[Head(z)] + (slack + 1)
      BY <1>4, <1>5, <1>6, <1>7
    <3>1. z # <<>> /\ next_timeout = f[Head(z)] + slack
      BY <1>3, <1>6, <1>7 DEF ThreadGood
    <3> QED
      BY <1>3, <1>13, <3>1
  <2>7. thread_at \in {"next", "empty", "found"} => slack' = 0
    BY <1>3, <1>4 DEF ThreadGood
  <2>8. slack' <= MaxLate
    BY <1>3, <1>4, HalfFacts DEF ThreadGood
  <2> QED
    BY <2>1, <2>2, <2>3, <2>4, <2>5, <2>6, <2>7, <2>8 DEF ThreadGood
<1> QED
  BY <1>1, <1>4, <1>12, <1>14 DEF SoftInv

-----------------------------------------------------------------------------
(* The steps of the timer thread *)

LEMMA SleepIs ==
  ASSUME NEW m, NEW low \in {-1, 0}, Good(m, low), SoftBase(m), NEW d \in 0 .. Half - 1,
         NEW r, r = SleepFor(m, d)
  PROVE  /\ SoftBase(r) /\ SoftSame(m, r) /\ r.busy = m.busy /\ r.stat = "SUSPEND"
         /\ ThreadTimer \in r.active /\ r.left[ThreadTimer] = d
<1>0. /\ ThreadTimer \in Timers /\ ThreadTimer \notin Soft /\ low \in Int /\ m \in TimerState
      /\ "soft" \in ListKinds /\ Kind(ThreadTimer) = "hard"
  BY TimerAssumption, KindFacts DEF Timers, Good, ListKinds
<1>1. PICK p : p = rt_timer_stop(m, ThreadTimer)
  OBVIOUS
<1>2. IsStop(m, ThreadTimer, p) /\ Good(p, low) /\ p \in TimerState
  BY <1>0, <1>1, GoodApart, StopIs, StopGood DEF Good
<1>3. PICK q : q = [p EXCEPT !.stat = "SUSPEND"]
  OBVIOUS
<1>4. Good(q, low)
  BY <1>2, <1>3, ReadyIs, GoodSame
<1>5. /\ q.list = p.list /\ q.left = p.left /\ q.timeout = p.timeout /\ q.local = p.local
      /\ q.busy = p.busy /\ q.stat = "SUSPEND"
  BY <1>2, <1>3, ReadyIs
<1>6. SoftSame(m, p)
  <2>1. SameElsewhere(m, p, ThreadTimer) /\ p.list["soft"] = Unlink(m.list["soft"], ThreadTimer)
    BY <1>0, <1>2 DEF IsStop
  <2> QED
    BY <1>0, <2>1, HardApart
<1>7. SoftSame(m, q)
  BY <1>5, <1>6 DEF SoftSame
<1>8. p.local = m.local
  BY <1>0, <1>2, LocalHard DEF IsStop
<1>9. q.local = m.local /\ q.busy = m.busy
  BY <1>2, <1>5, <1>8 DEF IsStop, SameFields
<1>10. SoftBase(q)
  BY <1>7, <1>9, BaseKept
<1>11. r = InsertTimer(q, ThreadTimer, d)
  BY <1>1, <1>3 DEF SleepFor
<1>12. IsInsert(q, ThreadTimer, d, r)
  BY <1>0, <1>4, <1>11, GoodApart, InsertIs
<1>13. SoftSame(q, r)
  <2>1. SameElsewhere(q, r, ThreadTimer) /\ r.list["soft"] = Unlink(q.list["soft"], ThreadTimer)
    BY <1>0, <1>12 DEF IsInsert
  <2> QED
    BY <1>0, <1>4, <2>1, HardApart
<1>14. r.local = q.local
  BY <1>0, <1>4, <1>10, <1>12, LocalHard DEF IsInsert, Good
<1>15. SoftBase(r)
  BY <1>4, <1>10, <1>13, <1>14, BaseKept
<1>16. SoftSame(m, r)
  BY <1>7, <1>13 DEF SoftSame
<1> QED
  BY <1>5, <1>9, <1>12, <1>15, <1>16 DEF IsInsert, SameFields

\* The head of the soft list, which is due first.
LEMMA SoftHead ==
  ASSUME NEW m, NEW low, Good(m, low), SoftBase(m), m.list["soft"] # <<>>
  PROVE  /\ Head(m.list["soft"]) \in Soft /\ Head(m.list["soft"]) \in Timers
         /\ Member(Head(m.list["soft"]), m.list["soft"])
         /\ Late(m.left[Head(m.list["soft"])]) /\ Aligned(m, Head(m.list["soft"]))
         /\ m.left[Head(m.list["soft"])] \in Int
         /\ \A u \in Soft : Member(u, m.list["soft"]) => m.left[Head(m.list["soft"])] <= m.left[u]
<1>1. PICK z \in Seq(Timers) : z = m.list["soft"]
  BY SoftOn
<1>2. PICK t : t = Head(z)
  OBVIOUS
<1>3. t \in Timers /\ Member(t, z)
  BY <1>1, <1>2, EmptyFacts
<1>4. t \in Soft /\ Aligned(m, t)
  BY <1>1, <1>3, SoftOn
<1>5. Late(m.left[t])
  BY <1>1, <1>3, <1>4 DEF SoftBase
<1>6. PICK f : f = m.left
  OBVIOUS
<1>7. Sorted(z, f) /\ \A u \in Timers : f[u] \in Int
  BY <1>1, <1>6 DEF SoftBase, Good, TimerState
<1>8. ASSUME NEW u \in Soft, Member(u, z) PROVE f[t] <= f[u]
  <2>1. f[Head(z)] <= f[u]
    BY ONLY <1>1, <1>7, <1>8, z # <<>>, HeadLeast
  <2> QED
    BY <1>2, <2>1
<1> QED
  BY <1>1, <1>2, <1>3, <1>4, <1>5, <1>6, <1>7, <1>8

LEMMA SoftDelay ==
  ASSUME SoftInv, DelayThread
  PROVE  SoftInv'
<1>1. HardInv'
  BY HardThread DEF SoftInv, ThreadStep
<1>2. PICK m, r : m = timing /\ r = SleepFor(timing, next_timeout)
  OBVIOUS
<1>3. /\ Good(m, Low) /\ Low \in {-1, 0} /\ SoftBase(m)
      /\ ThreadGood(m, thread_at, next_timeout, slack) /\ slack \in Int
      /\ thread_at = "delay" /\ next_timeout \in 0 .. Half - 1 /\ m.stat = "READY"
  BY <1>2, LowIs, HalfFacts
     DEF SoftInv, HardInv, TimersTyped, SoftGood, DelayThread, ThreadRuns, Tick
<1>4. /\ SoftBase(r) /\ SoftSame(m, r) /\ r.busy = m.busy /\ r.stat = "SUSPEND"
      /\ ThreadTimer \in r.active /\ r.left[ThreadTimer] = next_timeout
  BY <1>2, <1>3, SleepIs
<1>5. PICK a : a = m.left[Head(m.list["soft"])]
  OBVIOUS
<1>6. /\ m.list["soft"] # <<>> /\ next_timeout = a + slack /\ slack <= MaxLate
      /\ m.busy = FALSE
  BY <1>3, <1>5 DEF ThreadGood
<1>7. a \in Int /\ Head(m.list["soft"]) \in Soft
      /\ \A u \in Soft : Member(u, m.list["soft"]) => a <= m.left[u]
  BY <1>3, <1>5, <1>6, SoftHead
<1>8. Following(r)
  <2>1. ASSUME NEW u \in Soft, Member(u, r.list["soft"])
        PROVE  Late(r.left[u] - r.left[ThreadTimer] - 1)
    <3>1. Member(u, m.list["soft"]) /\ r.left[u] = m.left[u]
      BY <1>4, <2>1 DEF SoftSame
    <3>2. PICK b \in Int : b = m.left[u]
      BY <1>3 DEF Good, TimerState, Timers
    <3>3. a <= b
      BY <1>7, <3>1, <3>2
    <3>4. b - next_timeout - 1 \in Int /\ - MaxLate <= (b - next_timeout - 1) + 1
      BY <1>3, <1>6, <1>7, <3>2, <3>3, HalfFacts
    <3> QED
      BY <1>4, <3>1, <3>2, <3>4, LateFacts
  <2> QED
    BY <2>1 DEF Following
<1>9. r.left[Head(r.list["soft"])] = a
  BY <1>4, <1>5, <1>7 DEF SoftSame
<1>10. ThreadGood(r, "check", 0, slack)
  BY <1>3, <1>4, <1>6, <1>9, <1>7 DEF ThreadGood
<1>11. timing' = r /\ thread_at' = "check" /\ next_timeout' = 0 /\ slack' = slack
  BY <1>2 DEF DelayThread
<1> QED
  BY <1>1, <1>4, <1>8, <1>10, <1>11 DEF SoftInv, SoftGood

LEMMA SoftWait ==
  ASSUME SoftInv, NEW d \in Times, CallbackDelay(d)
  PROVE  SoftInv'
<1>1. HardInv'
  BY HardThread DEF SoftInv
<1>2. PICK m, r : m = timing /\ r = SleepFor(timing, d)
  OBVIOUS
<1>3. /\ Good(m, Low) /\ Low \in {-1, 0} /\ SoftBase(m)
      /\ ThreadGood(m, thread_at, next_timeout, slack)
      /\ thread_at = "callback" /\ ~ LateBy(d)
  BY <1>2, LowIs DEF SoftInv, HardInv, SoftGood, CallbackDelay, ThreadRuns
<1>4. d \in 1 .. Half - 1 /\ Half \in Nat
  BY HalfFacts
<1>5. d \in 0 .. Half - 1 /\ d \in Int
  BY <1>4
<1>6. /\ SoftBase(r) /\ SoftSame(m, r) /\ r.busy = m.busy /\ r.stat = "SUSPEND"
      /\ ThreadTimer \in r.active /\ r.left[ThreadTimer] = d
  BY <1>2, <1>3, <1>5, SleepIs
<1>7. Following(r)
  <2>1. ASSUME NEW u \in Soft, Member(u, r.list["soft"])
        PROVE  Late(r.left[u] - r.left[ThreadTimer] - 1)
    <3>1. Member(u, m.list["soft"]) /\ r.left[u] = m.left[u]
      BY <1>6, <2>1 DEF SoftSame
    <3>2. PICK b \in Int : b = m.left[u]
      BY <1>3 DEF Good, TimerState, Timers
    <3>3. ~(b - d < - MaxLate)
      BY <1>2, <1>3, <3>1, <3>2 DEF LateBy
    <3>4. b - d - 1 \in Int /\ - MaxLate <= (b - d - 1) + 1
      BY <1>5, <3>2, <3>3, HalfFacts
    <3> QED
      BY <1>6, <3>1, <3>2, <3>4, LateFacts
  <2> QED
    BY <2>1 DEF Following
<1>8. ThreadGood(r, thread_at, next_timeout, slack)
  <2>1. r.left[ThreadTimer] <= d
    BY <1>5, <1>6
  <2> QED
    BY <1>3, <1>6, <2>1 DEF ThreadGood
<1>9. timing' = r /\ thread_at' = thread_at /\ next_timeout' = next_timeout /\ slack' = slack
  BY <1>2 DEF CallbackDelay
<1> QED
  BY <1>1, <1>6, <1>7, <1>8, <1>9 DEF SoftInv, SoftGood

\* The loop of rt_soft_timer_check, from a state in which the thread runs.
LEMMA SoftNext ==
  ASSUME HardInv', NEW m, NEW low \in {-1, 0}, Good(m, low), SoftGood(m),
         m.busy = FALSE, m.stat = "READY", ThreadTimer \notin m.active, NextExpired(m)
  PROVE  SoftInv'
<1>1. "soft" \in ListKinds /\ m \in TimerState /\ MaxLate >= 0 /\ low \in Int
  BY HalfFacts DEF ListKinds, Good
<1>2. next_timeout' = 0 /\ slack' = 0
  BY DEF NextExpired
<1>3. CASE HeadExpired(m, "soft")
  <2>1. m.list["soft"] # <<>>
    BY <1>3 DEF HeadExpired
  <2>2. PICK t : t = Head(m.list["soft"])
    OBVIOUS
  <2>3. t \in Soft /\ t \in Timers
    BY <2>1, <2>2, SoftHead DEF SoftGood
  <2>4. PICK q : q = TakeExpired(m, t)
    OBVIOUS
  <2>5. IsTake(m, t, q)
    BY <2>3, <2>4, GoodApart, TakeIs
  <2>6. PICK r : r = [q EXCEPT !.busy = TRUE]
    OBVIOUS
  <2>7. timing' = r /\ thread_at' = "callback"
    BY <1>3, <2>2, <2>4, <2>6 DEF NextExpired
  <2>8. /\ SameElsewhere(m, q, t) /\ q.list["soft"] = Unlink(m.list["soft"], t)
        /\ q.active \subseteq m.active /\ q.local = <<t>> /\ q.stat = m.stat /\ q \in TimerState
    BY <1>1, <2>5 DEF IsTake
  <2>9. SoftGood(q)
    BY <2>3, <2>8, SoftUnlink
  <2>10. /\ r.list = q.list /\ r.left = q.left /\ r.timeout = q.timeout /\ r.local = q.local
         /\ r.active = q.active /\ r.stat = q.stat /\ r.busy = TRUE
    BY <2>6, <2>8, BusyIs
  <2>11. SoftGood(r)
    BY <2>9, <2>10 DEF SoftGood, SoftBase, Following
  <2>12. ThreadGood(r, "callback", 0, 0)
    BY <1>1, <2>8, <2>10 DEF ThreadGood
  <2> QED
    BY <1>2, <2>7, <2>11, <2>12 DEF SoftInv
<1>4. CASE ~ HeadExpired(m, "soft")
  <2>1. timing' = m /\ thread_at' = "next"
    BY <1>4 DEF NextExpired
  <2>2. ThreadGood(m, "next", 0, 0)
    BY <1>1 DEF ThreadGood
  <2> QED
    BY <1>2, <2>1, <2>2 DEF SoftInv
<1> QED
  BY <1>3, <1>4

LEMMA SoftCheck ==
  ASSUME SoftInv, rt_soft_timer_check
  PROVE  SoftInv'
<1>1. HardInv'
  BY HardThread DEF SoftInv, ThreadStep
<1>2. PICK m : m = timing
  OBVIOUS
<1>3. Good(m, Low) /\ Low \in {-1, 0} /\ SoftGood(m) /\ NextExpired(m)
  BY <1>2, LowIs DEF SoftInv, HardInv, rt_soft_timer_check
<1>4. m.busy = FALSE /\ m.stat = "READY" /\ ThreadTimer \notin m.active
  BY <1>2 DEF SoftInv, ThreadGood, rt_soft_timer_check, ThreadRuns
<1> QED
  BY <1>1, <1>3, <1>4, SoftNext

\* After the callback a periodic timer starts again.
LEMMA SoftEnd ==
  ASSUME Unambiguous, SoftInv, CallbackEnd
  PROVE  SoftInv'
<1>1. HardInv'
  BY HardThread DEF SoftInv, ThreadStep
<1>2. PICK m : m = [timing EXCEPT !.busy = FALSE]
  OBVIOUS
<1>3. /\ Good(timing, Low) /\ timing \in TimerState /\ Low \in {-1, 0} /\ SoftGood(timing)
      /\ ThreadTimer \notin timing.active /\ timing.stat = "READY"
      /\ NextExpired(AfterCallback(m))
  BY <1>2, LowIs DEF SoftInv, HardInv, Good, ThreadGood, CallbackEnd, ThreadRuns
<1>4. FALSE \in BOOLEAN
  OBVIOUS
<1>5. Good(m, Low) /\ m \in TimerState
  BY <1>2, <1>3, <1>4, BusyGood DEF Good
<1>6. /\ m.list = timing.list /\ m.left = timing.left /\ m.local = timing.local
      /\ m.active = timing.active /\ m.stat = "READY" /\ m.busy = FALSE
  BY <1>2, <1>3, <1>4, BusyIs
<1>7. SoftGood(m)
  BY <1>3, <1>6 DEF SoftGood, SoftBase, Following
<1>8. PICK p : p = AfterCallback(m)
  OBVIOUS
<1>9. Good(p, Low)
  BY <1>3, <1>5, <1>8, AfterGood
<1>10. /\ SoftGood(p) /\ p.busy = FALSE /\ p.stat = "READY" /\ ThreadTimer \notin p.active
  <2>1. CASE m.local = <<>>
    <3>1. p = m
      BY <1>8, <2>1 DEF AfterCallback
    <3> QED
      BY <1>3, <1>6, <1>7, <3>1
  <2>2. CASE m.local # <<>>
    <3>1. PICK t \in Soft : m.local = <<t>> /\ ~ Member(t, m.list["soft"])
      BY <1>7, <2>2 DEF SoftGood, SoftBase
    <3>2. Head(m.local) = t
      BY <3>1
    <3>3. PICK o \in {<<>>} \cup {<<u>> : u \in Timers} : o = <<>>
      OBVIOUS
    <3>4. PICK b : b = [m EXCEPT !.local = o]
      OBVIOUS
    <3>5. Good(b, Low) /\ b \in TimerState
      BY <1>5, <3>4, LocalGood DEF Good
    <3>6. /\ b.list = m.list /\ b.left = m.left /\ b.local = <<>> /\ b.active = m.active
          /\ b.stat = m.stat /\ b.busy = m.busy
      BY <1>5, <3>3, <3>4, LocalIs
    <3>7. SoftGood(b)
      BY <1>7, <3>6 DEF SoftGood, SoftBase, Following
    <3>8. CASE p = b
      BY <1>3, <1>6, <3>6, <3>7, <3>8
    <3>9. CASE p = rt_timer_start(b, t)
      <4>1. PICK d \in Times : d = b.init[t] /\ d \in 0 .. Half - 1
        BY <3>5, InitDelay
      <4>2. PICK q : q = InsertTimer(b, t, d)
        OBVIOUS
      <4>3. t \in Timers /\ ThreadTimer \in Timers /\ t # ThreadTimer
        BY TimerAssumption DEF Timers
      <4>4. IsInsert(b, t, d, q) /\ IsPlaced(b, t, d, q)
        BY <3>5, <4>1, <4>2, <4>3, GoodApart, InsertIs
      <4>5. q.stat = "READY" /\ q.busy = FALSE /\ ThreadTimer \notin q.active
        BY <1>3, <1>6, <3>6, <4>3, <4>4 DEF IsInsert, SameFields
      <4>6. p = q
        BY <3>9, <4>1, <4>2, <4>5 DEF rt_timer_start
      <4>7. SoftBase(q)
        BY <1>3, <3>5, <3>7, <4>1, <4>4, SoftInsert
      <4>8. Following(q)
        BY <4>5 DEF Following
      <4> QED
        BY <4>5, <4>6, <4>7, <4>8 DEF SoftGood
    <3>10. p = b \/ p = rt_timer_start(b, t)
      BY <1>8, <2>2, <3>2, <3>3, <3>4 DEF AfterCallback
    <3> QED
      BY <3>8, <3>9, <3>10
  <2> QED
    BY <2>1, <2>2
<1> QED
  BY <1>1, <1>3, <1>8, <1>9, <1>10, SoftNext

LEMMA SoftFirst ==
  ASSUME SoftInv, _timer_list_next_timeout
  PROVE  SoftInv'
<1>1. HardInv'
  BY HardThread DEF SoftInv, ThreadStep
<1>2. /\ timing' = timing /\ slack' = slack
      /\ IF timing.list["soft"] = <<>>
         THEN thread_at' = "empty"
         ELSE thread_at' = "found" /\ next_timeout' = timing.timeout[Head(timing.list["soft"])]
      /\ thread_at = "next" /\ timing.stat = "READY"
  BY DEF _timer_list_next_timeout, ThreadRuns
<1>3. ThreadGood(timing, thread_at', next_timeout', slack)
  BY <1>2 DEF SoftInv, ThreadGood
<1> QED
  BY <1>1, <1>2, <1>3 DEF SoftInv

LEMMA SoftSuspend ==
  ASSUME SoftInv, SuspendSelf
  PROVE  SoftInv'
<1>1. HardInv'
  BY HardThread DEF SoftInv, ThreadStep
<1>2. PICK m : m = timing
  OBVIOUS
<1>3. /\ Good(m, Low) /\ m \in TimerState /\ SoftGood(m) /\ ThreadTimer \in Timers
      /\ ThreadGood(m, "empty", next_timeout, slack) /\ ThreadTimer \notin Soft /\ "soft" \in ListKinds
  BY <1>2, TimerAssumption
     DEF SoftInv, HardInv, Good, Timers, SuspendSelf, ThreadRuns, ListKinds
<1>4. PICK p : p = rt_timer_stop(m, ThreadTimer)
  OBVIOUS
<1>5. IsStop(m, ThreadTimer, p) /\ p \in TimerState
  BY <1>3, <1>4, GoodApart, StopIs DEF IsStop
<1>6. PICK r : r = [p EXCEPT !.stat = "SUSPEND"]
  OBVIOUS
<1>7. /\ r.list = p.list /\ r.left = p.left /\ r.timeout = p.timeout /\ r.local = p.local
      /\ r.active = p.active /\ r.busy = p.busy /\ r.stat = "SUSPEND"
  BY <1>5, <1>6, ReadyIs
<1>8. SoftSame(m, r)
  <2>1. SameElsewhere(m, p, ThreadTimer) /\ p.list["soft"] = Unlink(m.list["soft"], ThreadTimer)
    BY <1>3, <1>5 DEF IsStop
  <2>2. SoftSame(m, p)
    BY <1>3, <2>1, HardApart
  <2> QED
    BY <1>7, <2>2 DEF SoftSame
<1>9. ThreadTimer \notin r.active /\ r.busy = m.busy
  BY <1>5, <1>7 DEF IsStop, SameFields
<1>10. r.local = m.local
  BY <1>3, <1>5, <1>7, LocalHard DEF IsStop, SoftGood
<1>11. SoftGood(r)
  BY <1>3, <1>8, <1>9, <1>10, SoftKept
<1>12. ThreadGood(r, "check", next_timeout, slack)
  BY <1>3, <1>7, <1>8, <1>9 DEF ThreadGood, SoftSame
<1>13. timing' = r /\ thread_at' = "check" /\ next_timeout' = next_timeout /\ slack' = slack
  BY <1>2, <1>4, <1>6 DEF SuspendSelf
<1> QED
  BY <1>1, <1>11, <1>12, <1>13 DEF SoftInv

\* The delay is what is left until the first timer is due.
LEMMA SoftRead ==
  ASSUME SoftInv, ReadTick
  PROVE  SoftInv'
<1>1. HardInv'
  BY HardThread DEF SoftInv, ThreadStep
<1>2. PICK m : m = timing
  OBVIOUS
<1>3. /\ Good(m, Low) /\ m \in TimerState /\ SoftBase(m) /\ SoftGood(m) /\ m.stat = "READY"
      /\ ThreadGood(m, "found", next_timeout, slack) /\ m.tick \in Tick
  BY <1>2 DEF SoftInv, HardInv, Good, SoftGood, ReadTick, ThreadRuns, TimerState
<1>4. PICK t : t = Head(m.list["soft"])
  OBVIOUS
<1>5. m.list["soft"] # <<>> /\ next_timeout = m.timeout[t] /\ slack = 0
  BY <1>3, <1>4 DEF ThreadGood
<1>6. PICK a \in Int : a = m.left[t]
  BY <1>3, <1>4, <1>5, SoftHead
<1>7. Late(a) /\ Aligned(m, t)
  BY <1>3, <1>4, <1>5, <1>6, SoftHead
<1>8. a > - Half /\ a < Half
  BY <1>6, <1>7, LateFacts DEF Aligned
<1>9. next_timeout = (m.tick + a) % Ticks
  BY <1>5, <1>6, <1>7, <1>8, HalfFacts DEF Aligned
<1>10. (next_timeout - m.tick) % Ticks = IF a < 0 THEN a + Ticks ELSE a
  <2>1. PICK x \in Tick : x = (m.tick + a) % Ticks /\ x \in {m.tick + a, m.tick + a - Ticks, m.tick + a + Ticks}
    BY <1>3, <1>8, HalfFacts, AheadIs
  <2>2. x - m.tick \in Int /\ - Ticks < x - m.tick /\ x - m.tick < Ticks
    BY <1>3, HalfFacts DEF Tick
  <2>3. (x - m.tick) % Ticks = IF x - m.tick < 0 THEN x - m.tick + Ticks ELSE x - m.tick
    BY <2>2, RoundIs
  <2>4. x - m.tick \in {a, a - Ticks, a + Ticks}
    BY <1>3, <2>1, HalfFacts DEF Tick
  <2>5. (IF x - m.tick < 0 THEN x - m.tick + Ticks ELSE x - m.tick) = IF a < 0 THEN a + Ticks ELSE a
    BY <1>8, <2>2, <2>4, HalfFacts
  <2> QED
    BY <1>9, <2>1, <2>3, <2>5
<1>11. /\ timing' = m /\ slack' = 0
       /\ IF (next_timeout - m.tick) % Ticks < Half
          THEN thread_at' = "delay" /\ next_timeout' = (next_timeout - m.tick) % Ticks
          ELSE thread_at' = "check" /\ next_timeout' = next_timeout
  BY <1>2, <1>5 DEF ReadTick
<1>12. CASE a >= 0
  <2>1. (next_timeout - m.tick) % Ticks = a
    BY <1>10, <1>12
  <2>2. thread_at' = "delay" /\ next_timeout' = a
    BY <1>8, <1>11, <2>1
  <2>3. ThreadGood(m, "delay", a, 0)
    <3>1. a = m.left[Head(m.list["soft"])] + 0
      BY <1>4, <1>6
    <3> QED
      BY <1>3, <1>5, <3>1 DEF ThreadGood
  <2> QED
    BY <1>1, <1>3, <1>11, <2>2, <2>3 DEF SoftInv
<1>13. CASE a < 0
  <2>1. ~((next_timeout - m.tick) % Ticks < Half)
    BY <1>8, <1>10, <1>13, HalfFacts
  <2>2. thread_at' = "check" /\ next_timeout' = next_timeout
    BY <1>11, <2>1
  <2>3. ThreadGood(m, "check", next_timeout, 0)
    BY <1>3, <1>5 DEF ThreadGood
  <2> QED
    BY <1>1, <1>3, <1>11, <2>2, <2>3 DEF SoftInv
<1> QED
  BY <1>12, <1>13

LEMMA SoftInit == TimersInit => SoftInv
<1> SUFFICES ASSUME TimersInit PROVE SoftInv
  OBVIOUS
<1>1. HardInv
  BY HardInit
<1>2. /\ timing.list["soft"] = <<>> /\ timing.local = <<>> /\ timing.busy = FALSE
      /\ timing.stat = "READY" /\ timing.active = {} /\ thread_at = "next" /\ slack = 0
  BY DEF TimersInit, ListKinds
<1>3. Sorted(timing.list["soft"], timing.left) /\ \A u : ~ Member(u, timing.list["soft"])
  BY <1>2 DEF Sorted, Member
<1>4. SoftGood(timing)
  BY <1>2, <1>3 DEF SoftGood, SoftBase, Following
<1>5. 0 <= MaxLate /\ Half \in Nat
  BY HalfFacts
<1>6. ThreadGood(timing, thread_at, next_timeout, slack)
  BY <1>2, <1>5 DEF ThreadGood
<1> QED
  BY <1>1, <1>4, <1>6 DEF SoftInv

LEMMA SoftStep ==
  ASSUME AnyTime = FALSE, Unambiguous
  PROVE  SoftInv /\ [TimersNext]_timingVars => SoftInv'
<1> SUFFICES ASSUME SoftInv, [TimersNext]_timingVars PROVE SoftInv'
  OBVIOUS
<1>1. ASSUME NEW t \in Hard \cup Soft, UserStarts(t) \/ UserStops(t) \/ UserControls(t)
      PROVE  SoftInv'
  BY <1>1, SoftUser
<1>2. CASE TickIncrease
  BY <1>2, SoftTick
<1>3. CASE TickEnd
  <2>1. HardInv'
    BY <1>3, HardEnd DEF SoftInv
  <2> QED
    BY <1>3, <2>1 DEF TickEnd, SoftInv
<1>4. ASSUME NEW does \in {"nothing", "stop", "start"}, rt_timer_check(does)
      PROVE  SoftInv'
  BY <1>4, SoftRound
<1>5. CASE ThreadStep
  <2>1. CASE _timer_list_next_timeout
    BY <2>1, SoftFirst
  <2>2. CASE SuspendSelf
    BY <2>2, SoftSuspend
  <2>3. CASE ReadTick
    BY <2>3, SoftRead
  <2>4. CASE DelayThread
    BY <2>4, SoftDelay
  <2>5. CASE rt_soft_timer_check
    BY <2>5, SoftCheck
  <2>6. CASE CallbackEnd
    BY <2>6, SoftEnd
  <2> QED
    BY <1>5, <2>1, <2>2, <2>3, <2>4, <2>5, <2>6 DEF ThreadStep
<1>6. ASSUME NEW d \in Times, CallbackDelay(d) PROVE SoftInv'
  BY <1>6, SoftWait
<1>7. CASE UNCHANGED timingVars
  <2>1. HardInv'
    BY <1>7, HardStep DEF SoftInv
  <2> QED
    BY <1>7, <2>1 DEF SoftInv, timingVars
<1> QED
  BY <1>1, <1>2, <1>3, <1>4, <1>5, <1>6, <1>7 DEF TimersNext

\* Unless interrupts or more urgent threads use timers too, every timer is
\* linked at most once, on its own list, each list is in the order in which its
\* timers are due, and the timer thread, when it waits for the first of them,
\* wakes up in time (rt_timer_start, _timer_thread_entry).  The times of timers
\* and the lateness of the thread have to be told from one another in Ticks.
THEOREM TimersKeptSound ==
  ASSUME AnyTime = FALSE, Unambiguous
  PROVE  TimersSpec => []TimersSound
<1>1. TimersInit => SoftInv
  BY SoftInit
<1>2. SoftInv /\ [TimersNext]_timingVars => SoftInv'
  BY SoftStep
<1>3. SoftInv => TimersSound
  <2> SUFFICES ASSUME SoftInv PROVE TimersSound
    OBVIOUS
  <2>1. PICK m : m = timing
    OBVIOUS
  <2>2. /\ Good(m, Low) /\ SoftBase(m) /\ ThreadGood(m, thread_at, next_timeout, slack)
    BY <2>1 DEF SoftInv, HardInv, SoftGood
  <2>3. ASSUME NEW l \in ListKinds
        PROVE  /\ IsInjective(m.list[l])
               /\ \A t \in Timers : Member(t, m.list[l]) =>
                    l = Kind(t) /\ t \in m.active /\ m.local # <<t>>
               /\ Sorted(m.list[l], m.left)
    <3>1. /\ IsInjective(m.list[l])
          /\ \A t \in Timers : Member(t, m.list[l]) => l = Kind(t) /\ t \in m.active
      BY <2>2 DEF Good, KeptApart
    <3>2. ASSUME NEW t \in Timers, Member(t, m.list[l]), m.local = <<t>> PROVE FALSE
      <4>1. <<t>> # <<>>
        OBVIOUS
      <4>2. PICK u \in Soft : m.local = <<u>> /\ ~ Member(u, m.list["soft"])
        BY <2>2, <3>2, <4>1 DEF SoftBase
      <4>3. <<u>> = <<t>>
        BY <3>2, <4>2
      <4>4. u = t
        BY ONLY <4>3
      <4>5. l = "soft"
        BY <3>1, <3>2, <4>4, KindFacts
      <4> QED
        BY <3>2, <4>2, <4>4, <4>5
    <3>3. l \in {"hard", "soft"}
      BY DEF ListKinds
    <3>4. Sorted(m.list[l], m.left)
      BY <2>2, <3>3 DEF Good, HardGood, SoftBase
    <3> QED
      BY <3>1, <3>2, <3>4
  <2>4. WakesInTime
    BY <2>1, <2>2 DEF WakesInTime, ThreadGood
  <2>5. \A l \in ListKinds : InOrder(l)
    BY <2>1, <2>3 DEF InOrder, Sorted
  <2> QED
    BY <2>1, <2>3, <2>4, <2>5 DEF TimersSound, Listed
<1> QED
  BY <1>1, <1>2, <1>3, PTL DEF TimersSpec

-----------------------------------------------------------------------------
(* A callback that waits *)

\* A timer's own start does not wake the thread that is in a callback.
LEMMA StartWakes ==
  ASSUME NEW m, NEW low \in {-1, 0}, Good(m, low), m.busy = TRUE, NEW t \in Hard \cup Soft
  PROVE  rt_timer_start(m, t).stat = m.stat
<1>1. m \in TimerState
  BY DEF Good
<1>2. PICK d \in 0 .. Half - 1 : d = m.init[t] /\ t \in Timers
  BY <1>1, InitDelay
<1>3. PICK r : r = InsertTimer(m, t, d)
  OBVIOUS
<1>4. IsInsert(m, t, d, r)
  BY <1>2, <1>3, GoodApart, InsertIs
<1>5. r.busy = TRUE /\ r.stat = m.stat
  BY <1>4 DEF IsInsert, SameFields
<1>6. rt_timer_start(m, t) = r
  BY <1>2, <1>3, <1>5 DEF rt_timer_start
<1> QED
  BY <1>5, <1>6

LEMMA RoundWakes ==
  ASSUME HardInv, NEW does \in {"nothing", "stop", "start"}, rt_timer_check(does),
         timing'.stat # timing.stat
  PROVE  timing.left[ThreadTimer] <= 0
<1>1. PICK m, t : m = timing /\ t = Head(timing.list["hard"])
  OBVIOUS
<1>2. Good(m, Low) /\ Low \in {-1, 0} /\ Low \in Int /\ "hard" \in ListKinds /\ m \in TimerState
  BY <1>1, LowIs DEF HardInv, Good, ListKinds
<1>3. m.list["hard"] # <<>> /\ Expired(m, Head(m.list["hard"]))
  BY <1>1 DEF rt_timer_check, HeadExpired
<1>4. t \in Timers /\ m.left[t] <= 0 /\ Kind(t) = "hard"
  BY <1>1, <1>2, <1>3, HeadIs
<1>5. t \in Hard \/ t = ThreadTimer
  BY <1>4, KindFacts DEF Timers
<1>6. ASSUME t \in Hard PROVE FALSE
  <2>1. PICK q : q = TakeExpired(m, t)
    OBVIOUS
  <2>2. IsTake(m, t, q) /\ Good(q, Low)
    BY <1>2, <1>4, <2>1, GoodApart, TakeIs, TakeGood
  <2>3. q.local = <<t>> /\ q.stat = m.stat
    BY <2>2 DEF IsTake
  <2>4. PICK r : r = AfterCallback(HardCallback(q, t, does))
    OBVIOUS
  <2>5. Aside(q, r)
    BY <1>2, <1>6, <2>2, <2>3, <2>4, AsideRound
  <2>6. r \in TimerState
    <3>1. Good(HardCallback(q, t, does), Low)
      BY <1>2, <1>4, <2>2, CallbackGood
    <3> QED
      BY <1>2, <2>4, <3>1, AfterGood DEF Good
  <2>7. PICK o \in {<<>>} \cup {<<u>> : u \in Timers} : o = m.local
    BY <1>2 DEF TimerState
  <2>8. timing' = [r EXCEPT !.local = o]
    BY <1>1, <2>1, <2>4, <2>7 DEF rt_timer_check
  <2>9. timing'.stat = r.stat
    BY <2>6, <2>8, LocalIs
  <2> QED
    BY <1>1, <2>3, <2>5, <2>9 DEF Aside
<1> QED
  BY <1>1, <1>4, <1>5, <1>6

\* A callback of a soft timer that waits is woken by the thread's own timer,
\* not by somebody who starts a soft timer (rt_timer_start).
THEOREM CallbackDelays == TimersSpec => CallbackDelayKept
<1>1. HardInv /\ [TimersNext]_timingVars =>
        [timing.busy /\ timing.stat = "SUSPEND" /\ timing'.stat = "READY" =>
           timing.left[ThreadTimer] <= 0]_timingVars
  <2> SUFFICES ASSUME HardInv, [TimersNext]_timingVars, ~ UNCHANGED timingVars,
                      timing.busy, timing.stat = "SUSPEND", timing'.stat = "READY"
               PROVE  timing.left[ThreadTimer] <= 0
    OBVIOUS
  <2>0. /\ Good(timing, Low) /\ Low \in {-1, 0} /\ timing \in TimerState
        /\ timing.busy = TRUE /\ timing'.stat # timing.stat
    BY LowIs DEF HardInv, Good, TimerState
  <2>1. ASSUME NEW t \in Hard \cup Soft, UserStarts(t) \/ UserStops(t) \/ UserControls(t)
        PROVE  FALSE
    <3>1. CASE UserStarts(t)
      BY <2>0, <3>1, StartWakes DEF UserStarts
    <3>2. CASE UserStops(t)
      <4>1. t \in Timers
        BY DEF Timers
      <4>2. IsStop(timing, t, timing')
        BY <2>0, <3>2, <4>1, GoodApart, StopIs DEF UserStops
      <4> QED
        BY <2>0, <4>2 DEF IsStop, SameFields
    <3>3. CASE UserControls(t)
      BY <2>0, <3>3 DEF UserControls, TimerState
    <3> QED
      BY <2>1, <3>1, <3>2, <3>3
  <2>2. CASE TickIncrease
    <3>1. timing' = TickOf(timing)
      BY <2>2 DEF TickIncrease, TickOf
    <3> QED
      BY <2>0, <3>1, TickIs
  <2>3. CASE TickEnd
    BY <2>0, <2>3 DEF TickEnd
  <2>4. ASSUME NEW does \in {"nothing", "stop", "start"}, rt_timer_check(does)
        PROVE  timing.left[ThreadTimer] <= 0
    BY <2>0, <2>4, RoundWakes
  <2>5. CASE ThreadStep
    BY <2>5 DEF ThreadStep, _timer_list_next_timeout, SuspendSelf, ReadTick, DelayThread,
                rt_soft_timer_check, CallbackEnd, ThreadRuns
  <2>6. ASSUME NEW d \in Times, CallbackDelay(d) PROVE FALSE
    BY <2>6 DEF CallbackDelay, ThreadRuns
  <2> QED
    BY <2>1, <2>2, <2>3, <2>4, <2>5, <2>6 DEF TimersNext
<1> QED
  BY <1>1, HardStays, PTL DEF TimersSpec, CallbackDelayKept
=============================================================================
