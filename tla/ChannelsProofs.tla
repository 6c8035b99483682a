--------------------------- MODULE ChannelsProofs ---------------------------
(***************************************************************************)
(* Mailboxes, message queues and data queues of any size, used by any set *)
(* of threads: seen from outside each of them is a Channel, every block of *)
(* a message queue is in one place, nobody is forgotten on a list, and     *)
(* every wait ends one way only.                                           *)
(***************************************************************************)
EXTENDS Channels, DataQueue, IpcProofs

-----------------------------------------------------------------------------
(* Sequences *)

LEMMA PushFacts ==
  ASSUME NEW S, NEW s \in Seq(S), NEW e \in S
  PROVE  LET r == <<e>> \o s IN
         /\ r \in Seq(S) /\ r # <<>> /\ Len(r) = Len(s) + 1 /\ r[1] = e
         /\ \A i \in 1 .. Len(s) : r[i + 1] = s[i]
<1>1. <<e>> \in Seq(S) /\ Len(<<e>>) = 1 /\ <<e>>[1] = e
  OBVIOUS
<1> DEFINE h == <<e>>
<1>2. Len(s) \in Nat /\ h \in Seq(S) /\ Len(h) = 1 /\ h[1] = e
  BY <1>1
<1> HIDE DEF h
<1>3. /\ h \o s \in Seq(S) /\ Len(h \o s) = 1 + Len(s)
      /\ \A i \in 1 .. 1 + Len(s) : (h \o s)[i] = IF i <= 1 THEN h[i] ELSE s[i - 1]
  <2>1. /\ h \o s \in Seq(S) /\ Len(h \o s) = Len(h) + Len(s)
        /\ \A i \in 1 .. Len(h) + Len(s) :
             (h \o s)[i] = IF i <= Len(h) THEN h[i] ELSE s[i - Len(h)]
    BY <1>2, ConcatProperties, Zenon
  <2> QED
    BY <1>2, <2>1
<1> DEFINE r == h \o s
<1> HIDE DEF r
<1>4. /\ r \in Seq(S) /\ Len(r) = Len(s) + 1 /\ r[1] = e
      /\ \A i \in 1 .. Len(s) : r[i + 1] = s[i]
  BY <1>2, <1>3 DEF r
<1>5. r # <<>>
  BY <1>2, <1>4
<1> QED
  BY <1>4, <1>5 DEF r, h

-----------------------------------------------------------------------------
(* The ring of a mailbox *)

LEMMA CapacityFacts == Capacity \in Nat \ {0} /\ IsFiniteSet(Cell)
  BY QueueAssumption, FS_CardinalityType, FS_EmptySet DEF Capacity

\* in_offset is entry slots behind out_offset.
RingSound(b) == b \in MailboxState /\ b.in = Place(b.out + b.entry)

LEMMA PlaceFacts ==
  ASSUME NEW x \in Slot, NEW n \in 0 .. Capacity
  PROVE  /\ Place(x + n) \in Slot
         /\ n = Capacity => Place(x + n) = x
         /\ \A m \in 0 .. Capacity - 1 : m < n /\ n < Capacity => Place(x + m) # Place(x + n)
BY CapacityFacts DEF Place, Slot

\* The offset after a slot, and the one before it.
LEMMA OffsetFacts ==
  ASSUME NEW x \in Slot
  PROVE  /\ LET y == IF x + 1 >= Capacity THEN 0 ELSE x + 1 IN
            /\ y \in Slot
            /\ \A n \in 0 .. Capacity - 1 : Place(y + n) = Place(x + (n + 1))
            /\ \A n \in 0 .. Capacity - 1 : x = Place(n + 0) => y = Place(n + 1)
         /\ LET y == IF x > 0 THEN x - 1 ELSE Capacity - 1 IN
            /\ y \in Slot
            /\ \A n \in 0 .. Capacity - 1 : Place(y + (n + 1)) = Place(x + n)
BY CapacityFacts DEF Place, Slot

\* The offset after entry slots moves with entry.
LEMMA NextPlace ==
  ASSUME NEW x \in Slot, NEW n \in 0 .. Capacity - 1
  PROVE  LET y == Place(x + n)
         IN  (IF y + 1 >= Capacity THEN 0 ELSE y + 1) = Place(x + (n + 1))
BY CapacityFacts DEF Place, Slot

\* What is in a ring: a sequence of entry mails.
LEMMA MailsFacts ==
  ASSUME NEW b \in MailboxState
  PROVE  /\ Mails(b) \in Seq(Message \cup {NoMessage}) /\ Len(Mails(b)) = b.entry
         /\ \A i \in 1 .. b.entry : /\ Place(b.out + (i - 1)) \in Slot
                                    /\ Mails(b)[i] = b.pool[Place(b.out + (i - 1))]
<1> DEFINE n == b.entry
           x == b.out
           p == b.pool
<1>1. /\ n \in 0 .. Capacity /\ n \in Nat /\ x \in Slot
      /\ p \in [Slot -> Message \cup {NoMessage}]
  BY CapacityFacts DEF MailboxState
<1>2. Mails(b) = [i \in 1 .. n |-> p[Place(x + i - 1)]]
  BY DEF Mails
<1> HIDE DEF n, x, p
<1>3. ASSUME NEW i \in 1 .. n
      PROVE  /\ Place(x + (i - 1)) \in Slot /\ x + i - 1 = x + (i - 1)
             /\ p[Place(x + i - 1)] \in Message \cup {NoMessage}
  <2>1. i - 1 \in 0 .. Capacity /\ x + i - 1 = x + (i - 1)
    BY <1>1, CapacityFacts DEF Slot
  <2>2. Place(x + (i - 1)) \in Slot
    BY <1>1, <2>1, PlaceFacts
  <2> QED
    BY <1>1, <2>1, <2>2
<1>4. Mails(b) \in Seq(Message \cup {NoMessage}) /\ Len(Mails(b)) = n
  BY <1>1, <1>2, <1>3
<1>5. \A i \in 1 .. n : Mails(b)[i] = p[Place(x + (i - 1))]
  BY <1>2, <1>3
<1> QED
  BY <1>3, <1>4, <1>5 DEF n, x, p

LEMMA EmptyMailboxFacts ==
  RingSound(EmptyMailbox) /\ Mails(EmptyMailbox) = <<>>
BY CapacityFacts DEF RingSound, EmptyMailbox, MailboxState, Place, Slot, Mails

\* rt_mb_send_wait adds a mail at the end.
LEMMA StoreMailFacts ==
  ASSUME NEW b, RingSound(b), b.entry < Capacity, NEW m \in Message
  PROVE  /\ RingSound(StoreMail(b, m)) /\ StoreMail(b, m).entry = b.entry + 1
         /\ Mails(StoreMail(b, m)) = Append(Mails(b), m)
<1> DEFINE c == StoreMail(b, m)
           n == b.entry
           x == b.out
           at == Place(x + n)
<1>1. /\ n \in 0 .. Capacity - 1 /\ n \in 0 .. Capacity /\ Capacity \in Nat
      /\ x \in Slot /\ b \in MailboxState /\ b.in = at
      /\ b.pool \in [Slot -> Message \cup {NoMessage}]
  BY CapacityFacts DEF RingSound, MailboxState
<1>2. at \in Slot
  BY <1>1, PlaceFacts
<1>3. /\ c.pool = [b.pool EXCEPT ![b.in] = m] /\ c.out = x /\ c.entry = n + 1
      /\ c.in = IF b.in + 1 >= Capacity THEN 0 ELSE b.in + 1
  BY <1>1 DEF StoreMail, MailboxState
<1>4. c.in = Place(x + (n + 1)) /\ c.in \in Slot
  <2>1. n + 1 \in 0 .. Capacity
    BY <1>1, CapacityFacts
  <2> QED
    BY <1>1, <1>3, <2>1, NextPlace, PlaceFacts
<1>5. c.pool = [b.pool EXCEPT ![at] = m]
  BY <1>1, <1>3
<1>6. c \in MailboxState
  <2>1. (IF b.in + 1 >= Capacity THEN 0 ELSE b.in + 1) \in Slot /\ n + 1 \in 0 .. Capacity
    BY <1>1, <1>3, <1>4
  <2> QED
    BY <1>1, <1>2, <2>1 DEF StoreMail, MailboxState
<1> HIDE DEF c
<1>7. RingSound(c)
  BY <1>3, <1>4, <1>6 DEF RingSound
<1> HIDE DEF at
<1> DEFINE s == Mails(b)
           t == Mails(c)
           V == Message \cup {NoMessage}
<1>8. /\ s \in Seq(V) /\ Len(s) = n
      /\ \A i \in 1 .. n : Place(x + (i - 1)) \in Slot /\ s[i] = b.pool[Place(x + (i - 1))]
  BY <1>1, MailsFacts
<1>9. /\ t \in Seq(V) /\ Len(t) = n + 1
      /\ \A i \in 1 .. n + 1 : t[i] = c.pool[Place(x + (i - 1))]
  BY <1>3, <1>6, MailsFacts
<1>10. /\ Append(s, m) \in Seq(V) /\ Len(Append(s, m)) = n + 1
       /\ \A i \in 1 .. n : Append(s, m)[i] = s[i]
       /\ Append(s, m)[n + 1] = m
  BY <1>8, m \in V, AppendProperties
<1>11. t[n + 1] = m
  <2>1. n + 1 \in 1 .. n + 1 /\ x + ((n + 1) - 1) = x + n
    BY <1>1 DEF Slot
  <2> QED
    BY <1>1, <1>2, <1>5, <1>9, <2>1 DEF at
<1>12. ASSUME NEW i \in 1 .. n PROVE t[i] = s[i]
  <2>1. i \in 1 .. n + 1 /\ i - 1 \in 0 .. Capacity - 1 /\ i - 1 < n /\ n < Capacity /\ n \in 0 .. Capacity
    BY <1>1
  <2>2. Place(x + (i - 1)) # at
    BY <1>1, <2>1, PlaceFacts DEF at
  <2> QED
    BY <1>1, <1>2, <1>5, <1>8, <1>9, <2>1, <2>2
<1>13. t = Append(s, m)
  <2> HIDE DEF s, t, V
  <2>1. \A i \in 1 .. Len(t) : t[i] = Append(s, m)[i]
    BY <1>1, <1>9, <1>10, <1>11, <1>12
  <2> QED
    BY <1>9, <1>10, <2>1, SeqEqual
<1> QED
  BY <1>3, <1>7, <1>13 DEF c

\* rt_mb_urgent adds a mail at the front.
LEMMA StoreUrgentFacts ==
  ASSUME NEW b, RingSound(b), b.entry < Capacity, NEW m \in Message
  PROVE  /\ RingSound(StoreUrgent(b, m)) /\ StoreUrgent(b, m).entry = b.entry + 1
         /\ Mails(StoreUrgent(b, m)) = <<m>> \o Mails(b)
<1> DEFINE c == StoreUrgent(b, m)
           n == b.entry
           x == b.out
           y == IF x > 0 THEN x - 1 ELSE Capacity - 1
<1>1. /\ n \in 0 .. Capacity - 1 /\ n \in 0 .. Capacity /\ Capacity \in Nat
      /\ n + 1 \in 0 .. Capacity /\ x \in Slot /\ b \in MailboxState /\ b.in = Place(x + n)
      /\ b.pool \in [Slot -> Message \cup {NoMessage}]
  BY CapacityFacts DEF RingSound, MailboxState
<1>2. y \in Slot /\ \A i \in 0 .. Capacity - 1 : Place(y + (i + 1)) = Place(x + i)
  BY <1>1, OffsetFacts
<1>3. c.pool = [b.pool EXCEPT ![y] = m] /\ c.out = y /\ c.entry = n + 1 /\ c.in = b.in
  BY <1>1 DEF StoreUrgent, MailboxState
<1>4. c \in MailboxState
  BY <1>1, <1>2 DEF StoreUrgent, MailboxState
<1> HIDE DEF c, y
<1>5. RingSound(c)
  BY <1>1, <1>2, <1>3, <1>4 DEF RingSound
<1> DEFINE s == Mails(b)
           t == Mails(c)
           V == Message \cup {NoMessage}
           r == <<m>> \o s
<1>6. /\ s \in Seq(V) /\ Len(s) = n
      /\ \A i \in 1 .. n : Place(x + (i - 1)) \in Slot /\ s[i] = b.pool[Place(x + (i - 1))]
  BY <1>1, MailsFacts
<1>7. /\ t \in Seq(V) /\ Len(t) = n + 1
      /\ \A i \in 1 .. n + 1 : t[i] = c.pool[Place(y + (i - 1))]
  BY <1>3, <1>4, MailsFacts
<1>8. r \in Seq(V) /\ Len(r) = n + 1 /\ r[1] = m /\ \A i \in 1 .. n : r[i + 1] = s[i]
  BY <1>6, m \in V, PushFacts
<1> HIDE DEF s, t, V, r
<1>9. Place(y + 0) = y
  BY <1>1, <1>2 DEF Place, Slot
<1>10. t[1] = m
  <2>1. 1 \in 1 .. n + 1 /\ 1 - 1 = 0
    BY <1>1
  <2> QED
    BY <1>1, <1>2, <1>3, <1>7, <1>9, <2>1
<1>11. ASSUME NEW i \in 1 .. n PROVE t[i + 1] = s[i]
  <2>1. /\ i + 1 \in 1 .. n + 1 /\ (i + 1) - 1 = i /\ i - 1 \in 0 .. Capacity - 1
        /\ (i - 1) + 1 = i /\ i \in 0 .. Capacity - 1 /\ 0 < i /\ i < Capacity
        /\ i \in 0 .. Capacity /\ 0 \in 0 .. Capacity - 1
    BY <1>1
  <2>2. Place(y + i) = Place(x + (i - 1))
    BY <1>2, <2>1
  <2>3. Place(y + i) # y
    BY <1>2, <1>9, <2>1, PlaceFacts
  <2>4. t[i + 1] = c.pool[Place(y + i)]
    BY <1>7, <2>1
  <2> QED
    BY <1>1, <1>2, <1>3, <1>6, <2>2, <2>3, <2>4
<1>12. t = r
  <2>1. ASSUME NEW i \in 1 .. n + 1 PROVE t[i] = r[i]
    <3>1. CASE i = 1
      BY <3>1, <1>8, <1>10
    <3>2. CASE i # 1
      <4>1. i - 1 \in 1 .. n /\ (i - 1) + 1 = i
        BY <1>1, <3>2
      <4>2. t[(i - 1) + 1] = r[(i - 1) + 1]
        BY <1>8, <1>11, <4>1
      <4> QED
        BY <4>1, <4>2
    <3> QED
      BY <3>1, <3>2
  <2> QED
    BY <1>7, <1>8, <2>1, SeqEqual
<1> QED
  BY <1>3, <1>5, <1>12 DEF c, s, t, r

\* rt_mb_recv takes the first mail.
LEMMA FetchMailFacts ==
  ASSUME NEW b, RingSound(b), b.entry > 0
  PROVE  /\ RingSound(FetchMail(b)) /\ FetchMail(b).entry = b.entry - 1
         /\ Mails(b) # <<>> /\ Mails(FetchMail(b)) = Tail(Mails(b))
<1> DEFINE c == FetchMail(b)
           n == b.entry
           x == b.out
           y == IF x + 1 >= Capacity THEN 0 ELSE x + 1
           V == Message \cup {NoMessage}
<1>1. /\ n \in 1 .. Capacity /\ n - 1 \in 0 .. Capacity - 1 /\ Capacity \in Nat
      /\ n - 1 \in 0 .. Capacity /\ (n - 1) + 1 = n
      /\ x \in Slot /\ b \in MailboxState /\ b.in = Place(x + n)
      /\ b.pool \in [Slot -> V]
  BY CapacityFacts DEF RingSound, MailboxState
<1>2. y \in Slot /\ \A i \in 0 .. Capacity - 1 : Place(y + i) = Place(x + (i + 1))
  BY <1>1, OffsetFacts
<1>3. c.pool = [b.pool EXCEPT ![x] = NoMessage] /\ c.out = y /\ c.entry = n - 1 /\ c.in = b.in
  BY <1>1 DEF FetchMail, MailboxState
<1>4. c \in MailboxState
  BY <1>1, <1>2 DEF FetchMail, MailboxState
<1> HIDE DEF c, y
<1>5. RingSound(c)
  BY <1>1, <1>2, <1>3, <1>4 DEF RingSound
<1> DEFINE s == Mails(b)
           t == Mails(c)
<1>6. /\ s \in Seq(V) /\ Len(s) = n
      /\ \A i \in 1 .. n : Place(x + (i - 1)) \in Slot /\ s[i] = b.pool[Place(x + (i - 1))]
  BY <1>1, MailsFacts
<1>7. /\ t \in Seq(V) /\ Len(t) = n - 1
      /\ \A i \in 1 .. n - 1 : t[i] = c.pool[Place(y + (i - 1))]
  BY <1>3, <1>4, MailsFacts
<1> HIDE DEF s, t, V
<1>8. s # <<>>
  BY <1>1, <1>6
<1>9. Tail(s) \in Seq(V) /\ Len(Tail(s)) = n - 1 /\ \A i \in 1 .. n - 1 : Tail(s)[i] = s[i + 1]
  BY <1>6, <1>8, HeadTailProperties
<1>10. ASSUME NEW i \in 1 .. n - 1 PROVE t[i] = Tail(s)[i]
  <2>1. /\ i + 1 \in 1 .. n /\ (i + 1) - 1 = i /\ i - 1 \in 0 .. Capacity - 1
        /\ (i - 1) + 1 = i /\ i \in 0 .. Capacity /\ 0 < i /\ i < Capacity
        /\ 0 \in 0 .. Capacity - 1
    BY <1>1
  <2>2. Place(y + (i - 1)) = Place(x + i)
    BY <1>2, <2>1
  <2>3. Place(x + i) # x
    <3>1. Place(x + 0) = x
      BY <1>1 DEF Place, Slot
    <3> QED
      BY <1>1, <2>1, <3>1, PlaceFacts
  <2>4. Place(x + i) \in Slot /\ s[i + 1] = b.pool[Place(x + i)]
    BY <1>6, <2>1
  <2>5. t[i] = b.pool[Place(x + i)]
    BY <1>1, <1>3, <1>7, <2>2, <2>3, <2>4
  <2> QED
    BY <1>9, <2>4, <2>5
<1>11. t = Tail(s)
  BY <1>7, <1>9, <1>10, SeqEqual
<1> QED
  BY <1>3, <1>5, <1>8, <1>11 DEF c, s, t

-----------------------------------------------------------------------------
(* The chains of blocks of a message queue *)

\* s lists the blocks that are reached from p.
IsChain(next, p, s) ==
  /\ s \in Seq(Cell)
  /\ p = IF s = <<>> THEN Null ELSE s[1]
  /\ \A i \in 1 .. Len(s) : next[s[i]] = IF i = Len(s) THEN Null ELSE s[i + 1]

LEMMA InjectiveLen ==
  ASSUME NEW s \in Seq(Cell), IsInjective(s)
  PROVE  Len(s) \in Nat /\ Len(s) <= Capacity
<1> DEFINE n == Len(s)
<1>1. n \in Nat /\ s \in [1 .. n -> Cell]
  OBVIOUS
<1>2. s \in Injection(1 .. n, Cell)
  BY <1>1 DEF Injection
<1>3. Cardinality(1 .. n) = n
  BY <1>1, FS_Interval
<1> HIDE DEF n
<1>4. Cardinality(1 .. n) <= Cardinality(Cell)
  BY <1>2, CapacityFacts, FS_Injection
<1> QED
  BY <1>1, <1>3, <1>4 DEF Capacity, n

LEMMA TailMembers ==
  ASSUME NEW S, NEW s \in Seq(S), s # <<>>, IsInjective(s)
  PROVE  /\ Tail(s) \in Seq(S) /\ IsInjective(Tail(s)) /\ Head(s) = s[1] /\ s[1] \in S
         /\ Len(Tail(s)) = Len(s) - 1 /\ \A i \in 1 .. Len(s) - 1 : Tail(s)[i] = s[i + 1]
         /\ \A u : Member(u, Tail(s)) <=> Member(u, s) /\ u # s[1]
         /\ Member(s[1], s)
<1> DEFINE t == Tail(s)
           n == Len(s)
<1>1. n \in Nat /\ n >= 1 /\ DOMAIN s = 1 .. n /\ s[1] \in S /\ Head(s) = s[1]
  OBVIOUS
<1>2. /\ t \in Seq(S) /\ Len(t) = n - 1 /\ DOMAIN t = 1 .. n - 1
      /\ \A i \in 1 .. n - 1 : t[i] = s[i + 1]
  BY HeadTailProperties
<1> HIDE DEF t, n
<1>3. IsInjective(t)
  <2>1. ASSUME NEW i \in 1 .. n - 1, NEW j \in 1 .. n - 1, t[i] = t[j] PROVE i = j
    <3>1. i + 1 \in 1 .. n /\ j + 1 \in 1 .. n /\ s[i + 1] = s[j + 1]
      BY <1>1, <1>2, <2>1
    <3>2. i + 1 = j + 1
      BY <1>1, <3>1 DEF IsInjective
    <3> QED
      BY <1>1, <3>2
  <2> QED
    BY <1>2, <2>1 DEF IsInjective
<1>4. ASSUME NEW u PROVE Member(u, t) <=> Member(u, s) /\ u # s[1]
  <2>1. ASSUME NEW i \in 1 .. n - 1, t[i] = u PROVE Member(u, s) /\ u # s[1]
    <3>1. i + 1 \in 1 .. n /\ 1 \in 1 .. n /\ i + 1 # 1
      BY <1>1
    <3> QED
      BY <1>1, <1>2, <2>1, <3>1 DEF IsInjective, Member
  <2>2. ASSUME NEW i \in 1 .. n, s[i] = u, u # s[1] PROVE Member(u, t)
    <3>1. i - 1 \in 1 .. n - 1 /\ (i - 1) + 1 = i
      BY <1>1, <2>2
    <3>2. t[i - 1] = u
      BY <1>2, <2>2, <3>1
    <3> QED
      BY <1>2, <3>1, <3>2 DEF Member
  <2> QED
    BY <1>1, <1>2, <2>1, <2>2 DEF Member
<1>5. Member(s[1], s)
  BY <1>1 DEF Member
<1> QED
  BY <1>1, <1>2, <1>3, <1>4, <1>5 DEF t, n

\* A computation of n steps, each a function from D to D, exists.
IsRun(f, D, a, n, G) ==
  f \in [0 .. n -> D] /\ f[0] = a /\ \A i \in 1 .. n : f[i] = G[i][f[i - 1]]

LEMMA IterationExists ==
  ASSUME NEW D, NEW a \in D, NEW n \in Nat, NEW G \in [1 .. n -> [D -> D]]
  PROVE  \E f : IsRun(f, D, a, n, G)
<1> DEFINE Run(f, m) == f \in [0 .. m -> D] /\ f[0] = a /\ \A i \in 1 .. m : f[i] = G[i][f[i - 1]]
           Bad == {m \in 0 .. n : ~\E f : Run(f, m)}
<1>1. SUFFICES ASSUME Bad # {} PROVE FALSE
  BY n \in 0 .. n DEF IsRun
<1>2. PICK m \in Bad : \A i \in Bad : m <= i
  <2>1. Bad \in SUBSET Nat
    OBVIOUS
  <2> HIDE DEF Bad
  <2> QED
    BY <1>1, <2>1, LeastOf
<1>3. m \in 0 .. n /\ ~\E f : Run(f, m)
  OBVIOUS
<1>4. m # 0
  <2> DEFINE g == [i \in 0 .. 0 |-> a]
  <2>1. g \in [0 .. 0 -> D] /\ g[0] = a
    OBVIOUS
  <2> HIDE DEF g
  <2>2. Run(g, 0)
    BY <2>1
  <2> QED
    BY <1>3, <2>2
<1>5. m - 1 \in 0 .. n /\ m - 1 \notin Bad /\ m \in 1 .. n
  BY <1>2, <1>3, <1>4
<1>6. PICK f : Run(f, m - 1)
  BY <1>5
<1> DEFINE g == [i \in 0 .. m |-> IF i = m THEN G[m][f[m - 1]] ELSE f[i]]
<1>7. f[m - 1] \in D /\ G[m][f[m - 1]] \in D
  BY <1>5, <1>6
<1>8. g \in [0 .. m -> D]
  BY <1>5, <1>6, <1>7
<1>9. g[0] = a
  BY <1>5, <1>6
<1>10. ASSUME NEW i \in 1 .. m PROVE g[i] = G[i][g[i - 1]]
  <2>1. i - 1 \in 0 .. m - 1 /\ i - 1 \in 0 .. m /\ i - 1 # m /\ i \in 0 .. m
    BY <1>5
  <2>2. g[i - 1] = f[i - 1]
    BY <2>1
  <2>3. CASE i = m
    BY <2>1, <2>2, <2>3
  <2>4. CASE i # m
    <3>1. i \in 1 .. m - 1
      BY <1>5, <2>4
    <3>2. g[i] = f[i] /\ f[i] = G[i][f[i - 1]]
      BY <1>6, <2>1, <2>4, <3>1
    <3> QED
      BY <2>2, <3>2
  <2> QED
    BY <2>3, <2>4
<1> HIDE DEF g
<1>11. Run(g, m)
  BY <1>8, <1>9, <1>10
<1> QED
  BY <1>3, <1>11

\* The table of the chains of at most 0, 1, .. blocks, as Chain computes it.
IsWalk(w, next) ==
  w = [n \in 0 .. Cardinality(Cell) + 1 |->
         [b \in Link |-> IF n = 0 \/ b = Null THEN <<>> ELSE <<b>> \o w[n - 1][next[b]]]]

LEMMA WalkExists ==
  ASSUME NEW next \in [Cell -> Link]
  PROVE  \E w : IsWalk(w, next)
<1> DEFINE N == Cardinality(Cell) + 1
           D == [Link -> Seq(Cell)]
           none == [b \in Link |-> <<>>]
           step(w) == [b \in Link |-> IF b = Null THEN <<>> ELSE <<b>> \o w[next[b]]]
           G == [i \in 1 .. N |-> [w \in D |-> step(w)]]
<1>1. N \in Nat
  BY CapacityFacts DEF Capacity
<1> HIDE DEF N
<1>2. none \in D
  OBVIOUS
<1>3. ASSUME NEW w \in D PROVE step(w) \in D
  <2>1. ASSUME NEW b \in Cell PROVE <<b>> \o w[next[b]] \in Seq(Cell)
    <3>1. w[next[b]] \in Seq(Cell) /\ <<b>> \in Seq(Cell)
      OBVIOUS
    <3> QED
      BY <3>1
  <2> QED
    BY <2>1 DEF Link
<1>4. G \in [1 .. N -> [D -> D]]
  <2> HIDE DEF step
  <2> QED
    BY <1>3
<1>5. \A i \in 1 .. N, w \in D : G[i][w] = step(w)
  <2> HIDE DEF step
  <2> QED
    OBVIOUS
<1> HIDE DEF D, none, G
<1>6. PICK f : IsRun(f, D, none, N, G)
  BY <1>1, <1>2, <1>4, IterationExists, Zenon
<1> DEFINE row(n) == [b \in Link |-> IF n = 0 \/ b = Null THEN <<>> ELSE <<b>> \o f[n - 1][next[b]]]
<1>7. ASSUME NEW n \in 0 .. N PROVE f[n] = row(n)
  <2>1. CASE n = 0
    BY <1>6, <2>1 DEF none, IsRun
  <2>2. CASE n # 0
    <3>1. n \in 1 .. N /\ n - 1 \in 0 .. N
      BY <1>1, <2>2
    <3>2. f[n] = step(f[n - 1])
      BY <1>5, <1>6, <3>1 DEF IsRun
    <3> QED
      BY <2>2, <3>2
  <2> QED
    BY <2>1, <2>2
<1>8. f = [n \in 0 .. N |-> row(n)]
  <2>1. f \in [0 .. N -> D]
    BY <1>6 DEF IsRun
  <2> HIDE DEF row
  <2> QED
    BY <1>7, <2>1
<1> QED
  BY <1>8 DEF IsWalk, N

\* Chain finds the blocks of a chain that does not come back to itself.
LEMMA ChainIs ==
  ASSUME NEW next \in [Cell -> Link], NEW p, NEW s, IsChain(next, p, s), IsInjective(s)
  PROVE  Chain(next, p) = s
<1> DEFINE N == Cardinality(Cell) + 1
           L == Len(s)
           walk[n \in 0 .. Cardinality(Cell) + 1] ==
             [b \in Link |-> IF n = 0 \/ b = Null THEN <<>> ELSE <<b>> \o walk[n - 1][next[b]]]
           node(j) == IF j = 0 THEN Null ELSE s[L - j + 1]
<1>1. Chain(next, p) = walk[N][p]
  BY DEF Chain
<1>2. IsWalk(walk, next)
  <2> DEFINE g == CHOOSE h : IsWalk(h, next)
  <2>1. IsWalk(g, next)
    BY WalkExists
  <2>2. walk = g
    BY DEF IsWalk
  <2> QED
    BY <2>1, <2>2
<1> HIDE DEF walk
<1>3. /\ s \in Seq(Cell) /\ L \in Nat /\ N \in Nat /\ L < N /\ p = node(L)
      /\ \A i \in 1 .. L : s[i] \in Cell /\ next[s[i]] = IF i = L THEN Null ELSE s[i + 1]
  <2>1. s \in Seq(Cell) /\ L \in Nat
    BY DEF IsChain
  <2>2. L <= Capacity /\ Capacity \in Nat
    BY <2>1, InjectiveLen, CapacityFacts
  <2>3. p = node(L)
    BY <2>1 DEF IsChain
  <2> QED
    BY <2>1, <2>2, <2>3 DEF IsChain, Capacity
<1>4. \A j \in 0 .. L : node(j) \in Link
  BY <1>3 DEF Link
<1>5. \A n \in 0 .. N, b \in Link :
        walk[n][b] = IF n = 0 \/ b = Null THEN <<>> ELSE <<b>> \o walk[n - 1][next[b]]
  <2> DEFINE row(n) ==
        [b \in Link |-> IF n = 0 \/ b = Null THEN <<>> ELSE <<b>> \o walk[n - 1][next[b]]]
  <2>1. \A n \in 0 .. N : walk[n] = row(n)
    <3> HIDE DEF row
    <3>1. walk = [n \in 0 .. N |-> row(n)]
      BY <1>2 DEF IsWalk, row
    <3> QED
      BY <3>1
  <2> QED
    BY <2>1
<1> DEFINE Good(j) == \A n \in j .. N : walk[n][node(j)] = SubSeq(s, L - j + 1, L)
           Bad == {j \in 0 .. L : ~Good(j)}
<1> HIDE DEF L, N
<1>6. Bad = {}
  <2>1. SUFFICES ASSUME Bad # {} PROVE FALSE
    OBVIOUS
  <2>2. PICK j \in Bad : \A i \in Bad : j <= i
    <3>1. Bad \in SUBSET Nat
      BY <1>3
    <3> HIDE DEF Bad
    <3> QED
      BY <2>1, <3>1, LeastOf
  <2>3. j \in 0 .. L /\ j \in Nat /\ ~Good(j)
    OBVIOUS
  <2>4. PICK n \in j .. N : walk[n][node(j)] # SubSeq(s, L - j + 1, L)
    BY <2>3
  <2>5. n \in 0 .. N /\ n \in Nat
    BY <2>3, <2>4, <1>3
  <2>6. CASE j = 0
    <3>1. SubSeq(s, L - j + 1, L) = <<>>
      BY <1>3, <2>6, SubSeqEmpty
    <3>2. walk[n][Null] = <<>>
      BY <1>5, <2>5 DEF Link
    <3> QED
      BY <2>4, <2>6, <3>1, <3>2
  <2>7. CASE j # 0
    <3> DEFINE i == L - j + 1
    <3>1. /\ j - 1 \in 0 .. L /\ ~(j <= j - 1) /\ i \in 1 .. L /\ n - 1 \in j - 1 .. N
          /\ L - (j - 1) + 1 = i + 1 /\ n # 0
      <4>1. n \in j .. N
        OBVIOUS
      <4> HIDE DEF Bad, Good, node
      <4> QED
        BY <4>1, <1>3, <2>3, <2>5, <2>7
    <3>2. node(j) = s[i] /\ s[i] \in Cell /\ next[s[i]] = node(j - 1)
      <4>1. node(j) = s[i]
        BY <2>7
      <4>2. s[i] \in Cell /\ next[s[i]] = IF i = L THEN Null ELSE s[i + 1]
        BY <1>3, <3>1
      <4>3. (i = L <=> j - 1 = 0) /\ L - (j - 1) + 1 = i + 1
        <5> HIDE DEF Bad, Good, node
        <5> QED
          BY <1>3, <2>3
      <4>4. node(j - 1) = IF i = L THEN Null ELSE s[i + 1]
        BY <4>3
      <4> HIDE DEF Bad, Good, node, i
      <4> QED
        BY <4>1, <4>2, <4>4
    <3>3. walk[n - 1][node(j - 1)] = SubSeq(s, i + 1, L)
      <4>1. j - 1 \notin Bad
        <5> HIDE DEF Bad
        <5> QED
          BY <2>2, <3>1
      <4>2. Good(j - 1)
        BY <3>1, <4>1
      <4> QED
        BY <3>1, <4>2
    <3>4. walk[n][node(j)] = <<s[i]>> \o SubSeq(s, i + 1, L)
      <4>1. s[i] \in Link /\ s[i] # Null
        BY <3>2, QueueAssumption DEF Link
      <4>2. walk[n][s[i]] = <<s[i]>> \o walk[n - 1][next[s[i]]]
        BY <1>5, <2>5, <3>1, <4>1
      <4> QED
        BY <3>2, <3>3, <4>2
    <3>5. SubSeq(s, i, L) = <<s[i]>> \o SubSeq(s, i + 1, L)
      BY <1>3, <3>1 DEF L
    <3> QED
      BY <2>4, <3>4, <3>5
  <2> QED
    BY <2>6, <2>7
<1>7. walk[N][node(L)] = SubSeq(s, L - L + 1, L)
  <2>1. L \in 0 .. L /\ N \in L .. N
    <3> HIDE DEF Bad, Good, node
    <3> QED
      BY <1>3
  <2>2. Good(L)
    BY <1>6, <2>1
  <2> QED
    BY <2>1, <2>2
<1>8. SubSeq(s, L - L + 1, L) = s
  BY <1>3 DEF L
<1> QED
  BY <1>1, <1>3, <1>7, <1>8 DEF N

-----------------------------------------------------------------------------
(* A sound message queue: every link, entry and tail say the same, and no  *)
(* block is linked twice.                                                  *)

Layout(q, F, Q) ==
  /\ q \in QueueState
  /\ IsChain(q.next, q.free, F) /\ IsInjective(F)
  /\ IsChain(q.next, q.head, Q) /\ IsInjective(Q)
  /\ \A b \in Cell : ~(Member(b, F) /\ Member(b, Q))
  /\ q.entry = Len(Q)
  /\ q.tail = IF Q = <<>> THEN Null ELSE Q[Len(Q)]

QueueSound(q) == Layout(q, FreeBlocks(q), QueuedBlocks(q))

LEMMA LayoutIs ==
  ASSUME NEW q, NEW F, NEW Q, Layout(q, F, Q)
  PROVE  FreeBlocks(q) = F /\ QueuedBlocks(q) = Q /\ QueueSound(q)
<1>1. q.next \in [Cell -> Link]
  BY DEF Layout, QueueState
<1>2. FreeBlocks(q) = F /\ QueuedBlocks(q) = Q
  BY <1>1, ChainIs DEF Layout, FreeBlocks, QueuedBlocks
<1> QED
  BY <1>2 DEF QueueSound

\* A chain is not touched by a link that is written into a block outside it.
LEMMA ChainElsewhere ==
  ASSUME NEW next \in [Cell -> Link], NEW p, NEW s, IsChain(next, p, s),
         NEW b \in Cell, ~Member(b, s), NEW l
  PROVE  IsChain([next EXCEPT ![b] = l], p, s)
<1>1. s \in Seq(Cell) /\ \A i \in 1 .. Len(s) : s[i] \in Cell /\ s[i] # b
  BY DEF IsChain, Member
<1> QED
  BY <1>1 DEF IsChain

\* A block is put in front of a chain.
LEMMA ChainPush ==
  ASSUME NEW next \in [Cell -> Link], NEW p, NEW s, IsChain(next, p, s), IsInjective(s),
         NEW b \in Cell, ~Member(b, s)
  PROVE  LET r == <<b>> \o s IN
         /\ IsChain([next EXCEPT ![b] = p], b, r) /\ IsInjective(r)
         /\ Len(r) = Len(s) + 1 /\ r # <<>>
         /\ \A u : Member(u, r) <=> Member(u, s) \/ u = b
<1> DEFINE r == <<b>> \o s
           m == [next EXCEPT ![b] = p]
<1>1. s \in Seq(Cell) /\ Len(s) \in Nat /\ IsChain(m, p, s)
  <2>1. IsChain(m, p, s)
    BY ChainElsewhere
  <2> QED
    BY <2>1 DEF IsChain
<1>2. /\ r \in Seq(Cell) /\ r # <<>> /\ Len(r) = Len(s) + 1 /\ r[1] = b
      /\ \A i \in 1 .. Len(s) : r[i + 1] = s[i]
  BY <1>1, PushFacts
<1>3. IsInjective(r) /\ \A u : Member(u, r) <=> Member(u, s) \/ u = b
  BY <1>1, LinkFacts
<1>4. m[b] = p
  OBVIOUS
<1> HIDE DEF r, m
<1>5. ASSUME NEW i \in 1 .. Len(r) PROVE m[r[i]] = IF i = Len(r) THEN Null ELSE r[i + 1]
  <2>1. CASE i = 1
    <3>1. m[r[i]] = p
      BY <1>2, <1>4, <2>1
    <3>2. s = <<>> <=> Len(s) = 0
      BY <1>1
    <3>3. p = IF s = <<>> THEN Null ELSE s[1]
      BY <1>1 DEF IsChain
    <3> QED
      BY <1>1, <1>2, <2>1, <3>1, <3>2, <3>3
  <2>2. CASE i # 1
    <3>1. i - 1 \in 1 .. Len(s) /\ (i - 1) + 1 = i /\ (i - 1 = Len(s) <=> i = Len(r))
      BY <1>1, <1>2, <2>2
    <3>2. r[i] = s[i - 1] /\ m[s[i - 1]] = IF i - 1 = Len(s) THEN Null ELSE s[i]
      BY <1>1, <1>2, <3>1 DEF IsChain
    <3>3. i # Len(r) => r[i + 1] = s[i]
      BY <1>1, <1>2, <3>1
    <3> QED
      BY <3>1, <3>2, <3>3
  <2> QED
    BY <2>1, <2>2
<1>6. IsChain(m, b, r)
  BY <1>2, <1>5 DEF IsChain
<1> QED
  BY <1>2, <1>3, <1>6 DEF r, m

\* A block is put behind a chain.
LEMMA ChainAppend ==
  ASSUME NEW next \in [Cell -> Link], NEW p, NEW s, IsChain(next, p, s), IsInjective(s),
         NEW b \in Cell, ~Member(b, s)
  PROVE  LET r == Append(s, b)
             cut == [next EXCEPT ![b] = Null]
         IN  /\ s = <<>> => IsChain(cut, b, r)
             /\ s # <<>> => IsChain([cut EXCEPT ![s[Len(s)]] = b], p, r)
             /\ IsInjective(r) /\ Len(r) = Len(s) + 1 /\ r # <<>> /\ r[Len(r)] = b
             /\ \A u : Member(u, r) <=> Member(u, s) \/ u = b
<1> DEFINE r == Append(s, b)
           n == Len(s)
           m == IF s = <<>> THEN [next EXCEPT ![b] = Null]
                ELSE [[next EXCEPT ![b] = Null] EXCEPT ![s[n]] = b]
<1>1. /\ s \in Seq(Cell) /\ n \in Nat /\ p = (IF s = <<>> THEN Null ELSE s[1])
      /\ \A i \in 1 .. n : s[i] \in Cell /\ next[s[i]] = IF i = n THEN Null ELSE s[i + 1]
  BY DEF IsChain
<1>2. /\ r \in Seq(Cell) /\ r # <<>> /\ Len(r) = n + 1 /\ r[n + 1] = b
      /\ \A i \in 1 .. n : r[i] = s[i]
  BY <1>1, AppendProperties
<1>3. IsInjective(r) /\ \A u : Member(u, r) <=> Member(u, s) \/ u = b
  BY <1>1, LinkFacts
<1>4. /\ s = <<>> <=> n = 0
      /\ \A i \in 1 .. n : s[i] # b
      /\ \A i \in 1 .. n - 1 : s[i] # s[n]
  BY <1>1 DEF Member, IsInjective
<1>5. /\ m[b] = Null
      /\ n # 0 => m[s[n]] = b
      /\ \A i \in 1 .. n - 1 : m[s[i]] = s[i + 1]
  <2>1. CASE n = 0
    BY <1>1, <1>4, <2>1
  <2>2. CASE n # 0
    <3>1. n \in 1 .. n /\ s[n] \in Cell /\ s[n] # b /\ m = [[next EXCEPT ![b] = Null] EXCEPT ![s[n]] = b]
      BY <1>1, <1>4, <2>2
    <3>2. m[b] = Null /\ m[s[n]] = b
      BY <3>1
    <3>3. ASSUME NEW i \in 1 .. n - 1 PROVE m[s[i]] = s[i + 1]
      <4>1. i \in 1 .. n /\ i # n
        BY <1>1
      <4>2. s[i] \in Cell /\ s[i] # b /\ s[i] # s[n] /\ next[s[i]] = s[i + 1]
        BY <1>1, <1>4, <4>1
      <4> QED
        BY <3>1, <4>2
    <3> QED
      BY <3>2, <3>3
  <2> QED
    BY <2>1, <2>2
<1> HIDE DEF r, m, n
<1>6. ASSUME NEW i \in 1 .. Len(r) PROVE m[r[i]] = IF i = Len(r) THEN Null ELSE r[i + 1]
  <2>1. CASE i = n + 1
    BY <1>2, <1>5, <2>1
  <2>2. CASE i # n + 1
    <3>1. i \in 1 .. n /\ i # Len(r) /\ r[i] = s[i]
      BY <1>1, <1>2, <2>2
    <3>2. CASE i = n
      BY <1>1, <1>2, <1>5, <3>1, <3>2
    <3>3. CASE i # n
      <4>1. i \in 1 .. n - 1 /\ i + 1 \in 1 .. n
        BY <1>1, <3>1, <3>3
      <4> QED
        BY <1>2, <1>5, <3>1, <4>1
    <3> QED
      BY <3>2, <3>3
  <2> QED
    BY <2>1, <2>2
<1>7. r[1] = IF s = <<>> THEN b ELSE p
  BY <1>1, <1>2, <1>4
<1>8. IsChain(m, IF s = <<>> THEN b ELSE p, r)
  BY <1>2, <1>6, <1>7 DEF IsChain
<1> QED
  BY <1>2, <1>3, <1>8 DEF r, m, n

\* The first block leaves a chain; what its link says does not matter any more.
LEMMA ChainTail ==
  ASSUME NEW next \in [Cell -> Link], NEW p, NEW s, IsChain(next, p, s), IsInjective(s), s # <<>>
  PROVE  /\ p \in Cell /\ p = s[1] /\ Member(p, s)
         /\ IsChain(next, next[p], Tail(s)) /\ IsInjective(Tail(s))
         /\ \A u : Member(u, Tail(s)) <=> Member(u, s) /\ u # p
         /\ Len(Tail(s)) = Len(s) - 1
<1> DEFINE t == Tail(s)
           n == Len(s)
<1>1. /\ s \in Seq(Cell) /\ n \in Nat /\ n >= 1 /\ p = s[1]
      /\ \A i \in 1 .. n : next[s[i]] = IF i = n THEN Null ELSE s[i + 1]
  BY DEF IsChain
<1>2. /\ t \in Seq(Cell) /\ IsInjective(t) /\ s[1] \in Cell
      /\ Len(t) = n - 1 /\ \A i \in 1 .. n - 1 : t[i] = s[i + 1]
      /\ \A u : Member(u, t) <=> Member(u, s) /\ u # s[1]
      /\ Member(s[1], s)
  BY <1>1, TailMembers
<1> HIDE DEF t, n
<1>3. ASSUME NEW i \in 1 .. Len(t) PROVE next[t[i]] = IF i = Len(t) THEN Null ELSE t[i + 1]
  <2>1. i + 1 \in 1 .. n /\ (i = Len(t) <=> i + 1 = n) /\ (i # Len(t) => i + 1 \in 1 .. n - 1)
    BY <1>1, <1>2
  <2>2. t[i] = s[i + 1] /\ (i # Len(t) => t[i + 1] = s[(i + 1) + 1])
    BY <1>2, <2>1
  <2> QED
    BY <1>1, <2>1, <2>2
<1>4. next[p] = IF t = <<>> THEN Null ELSE t[1]
  <2>1. t = <<>> <=> n = 1
    BY <1>1, <1>2
  <2>2. 1 \in 1 .. n /\ (n # 1 => 1 \in 1 .. n - 1)
    BY <1>1
  <2>3. n # 1 => t[1] = s[1 + 1]
    BY <1>2, <2>2
  <2> QED
    BY <1>1, <2>1, <2>2, <2>3
<1> QED
  BY <1>1, <1>2, <1>3, <1>4 DEF IsChain, t, n

LEMMA LayoutFacts ==
  ASSUME NEW q, NEW F, NEW Q, Layout(q, F, Q)
  PROVE  /\ q.next \in [Cell -> Link] /\ q.body \in [Cell -> Message \cup {NoMessage}]
         /\ F \in Seq(Cell) /\ Q \in Seq(Cell)
         /\ Len(F) \in Nat /\ Len(Q) \in Nat /\ Len(F) <= Capacity /\ Len(Q) <= Capacity
         /\ q.free # Null <=> F # <<>>
         /\ q.entry > 0 <=> Q # <<>>
         /\ Messages(q) = [i \in 1 .. Len(Q) |-> q.body[Q[i]]]
         /\ Messages(q) \in Seq(Message \cup {NoMessage}) /\ Len(Messages(q)) = Len(Q)
<1>1. /\ F \in Seq(Cell) /\ IsInjective(F) /\ q.free = IF F = <<>> THEN Null ELSE F[1]
      /\ Q \in Seq(Cell) /\ IsInjective(Q) /\ q.entry = Len(Q)
      /\ q.next \in [Cell -> Link] /\ q.body \in [Cell -> Message \cup {NoMessage}]
  BY DEF Layout, IsChain, QueueState
<1>2. Len(F) \in Nat /\ Len(Q) \in Nat /\ Len(F) <= Capacity /\ Len(Q) <= Capacity
  BY <1>1, InjectiveLen
<1>3. q.free # Null <=> F # <<>>
  <2>1. F # <<>> => F[1] \in Cell
    BY <1>1
  <2> QED
    BY <1>1, <2>1, QueueAssumption
<1>4. Messages(q) = [i \in 1 .. Len(Q) |-> q.body[Q[i]]]
  <2>1. QueuedBlocks(q) = Q
    BY LayoutIs
  <2> QED
    BY <1>1, <2>1 DEF Messages
<1>5. \A i \in 1 .. Len(Q) : q.body[Q[i]] \in Message \cup {NoMessage}
  BY <1>1
<1>6. Messages(q) \in Seq(Message \cup {NoMessage}) /\ Len(Messages(q)) = Len(Q)
  BY <1>2, <1>4, <1>5
<1> QED
  BY <1>1, <1>2, <1>3, <1>4, <1>6

\* The first section of rt_mq_send_wait and rt_mq_urgent takes a block from the
\* free list.
LEMMA TakeFreeFacts ==
  ASSUME NEW q, NEW F, NEW Q, Layout(q, F, Q), F # <<>>
  PROVE  /\ Layout(TakeFree(q), Tail(F), Q) /\ Messages(TakeFree(q)) = Messages(q)
         /\ q.free \in Cell /\ Member(q.free, F) /\ Len(Tail(F)) = Len(F) - 1
         /\ \A u : Member(u, Tail(F)) <=> Member(u, F) /\ u # q.free
<1> DEFINE r == TakeFree(q)
           b == q.free
<1>1. /\ q \in QueueState /\ q.next \in [Cell -> Link]
      /\ IsChain(q.next, b, F) /\ IsInjective(F)
      /\ IsChain(q.next, q.head, Q) /\ IsInjective(Q)
  BY DEF Layout, QueueState
<1>2. /\ b \in Cell /\ Member(b, F)
      /\ IsChain(q.next, q.next[b], Tail(F)) /\ IsInjective(Tail(F))
      /\ \A u : Member(u, Tail(F)) <=> Member(u, F) /\ u # b
      /\ Len(Tail(F)) = Len(F) - 1
  BY <1>1, ChainTail
<1>3. /\ r \in QueueState /\ r.next = q.next /\ r.body = q.body /\ r.free = q.next[b]
      /\ r.head = q.head /\ r.tail = q.tail /\ r.entry = q.entry
  BY <1>1, <1>2 DEF TakeFree, QueueState
<1> HIDE DEF r, b
<1>4. Layout(r, Tail(F), Q)
  BY <1>1, <1>2, <1>3 DEF Layout
<1>5. Messages(r) = Messages(q)
  <2>1. Messages(r) = [i \in 1 .. Len(Q) |-> r.body[Q[i]]]
    BY <1>4, LayoutFacts
  <2>2. Messages(q) = [i \in 1 .. Len(Q) |-> q.body[Q[i]]]
    BY LayoutFacts
  <2> QED
    BY <1>3, <2>1, <2>2
<1> QED
  BY <1>2, <1>4, <1>5 DEF r, b

\* A block that was in the hands of a call is free again.
LEMMA PutFreeFacts ==
  ASSUME NEW q, NEW F, NEW Q, Layout(q, F, Q), NEW b \in Cell, ~Member(b, F), ~Member(b, Q)
  PROVE  /\ Layout(PutFree(q, b), <<b>> \o F, Q) /\ Messages(PutFree(q, b)) = Messages(q)
         /\ Len(<<b>> \o F) = Len(F) + 1
         /\ \A u : Member(u, <<b>> \o F) <=> Member(u, F) \/ u = b
<1> DEFINE r == PutFree(q, b)
           G == <<b>> \o F
<1>1. /\ q \in QueueState /\ q.next \in [Cell -> Link] /\ q.free \in Link
      /\ IsChain(q.next, q.free, F) /\ IsInjective(F)
      /\ IsChain(q.next, q.head, Q) /\ IsInjective(Q)
      /\ q.body \in [Cell -> Message \cup {NoMessage}]
  BY DEF Layout, QueueState
<1> DEFINE m == [q.next EXCEPT ![b] = q.free]
<1>2. /\ IsChain(m, b, G) /\ IsInjective(G) /\ Len(G) = Len(F) + 1
      /\ \A u : Member(u, G) <=> Member(u, F) \/ u = b
  BY <1>1, ChainPush
<1>3. IsChain(m, q.head, Q)
  BY <1>1, ChainElsewhere
<1>4. /\ r \in QueueState /\ r.next = m /\ r.body = [q.body EXCEPT ![b] = NoMessage]
      /\ r.free = b /\ r.head = q.head /\ r.tail = q.tail /\ r.entry = q.entry
  BY <1>1 DEF PutFree, QueueState, Link
<1> HIDE DEF r, G, m
<1>5. Layout(r, G, Q)
  BY <1>1, <1>2, <1>3, <1>4 DEF Layout
<1>6. Messages(r) = Messages(q)
  <2>1. \A i \in 1 .. Len(Q) : Q[i] \in Cell /\ Q[i] # b
    BY <1>1 DEF IsChain, Member
  <2>2. \A i \in 1 .. Len(Q) : r.body[Q[i]] = q.body[Q[i]]
    BY <1>1, <1>4, <2>1
  <2>3. /\ Messages(r) = [i \in 1 .. Len(Q) |-> r.body[Q[i]]]
        /\ Messages(q) = [i \in 1 .. Len(Q) |-> q.body[Q[i]]]
    BY <1>5, LayoutFacts
  <2> QED
    BY <2>2, <2>3
<1> QED
  BY <1>2, <1>5, <1>6 DEF r, G

\* rt_mq_send_wait links its message behind the others.
LEMMA LinkLastFacts ==
  ASSUME NEW q, NEW F, NEW Q, Layout(q, F, Q), NEW b \in Cell, ~Member(b, F), ~Member(b, Q),
         NEW m \in Message
  PROVE  /\ Layout(LinkLast(q, b, m), F, Append(Q, b))
         /\ Messages(LinkLast(q, b, m)) = Append(Messages(q), m)
         /\ Len(Append(Q, b)) = Len(Q) + 1 /\ Len(Q) < Capacity
         /\ \A u : Member(u, Append(Q, b)) <=> Member(u, Q) \/ u = b
<1> DEFINE r == LinkLast(q, b, m)
           R == Append(Q, b)
           last == Q[Len(Q)]
           cut == [q.next EXCEPT ![b] = Null]
           link == IF Q = <<>> THEN cut ELSE [cut EXCEPT ![last] = b]
           V == Message \cup {NoMessage}
<1>1. /\ q \in QueueState /\ q.next \in [Cell -> Link] /\ q.entry \in Nat /\ q.entry = Len(Q)
      /\ IsChain(q.next, q.free, F) /\ IsInjective(F)
      /\ IsChain(q.next, q.head, Q) /\ IsInjective(Q)
      /\ q.body \in [Cell -> V] /\ q.head \in Link
      /\ q.tail = (IF Q = <<>> THEN Null ELSE last)
      /\ Q \in Seq(Cell) /\ q.head = (IF Q = <<>> THEN Null ELSE Q[1])
  BY CapacityFacts DEF Layout, QueueState, IsChain, Capacity
<1>2. /\ Q = <<>> => IsChain(cut, b, R)
      /\ Q # <<>> => IsChain([cut EXCEPT ![last] = b], q.head, R)
      /\ IsInjective(R) /\ Len(R) = Len(Q) + 1 /\ R # <<>> /\ R[Len(R)] = b
      /\ \A u : Member(u, R) <=> Member(u, Q) \/ u = b
  BY <1>1, ChainAppend
<1>3. Q # <<>> => last \in Cell /\ Member(last, Q) /\ Q[1] \in Cell
  BY <1>1 DEF Member
<1>4. IsChain(link, q.free, F)
  <2>1. IsChain(cut, q.free, F) /\ cut \in [Cell -> Link]
    BY <1>1, ChainElsewhere DEF Link
  <2>2. CASE Q = <<>>
    BY <2>1, <2>2
  <2>3. CASE Q # <<>>
    <3>1. last \in Cell /\ ~Member(last, F)
      BY <1>3, <2>3 DEF Layout
    <3> HIDE DEF cut, last
    <3>2. IsChain([cut EXCEPT ![last] = b], q.free, F)
      BY <2>1, <3>1, ChainElsewhere
    <3> QED
      BY <2>3, <3>2
  <2> QED
    BY <2>2, <2>3
<1>5. q.tail = Null <=> Q = <<>>
  BY <1>1, <1>3, QueueAssumption
<1>6. q.head = Null <=> Q = <<>>
  BY <1>1, <1>3, QueueAssumption
<1>7. Len(Q) < Capacity /\ Len(R) <= Capacity
  <2>1. R \in Seq(Cell)
    BY <1>1
  <2>2. Len(R) <= Capacity /\ Len(Q) \in Nat
    BY <1>1, <1>2, <2>1, InjectiveLen
  <2> QED
    BY <1>2, <2>2, CapacityFacts
<1>8. /\ r.next = link /\ r.body = [q.body EXCEPT ![b] = m] /\ r.tail = b
      /\ r.head = (IF Q = <<>> THEN b ELSE q.head) /\ r.entry = Len(Q) + 1 /\ r.free = q.free
  <2>1. /\ r.next = IF q.tail # Null THEN [cut EXCEPT ![q.tail] = b] ELSE cut
        /\ r.body = [q.body EXCEPT ![b] = m] /\ r.tail = b /\ r.free = q.free
        /\ r.head = (IF q.head = Null THEN b ELSE q.head) /\ r.entry = q.entry + 1
    BY <1>1 DEF LinkLast, QueueState
  <2> HIDE DEF r, cut, last
  <2> QED
    BY <1>1, <1>5, <1>6, <2>1
<1>9. r \in QueueState
  <2>1. q.entry + 1 \in 0 .. Cardinality(Cell)
    BY <1>1, <1>7, CapacityFacts DEF Capacity
  <2> DEFINE nn == IF q.tail # Null THEN [cut EXCEPT ![q.tail] = b] ELSE cut
             hh == IF q.head = Null THEN b ELSE q.head
  <2>2. nn \in [Cell -> Link] /\ hh \in Link /\ b \in Link /\ [q.body EXCEPT ![b] = m] \in [Cell -> V]
    BY <1>1 DEF Link
  <2>3. r = [q EXCEPT !.next = nn, !.body = [q.body EXCEPT ![b] = m], !.tail = b,
                      !.head = hh, !.entry = q.entry + 1]
    BY <1>1 DEF LinkLast, QueueState
  <2> HIDE DEF nn, hh, r
  <2> QED
    BY <1>1, <2>1, <2>2, <2>3 DEF QueueState
<1> HIDE DEF r, R, cut, last
<1>10. IsChain(link, IF Q = <<>> THEN b ELSE q.head, R)
  BY <1>2
<1>11. \A u \in Cell : ~(Member(u, F) /\ Member(u, R))
  BY <1>2 DEF Layout
<1> HIDE DEF link
<1>12. Layout(r, F, R)
  BY <1>1, <1>2, <1>4, <1>8, <1>9, <1>10, <1>11 DEF Layout
<1>13. Messages(r) = Append(Messages(q), m)
  <2> DEFINE s == Messages(q)
             t == Messages(r)
  <2>1. /\ s \in Seq(V) /\ Len(s) = Len(Q) /\ s = [i \in 1 .. Len(Q) |-> q.body[Q[i]]]
    BY LayoutFacts
  <2>2. /\ t \in Seq(V) /\ Len(t) = Len(R) /\ t = [i \in 1 .. Len(R) |-> r.body[R[i]]]
    BY <1>12, LayoutFacts
  <2>3. /\ Append(s, m) \in Seq(V) /\ Len(Append(s, m)) = Len(Q) + 1
        /\ \A i \in 1 .. Len(Q) : Append(s, m)[i] = s[i]
        /\ Append(s, m)[Len(Q) + 1] = m
    BY <2>1, m \in V, AppendProperties
  <2>4. /\ Len(Q) \in Nat /\ \A i \in 1 .. Len(Q) : R[i] = Q[i] /\ Q[i] \in Cell /\ Q[i] # b
        /\ R[Len(Q) + 1] = b
    BY <1>1, AppendProperties DEF R, Member
  <2> HIDE DEF s, t, V
  <2>5. ASSUME NEW i \in 1 .. Len(t) PROVE t[i] = Append(s, m)[i]
    <3>1. i \in 1 .. Len(Q) + 1 /\ i \in 1 .. Len(R)
      BY <1>2, <2>2, <2>5
    <3>2. t[i] = r.body[R[i]]
      BY <2>2, <3>1
    <3>3. CASE i = Len(Q) + 1
      BY <1>1, <1>8, <2>3, <2>4, <3>2, <3>3
    <3>4. CASE i # Len(Q) + 1
      <4>1. i \in 1 .. Len(Q)
        BY <2>4, <3>1, <3>4
      <4>2. s[i] = q.body[Q[i]]
        BY <2>1, <4>1
      <4>3. r.body[R[i]] = q.body[Q[i]]
        BY <1>1, <1>8, <2>4, <4>1
      <4> QED
        BY <2>3, <3>2, <4>1, <4>2, <4>3
    <3> QED
      BY <3>3, <3>4
  <2>6. t = Append(s, m)
    <3>1. Len(t) = Len(Append(s, m))
      BY <1>2, <2>2, <2>3
    <3> QED
      BY <2>2, <2>3, <2>5, <3>1, SeqEqual
  <2> QED
    BY <2>6 DEF s, t
<1> QED
  BY <1>2, <1>7, <1>12, <1>13 DEF r, R

\* rt_mq_urgent links its message in front of the others.
Pushed(q, r, F, Q, R, b, m) ==
  /\ Layout(r, F, R) /\ Messages(r) = <<m>> \o Messages(q)
  /\ Len(R) = Len(Q) + 1 /\ Len(Q) < Capacity
  /\ \A u : Member(u, R) <=> Member(u, Q) \/ u = b

LEMMA LinkFirstFacts ==
  ASSUME NEW q, NEW F, NEW Q, Layout(q, F, Q), NEW b \in Cell, ~Member(b, F), ~Member(b, Q),
         NEW m \in Message
  PROVE  Pushed(q, LinkFirst(q, b, m), F, Q, <<b>> \o Q, b, m)
<1> DEFINE r == LinkFirst(q, b, m)
           R == <<b>> \o Q
           link == [q.next EXCEPT ![b] = q.head]
           V == Message \cup {NoMessage}
<1>1. /\ q \in QueueState /\ q.next \in [Cell -> Link] /\ q.entry \in Nat /\ q.entry = Len(Q)
      /\ IsChain(q.next, q.free, F) /\ IsInjective(F)
      /\ IsChain(q.next, q.head, Q) /\ IsInjective(Q)
      /\ q.body \in [Cell -> V] /\ q.head \in Link /\ q.tail \in Link
      /\ q.tail = (IF Q = <<>> THEN Null ELSE Q[Len(Q)]) /\ Q \in Seq(Cell) /\ Len(Q) \in Nat
  BY CapacityFacts DEF Layout, QueueState, IsChain, Capacity
<1>2. /\ IsChain(link, b, R) /\ IsInjective(R) /\ Len(R) = Len(Q) + 1 /\ R # <<>>
      /\ \A u : Member(u, R) <=> Member(u, Q) \/ u = b
  BY <1>1, ChainPush
<1>3. /\ R \in Seq(Cell) /\ R[1] = b /\ \A i \in 1 .. Len(Q) : R[i + 1] = Q[i]
  BY <1>1, PushFacts
<1>4. IsChain(link, q.free, F)
  BY <1>1, ChainElsewhere
<1>5. Len(Q) < Capacity /\ Len(R) <= Capacity
  <2>1. Len(R) <= Capacity
    BY <1>2, <1>3, InjectiveLen
  <2> QED
    BY <1>1, <1>2, <2>1, CapacityFacts
<1>6. q.tail = Null <=> Q = <<>>
  <2>1. Q # <<>> => Q[Len(Q)] \in Cell
    BY <1>1
  <2> QED
    BY <1>1, <2>1, QueueAssumption
<1>7. /\ r.next = link /\ r.body = [q.body EXCEPT ![b] = m] /\ r.head = b
      /\ r.tail = (IF q.tail = Null THEN b ELSE q.tail) /\ r.entry = Len(Q) + 1 /\ r.free = q.free
  BY <1>1 DEF LinkFirst, QueueState
<1>8. r \in QueueState
  <2>1. q.entry + 1 \in 0 .. Cardinality(Cell)
    BY <1>1, <1>5, CapacityFacts DEF Capacity
  <2> QED
    BY <1>1, <2>1 DEF LinkFirst, QueueState, Link
<1>9. r.tail = R[Len(R)]
  <2>1. CASE Q = <<>>
    BY <1>2, <1>3, <1>6, <1>7, <2>1
  <2>2. CASE Q # <<>>
    <3>1. Len(Q) \in 1 .. Len(Q) /\ q.tail = Q[Len(Q)]
      BY <1>1, <2>2
    <3>2. R[Len(R)] = Q[Len(Q)]
      BY <1>2, <1>3, <3>1
    <3> QED
      BY <1>6, <1>7, <2>2, <3>1, <3>2
  <2> QED
    BY <2>1, <2>2
<1>10. \A u \in Cell : ~(Member(u, F) /\ Member(u, R))
  BY <1>2 DEF Layout
<1> HIDE DEF r, R, link
<1>11. Layout(r, F, R)
  BY <1>1, <1>2, <1>4, <1>7, <1>8, <1>9, <1>10 DEF Layout
<1>12. Messages(r) = <<m>> \o Messages(q)
  <2> DEFINE s == Messages(q)
             t == Messages(r)
             p == <<m>> \o s
  <2>1. /\ s \in Seq(V) /\ Len(s) = Len(Q) /\ s = [i \in 1 .. Len(Q) |-> q.body[Q[i]]]
    BY LayoutFacts
  <2>2. /\ t \in Seq(V) /\ Len(t) = Len(R) /\ t = [i \in 1 .. Len(R) |-> r.body[R[i]]]
    BY <1>11, LayoutFacts
  <2>3. p \in Seq(V) /\ Len(p) = Len(Q) + 1 /\ p[1] = m /\ \A i \in 1 .. Len(Q) : p[i + 1] = s[i]
    BY <2>1, m \in V, PushFacts
  <2>4. \A i \in 1 .. Len(Q) : Q[i] \in Cell /\ Q[i] # b
    BY <1>1 DEF Member
  <2> HIDE DEF s, t, V, p
  <2>5. ASSUME NEW i \in 1 .. Len(t) PROVE t[i] = p[i]
    <3>1. i \in 1 .. Len(Q) + 1 /\ i \in 1 .. Len(R)
      BY <1>2, <2>2, <2>5
    <3>2. t[i] = r.body[R[i]]
      BY <2>2, <3>1
    <3>3. CASE i = 1
      BY <1>1, <1>3, <1>7, <2>3, <3>2, <3>3
    <3>4. CASE i # 1
      <4>1. i - 1 \in 1 .. Len(Q) /\ (i - 1) + 1 = i
        BY <1>1, <3>1, <3>4
      <4>2. s[i - 1] = q.body[Q[i - 1]] /\ R[i] = Q[i - 1] /\ p[i] = s[i - 1]
        BY <1>3, <2>1, <2>3, <4>1
      <4>3. r.body[Q[i - 1]] = q.body[Q[i - 1]]
        BY <1>1, <1>7, <2>4, <4>1
      <4> QED
        BY <3>2, <4>2, <4>3
    <3> QED
      BY <3>3, <3>4
  <2>6. t = p
    <3>1. Len(t) = Len(p)
      BY <1>2, <2>2, <2>3
    <3> QED
      BY <2>2, <2>3, <2>5, <3>1, SeqEqual
  <2> QED
    BY <2>6 DEF s, t, p
<1> QED
  BY <1>2, <1>5, <1>11, <1>12 DEF r, R, Pushed

\* The first section of rt_mq_recv takes the first message.
LEMMA TakeHeadFacts ==
  ASSUME NEW q, NEW F, NEW Q, Layout(q, F, Q), Q # <<>>
  PROVE  /\ Layout(TakeHead(q), F, Tail(Q))
         /\ Messages(q) # <<>> /\ Messages(TakeHead(q)) = Tail(Messages(q))
         /\ q.head \in Cell /\ Member(q.head, Q) /\ Len(Tail(Q)) = Len(Q) - 1
         /\ \A u : Member(u, Tail(Q)) <=> Member(u, Q) /\ u # q.head
<1> DEFINE r == TakeHead(q)
           b == q.head
           R == Tail(Q)
           n == Len(Q)
           V == Message \cup {NoMessage}
<1>1. /\ q \in QueueState /\ q.next \in [Cell -> Link] /\ q.entry = n
      /\ IsChain(q.next, q.free, F) /\ IsInjective(F)
      /\ IsChain(q.next, b, Q) /\ IsInjective(Q) /\ q.entry \in 0 .. Capacity
      /\ q.tail = Q[n] /\ q.tail \in Link /\ Q \in Seq(Cell) /\ n \in Nat /\ n >= 1
  BY CapacityFacts DEF Layout, QueueState, IsChain, Capacity
<1>2. /\ b \in Cell /\ b = Q[1] /\ Member(b, Q)
      /\ IsChain(q.next, q.next[b], R) /\ IsInjective(R)
      /\ \A u : Member(u, R) <=> Member(u, Q) /\ u # b
      /\ Len(R) = n - 1
  BY <1>1, ChainTail
<1>3. R \in Seq(Cell) /\ \A i \in 1 .. n - 1 : R[i] = Q[i + 1]
  BY <1>1, TailMembers
<1>4. /\ r.next = q.next /\ r.body = q.body /\ r.free = q.free /\ r.head = q.next[b]
      /\ r.tail = (IF q.tail = b THEN Null ELSE q.tail) /\ r.entry = n - 1
  BY <1>1 DEF TakeHead, QueueState
<1>5. r \in QueueState
  <2>1. q.entry - 1 \in 0 .. Cardinality(Cell)
    BY <1>1, CapacityFacts DEF Capacity
  <2>2. q.next[b] \in Link /\ (IF q.tail = b THEN Null ELSE q.tail) \in Link
    BY <1>1, <1>2 DEF Link
  <2> QED
    BY <1>1, <2>1, <2>2 DEF TakeHead, QueueState
<1> HIDE DEF r, b, R, n
<1>6. r.tail = IF R = <<>> THEN Null ELSE R[Len(R)]
  <2>1. CASE n = 1
    <3>1. R = <<>> /\ q.tail = b
      BY <1>1, <1>2, <1>3, <2>1
    <3> QED
      BY <1>4, <3>1
  <2>2. CASE n # 1
    <3>1. R # <<>> /\ n - 1 \in 1 .. n - 1 /\ (n - 1) + 1 = n
      BY <1>1, <1>2, <2>2
    <3>2. R[Len(R)] = Q[n]
      BY <1>2, <1>3, <3>1
    <3>3. Q[n] # Q[1]
      <4>1. DOMAIN Q = 1 .. n /\ n \in 1 .. n /\ 1 \in 1 .. n
        BY <1>1 DEF n
      <4> QED
        BY <1>1, <2>2, <4>1 DEF IsInjective
    <3> QED
      BY <1>1, <1>2, <1>4, <3>1, <3>2, <3>3
  <2> QED
    BY <2>1, <2>2
<1>7. Layout(r, F, R)
  BY <1>1, <1>2, <1>4, <1>5, <1>6 DEF Layout
<1>8. Messages(q) # <<>> /\ Messages(r) = Tail(Messages(q))
  <2> DEFINE s == Messages(q)
             t == Messages(r)
  <2>1. /\ s \in Seq(V) /\ Len(s) = n /\ s = [i \in 1 .. n |-> q.body[Q[i]]]
    BY LayoutFacts DEF n
  <2>2. /\ t \in Seq(V) /\ Len(t) = Len(R) /\ t = [i \in 1 .. Len(R) |-> r.body[R[i]]]
    BY <1>7, LayoutFacts
  <2> HIDE DEF s, t, V
  <2>3. s # <<>>
    BY <1>1, <2>1
  <2>4. Tail(s) \in Seq(V) /\ Len(Tail(s)) = n - 1 /\ \A i \in 1 .. n - 1 : Tail(s)[i] = s[i + 1]
    BY <2>1, <2>3, HeadTailProperties
  <2>5. ASSUME NEW i \in 1 .. Len(t) PROVE t[i] = Tail(s)[i]
    <3>1. i \in 1 .. n - 1 /\ i + 1 \in 1 .. n
      BY <1>1, <1>2, <2>2
    <3>2. t[i] = q.body[Q[i + 1]]
      BY <1>2, <1>3, <1>4, <2>2, <3>1
    <3> QED
      BY <2>1, <2>4, <3>1, <3>2
  <2>6. t = Tail(s)
    <3>1. Len(t) = Len(Tail(s))
      BY <1>2, <2>2, <2>4
    <3> QED
      BY <2>2, <2>4, <2>5, <3>1, SeqEqual
  <2> QED
    BY <2>3, <2>6 DEF s, t
<1> QED
  BY <1>2, <1>7, <1>8 DEF r, b, R, n

\* The queue after 0, 1, .. blocks of s were freed, as PutAllFree computes it.
IsFreed(f, q, s) ==
  f = [i \in 0 .. Len(s) |-> IF i = 0 THEN q ELSE PutFree(f[i - 1], s[i])]

LEMMA FreedExists ==
  ASSUME NEW q \in QueueState, NEW s \in Seq(Cell)
  PROVE  \E f : IsFreed(f, q, s)
<1> DEFINE n == Len(s)
           D == QueueState
           G == [i \in 1 .. n |-> [r \in D |-> PutFree(r, s[i])]]
<1>1. n \in Nat
  OBVIOUS
<1>2. ASSUME NEW r \in D, NEW i \in 1 .. n PROVE PutFree(r, s[i]) \in D
  <2>1. s[i] \in Cell /\ s[i] \in Link
    BY DEF Link
  <2> QED
    BY <2>1 DEF PutFree, QueueState
<1>3. G \in [1 .. n -> [D -> D]] /\ \A i \in 1 .. n, r \in D : G[i][r] = PutFree(r, s[i])
  <2> HIDE DEF D, n
  <2> QED
    BY <1>2
<1>4. q \in D
  OBVIOUS
<1> HIDE DEF D, G, n
<1>5. PICK f : IsRun(f, D, q, n, G)
  BY <1>1, <1>3, <1>4, IterationExists, Zenon
<1> DEFINE row(i) == IF i = 0 THEN q ELSE PutFree(f[i - 1], s[i])
<1>6. ASSUME NEW i \in 0 .. n PROVE f[i] = row(i)
  <2>1. CASE i = 0
    BY <1>5, <2>1 DEF IsRun
  <2>2. CASE i # 0
    <3>1. i \in 1 .. n /\ i - 1 \in 0 .. n
      BY <1>1, <2>2
    <3> QED
      BY <1>3, <1>5, <2>2, <3>1 DEF IsRun
  <2> QED
    BY <2>1, <2>2
<1>7. f = [i \in 0 .. n |-> row(i)]
  <2>1. f \in [0 .. n -> D]
    BY <1>5 DEF IsRun
  <2> HIDE DEF row
  <2> QED
    BY <1>6, <2>1
<1> QED
  BY <1>7 DEF IsFreed, n

\* The free list of r is that of q with the first n blocks of s.
Freeing(q, r, F, s, n) ==
  /\ r \in QueueState /\ r.head = q.head /\ r.tail = q.tail /\ r.entry = q.entry
  /\ \E G : /\ IsChain(r.next, r.free, G) /\ IsInjective(G)
            /\ \A u : Member(u, G) <=> Member(u, F) \/ \E i \in 1 .. n : s[i] = u

LEMMA FreeingStep ==
  ASSUME NEW q, NEW r, NEW F, NEW s \in Seq(Cell), IsInjective(s),
         \A u : ~(Member(u, F) /\ Member(u, s)),
         NEW n \in Nat, n < Len(s), Freeing(q, r, F, s, n)
  PROVE  Freeing(q, PutFree(r, s[n + 1]), F, s, n + 1)
<1> DEFINE b == s[n + 1]
           c == PutFree(r, b)
<1>1. /\ r \in QueueState /\ r.head = q.head /\ r.tail = q.tail /\ r.entry = q.entry
      /\ r.next \in [Cell -> Link]
  BY DEF Freeing, QueueState
<1>2. PICK G : /\ IsChain(r.next, r.free, G) /\ IsInjective(G)
               /\ \A u : Member(u, G) <=> Member(u, F) \/ \E i \in 1 .. n : s[i] = u
  BY DEF Freeing
<1>3. /\ n + 1 \in 1 .. Len(s) /\ b \in Cell /\ Member(b, s)
      /\ \A i \in 1 .. n : s[i] # b
  <2>1. /\ n + 1 \in 1 .. Len(s) /\ DOMAIN s = 1 .. Len(s)
        /\ \A i \in 1 .. n : i \in 1 .. Len(s) /\ i # n + 1
    OBVIOUS
  <2> QED
    BY <2>1 DEF Member, IsInjective
<1>4. ~Member(b, G)
  BY <1>2, <1>3
<1>5. /\ c \in QueueState /\ c.head = r.head /\ c.tail = r.tail /\ c.entry = r.entry
      /\ c.next = [r.next EXCEPT ![b] = r.free] /\ c.free = b
  BY <1>1, <1>3 DEF PutFree, QueueState, Link
<1> HIDE DEF b, c
<1> DEFINE H == <<b>> \o G
<1>6. /\ IsChain([r.next EXCEPT ![b] = r.free], b, H) /\ IsInjective(H)
      /\ \A u : Member(u, H) <=> Member(u, G) \/ u = b
  <2>1. /\ r.next \in [Cell -> Link] /\ IsChain(r.next, r.free, G) /\ IsInjective(G)
        /\ b \in Cell /\ ~Member(b, G)
    BY <1>1, <1>2, <1>3, <1>4
  <2> QED
    BY ONLY <2>1, ChainPush
<1> HIDE DEF H
<1>7. ASSUME NEW u
      PROVE  (\E i \in 1 .. n : s[i] = u) \/ u = b <=> \E i \in 1 .. n + 1 : s[i] = u
  <2>1. 1 .. n + 1 = (1 .. n) \cup {n + 1}
    OBVIOUS
  <2> QED
    BY <2>1 DEF b
<1>8. \A u : Member(u, H) <=> Member(u, F) \/ \E i \in 1 .. n + 1 : s[i] = u
  BY <1>2, <1>6, <1>7
<1>9. IsChain(c.next, c.free, H)
  BY <1>5, <1>6
<1> QED
  BY <1>1, <1>5, <1>6, <1>8, <1>9 DEF Freeing, b, c

LEMMA PutAllFreeFacts ==
  ASSUME NEW q \in QueueState, NEW F, IsChain(q.next, q.free, F), IsInjective(F),
         NEW s \in Seq(Cell), IsInjective(s), \A u : ~(Member(u, F) /\ Member(u, s))
  PROVE  Freeing(q, PutAllFree(q, s), F, s, Len(s))
<1> DEFINE N == Len(s)
           freed[i \in 0 .. Len(s)] == IF i = 0 THEN q ELSE PutFree(freed[i - 1], s[i])
<1>1. PutAllFree(q, s) = freed[N] /\ N \in Nat
  BY DEF PutAllFree
<1>2. IsFreed(freed, q, s)
  <2> DEFINE g == CHOOSE h : IsFreed(h, q, s)
  <2>1. IsFreed(g, q, s)
    BY FreedExists
  <2>2. freed = g
    BY DEF IsFreed
  <2> QED
    BY <2>1, <2>2
<1> HIDE DEF freed
<1>3. \A i \in 0 .. N : freed[i] = IF i = 0 THEN q ELSE PutFree(freed[i - 1], s[i])
  <2> DEFINE row(i) == IF i = 0 THEN q ELSE PutFree(freed[i - 1], s[i])
  <2>1. \A i \in 0 .. N : freed[i] = row(i)
    <3> HIDE DEF row
    <3>1. freed = [i \in 0 .. N |-> row(i)]
      BY <1>2 DEF IsFreed, row
    <3> QED
      BY <3>1
  <2> QED
    BY <2>1
<1> HIDE DEF N
<1> DEFINE Bad == {n \in 0 .. N : ~Freeing(q, freed[n], F, s, n)}
<1>4. Bad = {}
  <2>1. SUFFICES ASSUME Bad # {} PROVE FALSE
    OBVIOUS
  <2>2. PICK n \in Bad : \A i \in Bad : n <= i
    <3>1. Bad \in SUBSET Nat
      BY <1>1
    <3> HIDE DEF Bad
    <3> QED
      BY <2>1, <3>1, LeastOf
  <2>3. n \in 0 .. N /\ n \in Nat /\ ~Freeing(q, freed[n], F, s, n)
    OBVIOUS
  <2>4. CASE n = 0
    <3>1. freed[0] = q
      BY <1>1, <1>3
    <3>2. ~\E i \in 1 .. 0 : TRUE
      OBVIOUS
    <3>3. Freeing(q, q, F, s, 0)
      BY <3>2 DEF Freeing
    <3> QED
      BY <2>3, <2>4, <3>1, <3>3
  <2>5. CASE n # 0
    <3>1. n - 1 \in Nat /\ n - 1 \in 0 .. N /\ ~(n <= n - 1) /\ n - 1 < N /\ (n - 1) + 1 = n
      <4> HIDE DEF Bad
      <4> QED
        BY <2>3, <2>5, <1>1
    <3>2. n - 1 \notin Bad
      <4> HIDE DEF Bad
      <4> QED
        BY <2>2, <3>1
    <3>3. Freeing(q, freed[n - 1], F, s, n - 1)
      BY <3>1, <3>2
    <3>4. n - 1 < Len(s)
      BY <3>1 DEF N
    <3>5. Freeing(q, PutFree(freed[n - 1], s[(n - 1) + 1]), F, s, (n - 1) + 1)
      BY <3>1, <3>3, <3>4, FreeingStep
    <3>6. freed[n] = PutFree(freed[n - 1], s[n])
      BY <1>3, <2>3, <2>5
    <3> QED
      BY <2>3, <3>1, <3>5, <3>6
  <2> QED
    BY <2>4, <2>5
<1>5. Freeing(q, freed[N], F, s, N)
  BY <1>1, <1>4
<1> QED
  BY <1>1, <1>5 DEF N

\* rt_mq_init leaves every block on the free list.
LEMMA EmptyQueueFacts ==
  /\ QueueSound(EmptyQueue) /\ QueuedBlocks(EmptyQueue) = <<>>
  /\ Messages(EmptyQueue) = <<>> /\ EmptyQueue.entry = 0
  /\ \A b \in Cell : Member(b, FreeBlocks(EmptyQueue))
<1> DEFINE s == SetToSeq(Cell)
           q == NoBlocks
           r == PutAllFree(q, s)
<1>1. s \in Seq(Cell) /\ IsInjective(s) /\ \A b : Member(b, s) <=> b \in Cell
  BY CapacityFacts, SetToSeqFacts
<1>2. /\ q \in QueueState /\ q.head = Null /\ q.tail = Null /\ q.entry = 0 /\ q.free = Null
      /\ q.next \in [Cell -> Link]
  BY CapacityFacts DEF NoBlocks, QueueState, Link, Capacity
<1> HIDE DEF q, s
<1>3. IsChain(q.next, q.free, <<>>) /\ IsInjective(<<>>) /\ \A u : ~Member(u, <<>>)
  BY <1>2 DEF IsChain, IsInjective, Member
<1>4. Freeing(q, r, <<>>, s, Len(s))
  BY <1>1, <1>2, <1>3, PutAllFreeFacts
<1> HIDE DEF r
<1>5. PICK F : /\ IsChain(r.next, r.free, F) /\ IsInjective(F)
               /\ \A u : Member(u, F) <=> Member(u, <<>>) \/ \E i \in 1 .. Len(s) : s[i] = u
  BY <1>4 DEF Freeing
<1>6. r \in QueueState /\ r.head = Null /\ r.tail = Null /\ r.entry = 0
  BY <1>2, <1>4 DEF Freeing
<1>7. IsChain(r.next, r.head, <<>>)
  BY <1>6 DEF IsChain
<1>8. Layout(r, F, <<>>)
  BY <1>3, <1>5, <1>6, <1>7 DEF Layout
<1>9. FreeBlocks(r) = F /\ QueuedBlocks(r) = <<>> /\ QueueSound(r)
  BY <1>8, LayoutIs
<1>10. Messages(r) = <<>>
  <2>1. Messages(r) \in Seq(Message \cup {NoMessage}) /\ Len(Messages(r)) = 0
    BY <1>8, LayoutFacts
  <2> QED
    BY <2>1
<1>11. \A b \in Cell : Member(b, F)
  <2>1. DOMAIN s = 1 .. Len(s)
    BY <1>1
  <2> QED
    BY <1>1, <1>5, <2>1 DEF Member
<1>12. EmptyQueue = r
  BY DEF EmptyQueue, r, q, s
<1> QED
  BY <1>6, <1>9, <1>10, <1>11, <1>12

\* RT_IPC_CMD_RESET frees the blocks of the messages; blocks in the hands of calls
\* stay there.
LEMMA FreeMessagesFacts ==
  ASSUME NEW q, QueueSound(q)
  PROVE  LET r == FreeMessages(q) IN
         /\ QueueSound(r) /\ QueuedBlocks(r) = <<>> /\ Messages(r) = <<>> /\ r.entry = 0
         /\ \A u : Member(u, FreeBlocks(r)) <=> Member(u, FreeBlocks(q)) \/ Member(u, QueuedBlocks(q))
<1> DEFINE F == FreeBlocks(q)
           s == QueuedBlocks(q)
           m == PutAllFree(q, s)
           r == FreeMessages(q)
<1>1. Layout(q, F, s)
  BY DEF QueueSound
<1>2. /\ q \in QueueState /\ IsChain(q.next, q.free, F) /\ IsInjective(F)
      /\ s \in Seq(Cell) /\ IsInjective(s)
      /\ \A b \in Cell : ~(Member(b, F) /\ Member(b, s))
  BY <1>1 DEF Layout, IsChain
<1> HIDE DEF F, s
<1>3. \A u : Member(u, s) => u \in Cell
  BY <1>2 DEF Member
<1>4. Freeing(q, m, F, s, Len(s))
  BY <1>2, <1>3, PutAllFreeFacts
<1>5. r = [m EXCEPT !.head = Null, !.tail = Null, !.entry = 0]
  BY DEF FreeMessages, s
<1> HIDE DEF m, r
<1>6. m \in QueueState
  BY <1>4 DEF Freeing
<1>7. /\ r \in QueueState /\ r.head = Null /\ r.tail = Null /\ r.entry = 0
      /\ r.next = m.next /\ r.free = m.free
  <2>1. Null \in Link /\ 0 \in 0 .. Cardinality(Cell)
    BY CapacityFacts DEF Link, Capacity
  <2> QED
    BY <1>5, <1>6, <2>1 DEF QueueState
<1>8. PICK G : /\ IsChain(m.next, m.free, G) /\ IsInjective(G)
               /\ \A u : Member(u, G) <=> Member(u, F) \/ \E i \in 1 .. Len(s) : s[i] = u
  BY <1>4 DEF Freeing
<1>9. IsChain(r.next, r.head, <<>>) /\ IsInjective(<<>>) /\ \A u : ~Member(u, <<>>)
  BY <1>7 DEF IsChain, IsInjective, Member
<1>10. Layout(r, G, <<>>)
  BY <1>7, <1>8, <1>9 DEF Layout
<1>11. FreeBlocks(r) = G /\ QueuedBlocks(r) = <<>> /\ QueueSound(r)
  BY <1>10, LayoutIs
<1>12. Messages(r) = <<>>
  <2>1. Messages(r) \in Seq(Message \cup {NoMessage}) /\ Len(Messages(r)) = 0
    BY <1>10, LayoutFacts
  <2> QED
    BY <2>1
<1>13. \A u : Member(u, G) <=> Member(u, F) \/ Member(u, s)
  <2>1. DOMAIN s = 1 .. Len(s)
    BY <1>2
  <2> QED
    BY <1>8, <2>1 DEF Member
<1> QED
  BY <1>7, <1>11, <1>12, <1>13 DEF r, F, s

-----------------------------------------------------------------------------
(* The steps of threads that look again when they are resumed: the current *)
(* thread leaves a call, or a section of it, from wherever it is.          *)

\* From a to b some threads left their lists and wait no more; nobody else waits.
Spared(a, b) ==
  /\ Calm(b) /\ b.cur = a.cur /\ b.lock = a.lock
  /\ \A t \in Thread, o \in Obj : Member(t, b.wait[o]) => Member(t, a.wait[o])
  /\ \A t \in Thread : b.stat[t] = "SUSPEND" =>
       /\ a.stat[t] = "SUSPEND" /\ b.error[t] = a.error[t]
       /\ \A o \in Obj : Member(t, a.wait[o]) => Member(t, b.wait[o])

\* The current thread is granted nothing any more, and nobody else is; or the first
\* thread h of o is.
Leaves == \A t \in Thread, q \in Obj : Granted(t, q)' <=> Granted(t, q) /\ t # k.cur

Hands(h, o) ==
  /\ h \in Thread /\ h # k.cur /\ ~Granted(h, o)
  /\ \A t \in Thread, q \in Obj :
       Granted(t, q)' <=> (Granted(t, q) /\ t # k.cur) \/ (t = h /\ q = o)

\* The current thread may be inside a call, but not suspended in it.
Active == k.cur # Idle /\ pc[k.cur] \notin {"block", "sleep"}

LEMMA ActiveFacts ==
  ASSUME IpcInv, Active
  PROVE  /\ k.cur \in Thread /\ k.cur # Idle /\ pc[k.cur] \notin {"block", "sleep"}
         /\ k.stat[k.cur] = "RUNNING" /\ Calm(k) /\ k.lock = 0 /\ IpcTypeOK /\ Joined
         /\ k \in KernelState
         /\ \A q \in Obj : ~Member(k.cur, k.wait[q])
<1>1. /\ k.cur \in Thread /\ k.stat[k.cur] = "RUNNING" /\ Calm(k) /\ k.lock = 0
      /\ IpcTypeOK /\ Joined /\ k \in KernelState
  BY CurRuns DEF Active, IpcInv
<1> QED
  BY <1>1, AwakeUnlisted DEF Active

LEMMA LeaveKeeps ==
  ASSUME IpcInv, Active, Spared(k, k'),
         NEW label \in Pc, label \notin {"block", "sleep", "woken"}, Goto(label),
         NEW o \in Obj, on' \in {on, [on EXCEPT ![k.cur] = o]},
         live' \subseteq Obj, phantom' \in BOOLEAN
  PROVE  /\ IpcInv'
         /\ \A t \in Thread, q \in Obj : InCall(t, q)' <=> InCall(t, q) /\ t # k.cur
<1> DEFINE c == k.cur
<1>1. /\ c \in Thread /\ c # Idle /\ k.stat[c] = "RUNNING" /\ Calm(k) /\ k.lock = 0
      /\ IpcTypeOK /\ Joined /\ k \in KernelState
      /\ \A q \in Obj : ~Member(c, k.wait[q])
  BY ActiveFacts
<1>2. /\ pc' \in [Thread -> Pc] /\ pc'[c] = label
      /\ \A t \in Thread : t # c => pc'[t] = pc[t]
  BY <1>1, GotoFacts
<1>3. on' \in [Thread -> Obj] /\ \A t \in Thread : t # c => on'[t] = on[t]
  BY <1>1 DEF IpcTypeOK
<1>4. /\ Calm(k') /\ k'.cur = c /\ k'.lock = 0
      /\ \A t \in Thread, q \in Obj : Member(t, k'.wait[q]) => Member(t, k.wait[q])
      /\ \A t \in Thread : k'.stat[t] = "SUSPEND" =>
           /\ k.stat[t] = "SUSPEND" /\ k'.error[t] = k.error[t]
           /\ \A q \in Obj : Member(t, k.wait[q]) => Member(t, k'.wait[q])
  BY <1>1 DEF Spared
<1> HIDE DEF c
<1>5. \A t \in Thread, q \in Obj : InCall(t, q)' <=> InCall(t, q) /\ t # c
  BY <1>2, <1>3 DEF InCall
<1>6. Joined'
  <2>1. ASSUME NEW t \in Thread, NEW q \in Obj
        PROVE  /\ Member(t, k'.wait[q]) => InCall(t, q)'
               /\ InCall(t, q)' /\ k'.stat[t] = "SUSPEND" =>
                    Member(t, k'.wait[q]) /\ k'.error[t] = "RT_EOK"
    <3>1. /\ Member(t, k.wait[q]) => InCall(t, q)
          /\ InCall(t, q) /\ k.stat[t] = "SUSPEND" => Member(t, k.wait[q]) /\ k.error[t] = "RT_EOK"
      BY <1>1 DEF Joined
    <3>2. InCall(t, q)' <=> InCall(t, q) /\ t # c
      BY <1>5
    <3> QED
      BY <3>1, <3>2, <1>1, <1>4
  <2> QED
    BY <2>1 DEF Joined
<1>7. pc'[Idle] = "run"
  BY <1>1, <1>2, KernelAssumption DEF IpcInv
<1>8. k'.stat[k'.cur] # "SUSPEND"
  BY <1>1, <1>4
<1>9. IpcTypeOK'
  BY <1>2, <1>3, <1>4 DEF IpcTypeOK, Calm, Lists
<1> QED
  BY <1>4, <1>5, <1>6, <1>7, <1>8, <1>9 DEF IpcInv, c

\* The call goes on in another section, or ends, without waking anybody; it may set
\* the caller's answer.
LEMMA QuietKeeps ==
  ASSUME IpcInv, Active, NEW e \in Errno, k' \in {k, [k EXCEPT !.error[k.cur] = e]},
         NEW label \in Pc, label \notin {"block", "sleep", "woken"}, Goto(label),
         NEW o \in Obj, on' \in {on, [on EXCEPT ![k.cur] = o]},
         live' \subseteq Obj, phantom' \in BOOLEAN
  PROVE  IpcInv' /\ Leaves /\ k'.wait = k.wait
<1> DEFINE c == k.cur
<1>1. c \in Thread /\ k.stat[c] = "RUNNING" /\ Calm(k) /\ k \in KernelState /\ IpcTypeOK
  BY ActiveFacts
<1>2. /\ Calm(k') /\ k'.cur = c /\ k'.stat = k.stat /\ k'.wait = k.wait /\ k'.lock = k.lock
      /\ \A t \in Thread : t # c => k'.error[t] = k.error[t]
  <2>1. CASE k' = k
    BY <1>1, <2>1
  <2>2. CASE k' = [k EXCEPT !.error[k.cur] = e]
    <3>1. /\ Calm(k') /\ k'.cur = k.cur /\ k'.stat = k.stat /\ k'.wait = k.wait
          /\ k'.lock = k.lock /\ k'.error = [k.error EXCEPT ![k.cur] = e]
      BY <1>1, <2>2, ErrorCalm
    <3> QED
      BY <3>1, <1>1 DEF KernelState
  <2> QED
    BY <2>1, <2>2
<1>3. Spared(k, k')
  BY <1>1, <1>2 DEF Spared
<1>4. IpcInv' /\ \A t \in Thread, q \in Obj : InCall(t, q)' <=> InCall(t, q) /\ t # k.cur
  BY <1>3, LeaveKeeps
<1>5. Leaves
  BY <1>2, <1>4 DEF Leaves, Granted
<1> QED
  BY <1>2, <1>4, <1>5

\* A call ends and resumes the first thread of o.
LEMMA EndKeeps ==
  ASSUME IpcInv, Active, NEW o \in Obj, k.wait[o] # <<>>, k' = _ipc_list_resume(k, o),
         NEW label \in Pc, label \notin {"block", "sleep", "woken"}, Goto(label),
         NEW r \in Obj, on' \in {on, [on EXCEPT ![k.cur] = r]},
         live' \subseteq Obj, phantom' \in BOOLEAN
  PROVE  /\ IpcInv' /\ Hands(Head(k.wait[o]), o)
         /\ \A q \in Obj : k.wait[q] = <<>> => k'.wait[q] = <<>>
<1> DEFINE h == Head(k.wait[o])
<1>1. /\ k.cur \in Thread /\ k.stat[k.cur] = "RUNNING" /\ Calm(k) /\ Joined /\ IpcTypeOK
      /\ k \in KernelState
  BY ActiveFacts
<1>2. h \in Thread /\ Member(h, k.wait[o]) /\ k.stat[h] = "SUSPEND"
  BY <1>1, HeadFacts
<1>3. /\ Released(k, k') /\ k'.stat[h] # "SUSPEND" /\ k'.error = k.error
      /\ \A v \in Thread \ {h} : k'.stat[v] = k.stat[v]
  BY <1>1, ListResume
<1> HIDE DEF h
<1>4. InCall(h, o) /\ k.error[h] = "RT_EOK"
  BY <1>1, <1>2 DEF Joined
<1>5. /\ Spared(k, k')
      /\ \A q \in Obj : k.wait[q] = <<>> => k'.wait[q] = <<>>
  <2>1. \A t \in Thread : k'.stat[t] = "SUSPEND" => k.stat[t] = "SUSPEND"
    BY <1>3
  <2> QED
    BY <1>3, <2>1 DEF Released, Spared
<1>6. \A t \in Thread, q \in Obj : InCall(t, q)' <=> InCall(t, q) /\ t # k.cur
  BY <1>5, LeaveKeeps
<1>7. IpcInv'
  BY <1>5, LeaveKeeps
<1>8. h # k.cur
  BY <1>1, <1>2
<1>9. ASSUME NEW t \in Thread, NEW q \in Obj
      PROVE  Granted(t, q)' <=> (Granted(t, q) /\ t # k.cur) \/ (t = h /\ q = o)
  <2>1. InCall(t, q)' <=> InCall(t, q) /\ t # k.cur
    BY <1>6
  <2>2. CASE t = h
    <3>1. InCall(h, q) <=> q = o
      BY <1>4 DEF InCall
    <3> QED
      BY <3>1, <2>1, <2>2, <1>2, <1>3, <1>4, <1>8 DEF Granted
  <2>3. CASE t # h
    BY <2>1, <2>3, <1>3 DEF Granted
  <2> QED
    BY <2>2, <2>3
<1>10. ~Granted(h, o)
  BY <1>2 DEF Granted
<1> QED
  BY <1>2, <1>5, <1>7, <1>8, <1>9, <1>10 DEF Hands, h

\* A call waits on o, for the first time or again.
LEMMA WaitKeeps ==
  ASSUME IpcInv, Active, NEW o \in Obj, NEW flag, NEW time,
         k' = Block(k, o, flag, time), Goto("block"),
         on' = [on EXCEPT ![k.cur] = o], live' = live, phantom' = phantom
  PROVE  /\ IpcInv' /\ Leaves
         /\ \A q \in Obj : q # o => k'.wait[q] = k.wait[q]
<1> DEFINE c == k.cur
<1>1. /\ c \in Thread /\ c # Idle /\ k.stat[c] = "RUNNING" /\ Calm(k) /\ k.lock = 0
      /\ IpcTypeOK /\ Joined /\ k \in KernelState
      /\ \A q \in Obj : ~Member(c, k.wait[q])
  BY ActiveFacts
<1>2. Blocked(k, k', o, flag)
  BY <1>1, BlockCalm
<1>3. /\ Calm(k') /\ k'.cur = c /\ k'.lock = 0
      /\ k'.stat[c] = "SUSPEND" /\ k'.error[c] = "RT_EOK"
      /\ \A t \in Thread : t # c => k'.stat[t] = k.stat[t] /\ k'.error[t] = k.error[t]
      /\ \A q \in Obj : q # o => k'.wait[q] = k.wait[q]
      /\ \A t \in Thread, q \in Obj : Member(t, k'.wait[q]) <=> Member(t, k.wait[q]) \/ (t = c /\ q = o)
  BY <1>1, <1>2 DEF Blocked, KernelState
<1>4. /\ pc' \in [Thread -> Pc] /\ pc'[c] = "block"
      /\ \A t \in Thread : t # c => pc'[t] = pc[t]
  BY <1>1, GotoFacts DEF Pc
<1>5. /\ on' \in [Thread -> Obj] /\ on'[c] = o
      /\ \A t \in Thread : t # c => on'[t] = on[t]
  BY <1>1 DEF IpcTypeOK
<1> HIDE DEF c
<1>6. \A t \in Thread, q \in Obj : /\ t # c => (InCall(t, q)' <=> InCall(t, q))
                                   /\ t = c => (InCall(t, q)' <=> q = o)
  BY <1>4, <1>5 DEF InCall
<1>7. Joined'
  BY <1>1, <1>3, <1>6 DEF Joined
<1>8. \A t \in Thread, q \in Obj : Granted(t, q)' <=> Granted(t, q) /\ t # c
  BY <1>3, <1>6 DEF Granted
<1>9. pc'[Idle] = "run"
  BY <1>1, <1>4, KernelAssumption DEF IpcInv
<1>10. IpcTypeOK'
  BY <1>1, <1>3, <1>4, <1>5 DEF IpcTypeOK, Calm, Lists
<1> QED
  BY <1>3, <1>4, <1>7, <1>8, <1>9, <1>10 DEF IpcInv, Leaves, c

\* RT_IPC_CMD_RESET empties both lists; nobody is granted anything.
LEMMA ResetKeeps ==
  ASSUME IpcInv, Active, k' = ResumeEveryone(ResumeEveryone(k, rx), tx), Goto("sched"),
         on' = on, live' = live, phantom' = phantom
  PROVE  IpcInv' /\ Leaves /\ k'.wait[rx] = <<>> /\ k'.wait[tx] = <<>>
<1> DEFINE b == ResumeEveryone(k, rx)
<1>1. /\ Calm(k) /\ IpcTypeOK /\ k \in KernelState /\ rx \in Obj /\ tx \in Obj
      /\ k.stat[k.cur] = "RUNNING"
  BY ActiveFacts, ChannelsAssumption
<1>2. Emptied(k, b, rx)
  BY <1>1, ResumeEveryoneFacts
<1> HIDE DEF b
<1>3. Calm(b)
  BY <1>2 DEF Emptied, Released
<1>4. Emptied(b, k', tx)
  <2>1. k' = ResumeEveryone(b, tx)
    BY DEF b
  <2> QED
    BY <1>1, <1>3, <2>1, ResumeEveryoneFacts
<1>5. Released(k, b) /\ Released(b, k') /\ Released(k, k')
  BY <1>2, <1>4, ReleasedTrans DEF Emptied
<1>6. k'.wait[rx] = <<>> /\ k'.wait[tx] = <<>>
  BY <1>1, <1>2, <1>4, <1>5 DEF Emptied, Released
<1>7. Spared(k, k')
  <2>1. \A t \in Thread : k'.stat[t] = "SUSPEND" => k.stat[t] = "SUSPEND"
    BY <1>5 DEF Released
  <2> QED
    BY <1>5, <2>1 DEF Released, Spared
<1>8. IpcInv' /\ \A t \in Thread, q \in Obj : InCall(t, q)' <=> InCall(t, q) /\ t # k.cur
  <2>1. "sched" \in Pc /\ live' \subseteq Obj /\ phantom' \in BOOLEAN
    BY <1>1 DEF Pc, IpcTypeOK
  <2> QED
    BY <1>1, <1>7, <2>1, LeaveKeeps
<1>9. ASSUME NEW t \in Thread
      PROVE  \/ k'.stat[t] = k.stat[t] /\ k'.error[t] = k.error[t]
             \/ k.stat[t] = "SUSPEND" /\ k'.error[t] = "RT_ERROR"
  <2>1. CASE Member(t, k.wait[rx])
    <3>1. k.stat[t] = "SUSPEND"
      BY <1>1, <2>1 DEF Calm, Lists, WaitListsSound
    <3>2. b.stat[t] # "SUSPEND" /\ b.error[t] = "RT_ERROR"
      BY <1>2, <2>1 DEF Emptied
    <3> QED
      BY <1>5, <3>1, <3>2 DEF Released
  <2>2. CASE ~Member(t, k.wait[rx])
    <3>1. b.stat[t] = k.stat[t] /\ b.error[t] = k.error[t]
      BY <1>2, <2>2 DEF Emptied
    <3>2. CASE Member(t, b.wait[tx])
      <4>1. b.stat[t] = "SUSPEND"
        BY <1>1, <1>3, <3>2 DEF Calm, Lists, WaitListsSound
      <4> QED
        BY <1>4, <3>1, <3>2, <4>1 DEF Emptied
    <3>3. CASE ~Member(t, b.wait[tx])
      BY <1>4, <3>1, <3>3 DEF Emptied
    <3> QED
      BY <3>2, <3>3
  <2> QED
    BY <2>1, <2>2
<1>10. Leaves
  BY <1>8, <1>9 DEF Leaves, Granted
<1> QED
  BY <1>6, <1>8, <1>10

\* How many threads are granted a place in o after such a step.
Own(q) == IF Granted(k.cur, q) THEN 1 ELSE 0

LEMMA CountLeaves ==
  ASSUME k.cur \in Thread, Leaves, NEW q \in Obj
  PROVE  /\ Resumed(q) \in Nat /\ Own(q) <= Resumed(q)
         /\ Resumed(q)' = Resumed(q) - Own(q)
<1> DEFINE G == {t \in Thread : Granted(t, q)}
           c == k.cur
<1>1. G' = G \ {c}
  BY DEF Leaves
<1>2. (c \in G <=> Granted(c, q)) /\ IsFiniteSet(G)
  BY IpcAssumption, FS_Subset
<1>3. Resumed(q) = Cardinality(G) /\ Resumed(q)' = Cardinality(G \ {c})
  BY <1>1 DEF Resumed
<1> HIDE DEF G
<1>4. /\ Cardinality(G) \in Nat
      /\ Cardinality(G \ {c}) = IF c \in G THEN Cardinality(G) - 1 ELSE Cardinality(G)
      /\ Cardinality(G \ {c}) \in Nat
  BY <1>2, FS_CardinalityType, FS_RemoveElement
<1> HIDE DEF c
<1> QED
  BY <1>2, <1>3, <1>4 DEF Own, c

LEMMA CountHands ==
  ASSUME k.cur \in Thread, NEW h, NEW o \in Obj, Hands(h, o), NEW q \in Obj
  PROVE  /\ Resumed(q) \in Nat /\ Own(q) <= Resumed(q)
         /\ Resumed(q)' = Resumed(q) - Own(q) + (IF q = o THEN 1 ELSE 0)
<1> DEFINE G == {t \in Thread : Granted(t, q)}
           c == k.cur
           H == IF q = o THEN {h} ELSE {}
<1>1. G' = (G \ {c}) \cup H /\ (q = o => h \notin G)
  BY DEF Hands
<1>2. (c \in G <=> Granted(c, q)) /\ IsFiniteSet(G)
  BY IpcAssumption, FS_Subset
<1>3. Resumed(q) = Cardinality(G) /\ Resumed(q)' = Cardinality((G \ {c}) \cup H)
  BY <1>1 DEF Resumed
<1> HIDE DEF G
<1>4. /\ Cardinality(G) \in Nat /\ IsFiniteSet(G \ {c})
      /\ Cardinality(G \ {c}) = IF c \in G THEN Cardinality(G) - 1 ELSE Cardinality(G)
      /\ Cardinality(G \ {c}) \in Nat
  BY <1>2, FS_CardinalityType, FS_RemoveElement
<1>5. Cardinality((G \ {c}) \cup H) = Cardinality(G \ {c}) + (IF q = o THEN 1 ELSE 0)
  <2>1. CASE q = o
    BY <1>1, <1>4, <2>1, FS_AddElement
  <2>2. CASE q # o
    <3>1. (G \ {c}) \cup H = G \ {c}
      BY <2>2
    <3> QED
      BY <1>4, <2>2, <3>1
  <2> QED
    BY <2>1, <2>2
<1> HIDE DEF c, H
<1> QED
  BY <1>2, <1>3, <1>4, <1>5 DEF Own, c

-----------------------------------------------------------------------------
(* Every block has one owner: the free list, the list of messages, or one  *)
(* of the threads, of which hand tells the block in their hands.           *)

Owned(q, hand) ==
  /\ \A t \in Thread : hand[t] # Null =>
       ~Member(hand[t], FreeBlocks(q)) /\ ~Member(hand[t], QueuedBlocks(q))
  /\ \A t, u \in Thread : hand[t] = hand[u] /\ hand[t] # Null => t = u
  /\ \A b \in Cell : \/ Member(b, FreeBlocks(q)) \/ Member(b, QueuedBlocks(q))
                     \/ \E t \in Thread : hand[t] = b

Warehouse(q, hand) == QueueSound(q) /\ hand \in [Thread -> Link] /\ Owned(q, hand)

\* What a queue holds and has room for.
LEMMA WarehouseFacts ==
  ASSUME NEW q, QueueSound(q)
  PROVE  /\ q \in QueueState /\ q.entry = Len(QueuedBlocks(q)) /\ q.entry \in Nat
         /\ Len(FreeBlocks(q)) \in Nat
         /\ q.free # Null <=> Len(FreeBlocks(q)) > 0
         /\ Messages(q) \in Seq(Message \cup {NoMessage}) /\ Len(Messages(q)) = q.entry
<1> DEFINE F == FreeBlocks(q)
           Q == QueuedBlocks(q)
<1>1. Layout(q, F, Q)
  BY DEF QueueSound
<1> HIDE DEF F, Q
<1>2. q \in QueueState /\ q.entry = Len(Q)
  BY <1>1 DEF Layout
<1>3. /\ F \in Seq(Cell) /\ Len(F) \in Nat /\ Len(Q) \in Nat
      /\ q.free # Null <=> F # <<>>
      /\ Messages(q) \in Seq(Message \cup {NoMessage}) /\ Len(Messages(q)) = Len(Q)
  BY <1>1, LayoutFacts
<1>4. F # <<>> <=> Len(F) > 0
  BY <1>3
<1> QED
  BY <1>2, <1>3, <1>4 DEF F, Q

LEMMA HoldFree ==
  ASSUME NEW q, NEW hand, Warehouse(q, hand), q.free # Null,
         NEW c \in Thread, hand[c] = Null
  PROVE  /\ Warehouse(TakeFree(q), [hand EXCEPT ![c] = q.free]) /\ q.free \in Cell
         /\ Messages(TakeFree(q)) = Messages(q) /\ TakeFree(q).entry = q.entry
         /\ Len(FreeBlocks(TakeFree(q))) = Len(FreeBlocks(q)) - 1
<1> DEFINE F == FreeBlocks(q)
           Q == QueuedBlocks(q)
           r == TakeFree(q)
           b == q.free
           own == [hand EXCEPT ![c] = b]
<1>1. Layout(q, F, Q) /\ hand \in [Thread -> Link]
  BY DEF Warehouse, QueueSound
<1>2. /\ \A t \in Thread : hand[t] # Null => ~Member(hand[t], F) /\ ~Member(hand[t], Q)
      /\ \A t, u \in Thread : hand[t] = hand[u] /\ hand[t] # Null => t = u
      /\ \A a \in Cell : Member(a, F) \/ Member(a, Q) \/ \E t \in Thread : hand[t] = a
  BY DEF Warehouse, Owned
<1> HIDE DEF F, Q
<1>3. F # <<>>
  BY <1>1, LayoutFacts
<1> DEFINE G == Tail(F)
<1>4. /\ Layout(r, G, Q) /\ Messages(r) = Messages(q)
      /\ b \in Cell /\ Member(b, F) /\ Len(G) = Len(F) - 1
      /\ \A u : Member(u, G) <=> Member(u, F) /\ u # b
  BY <1>1, <1>3, TakeFreeFacts
<1>5. r.entry = q.entry /\ ~Member(b, Q)
  BY <1>1, <1>4 DEF Layout
<1> HIDE DEF r, b, G
<1>6. FreeBlocks(r) = G /\ QueuedBlocks(r) = Q /\ QueueSound(r)
  BY <1>4, LayoutIs
<1>7. own \in [Thread -> Link] /\ own[c] = b /\ \A t \in Thread : t # c => own[t] = hand[t]
  BY <1>1, <1>4 DEF Link
<1> HIDE DEF own
<1>8. \A t \in Thread : own[t] # Null => ~Member(own[t], G) /\ ~Member(own[t], Q)
  BY <1>2, <1>4, <1>5, <1>7
<1>9. \A t, u \in Thread : own[t] = own[u] /\ own[t] # Null => t = u
  BY <1>2, <1>4, <1>7
<1>10. ASSUME NEW a \in Cell
       PROVE  Member(a, G) \/ Member(a, Q) \/ \E t \in Thread : own[t] = a
  <2>1. a # Null
    BY QueueAssumption
  <2> QED
    BY <2>1, <1>2, <1>4, <1>7
<1>11. Warehouse(r, own)
  BY <1>6, <1>7, <1>8, <1>9, <1>10 DEF Warehouse, Owned
<1> QED
  BY <1>4, <1>5, <1>6, <1>11 DEF r, b, own, F

LEMMA HoldHead ==
  ASSUME NEW q, NEW hand, Warehouse(q, hand), q.entry > 0,
         NEW c \in Thread, hand[c] = Null
  PROVE  /\ Warehouse(TakeHead(q), [hand EXCEPT ![c] = q.head]) /\ q.head \in Cell
         /\ Messages(q) # <<>> /\ Messages(TakeHead(q)) = Tail(Messages(q))
         /\ TakeHead(q).entry = q.entry - 1
         /\ FreeBlocks(TakeHead(q)) = FreeBlocks(q)
<1> DEFINE F == FreeBlocks(q)
           Q == QueuedBlocks(q)
           r == TakeHead(q)
           b == q.head
           own == [hand EXCEPT ![c] = b]
<1>1. Layout(q, F, Q) /\ hand \in [Thread -> Link]
  BY DEF Warehouse, QueueSound
<1>2. /\ \A t \in Thread : hand[t] # Null => ~Member(hand[t], F) /\ ~Member(hand[t], Q)
      /\ \A t, u \in Thread : hand[t] = hand[u] /\ hand[t] # Null => t = u
      /\ \A a \in Cell : Member(a, F) \/ Member(a, Q) \/ \E t \in Thread : hand[t] = a
  BY DEF Warehouse, Owned
<1> HIDE DEF F, Q
<1>3. Q # <<>>
  BY <1>1, LayoutFacts
<1> DEFINE R == Tail(Q)
<1>4. /\ Layout(r, F, R) /\ Messages(q) # <<>> /\ Messages(r) = Tail(Messages(q))
      /\ b \in Cell /\ Member(b, Q) /\ Len(R) = Len(Q) - 1
      /\ \A u : Member(u, R) <=> Member(u, Q) /\ u # b
  BY <1>1, <1>3, TakeHeadFacts
<1>5. r.entry = q.entry - 1 /\ ~Member(b, F)
  BY <1>1, <1>4 DEF Layout
<1> HIDE DEF r, b, R
<1>6. FreeBlocks(r) = F /\ QueuedBlocks(r) = R /\ QueueSound(r)
  BY <1>4, LayoutIs
<1>7. own \in [Thread -> Link] /\ own[c] = b /\ \A t \in Thread : t # c => own[t] = hand[t]
  BY <1>1, <1>4 DEF Link
<1> HIDE DEF own
<1>8. \A t \in Thread : own[t] # Null => ~Member(own[t], F) /\ ~Member(own[t], R)
  BY <1>2, <1>4, <1>5, <1>7
<1>9. \A t, u \in Thread : own[t] = own[u] /\ own[t] # Null => t = u
  BY <1>2, <1>4, <1>7
<1>10. ASSUME NEW a \in Cell
       PROVE  Member(a, F) \/ Member(a, R) \/ \E t \in Thread : own[t] = a
  <2>1. a # Null
    BY QueueAssumption
  <2> QED
    BY <2>1, <1>2, <1>4, <1>7
<1>11. Warehouse(r, own)
  BY <1>6, <1>7, <1>8, <1>9, <1>10 DEF Warehouse, Owned
<1> QED
  BY <1>4, <1>5, <1>6, <1>11 DEF r, b, own, F

\* The block in the hands of c goes to one of the lists.
GaveUp(q, F, Q, b) ==
  /\ QueueSound(q)
  /\ \A u : Member(u, FreeBlocks(q)) \/ Member(u, QueuedBlocks(q))
              <=> Member(u, F) \/ Member(u, Q) \/ u = b

LEMMA GiveOwned ==
  ASSUME NEW q, NEW hand, Warehouse(q, hand), NEW c \in Thread, hand[c] \in Cell,
         NEW r, GaveUp(r, FreeBlocks(q), QueuedBlocks(q), hand[c])
  PROVE  Warehouse(r, [hand EXCEPT ![c] = Null])
<1> DEFINE in(u) == Member(u, FreeBlocks(q)) \/ Member(u, QueuedBlocks(q))
           now(u) == Member(u, FreeBlocks(r)) \/ Member(u, QueuedBlocks(r))
           own == [hand EXCEPT ![c] = Null]
<1>1. /\ hand \in [Thread -> Link]
      /\ \A t \in Thread : hand[t] # Null => ~in(hand[t])
      /\ \A t, u \in Thread : hand[t] = hand[u] /\ hand[t] # Null => t = u
      /\ \A a \in Cell : in(a) \/ \E t \in Thread : hand[t] = a
  BY DEF Warehouse, Owned
<1>2. QueueSound(r) /\ \A u : now(u) <=> in(u) \/ u = hand[c]
  BY DEF GaveUp
<1>3. own \in [Thread -> Link] /\ own[c] = Null /\ \A t \in Thread : t # c => own[t] = hand[t]
  BY <1>1 DEF Link
<1> HIDE DEF own
<1>4. ASSUME NEW t \in Thread, own[t] # Null PROVE ~now(own[t])
  <2>1. t # c /\ own[t] = hand[t] /\ hand[t] # hand[c]
    BY <1>1, <1>3, <1>4
  <2> HIDE DEF in, now
  <2> QED
    BY <2>1, <1>1, <1>2, <1>4
<1>5. \A t, u \in Thread : own[t] = own[u] /\ own[t] # Null => t = u
  BY <1>1, <1>3
<1>6. ASSUME NEW a \in Cell PROVE now(a) \/ \E t \in Thread : own[t] = a
  <2> HIDE DEF in, now
  <2> QED
    BY <1>1, <1>2, <1>3
<1> QED
  BY <1>2, <1>3, <1>4, <1>5, <1>6 DEF Warehouse, Owned, own

\* The block becomes the last message,
LEMMA GiveLast ==
  ASSUME NEW q, NEW hand, Warehouse(q, hand), NEW c \in Thread, hand[c] \in Cell,
         NEW m \in Message
  PROVE  LET r == LinkLast(q, hand[c], m) IN
         /\ Warehouse(r, [hand EXCEPT ![c] = Null])
         /\ Messages(r) = Append(Messages(q), m) /\ r.entry = q.entry + 1
         /\ FreeBlocks(r) = FreeBlocks(q) /\ q.entry < Capacity
<1> DEFINE F == FreeBlocks(q)
           Q == QueuedBlocks(q)
           b == hand[c]
           r == LinkLast(q, b, m)
           R == Append(Q, b)
<1>1. Layout(q, F, Q) /\ b \in Cell /\ b # Null
  BY QueueAssumption DEF Warehouse, QueueSound
<1>2. ~Member(b, F) /\ ~Member(b, Q)
  BY <1>1 DEF Warehouse, Owned
<1> HIDE DEF F, Q, b
<1>3. /\ Layout(r, F, R) /\ Messages(r) = Append(Messages(q), m)
      /\ Len(R) = Len(Q) + 1 /\ Len(Q) < Capacity
      /\ \A u : Member(u, R) <=> Member(u, Q) \/ u = b
  BY <1>1, <1>2, LinkLastFacts
<1> HIDE DEF r, R
<1>4. FreeBlocks(r) = F /\ QueuedBlocks(r) = R /\ QueueSound(r)
  BY <1>3, LayoutIs
<1>5. r.entry = q.entry + 1 /\ q.entry < Capacity
  BY <1>1, <1>3 DEF Layout
<1>6. GaveUp(r, F, Q, b)
  BY <1>3, <1>4 DEF GaveUp
<1>7. Warehouse(r, [hand EXCEPT ![c] = Null])
  BY <1>6, GiveOwned DEF F, Q, b
<1> QED
  BY <1>3, <1>4, <1>5, <1>7 DEF r, b, F

\* or the first,
LEMMA GiveFirst ==
  ASSUME NEW q, NEW hand, Warehouse(q, hand), NEW c \in Thread, hand[c] \in Cell,
         NEW m \in Message
  PROVE  LET r == LinkFirst(q, hand[c], m) IN
         /\ Warehouse(r, [hand EXCEPT ![c] = Null])
         /\ Messages(r) = <<m>> \o Messages(q) /\ r.entry = q.entry + 1
         /\ FreeBlocks(r) = FreeBlocks(q) /\ q.entry < Capacity
<1> DEFINE F == FreeBlocks(q)
           Q == QueuedBlocks(q)
           b == hand[c]
           r == LinkFirst(q, b, m)
           R == <<b>> \o Q
<1>1. Layout(q, F, Q) /\ b \in Cell /\ b # Null
  BY QueueAssumption DEF Warehouse, QueueSound
<1>2. ~Member(b, F) /\ ~Member(b, Q)
  BY <1>1 DEF Warehouse, Owned
<1> HIDE DEF F, Q, b
<1>3. /\ Layout(r, F, R) /\ Messages(r) = <<m>> \o Messages(q)
      /\ Len(R) = Len(Q) + 1 /\ Len(Q) < Capacity
      /\ \A u : Member(u, R) <=> Member(u, Q) \/ u = b
  <2>1. Pushed(q, r, F, Q, R, b, m)
    BY <1>1, <1>2, LinkFirstFacts
  <2> HIDE DEF r, R
  <2> QED
    BY <2>1 DEF Pushed
<1> HIDE DEF r, R
<1>4. FreeBlocks(r) = F /\ QueuedBlocks(r) = R /\ QueueSound(r)
  BY <1>3, LayoutIs
<1>5. r.entry = q.entry + 1 /\ q.entry < Capacity
  BY <1>1, <1>3 DEF Layout
<1>6. GaveUp(r, F, Q, b)
  BY <1>3, <1>4 DEF GaveUp
<1>7. Warehouse(r, [hand EXCEPT ![c] = Null])
  BY <1>6, GiveOwned DEF F, Q, b
<1> QED
  BY <1>3, <1>4, <1>5, <1>7 DEF r, b, F

\* or a free block.
LEMMA GiveFree ==
  ASSUME NEW q, NEW hand, Warehouse(q, hand), NEW c \in Thread, hand[c] \in Cell
  PROVE  LET r == PutFree(q, hand[c]) IN
         /\ Warehouse(r, [hand EXCEPT ![c] = Null])
         /\ Messages(r) = Messages(q) /\ r.entry = q.entry
         /\ Len(FreeBlocks(r)) = Len(FreeBlocks(q)) + 1
<1> DEFINE F == FreeBlocks(q)
           Q == QueuedBlocks(q)
           b == hand[c]
           r == PutFree(q, b)
           G == <<b>> \o F
<1>1. Layout(q, F, Q) /\ b \in Cell /\ b # Null
  BY QueueAssumption DEF Warehouse, QueueSound
<1>2. ~Member(b, F) /\ ~Member(b, Q)
  BY <1>1 DEF Warehouse, Owned
<1> HIDE DEF F, Q, b
<1>3. /\ Layout(r, G, Q) /\ Messages(r) = Messages(q)
      /\ Len(G) = Len(F) + 1
      /\ \A u : Member(u, G) <=> Member(u, F) \/ u = b
  BY <1>1, <1>2, PutFreeFacts
<1> HIDE DEF r, G
<1>4. FreeBlocks(r) = G /\ QueuedBlocks(r) = Q /\ QueueSound(r)
  BY <1>3, LayoutIs
<1>5. r.entry = q.entry
  BY <1>1, <1>3 DEF Layout
<1>6. GaveUp(r, F, Q, b)
  BY <1>3, <1>4 DEF GaveUp
<1>7. Warehouse(r, [hand EXCEPT ![c] = Null])
  BY <1>6, GiveOwned DEF F, Q, b
<1> QED
  BY <1>3, <1>4, <1>5, <1>7 DEF r, b, F

\* A reset leaves the blocks in the hands of calls there.
LEMMA WarehouseReset ==
  ASSUME NEW q, NEW hand, Warehouse(q, hand)
  PROVE  LET r == FreeMessages(q) IN
         Warehouse(r, hand) /\ Messages(r) = <<>> /\ r.entry = 0
<1> DEFINE r == FreeMessages(q)
           in(u) == Member(u, FreeBlocks(q)) \/ Member(u, QueuedBlocks(q))
           now(u) == Member(u, FreeBlocks(r)) \/ Member(u, QueuedBlocks(r))
<1>1. QueueSound(q) /\ hand \in [Thread -> Link] /\ Owned(q, hand)
  BY DEF Warehouse
<1>2. /\ QueueSound(r) /\ QueuedBlocks(r) = <<>> /\ Messages(r) = <<>> /\ r.entry = 0
      /\ \A u : Member(u, FreeBlocks(r)) <=> in(u)
  BY <1>1, FreeMessagesFacts
<1>3. \A u : ~Member(u, <<>>)
  BY DEF Member
<1>4. \A u : now(u) <=> in(u)
  BY <1>2, <1>3
<1>5. Owned(r, hand)
  <2>1. \A t \in Thread : hand[t] # Null => ~in(hand[t])
    BY <1>1 DEF Owned
  <2>2. \A t \in Thread : hand[t] # Null => ~now(hand[t])
    <3> HIDE DEF in, now
    <3> QED
      BY <2>1, <1>4
  <2>3. \A b \in Cell : in(b) \/ \E t \in Thread : hand[t] = b
    BY <1>1 DEF Owned
  <2>4. \A b \in Cell : now(b) \/ \E t \in Thread : hand[t] = b
    <3> HIDE DEF in, now
    <3> QED
      BY <2>3, <1>4
  <2> QED
    BY <1>1, <2>2, <2>4 DEF Owned
<1> QED
  BY <1>1, <1>2, <1>5 DEF Warehouse

\* After rt_mq_init nobody has a block in hand.
LEMMA WarehouseNew ==
  ASSUME NEW hand \in [Thread -> Link], \A t \in Thread : hand[t] = Null
  PROVE  Warehouse(EmptyQueue, hand) /\ Messages(EmptyQueue) = <<>> /\ EmptyQueue.entry = 0
BY EmptyQueueFacts DEF Warehouse, Owned

\* An interrupt handler takes and gives a block in one step: by the hands of the
\* idle thread, which never calls.
LEMMA BothSections ==
  ASSUME NEW q, NEW hand, Warehouse(q, hand), hand[Idle] = Null
  PROVE  /\ \A m \in Message : q.free # Null =>
              LET b == q.free
                  t == TakeFree(q)
              IN  /\ \A r \in {LinkLast(t, b, m), LinkFirst(t, b, m)} :
                       /\ Warehouse(r, hand) /\ r.entry = q.entry + 1
                       /\ Len(FreeBlocks(r)) = Len(FreeBlocks(q)) - 1
                  /\ Messages(LinkLast(t, b, m)) = Append(Messages(q), m)
                  /\ Messages(LinkFirst(t, b, m)) = <<m>> \o Messages(q)
                  /\ q.entry < Capacity
         /\ q.entry > 0 =>
              LET r == PutFree(TakeHead(q), q.head) IN
              /\ Warehouse(r, hand) /\ r.entry = q.entry - 1
              /\ Messages(q) # <<>> /\ Messages(r) = Tail(Messages(q))
              /\ Len(FreeBlocks(r)) = Len(FreeBlocks(q)) + 1
<1>1. Idle \in Thread /\ hand \in [Thread -> Link]
  BY KernelAssumption DEF Warehouse
<1>2. \A b \in Cell : /\ [hand EXCEPT ![Idle] = b][Idle] = b
                      /\ [[hand EXCEPT ![Idle] = b] EXCEPT ![Idle] = Null] = hand
  BY <1>1
<1>3. ASSUME NEW m \in Message, q.free # Null
      PROVE  LET b == q.free
                 t == TakeFree(q)
             IN  /\ \A r \in {LinkLast(t, b, m), LinkFirst(t, b, m)} :
                      /\ Warehouse(r, hand) /\ r.entry = q.entry + 1
                      /\ Len(FreeBlocks(r)) = Len(FreeBlocks(q)) - 1
                 /\ Messages(LinkLast(t, b, m)) = Append(Messages(q), m)
                 /\ Messages(LinkFirst(t, b, m)) = <<m>> \o Messages(q)
                 /\ q.entry < Capacity
  <2> DEFINE b == q.free
             t == TakeFree(q)
             own == [hand EXCEPT ![Idle] = b]
             r == LinkLast(t, b, m)
             s == LinkFirst(t, b, m)
  <2>1. /\ Warehouse(t, own) /\ b \in Cell /\ Messages(t) = Messages(q) /\ t.entry = q.entry
        /\ Len(FreeBlocks(t)) = Len(FreeBlocks(q)) - 1
    BY <1>1, <1>3, HoldFree
  <2>2. own[Idle] = b /\ [own EXCEPT ![Idle] = Null] = hand
    BY <1>2, <2>1
  <2> HIDE DEF own, t, b
  <2>3. /\ Warehouse(r, hand) /\ Messages(r) = Append(Messages(t), m) /\ r.entry = t.entry + 1
        /\ FreeBlocks(r) = FreeBlocks(t) /\ t.entry < Capacity
    BY <1>1, <2>1, <2>2, GiveLast
  <2>4. /\ Warehouse(s, hand) /\ Messages(s) = <<m>> \o Messages(t) /\ s.entry = t.entry + 1
        /\ FreeBlocks(s) = FreeBlocks(t)
    BY <1>1, <2>1, <2>2, GiveFirst
  <2> HIDE DEF r, s
  <2> QED
    BY <2>1, <2>3, <2>4 DEF r, s, t, b
<1>4. ASSUME q.entry > 0
      PROVE  LET r == PutFree(TakeHead(q), q.head) IN
             /\ Warehouse(r, hand) /\ r.entry = q.entry - 1
             /\ Messages(q) # <<>> /\ Messages(r) = Tail(Messages(q))
             /\ Len(FreeBlocks(r)) = Len(FreeBlocks(q)) + 1
  <2> DEFINE b == q.head
             t == TakeHead(q)
             own == [hand EXCEPT ![Idle] = b]
             r == PutFree(t, b)
  <2>1. /\ Warehouse(t, own) /\ b \in Cell /\ t.entry = q.entry - 1
        /\ Messages(q) # <<>> /\ Messages(t) = Tail(Messages(q))
        /\ FreeBlocks(t) = FreeBlocks(q)
    BY <1>1, <1>4, HoldHead
  <2>2. own[Idle] = b /\ [own EXCEPT ![Idle] = Null] = hand
    BY <1>2, <2>1
  <2> HIDE DEF own, t, b
  <2>3. /\ Warehouse(r, hand) /\ Messages(r) = Messages(t) /\ r.entry = t.entry
        /\ Len(FreeBlocks(r)) = Len(FreeBlocks(t)) + 1
    BY <1>1, <2>1, <2>2, GiveFree
  <2> HIDE DEF r
  <2> QED
    BY <2>1, <2>3 DEF r, t, b
<1> QED
  BY <1>3, <1>4

-----------------------------------------------------------------------------
(* The storage in use *)

\* The messages that can be received, and the sends that there is room for.
Items == IF kind = "mailbox" THEN mb.entry ELSE mq.entry
Space == IF kind = "mailbox" THEN Capacity - mb.entry ELSE Len(FreeBlocks(mq))

StoreSound == RingSound(mb) /\ Warehouse(mq, block)

LEMMA StoreFacts ==
  ASSUME StoreSound, kind \in {"mailbox", "queue"}
  PROVE  /\ Items \in Nat /\ Space \in Nat
         /\ Room <=> Space > 0
         /\ Filled <=> Items > 0
<1>1. /\ mb.entry \in 0 .. Capacity /\ Capacity \in Nat
  BY CapacityFacts DEF StoreSound, RingSound, MailboxState
<1>2. /\ mq.entry \in Nat /\ Len(FreeBlocks(mq)) \in Nat
      /\ mq.free # Null <=> Len(FreeBlocks(mq)) > 0
  BY WarehouseFacts DEF StoreSound, Warehouse
<1> QED
  BY <1>1, <1>2 DEF Items, Space, Room, Filled, MailboxFull

\* What a step does to the storage: the contents are seq, with i more items and
\* s more places.
Effect(seq, i, s) ==
  /\ StoreSound' /\ kind' = kind
  /\ Contents' = seq /\ Items' = Items + i /\ Space' = Space + s

LEMMA NoEffect ==
  ASSUME StoreSound, kind \in {"mailbox", "queue"}, UNCHANGED <<kind, mb, mq>>, block' = block
  PROVE  Effect(Contents, 0, 0)
<1>1. Items \in Nat /\ Space \in Nat
  BY StoreFacts
<1>2. StoreSound' /\ Contents' = Contents /\ Items' = Items /\ Space' = Space
  BY DEF StoreSound, Contents, Items, Space
<1> QED
  BY <1>1, <1>2 DEF Effect

\* Sends: a mail is stored, or the block for a message is taken.
LEMMA SendEffect ==
  ASSUME StoreSound, kind \in {"mailbox", "queue"}, kind' = kind, Room,
         NEW m \in Message, NEW c \in Thread, block[c] = Null
  PROVE  /\ /\ kind = "mailbox" /\ mb' = StoreMail(mb, m) /\ mq' = mq
            /\ block' = [block EXCEPT ![c] = Null]
            => Effect(Append(Contents, m), 1, -1) /\ Len(Contents) < Capacity
         /\ /\ kind = "mailbox" /\ mb' = StoreUrgent(mb, m) /\ mq' = mq
            /\ block' = [block EXCEPT ![c] = Null]
            => Effect(<<m>> \o Contents, 1, -1) /\ Len(Contents) < Capacity
         /\ /\ kind = "queue" /\ mq' = TakeFree(mq) /\ mb' = mb
            /\ block' = [block EXCEPT ![c] = mq.free]
            => Effect(Contents, 0, -1) /\ mq.free \in Cell
<1>1. RingSound(mb) /\ Warehouse(mq, block) /\ block \in [Thread -> Link]
  BY DEF StoreSound, Warehouse
<1>2. Items \in Nat /\ Space \in Nat /\ Capacity \in Nat
  BY StoreFacts, CapacityFacts
<1>3. [block EXCEPT ![c] = Null] = block
  BY <1>1
<1>4. ASSUME kind = "mailbox", mq' = mq, block' = [block EXCEPT ![c] = Null]
      PROVE  /\ mb' = StoreMail(mb, m) => Effect(Append(Contents, m), 1, -1)
             /\ mb' = StoreUrgent(mb, m) => Effect(<<m>> \o Contents, 1, -1)
             /\ Len(Contents) < Capacity
  <2>1. mb.entry < Capacity /\ mb.entry \in Nat /\ mb \in MailboxState
    BY <1>1, <1>4, CapacityFacts DEF Room, MailboxFull, RingSound, MailboxState
  <2>2. Len(Mails(mb)) = mb.entry
    BY <2>1, MailsFacts
  <2>3. /\ RingSound(StoreMail(mb, m)) /\ StoreMail(mb, m).entry = mb.entry + 1
        /\ Mails(StoreMail(mb, m)) = Append(Mails(mb), m)
    BY <1>1, <2>1, StoreMailFacts
  <2>4. /\ RingSound(StoreUrgent(mb, m)) /\ StoreUrgent(mb, m).entry = mb.entry + 1
        /\ Mails(StoreUrgent(mb, m)) = <<m>> \o Mails(mb)
    BY <1>1, <2>1, StoreUrgentFacts
  <2>5. ASSUME NEW r, mb' = r, RingSound(r), r.entry = mb.entry + 1
        PROVE  Effect(Mails(r), 1, -1)
    <3>1. StoreSound'
      BY <1>1, <1>3, <1>4, <2>5 DEF StoreSound
    <3>2. /\ Items' = r.entry /\ Space' = Capacity - r.entry /\ Contents' = Mails(r)
          /\ Items = mb.entry /\ Space = Capacity - mb.entry
      BY <1>4, <2>5 DEF Items, Space, Contents
    <3> QED
      BY <1>2, <2>1, <2>5, <3>1, <3>2 DEF Effect
  <2>6. Contents = Mails(mb)
    BY <1>4 DEF Contents
  <2> QED
    BY <2>1, <2>2, <2>3, <2>4, <2>5, <2>6
<1>5. ASSUME kind = "queue", mq' = TakeFree(mq), mb' = mb, block' = [block EXCEPT ![c] = mq.free]
      PROVE  Effect(Contents, 0, -1) /\ mq.free \in Cell
  <2>1. mq.free # Null
    BY <1>5 DEF Room
  <2>2. /\ Warehouse(TakeFree(mq), [block EXCEPT ![c] = mq.free]) /\ mq.free \in Cell
        /\ Messages(TakeFree(mq)) = Messages(mq) /\ TakeFree(mq).entry = mq.entry
        /\ Len(FreeBlocks(TakeFree(mq))) = Len(FreeBlocks(mq)) - 1
    BY <1>1, <2>1, HoldFree
  <2>3. StoreSound'
    BY <1>1, <1>5, <2>2 DEF StoreSound
  <2>4. Contents' = Contents /\ Items' = Items /\ Space' = Space - 1
    BY <1>5, <2>2 DEF Items, Space, Contents
  <2> QED
    BY <1>2, <2>2, <2>3, <2>4 DEF Effect
<1> QED
  BY <1>4, <1>5

\* Receives: a mail is fetched, or the first message is taken with its block.
LEMMA ReceiveEffect ==
  ASSUME StoreSound, kind \in {"mailbox", "queue"}, kind' = kind, Filled,
         NEW c \in Thread, block[c] = Null
  PROVE  /\ Contents # <<>>
         /\ /\ kind = "mailbox" /\ mb' = FetchMail(mb) /\ mq' = mq
            /\ block' = [block EXCEPT ![c] = Null]
            => Effect(Tail(Contents), -1, 1)
         /\ /\ kind = "queue" /\ mq' = TakeHead(mq) /\ mb' = mb
            /\ block' = [block EXCEPT ![c] = mq.head]
            => Effect(Tail(Contents), -1, 0) /\ mq.head \in Cell
<1>1. RingSound(mb) /\ Warehouse(mq, block) /\ block \in [Thread -> Link]
  BY DEF StoreSound, Warehouse
<1>2. Items \in Nat /\ Space \in Nat /\ Capacity \in Nat
  BY StoreFacts, CapacityFacts
<1>3. [block EXCEPT ![c] = Null] = block
  BY <1>1
<1>4. ASSUME kind = "mailbox"
      PROVE  /\ Contents # <<>>
             /\ mb' = FetchMail(mb) /\ mq' = mq /\ block' = [block EXCEPT ![c] = Null]
                => Effect(Tail(Contents), -1, 1)
  <2>1. mb.entry > 0 /\ mb.entry \in Nat
    BY <1>1, <1>4, CapacityFacts DEF Filled, RingSound, MailboxState
  <2>2. /\ RingSound(FetchMail(mb)) /\ FetchMail(mb).entry = mb.entry - 1
        /\ Mails(mb) # <<>> /\ Mails(FetchMail(mb)) = Tail(Mails(mb))
    BY <1>1, <2>1, FetchMailFacts
  <2>3. ASSUME mb' = FetchMail(mb), mq' = mq, block' = [block EXCEPT ![c] = Null]
        PROVE  Effect(Tail(Contents), -1, 1)
    <3>1. StoreSound'
      BY <1>1, <1>3, <2>2, <2>3 DEF StoreSound
    <3>2. Contents' = Tail(Contents) /\ Items' = Items - 1 /\ Space' = Capacity - (mb.entry - 1)
      BY <1>4, <2>2, <2>3 DEF Items, Space, Contents
    <3>3. Space = Capacity - mb.entry
      BY <1>4 DEF Space
    <3> QED
      BY <1>2, <2>1, <3>1, <3>2, <3>3 DEF Effect
  <2> QED
    BY <1>4, <2>2, <2>3 DEF Contents
<1>5. ASSUME kind = "queue"
      PROVE  /\ Contents # <<>>
             /\ /\ mq' = TakeHead(mq) /\ mb' = mb /\ block' = [block EXCEPT ![c] = mq.head]
                => Effect(Tail(Contents), -1, 0) /\ mq.head \in Cell
  <2>1. mq.entry > 0
    BY <1>5 DEF Filled
  <2>2. /\ Warehouse(TakeHead(mq), [block EXCEPT ![c] = mq.head]) /\ mq.head \in Cell
        /\ Messages(mq) # <<>> /\ Messages(TakeHead(mq)) = Tail(Messages(mq))
        /\ TakeHead(mq).entry = mq.entry - 1
        /\ FreeBlocks(TakeHead(mq)) = FreeBlocks(mq)
    BY <1>1, <2>1, HoldHead
  <2>3. ASSUME mq' = TakeHead(mq), mb' = mb, block' = [block EXCEPT ![c] = mq.head]
        PROVE  Effect(Tail(Contents), -1, 0)
    <3>1. StoreSound'
      BY <1>1, <2>2, <2>3 DEF StoreSound
    <3>2. Contents' = Tail(Contents) /\ Items' = Items - 1 /\ Space' = Space
      BY <1>5, <2>2, <2>3 DEF Items, Space, Contents
    <3> QED
      BY <1>2, <3>1, <3>2 DEF Effect
  <2> QED
    BY <1>5, <2>2, <2>3 DEF Contents
<1> QED
  BY <1>4, <1>5

\* The second sections of the calls on a message queue.
LEMMA SectionEffect ==
  ASSUME StoreSound, kind = "queue", kind' = kind, mb' = mb,
         NEW c \in Thread, block[c] \in Cell, block' = [block EXCEPT ![c] = Null]
  PROVE  /\ \A m \in Message :
              /\ mq' = LinkLast(mq, block[c], m) => Effect(Append(Contents, m), 1, 0)
              /\ mq' = LinkFirst(mq, block[c], m) => Effect(<<m>> \o Contents, 1, 0)
              /\ Len(Contents) < Capacity
         /\ mq' = PutFree(mq, block[c]) => Effect(Contents, 0, 1)
<1>1. RingSound(mb) /\ Warehouse(mq, block)
  BY DEF StoreSound
<1>2. Items \in Nat /\ Space \in Nat /\ Capacity \in Nat
  BY StoreFacts, CapacityFacts
<1>3. ASSUME NEW r, mq' = r, Warehouse(r, [block EXCEPT ![c] = Null]),
             NEW i \in {0, 1}, NEW s \in {0, 1}, r.entry = mq.entry + i,
             Len(FreeBlocks(r)) = Len(FreeBlocks(mq)) + s
      PROVE  Effect(Messages(r), i, s)
  BY <1>1, <1>2, <1>3 DEF StoreSound, Effect, Items, Space, Contents
<1>4. Contents = Messages(mq)
  BY DEF Contents
<1>5. Len(FreeBlocks(mq)) = Len(FreeBlocks(mq)) + 0
  BY <1>2 DEF Space
<1>6. ASSUME NEW m \in Message
      PROVE  /\ mq' = LinkLast(mq, block[c], m) => Effect(Append(Contents, m), 1, 0)
             /\ mq' = LinkFirst(mq, block[c], m) => Effect(<<m>> \o Contents, 1, 0)
             /\ Len(Contents) < Capacity
  <2> DEFINE r == LinkLast(mq, block[c], m)
             s == LinkFirst(mq, block[c], m)
  <2>1. /\ Warehouse(r, [block EXCEPT ![c] = Null])
        /\ Messages(r) = Append(Messages(mq), m) /\ r.entry = mq.entry + 1
        /\ FreeBlocks(r) = FreeBlocks(mq) /\ mq.entry < Capacity
    BY <1>1, GiveLast
  <2>2. /\ Warehouse(s, [block EXCEPT ![c] = Null])
        /\ Messages(s) = <<m>> \o Messages(mq) /\ s.entry = mq.entry + 1
        /\ FreeBlocks(s) = FreeBlocks(mq)
    BY <1>1, GiveFirst
  <2>3. Len(Messages(mq)) = mq.entry
    BY <1>1, WarehouseFacts DEF Warehouse
  <2> HIDE DEF r, s
  <2>4. mq' = r => Effect(Messages(r), 1, 0)
    BY <1>3, <1>5, <2>1
  <2>5. mq' = s => Effect(Messages(s), 1, 0)
    BY <1>3, <1>5, <2>2
  <2> QED
    BY <1>4, <2>1, <2>2, <2>3, <2>4, <2>5 DEF r, s
<1>7. mq' = PutFree(mq, block[c]) => Effect(Contents, 0, 1)
  <2> DEFINE r == PutFree(mq, block[c])
  <2>1. /\ Warehouse(r, [block EXCEPT ![c] = Null])
        /\ Messages(r) = Messages(mq) /\ r.entry = mq.entry
        /\ Len(FreeBlocks(r)) = Len(FreeBlocks(mq)) + 1
    BY <1>1, GiveFree
  <2>2. mq.entry = mq.entry + 0
    BY <1>2 DEF Items
  <2> HIDE DEF r
  <2>3. mq' = r => Effect(Messages(r), 0, 1)
    BY <1>3, <2>1, <2>2
  <2> QED
    BY <1>4, <2>1, <2>3 DEF r
<1> QED
  BY <1>6, <1>7

\* Interrupt handlers send and receive in one step.
LEMMA IsrEffect ==
  ASSUME StoreSound, kind \in {"mailbox", "queue"}, kind' = kind, block' = block,
         block[Idle] = Null
  PROVE  /\ \A m \in Message : Room =>
              /\ (IF kind = "mailbox"
                  THEN mb' = StoreMail(mb, m) /\ mq' = mq
                  ELSE mq' = LinkLast(TakeFree(mq), mq.free, m) /\ mb' = mb)
                 => Effect(Append(Contents, m), 1, -1) /\ Len(Contents) < Capacity
              /\ (IF kind = "mailbox"
                  THEN mb' = StoreUrgent(mb, m) /\ mq' = mq
                  ELSE mq' = LinkFirst(TakeFree(mq), mq.free, m) /\ mb' = mb)
                 => Effect(<<m>> \o Contents, 1, -1) /\ Len(Contents) < Capacity
         /\ /\ Filled
            /\ IF kind = "mailbox"
               THEN mb' = FetchMail(mb) /\ mq' = mq
               ELSE mq' = PutFree(TakeHead(mq), mq.head) /\ mb' = mb
            => Effect(Tail(Contents), -1, 1) /\ Contents # <<>>
<1>1. RingSound(mb) /\ Warehouse(mq, block) /\ block \in [Thread -> Link] /\ Idle \in Thread
  BY KernelAssumption DEF StoreSound, Warehouse
<1>2. Items \in Nat /\ Space \in Nat
  BY StoreFacts
<1>3. [block EXCEPT ![Idle] = Null] = block
  BY <1>1
<1>4. CASE kind = "mailbox"
  <2>1. ASSUME NEW m \in Message, Room, mq' = mq
        PROVE  /\ mb' = StoreMail(mb, m) => Effect(Append(Contents, m), 1, -1)
               /\ mb' = StoreUrgent(mb, m) => Effect(<<m>> \o Contents, 1, -1)
               /\ mb' \in {StoreMail(mb, m), StoreUrgent(mb, m)} => Len(Contents) < Capacity
    BY <1>1, <1>3, <1>4, <2>1, SendEffect
  <2>2. ASSUME Filled, mq' = mq, mb' = FetchMail(mb)
        PROVE  Effect(Tail(Contents), -1, 1) /\ Contents # <<>>
    BY <1>1, <1>3, <1>4, <2>2, ReceiveEffect
  <2> QED
    BY <1>4, <2>1, <2>2
<1>5. CASE kind # "mailbox"
  <2>1. kind = "queue"
    BY <1>5
  <2>2. ASSUME NEW r, mq' = r, Warehouse(r, block), mb' = mb
        PROVE  StoreSound' /\ Contents' = Messages(r) /\ Items' = r.entry
               /\ Space' = Len(FreeBlocks(r))
    BY <1>1, <2>1, <2>2 DEF StoreSound, Items, Space, Contents
  <2>3. Contents = Messages(mq) /\ Items = mq.entry /\ Space = Len(FreeBlocks(mq))
    BY <2>1 DEF Contents, Items, Space
  <2>4. Len(Messages(mq)) = mq.entry
    BY <1>1, WarehouseFacts DEF Warehouse
  <2>5. ASSUME NEW m \in Message, Room, mb' = mb
        PROVE  /\ mq' = LinkLast(TakeFree(mq), mq.free, m)
                  => Effect(Append(Contents, m), 1, -1) /\ Len(Contents) < Capacity
               /\ mq' = LinkFirst(TakeFree(mq), mq.free, m)
                  => Effect(<<m>> \o Contents, 1, -1) /\ Len(Contents) < Capacity
    <3> DEFINE r == LinkLast(TakeFree(mq), mq.free, m)
               s == LinkFirst(TakeFree(mq), mq.free, m)
    <3>1. mq.free # Null
      BY <2>1, <2>5 DEF Room
    <3>2. /\ \A u \in {r, s} : /\ Warehouse(u, block) /\ u.entry = mq.entry + 1
                               /\ Len(FreeBlocks(u)) = Len(FreeBlocks(mq)) - 1
          /\ Messages(r) = Append(Messages(mq), m) /\ Messages(s) = <<m>> \o Messages(mq)
          /\ mq.entry < Capacity
      BY <1>1, <3>1, BothSections
    <3> HIDE DEF r, s
    <3>3. ASSUME NEW u \in {r, s}, mq' = u PROVE Effect(Messages(u), 1, -1)
      BY <1>2, <2>2, <2>3, <2>5, <3>2, <3>3 DEF Effect
    <3> QED
      BY <2>3, <2>4, <3>2, <3>3 DEF r, s
  <2>6. ASSUME Filled, mb' = mb, mq' = PutFree(TakeHead(mq), mq.head)
        PROVE  Effect(Tail(Contents), -1, 1) /\ Contents # <<>>
    <3> DEFINE r == PutFree(TakeHead(mq), mq.head)
    <3>1. mq.entry > 0
      BY <2>1, <2>6 DEF Filled
    <3>2. /\ Warehouse(r, block) /\ r.entry = mq.entry - 1
          /\ Messages(mq) # <<>> /\ Messages(r) = Tail(Messages(mq))
          /\ Len(FreeBlocks(r)) = Len(FreeBlocks(mq)) + 1
      BY <1>1, <3>1, BothSections
    <3>3. mq' = r
      BY <2>6
    <3> HIDE DEF r
    <3> QED
      BY <1>2, <2>2, <2>3, <2>6, <3>2, <3>3 DEF Effect
  <2> QED
    BY <1>5, <2>5, <2>6
<1> QED
  BY <1>4, <1>5

\* A reset empties the object.
LEMMA ResetEffect ==
  ASSUME StoreSound, kind \in {"mailbox", "queue"}, kind' = kind, block' = block,
         IF kind = "mailbox" THEN mb' = EmptyMailbox /\ mq' = mq
                             ELSE mq' = FreeMessages(mq) /\ mb' = mb
  PROVE  StoreSound' /\ Contents' = <<>>
<1>1. RingSound(mb) /\ Warehouse(mq, block)
  BY DEF StoreSound
<1>2. RingSound(EmptyMailbox) /\ Mails(EmptyMailbox) = <<>>
  BY EmptyMailboxFacts
<1>3. Warehouse(FreeMessages(mq), block) /\ Messages(FreeMessages(mq)) = <<>>
  BY <1>1, WarehouseReset
<1> QED
  BY <1>1, <1>2, <1>3 DEF StoreSound, Contents

\* rt_mb_init and rt_mq_init, and the start.
LEMMA NewEffect ==
  ASSUME block \in [Thread -> Link], \A t \in Thread : block[t] = Null,
         mb = EmptyMailbox, mq = EmptyQueue
  PROVE  StoreSound /\ Contents = <<>>
BY EmptyMailboxFacts, WarehouseNew DEF StoreSound, Contents

-----------------------------------------------------------------------------
(* The invariant *)

\* What a call in another section, or that waits, kept on its stack.
LabelOf(t) ==
  /\ pc[t] \in {"link", "urgent", "free"} => kind = "queue" /\ block[t] \in Cell
  /\ pc[t] \in {"link", "urgent"} => mail[t] \in Message
  /\ pc[t] \notin {"link", "urgent", "free"} => block[t] = Null
  /\ pc[t] \in {"block", "woken"} /\ on[t] = tx => mail[t] \in Message

Labelled == \A t \in Thread : LabelOf(t)

CallsTyped == /\ kind \in {"mailbox", "queue"} /\ chan_flag \in {"FIFO", "PRIO"}
              /\ left \in [Thread -> Timeouts] /\ mail \in [Thread -> Message \cup {NoMessage}]

\* While threads wait on one side, what there is for them is granted already.
Supply(o) == IF o = rx THEN Items ELSE Space

Served == Sides \subseteq live =>
            \A o \in Sides : k.wait[o] # <<>> => Supply(o) <= Resumed(o)

ChannelsInv == IpcInv /\ CallsTyped /\ Labelled /\ StoreSound /\ Served

LEMMA InvFacts ==
  ASSUME ChannelsInv
  PROVE  /\ IpcInv /\ IpcTypeOK /\ CallsTyped /\ kind \in {"mailbox", "queue"} /\ StoreSound
         /\ Labelled /\ rx \in Obj /\ tx \in Obj /\ rx # tx /\ Sides \subseteq Obj
         /\ block \in [Thread -> Link] /\ block[Idle] = Null
         /\ k.cur \in Thread /\ Idle \in Thread
<1>1. /\ IpcInv /\ IpcTypeOK /\ CallsTyped /\ kind \in {"mailbox", "queue"} /\ StoreSound
      /\ Labelled /\ rx \in Obj /\ tx \in Obj /\ rx # tx /\ Idle \in Thread /\ k.cur \in Thread
  BY ChannelsAssumption, KernelAssumption, CurRuns DEF ChannelsInv, IpcInv, CallsTyped
<1>2. pc[Idle] = "run"
  BY <1>1 DEF IpcInv
<1> QED
  BY <1>1, <1>2 DEF Labelled, LabelOf, Sides, StoreSound, Warehouse

\* How many threads are granted a place in o at least, if some still wait there.
Grows(o, d) ==
  /\ Resumed(o) \in Nat /\ Resumed(o)' \in Nat
  /\ k'.wait[o] # <<>> => k.wait[o] # <<>> /\ Resumed(o) + d <= Resumed(o)'

LEMMA ServedStep ==
  ASSUME ChannelsInv, Sides \subseteq live' => Sides \subseteq live,
         NEW seq, NEW i \in Int, NEW s \in Int, Effect(seq, i, s),
         Grows(rx, i) \/ (Resumed(rx)' \in Nat /\ Items + i = 0),
         Grows(tx, s) \/ (Resumed(tx)' \in Nat /\ Space + s = 0)
  PROVE  Served'
<1>1. Items \in Nat /\ Space \in Nat
  BY StoreFacts, InvFacts
<1>2. Items' = Items + i /\ Space' = Space + s
  BY DEF Effect
<1>3. rx # tx
  BY ChannelsAssumption
<1>4. ASSUME Sides \subseteq live', k'.wait[rx] # <<>>
      PROVE  Supply(rx)' <= Resumed(rx)'
  <2>1. CASE Grows(rx, i)
    <3>1. /\ k.wait[rx] # <<>> /\ Resumed(rx) + i <= Resumed(rx)'
          /\ Resumed(rx) \in Nat /\ Resumed(rx)' \in Nat
      BY <1>4, <2>1 DEF Grows
    <3>2. Items <= Resumed(rx)
      BY <1>4, <3>1 DEF ChannelsInv, Served, Supply, Sides
    <3> QED
      BY <1>1, <1>2, <3>1, <3>2 DEF Supply
  <2>2. CASE Resumed(rx)' \in Nat /\ Items + i = 0
    BY <1>2, <2>2 DEF Supply
  <2> QED
    BY <2>1, <2>2
<1>5. ASSUME Sides \subseteq live', k'.wait[tx] # <<>>
      PROVE  Supply(tx)' <= Resumed(tx)'
  <2>1. CASE Grows(tx, s)
    <3>1. /\ k.wait[tx] # <<>> /\ Resumed(tx) + s <= Resumed(tx)'
          /\ Resumed(tx) \in Nat /\ Resumed(tx)' \in Nat
      BY <1>5, <2>1 DEF Grows
    <3>2. Space <= Resumed(tx)
      BY <1>3, <1>5, <3>1 DEF ChannelsInv, Served, Supply, Sides
    <3> QED
      BY <1>1, <1>2, <1>3, <3>1, <3>2 DEF Supply
  <2>2. CASE Resumed(tx)' \in Nat /\ Space + s = 0
    BY <1>2, <1>3, <2>2 DEF Supply
  <2> QED
    BY <2>1, <2>2
<1> QED
  BY <1>4, <1>5 DEF Served, Sides

\* What the steps of the kernel grant.
LEMMA LeavesGrow ==
  ASSUME k.cur \in Thread, Leaves, NEW o \in Obj
  PROVE  /\ Resumed(o)' \in Nat
         /\ k'.wait[o] = k.wait[o] => Grows(o, 0 - Own(o))
<1>1. /\ Resumed(o) \in Nat /\ Own(o) <= Resumed(o)
      /\ Resumed(o)' = Resumed(o) - Own(o) /\ Own(o) \in {0, 1}
  BY CountLeaves DEF Own
<1> QED
  BY <1>1 DEF Grows

LEMMA SameGrow ==
  ASSUME SameGrants, WaitsEased, NEW o \in Obj
  PROVE  Grows(o, 0)
<1>1. Resumed(o) \in Nat /\ Resumed(o)' = Resumed(o)
  BY CountSame
<1>2. k'.wait[o] # <<>> => k.wait[o] # <<>>
  BY DEF WaitsEased
<1> QED
  BY <1>1, <1>2 DEF Grows

LEMMA NotGranted ==
  ASSUME NEW o \in Obj
  PROVE  /\ pc[k.cur] \notin {"block", "woken"} => Own(o) = 0
         /\ on[k.cur] # o => Own(o) = 0
         /\ k.error[k.cur] # "RT_EOK" => Own(o) = 0
         /\ Own(o) \in {0, 1}
BY DEF Own, Granted, InCall

-----------------------------------------------------------------------------
(* Every step keeps the invariant, and is a step of Channel or none *)

Allowed(seq) ==
  \/ seq = Contents
  \/ seq = <<>>
  \/ Contents # <<>> /\ seq = Tail(Contents)
  \/ \E m \in Message : /\ Len(Contents) < Capacity
                        /\ seq = Append(Contents, m) \/ seq = <<m>> \o Contents

Kept == ChannelsInv' /\ [Abstract!Next]_Contents

LEMMA AllowedStep ==
  ASSUME NEW seq, Allowed(seq), Contents' = seq
  PROVE  [Abstract!Next]_Contents
BY DEF Allowed, Abstract!Next, Abstract!Get, Abstract!Reset, Abstract!Put, Abstract!Urgent

LEMMA KeptBy ==
  ASSUME ChannelsInv, IpcInv', CallsTyped', Labelled',
         Sides \subseteq live' => Sides \subseteq live,
         NEW seq, Allowed(seq), NEW i \in Int, NEW s \in Int, Effect(seq, i, s),
         Grows(rx, i) \/ (Resumed(rx)' \in Nat /\ Items + i = 0),
         Grows(tx, s) \/ (Resumed(tx)' \in Nat /\ Space + s = 0)
  PROVE  Kept
<1>1. Served'
  BY ServedStep
<1>2. StoreSound' /\ Contents' = seq
  BY DEF Effect
<1>3. [Abstract!Next]_Contents
  BY <1>2, AllowedStep
<1> QED
  BY <1>1, <1>2, <1>3 DEF Kept, ChannelsInv

LEMMA LabelledStep ==
  ASSUME ChannelsInv, kind' = kind, NEW label \in Pc, Goto(label),
         \A t \in Thread \ {k.cur} : on'[t] = on[t] /\ mail'[t] = mail[t] /\ block'[t] = block[t],
         label \in {"link", "urgent", "free"} => kind = "queue" /\ block'[k.cur] \in Cell,
         label \in {"link", "urgent"} => mail'[k.cur] \in Message,
         label \notin {"link", "urgent", "free"} => block'[k.cur] = Null,
         label \in {"block", "woken"} /\ on'[k.cur] = tx => mail'[k.cur] \in Message
  PROVE  Labelled'
<1>1. IpcTypeOK /\ Labelled
  BY InvFacts
<1>2. pc'[k.cur] = label /\ \A t \in Thread \ {k.cur} : pc'[t] = pc[t]
  BY <1>1, GotoFacts
<1>3. ASSUME NEW t \in Thread PROVE LabelOf(t)'
  <2>1. CASE t = k.cur
    BY <1>2, <2>1 DEF LabelOf
  <2>2. CASE t # k.cur
    <3>1. LabelOf(t)
      BY <1>1 DEF Labelled
    <3>2. /\ pc'[t] = pc[t] /\ on'[t] = on[t] /\ mail'[t] = mail[t] /\ block'[t] = block[t]
      BY <1>2, <2>2
    <3> QED
      BY <3>1, <3>2 DEF LabelOf
  <2> QED
    BY <2>1, <2>2
<1> QED
  BY <1>3 DEF Labelled

\* A call is over.
LEMMA OverFacts ==
  ASSUME ChannelsInv, Over, UNCHANGED <<kind, chan_flag>>, NEW label \in {"run", "sched"}, Goto(label)
  PROVE  /\ CallsTyped' /\ Labelled' /\ block' = [block EXCEPT ![k.cur] = Null]
         /\ on' = [on EXCEPT ![k.cur] = rx]
<1>1. /\ CallsTyped /\ IpcTypeOK /\ block \in [Thread -> Link] /\ k.cur \in Thread
  BY InvFacts
<1>2. /\ block' = [block EXCEPT ![k.cur] = Null] /\ on' = [on EXCEPT ![k.cur] = rx]
      /\ left' = [left EXCEPT ![k.cur] = "none"] /\ mail' = [mail EXCEPT ![k.cur] = NoMessage]
  BY DEF Over
<1>3. CallsTyped'
  BY <1>1, <1>2 DEF CallsTyped, Timeouts
<1>4. /\ \A t \in Thread \ {k.cur} : on'[t] = on[t] /\ mail'[t] = mail[t] /\ block'[t] = block[t]
      /\ block'[k.cur] = Null
  BY <1>1, <1>2 DEF CallsTyped, IpcTypeOK
<1>5. label \in Pc /\ label \notin {"link", "urgent", "free", "block", "woken"}
  BY DEF Pc
<1>6. Labelled'
  BY <1>4, <1>5, LabelledStep
<1> QED
  BY <1>2, <1>3, <1>6

LEMMA FinishKeeps ==
  ASSUME ChannelsInv, Active, NEW o \in Sides, Own(o) = 0, Finish(o),
         UNCHANGED <<live, phantom, kind, chan_flag>>
  PROVE  /\ IpcInv' /\ CallsTyped' /\ Labelled' /\ block' = [block EXCEPT ![k.cur] = Null]
         /\ Grows(o, 1)
         /\ \A p \in Sides : p # o => Grows(p, 0 - Own(p))
<1>1. /\ IpcInv /\ IpcTypeOK /\ k.cur \in Thread /\ Sides \subseteq Obj /\ o \in Obj /\ rx \in Obj
      /\ live' \subseteq Obj /\ phantom' \in BOOLEAN
  BY InvFacts DEF IpcTypeOK
<1>2. CASE k.wait[o] # <<>>
  <2>1. k' = _ipc_list_resume(k, o) /\ Goto("sched") /\ Over
    BY <1>2 DEF Finish, ResumeFirst
  <2>2. CallsTyped' /\ Labelled' /\ block' = [block EXCEPT ![k.cur] = Null]
        /\ on' = [on EXCEPT ![k.cur] = rx]
    BY <2>1, OverFacts
  <2>3. "sched" \in Pc /\ "sched" \notin {"block", "sleep", "woken"}
    BY DEF Pc
  <2>4. /\ IpcInv' /\ Hands(Head(k.wait[o]), o)
        /\ \A q \in Obj : k.wait[q] = <<>> => k'.wait[q] = <<>>
    BY <1>1, <1>2, <2>1, <2>2, <2>3, EndKeeps
  <2>5. ASSUME NEW q \in Sides PROVE Grows(q, (IF q = o THEN 1 ELSE 0) - Own(q))
    <3>1. /\ Resumed(q) \in Nat /\ Own(q) <= Resumed(q) /\ Own(q) \in {0, 1}
          /\ Resumed(q)' = Resumed(q) - Own(q) + (IF q = o THEN 1 ELSE 0)
      BY <1>1, <2>4, CountHands DEF Own
    <3> QED
      BY <1>1, <2>4, <3>1 DEF Grows
  <2>6. Grows(o, 1)
    BY <2>5
  <2>7. ASSUME NEW p \in Sides, p # o PROVE Grows(p, 0 - Own(p))
    <3>1. (IF p = o THEN 1 ELSE 0) = 0
      BY <2>7
    <3> QED
      BY <2>5, <3>1
  <2> QED
    BY <2>2, <2>4, <2>6, <2>7
<1>3. CASE k.wait[o] = <<>>
  <2>1. k' = k /\ Goto("run") /\ Over
    BY <1>3 DEF Finish, ResumeFirst
  <2>2. CallsTyped' /\ Labelled' /\ block' = [block EXCEPT ![k.cur] = Null]
        /\ on' = [on EXCEPT ![k.cur] = rx]
    BY <2>1, OverFacts
  <2>3. "run" \in Pc /\ "run" \notin {"block", "sleep", "woken"} /\ "RT_EOK" \in Errno
    BY DEF Pc, Errno
  <2>4. IpcInv' /\ Leaves /\ k'.wait = k.wait
    BY <1>1, <2>1, <2>2, <2>3, QuietKeeps
  <2>5. \A q \in Sides : Grows(q, 0 - Own(q))
    BY <1>1, <2>4, LeavesGrow
  <2>6. Grows(o, 1)
    BY <1>3, <2>1, <2>5 DEF Grows
  <2> QED
    BY <2>2, <2>4, <2>5, <2>6
<1> QED
  BY <1>2, <1>3

\* A call waits: there is nothing for it.
LEMMA WaitKept ==
  ASSUME ChannelsInv, Active, NEW o \in Sides, NEW m \in Message \cup {NoMessage},
         o = tx => m \in Message, NEW time \in Timeouts, Wait(o, m, time),
         block[k.cur] = Null, UNCHANGED <<live, phantom, kind, chan_flag>>,
         Supply(o) = 0, \A p \in Sides : p # o => Own(p) = 0
  PROVE  Kept
<1>1. /\ IpcInv /\ IpcTypeOK /\ k.cur \in Thread /\ Sides \subseteq Obj /\ o \in Obj
      /\ CallsTyped /\ StoreSound /\ kind \in {"mailbox", "queue"} /\ rx # tx
  BY InvFacts
<1>2. /\ k' = Block(k, o, chan_flag, time) /\ Goto("block") /\ on' = [on EXCEPT ![k.cur] = o]
      /\ left' = [left EXCEPT ![k.cur] = time] /\ mail' = [mail EXCEPT ![k.cur] = m]
      /\ mb' = mb /\ mq' = mq /\ block' = block
  BY DEF Wait, store
<1>3. IpcInv' /\ Leaves /\ \A q \in Obj : q # o => k'.wait[q] = k.wait[q]
  BY <1>1, <1>2, WaitKeeps
<1>4. CallsTyped'
  BY <1>1, <1>2 DEF CallsTyped
<1>5. Labelled'
  <2>1. /\ \A t \in Thread \ {k.cur} : on'[t] = on[t] /\ mail'[t] = mail[t] /\ block'[t] = block[t]
        /\ block'[k.cur] = Null /\ on'[k.cur] = o /\ mail'[k.cur] = m
    BY <1>1, <1>2 DEF CallsTyped, IpcTypeOK
  <2>2. "block" \in Pc
    BY DEF Pc
  <2> QED
    BY <1>2, <2>1, <2>2, LabelledStep
<1>6. Effect(Contents, 0, 0) /\ Allowed(Contents) /\ Items \in Nat /\ Space \in Nat
  BY <1>1, <1>2, NoEffect, StoreFacts DEF Allowed
<1>7. ASSUME NEW p \in Sides PROVE Grows(p, 0) \/ (Resumed(p)' \in Nat /\ Supply(p) = 0)
  <2>1. Resumed(p)' \in Nat
    BY <1>1, <1>3, LeavesGrow
  <2>2. CASE p = o
    BY <2>1, <2>2
  <2>3. CASE p # o
    <3>1. Grows(p, 0 - Own(p)) /\ 0 - Own(p) = 0
      BY <1>1, <1>3, <2>3, LeavesGrow
    <3> QED
      BY <3>1
  <2> QED
    BY <2>2, <2>3
<1>8. /\ Grows(rx, 0) \/ (Resumed(rx)' \in Nat /\ Items + 0 = 0)
      /\ Grows(tx, 0) \/ (Resumed(tx)' \in Nat /\ Space + 0 = 0)
  BY <1>1, <1>6, <1>7 DEF Supply, Sides
<1> QED
  BY <1>3, <1>4, <1>5, <1>6, <1>8, KeptBy

LEMMA GrowsLess ==
  ASSUME NEW o, NEW d \in Int, NEW e \in Int, Grows(o, d), e <= d
  PROVE  Grows(o, e)
BY DEF Grows

\* The first section of a call on a message queue.
LEMMA HoldKeeps ==
  ASSUME ChannelsInv, Active, NEW b \in Cell, NEW m \in Message \cup {NoMessage},
         kind = "queue", NEW label \in {"link", "urgent", "free"},
         label # "free" => m \in Message, Hold(b, m, label),
         UNCHANGED <<live, phantom, kind, chan_flag>>
  PROVE  /\ IpcInv' /\ CallsTyped' /\ Labelled' /\ block' = [block EXCEPT ![k.cur] = b]
         /\ \A p \in Sides : Grows(p, 0 - Own(p))
<1>1. /\ IpcInv /\ IpcTypeOK /\ k.cur \in Thread /\ Sides \subseteq Obj /\ rx \in Obj
      /\ CallsTyped /\ block \in [Thread -> Link] /\ live' \subseteq Obj /\ phantom' \in BOOLEAN
  BY InvFacts DEF IpcTypeOK
<1>2. /\ k' = k /\ on' = on /\ Goto(label) /\ block' = [block EXCEPT ![k.cur] = b]
      /\ mail' = [mail EXCEPT ![k.cur] = m] /\ left' = [left EXCEPT ![k.cur] = "none"]
  BY DEF Hold
<1>3. label \in Pc /\ label \notin {"block", "sleep", "woken"} /\ "RT_EOK" \in Errno
  BY DEF Pc, Errno
<1>4. IpcInv' /\ Leaves /\ k'.wait = k.wait
  BY <1>1, <1>2, <1>3, QuietKeeps
<1>5. \A p \in Sides : Grows(p, 0 - Own(p))
  BY <1>1, <1>4, LeavesGrow
<1>6. CallsTyped'
  BY <1>1, <1>2 DEF CallsTyped, Timeouts
<1>7. Labelled'
  <2>1. /\ \A t \in Thread \ {k.cur} : on'[t] = on[t] /\ mail'[t] = mail[t] /\ block'[t] = block[t]
        /\ block'[k.cur] = b /\ mail'[k.cur] = m
    BY <1>1, <1>2 DEF CallsTyped, IpcTypeOK
  <2> QED
    BY <1>2, <1>3, <2>1, LabelledStep
<1> QED
  BY <1>2, <1>4, <1>5, <1>6, <1>7

\* A send finds room.
LEMMA SendKept ==
  ASSUME ChannelsInv, Active, Own(rx) = 0, block[k.cur] = Null, Room, NEW m \in Message,
         \/ Send(m)
         \/ kind = "mailbox" /\ mb' = StoreUrgent(mb, m) /\ Finish(rx) /\ mq' = mq
         \/ kind = "queue" /\ mq' = TakeFree(mq) /\ Hold(mq.free, m, "urgent") /\ mb' = mb,
         UNCHANGED <<live, phantom, kind, chan_flag>>
  PROVE  Kept
<1>1. /\ k.cur \in Thread /\ kind \in {"mailbox", "queue"} /\ StoreSound /\ rx \in Sides /\ tx \in Sides
      /\ Own(tx) \in {0, 1} /\ Own(rx) \in {0, 1} /\ rx # tx
  BY InvFacts DEF Sides, Own
<1>2. -1 \in Int /\ -1 <= 0 - Own(tx) /\ 0 - Own(tx) \in Int /\ 0 - Own(rx) = 0
  BY <1>1
<1>3. CASE /\ kind = "mailbox" /\ Finish(rx) /\ mq' = mq
           /\ mb' = StoreMail(mb, m) \/ mb' = StoreUrgent(mb, m)
  <2>1. /\ IpcInv' /\ CallsTyped' /\ Labelled' /\ block' = [block EXCEPT ![k.cur] = Null]
        /\ Grows(rx, 1) /\ Grows(tx, 0 - Own(tx))
    BY <1>1, <1>3, FinishKeeps
  <2>2. Grows(tx, -1)
    BY <1>2, <2>1, GrowsLess
  <2>3. /\ mb' = StoreMail(mb, m) => Effect(Append(Contents, m), 1, -1) /\ Len(Contents) < Capacity
        /\ mb' = StoreUrgent(mb, m) => Effect(<<m>> \o Contents, 1, -1) /\ Len(Contents) < Capacity
    BY <1>1, <1>3, <2>1, SendEffect
  <2>4. PICK seq \in {Append(Contents, m), <<m>> \o Contents} : Effect(seq, 1, -1) /\ Len(Contents) < Capacity
    BY <1>3, <2>3
  <2>5. Allowed(seq)
    BY <2>4 DEF Allowed
  <2> QED
    BY <1>2, <2>1, <2>2, <2>4, <2>5, KeptBy
<1>4. CASE /\ kind = "queue" /\ mq' = TakeFree(mq) /\ mb' = mb
           /\ Hold(mq.free, m, "link") \/ Hold(mq.free, m, "urgent")
  <2>1. block' = [block EXCEPT ![k.cur] = mq.free]
    BY <1>4 DEF Hold
  <2>2. Effect(Contents, 0, -1) /\ mq.free \in Cell
    BY <1>1, <1>4, <2>1, SendEffect
  <2>3. PICK label \in {"link", "urgent"} : Hold(mq.free, m, label)
    BY <1>4
  <2>4. label \in {"link", "urgent", "free"} /\ m \in Message \cup {NoMessage}
    BY <2>3
  <2>5. IpcInv' /\ CallsTyped' /\ Labelled' /\ \A p \in Sides : Grows(p, 0 - Own(p))
    BY <1>4, <2>2, <2>3, <2>4, HoldKeeps
  <2>6. Grows(rx, 0) /\ Grows(tx, -1)
    <3>1. Grows(rx, 0 - Own(rx)) /\ Grows(tx, 0 - Own(tx))
      BY <1>1, <2>5
    <3> QED
      BY <1>2, <3>1, GrowsLess
  <2>7. Allowed(Contents)
    BY DEF Allowed
  <2> QED
    BY <1>2, <2>2, <2>5, <2>6, <2>7, KeptBy
<1> QED
  BY <1>3, <1>4 DEF Send

\* A receive finds a message.
LEMMA ReceiveKept ==
  ASSUME ChannelsInv, Active, Own(tx) = 0, block[k.cur] = Null, Filled, Receive,
         UNCHANGED <<live, phantom, kind, chan_flag>>
  PROVE  Kept
<1>1. /\ k.cur \in Thread /\ kind \in {"mailbox", "queue"} /\ StoreSound /\ rx \in Sides /\ tx \in Sides
      /\ Own(rx) \in {0, 1} /\ Own(tx) \in {0, 1} /\ rx # tx
  BY InvFacts DEF Sides, Own
<1>2. -1 \in Int /\ -1 <= 0 - Own(rx) /\ 0 - Own(rx) \in Int /\ 0 - Own(tx) = 0
  BY <1>1
<1>3. Contents # <<>> /\ Allowed(Tail(Contents))
  BY <1>1, ReceiveEffect DEF Allowed
<1>4. CASE kind = "mailbox" /\ mb' = FetchMail(mb) /\ Finish(tx) /\ mq' = mq
  <2>1. /\ IpcInv' /\ CallsTyped' /\ Labelled' /\ block' = [block EXCEPT ![k.cur] = Null]
        /\ Grows(tx, 1) /\ Grows(rx, 0 - Own(rx))
    BY <1>1, <1>4, FinishKeeps
  <2>2. Grows(rx, -1)
    BY <1>2, <2>1, GrowsLess
  <2>3. Effect(Tail(Contents), -1, 1)
    BY <1>1, <1>4, <2>1, ReceiveEffect
  <2> QED
    BY <1>2, <1>3, <2>1, <2>2, <2>3, KeptBy
<1>5. CASE kind = "queue" /\ mq' = TakeHead(mq) /\ Hold(mq.head, NoMessage, "free") /\ mb' = mb
  <2>1. block' = [block EXCEPT ![k.cur] = mq.head]
    BY <1>5 DEF Hold
  <2>2. Effect(Tail(Contents), -1, 0) /\ mq.head \in Cell
    BY <1>1, <1>5, <2>1, ReceiveEffect
  <2>3. "free" \in {"link", "urgent", "free"} /\ NoMessage \in Message \cup {NoMessage}
    OBVIOUS
  <2>4. IpcInv' /\ CallsTyped' /\ Labelled' /\ \A p \in Sides : Grows(p, 0 - Own(p))
    BY <1>5, <2>2, <2>3, HoldKeeps
  <2>5. Grows(rx, -1) /\ Grows(tx, 0)
    <3>1. Grows(rx, 0 - Own(rx)) /\ Grows(tx, 0 - Own(tx))
      BY <1>1, <2>4
    <3> QED
      BY <1>2, <3>1, GrowsLess
  <2> QED
    BY <1>2, <1>3, <2>2, <2>4, <2>5, KeptBy
<1> QED
  BY <1>4, <1>5 DEF Receive

\* A call gives up.
LEMMA FailKept ==
  ASSUME ChannelsInv, Active, k' \in {k, [k EXCEPT !.error[k.cur] = "RT_ETIMEOUT"]},
         Goto("run"), Over, UNCHANGED <<mb, mq, live, phantom, kind, chan_flag>>,
         block[k.cur] = Null, \A p \in Sides : Own(p) = 0 \/ Supply(p) = 0
  PROVE  Kept
<1>1. /\ IpcInv /\ IpcTypeOK /\ k.cur \in Thread /\ kind \in {"mailbox", "queue"} /\ StoreSound
      /\ Sides \subseteq Obj /\ rx \in Obj /\ rx # tx /\ block \in [Thread -> Link]
      /\ live' \subseteq Obj /\ phantom' \in BOOLEAN
  BY InvFacts DEF IpcTypeOK
<1>2. /\ CallsTyped' /\ Labelled' /\ block' = [block EXCEPT ![k.cur] = Null]
      /\ on' = [on EXCEPT ![k.cur] = rx]
  BY OverFacts
<1>3. "run" \in Pc /\ "run" \notin {"block", "sleep", "woken"} /\ "RT_ETIMEOUT" \in Errno
  BY DEF Pc, Errno
<1>4. IpcInv' /\ Leaves /\ k'.wait = k.wait
  BY <1>1, <1>2, <1>3, QuietKeeps
<1>5. Effect(Contents, 0, 0) /\ Allowed(Contents) /\ Items \in Nat /\ Space \in Nat
  <2>1. block' = block
    BY <1>1, <1>2
  <2> QED
    BY <1>1, <2>1, NoEffect, StoreFacts DEF Allowed
<1>6. ASSUME NEW p \in Sides PROVE Grows(p, 0) \/ (Resumed(p)' \in Nat /\ Supply(p) = 0)
  <2>1. Grows(p, 0 - Own(p)) /\ Resumed(p)' \in Nat
    BY <1>1, <1>4, LeavesGrow
  <2>2. \A d \in {0, 1} : d = 0 => 0 - d = 0
    OBVIOUS
  <2>3. Own(p) \in {0, 1}
    BY DEF Own
  <2> QED
    BY <2>1, <2>2, <2>3
<1>7. /\ Grows(rx, 0) \/ (Resumed(rx)' \in Nat /\ Items + 0 = 0)
      /\ Grows(tx, 0) \/ (Resumed(tx)' \in Nat /\ Space + 0 = 0)
  BY <1>1, <1>5, <1>6 DEF Supply, Sides
<1> QED
  BY <1>2, <1>4, <1>5, <1>7, KeptBy

\* Nothing happens.
LEMMA StutterKept ==
  ASSUME ChannelsInv, UNCHANGED channelVars
  PROVE  Kept
<1>1. UNCHANGED <<k, pc, on, live, phantom, kind, chan_flag, mb, mq, left, mail, block>>
  BY DEF channelVars, ipc, channel, store, calls
<1>2. IpcInv' /\ Labelled' /\ CallsTyped' /\ StoreSound' /\ Contents' = Contents
  BY <1>1 DEF ChannelsInv, IpcInv, IpcTypeOK, Joined, InCall, Labelled, LabelOf, CallsTyped,
              StoreSound, Contents
<1>3. \A o \in Sides : Resumed(o)' = Resumed(o)
  BY <1>1 DEF Resumed, Granted, InCall
<1>4. \A o \in Sides : Supply(o)' = Supply(o)
  BY <1>1 DEF Supply, Items, Space
<1>5. Served'
  BY <1>1, <1>3, <1>4 DEF ChannelsInv, Served
<1> QED
  BY <1>2, <1>5 DEF Kept, ChannelsInv

\* Steps that leave the object alone and grant nothing.
LEMMA QuietKept ==
  ASSUME ChannelsInv, IpcInv', SameGrants, WaitsEased, Labelled', UNCHANGED channel,
         live' \subseteq live
  PROVE  Kept
<1>1. /\ UNCHANGED <<kind, chan_flag, mb, mq, left, mail, block>>
  BY DEF channel, store, calls
<1>2. /\ CallsTyped /\ StoreSound /\ kind \in {"mailbox", "queue"} /\ rx \in Obj /\ tx \in Obj
  BY InvFacts
<1>3. CallsTyped' /\ Effect(Contents, 0, 0) /\ Allowed(Contents)
  BY <1>1, <1>2, NoEffect DEF CallsTyped, Allowed
<1>4. Grows(rx, 0) /\ Grows(tx, 0)
  BY <1>2, SameGrow
<1> QED
  BY <1>3, <1>4, KeptBy

\* The current thread goes on without a block.
LEMMA PlainLabelled ==
  ASSUME ChannelsInv, kind' = kind, NEW label \in Pc, Goto(label),
         label \notin {"link", "urgent", "free", "block", "woken"}, block[k.cur] = Null,
         NEW o, on' \in {on, [on EXCEPT ![k.cur] = o]}, mail' = mail, block' = block
  PROVE  Labelled'
<1>1. IpcTypeOK /\ k.cur \in Thread
  BY InvFacts
<1>2. \A t \in Thread \ {k.cur} : on'[t] = on[t] /\ mail'[t] = mail[t] /\ block'[t] = block[t]
  BY <1>1 DEF IpcTypeOK
<1> QED
  BY <1>2, LabelledStep

\* There is nothing to receive, or no room.
LEMMA Exhausted ==
  ASSUME ChannelsInv
  PROVE  /\ ~Filled => Supply(rx) = 0
         /\ ~Room => Supply(tx) = 0
<1>1. StoreSound /\ kind \in {"mailbox", "queue"} /\ rx # tx
  BY InvFacts
<1>2. Items \in Nat /\ Space \in Nat /\ (Room <=> Space > 0) /\ (Filled <=> Items > 0)
  BY <1>1, StoreFacts
<1>3. \A n \in Nat : ~(n > 0) => n = 0
  OBVIOUS
<1>4. Supply(rx) = Items /\ Supply(tx) = Space
  BY <1>1 DEF Supply
<1> QED
  BY <1>2, <1>3, <1>4

LEMMA ActiveLabel ==
  ASSUME ChannelsInv, pc[k.cur] # "run" \/ k.cur # Idle, pc[k.cur] \notin {"block", "sleep"}
  PROVE  /\ Active
         /\ pc[k.cur] \notin {"link", "urgent", "free"} => block[k.cur] = Null
         /\ pc[k.cur] # "woken" => Own(rx) = 0 /\ Own(tx) = 0
         /\ \A o \in Obj : on[k.cur] # o => Own(o) = 0
<1>1. IpcInv /\ k.cur \in Thread /\ rx \in Obj /\ tx \in Obj /\ Labelled
  BY InvFacts
<1>2. Active
  BY <1>1, CurRuns DEF Active
<1>3. LabelOf(k.cur)
  BY <1>1 DEF Labelled
<1> QED
  BY <1>1, <1>2, <1>3, NotGranted DEF LabelOf

\* Application code calls a service; a receive sends NoMessage.
LEMMA CallKept ==
  ASSUME ChannelsInv, NEW m \in Message \cup {NoMessage}, NEW time \in Timeouts,
         \/ m \in Message /\ (rt_send_wait(m, time) \/ rt_urgent(m))
         \/ rt_recv(time)
  PROVE  Kept
<1>1. App /\ UNCHANGED <<live, phantom, kind, chan_flag>>
  BY DEF rt_send_wait, rt_recv, rt_urgent, Usable
<1>2. pc[k.cur] = "run" /\ k.cur # Idle
  BY <1>1 DEF App, At
<1>3. Active /\ block[k.cur] = Null /\ Own(rx) = 0 /\ Own(tx) = 0
  BY <1>2, ActiveLabel
<1>4. rx # tx
  BY InvFacts
<1>6. \A p \in Sides : Own(p) = 0
  BY <1>3 DEF Sides
<1>7. rx \in Sides /\ tx \in Sides /\ m \in Message \cup {NoMessage}
      /\ NoMessage \in Message \cup {NoMessage}
  BY DEF Sides
<1>8. CASE m \in Message /\ rt_send_wait(m, time)
  <2>1. CASE Room /\ Send(m)
    BY <1>1, <1>3, <1>8, <2>1, SendKept
  <2>2. CASE ~Room /\ time = "none" /\ UNCHANGED <<k, pc, on, store, calls>>
    <3>1. UNCHANGED channelVars
      BY <1>1, <2>2 DEF channelVars, ipc, channel
    <3> QED
      BY <3>1, StutterKept
  <2>3. CASE ~Room /\ time # "none" /\ Wait(tx, m, time)
    <3>1. Supply(tx) = 0
      BY <2>3, Exhausted
    <3> QED
      BY <1>1, <1>3, <1>6, <1>7, <1>8, <2>3, <3>1, WaitKept
  <2> QED
    BY <1>8, <2>1, <2>2, <2>3 DEF rt_send_wait
<1>9. CASE rt_recv(time)
  <2>1. CASE Filled /\ Receive
    BY <1>1, <1>3, <2>1, ReceiveKept
  <2>2. CASE ~Filled /\ time = "none" /\ UNCHANGED <<k, pc, on, store, calls>>
    <3>1. UNCHANGED channelVars
      BY <1>1, <2>2 DEF channelVars, ipc, channel
    <3> QED
      BY <3>1, StutterKept
  <2>3. CASE ~Filled /\ time # "none" /\ Wait(rx, NoMessage, time)
    <3>1. Supply(rx) = 0
      BY <2>3, Exhausted
    <3> QED
      BY <1>1, <1>3, <1>4, <1>6, <1>7, <2>3, <3>1, WaitKept
  <2> QED
    BY <1>9, <2>1, <2>2, <2>3 DEF rt_recv
<1>10. CASE m \in Message /\ rt_urgent(m)
  <2>1. CASE Room /\ kind = "mailbox" /\ mb' = StoreUrgent(mb, m) /\ Finish(rx) /\ UNCHANGED mq
    BY <1>1, <1>3, <1>10, <2>1, SendKept
  <2>2. CASE Room /\ kind = "queue" /\ mq' = TakeFree(mq) /\ Hold(mq.free, m, "urgent") /\ UNCHANGED mb
    BY <1>1, <1>3, <1>10, <2>2, SendKept
  <2>3. CASE ~Room /\ UNCHANGED <<k, pc, on, store, calls>>
    <3>1. UNCHANGED channelVars
      BY <1>1, <2>3 DEF channelVars, ipc, channel
    <3> QED
      BY <3>1, StutterKept
  <2> QED
    BY <1>10, <2>1, <2>2, <2>3 DEF rt_urgent
<1> QED
  BY <1>8, <1>9, <1>10

\* A call that was resumed looks again, or fails.
LEMMA AgainKept ==
  ASSUME ChannelsInv, SendAgain \/ RecvAgain \/ WaitFailed(rx) \/ WaitFailed(tx)
  PROVE  Kept
<1>1. pc[k.cur] = "woken" /\ UNCHANGED <<live, phantom, kind, chan_flag>>
  BY DEF SendAgain, RecvAgain, WaitFailed, Woken, At
<1>2. Active /\ block[k.cur] = Null /\ \A o \in Obj : on[k.cur] # o => Own(o) = 0
  BY <1>1, ActiveLabel
<1>3. /\ StoreSound /\ kind \in {"mailbox", "queue"} /\ rx # tx /\ Sides \subseteq Obj
      /\ rx \in Obj /\ tx \in Obj /\ k.cur \in Thread /\ CallsTyped
  BY InvFacts
<1>5. rx \in Sides /\ tx \in Sides
  BY DEF Sides
<1>6. CASE SendAgain
  <2>1. PICK time \in Rest(left[k.cur]) :
          /\ on[k.cur] = tx
          /\ \/ Room /\ Send(mail[k.cur])
             \/ ~Room /\ time = "none" /\ Goto("run") /\ Over /\ UNCHANGED <<k, store>>
             \/ ~Room /\ time # "none" /\ Wait(tx, mail[k.cur], time)
    BY <1>6 DEF SendAgain, Woken
  <2>2. time \in Timeouts /\ mail[k.cur] \in Message /\ mail[k.cur] \in Message \cup {NoMessage}
    <3>1. left[k.cur] \in Timeouts
      BY <1>3 DEF CallsTyped
    <3>2. LabelOf(k.cur)
      BY <1>3, InvFacts DEF Labelled
    <3> QED
      BY <1>1, <2>1, <3>1, <3>2 DEF LabelOf, Rest, Timeouts
  <2>3. Own(rx) = 0 /\ \A p \in Sides : p # tx => Own(p) = 0
    BY <1>2, <1>3, <2>1
  <2>4. CASE Room /\ Send(mail[k.cur])
    BY <1>1, <1>2, <2>2, <2>3, <2>4, SendKept
  <2>5. CASE ~Room /\ time = "none" /\ Goto("run") /\ Over /\ UNCHANGED <<k, store>>
    <3>1. Supply(tx) = 0
      BY <2>5, Exhausted
    <3>2. \A p \in Sides : Own(p) = 0 \/ Supply(p) = 0
      BY <2>3, <3>1
    <3> QED
      BY <1>1, <1>2, <2>5, <3>2, FailKept DEF store
  <2>6. CASE ~Room /\ time # "none" /\ Wait(tx, mail[k.cur], time)
    <3>1. Supply(tx) = 0
      BY <2>6, Exhausted
    <3> QED
      BY <1>1, <1>2, <1>5, <2>2, <2>3, <2>6, <3>1, WaitKept
  <2> QED
    BY <2>1, <2>4, <2>5, <2>6
<1>7. CASE RecvAgain
  <2>1. PICK time \in Rest(left[k.cur]) :
          /\ on[k.cur] = rx
          /\ \/ Filled /\ Receive
             \/ /\ ~Filled /\ time = "none"
                /\ k' = [k EXCEPT !.error[k.cur] = "RT_ETIMEOUT"]
                /\ Goto("run") /\ Over
                /\ UNCHANGED store
             \/ ~Filled /\ time # "none" /\ Wait(rx, NoMessage, time)
    BY <1>7 DEF RecvAgain, Woken
  <2>2. time \in Timeouts /\ NoMessage \in Message \cup {NoMessage}
    <3>1. left[k.cur] \in Timeouts
      BY <1>3 DEF CallsTyped
    <3> QED
      BY <2>1, <3>1 DEF Rest, Timeouts
  <2>3. Own(tx) = 0 /\ \A p \in Sides : p # rx => Own(p) = 0
    BY <1>2, <1>3, <2>1
  <2>4. CASE Filled /\ Receive
    BY <1>1, <1>2, <2>3, <2>4, ReceiveKept
  <2>5. CASE /\ ~Filled /\ time = "none"
             /\ k' = [k EXCEPT !.error[k.cur] = "RT_ETIMEOUT"]
             /\ Goto("run") /\ Over
             /\ UNCHANGED store
    <3>1. Supply(rx) = 0
      BY <2>5, Exhausted
    <3>2. \A p \in Sides : Own(p) = 0 \/ Supply(p) = 0
      BY <2>3, <3>1
    <3> QED
      BY <1>1, <1>2, <2>5, <3>2, FailKept DEF store
  <2>6. CASE ~Filled /\ time # "none" /\ Wait(rx, NoMessage, time)
    <3>1. Supply(rx) = 0
      BY <2>6, Exhausted
    <3> QED
      BY <1>1, <1>2, <1>3, <1>5, <2>2, <2>3, <2>6, <3>1, WaitKept
  <2> QED
    BY <2>1, <2>4, <2>5, <2>6
<1>8. CASE WaitFailed(rx) \/ WaitFailed(tx)
  <2>1. k.error[k.cur] # "RT_EOK" /\ Goto("run") /\ Over /\ UNCHANGED <<k, store>>
    BY <1>8 DEF WaitFailed
  <2>2. \A p \in Sides : Own(p) = 0 \/ Supply(p) = 0
    BY <1>3, <2>1, NotGranted
  <2> QED
    BY <1>1, <1>2, <2>1, <2>2, FailKept DEF store
<1> QED
  BY <1>6, <1>7, <1>8

\* The second sections.
LEMMA SectionKept ==
  ASSUME ChannelsInv, LinkMessage \/ FreeBlock
  PROVE  Kept
<1>1. /\ pc[k.cur] \in {"link", "urgent", "free"}
      /\ UNCHANGED <<live, phantom, kind, chan_flag, mb>>
  BY DEF LinkMessage, FreeBlock, At
<1>2. Active /\ Own(rx) = 0 /\ Own(tx) = 0
  BY <1>1, ActiveLabel
<1>3. /\ StoreSound /\ kind \in {"mailbox", "queue"} /\ rx # tx /\ k.cur \in Thread /\ Labelled
  BY InvFacts
<1>4. LabelOf(k.cur)
  BY <1>3 DEF Labelled
<1>5. kind = "queue" /\ block[k.cur] \in Cell
  BY <1>1, <1>4 DEF LabelOf
<1>6. rx \in Sides /\ tx \in Sides /\ 0 - Own(rx) = 0 /\ 0 - Own(tx) = 0
  BY <1>2 DEF Sides
<1>7. CASE LinkMessage
  <2>1. /\ Finish(rx) /\ pc[k.cur] \in {"link", "urgent"}
        /\ mq' = LinkLast(mq, block[k.cur], mail[k.cur]) \/ mq' = LinkFirst(mq, block[k.cur], mail[k.cur])
    BY <1>7 DEF LinkMessage, At
  <2>2. mail[k.cur] \in Message
    BY <1>4, <2>1 DEF LabelOf
  <2>3. /\ IpcInv' /\ CallsTyped' /\ Labelled' /\ block' = [block EXCEPT ![k.cur] = Null]
        /\ Grows(rx, 1) /\ Grows(tx, 0)
    BY <1>1, <1>2, <1>3, <1>6, <2>1, FinishKeeps
  <2> DEFINE m == mail[k.cur]
  <2>4. /\ mq' = LinkLast(mq, block[k.cur], m) => Effect(Append(Contents, m), 1, 0)
        /\ mq' = LinkFirst(mq, block[k.cur], m) => Effect(<<m>> \o Contents, 1, 0)
        /\ Len(Contents) < Capacity
    BY <1>1, <1>3, <1>5, <2>2, <2>3, SectionEffect
  <2>5. PICK seq \in {Append(Contents, m), <<m>> \o Contents} : Effect(seq, 1, 0)
    BY <2>1, <2>4
  <2>6. Allowed(seq)
    BY <2>2, <2>4, <2>5 DEF Allowed
  <2> QED
    BY <1>1, <2>3, <2>5, <2>6, KeptBy
<1>8. CASE FreeBlock
  <2>1. Finish(tx) /\ mq' = PutFree(mq, block[k.cur])
    BY <1>8 DEF FreeBlock
  <2>2. /\ IpcInv' /\ CallsTyped' /\ Labelled' /\ block' = [block EXCEPT ![k.cur] = Null]
        /\ Grows(tx, 1) /\ Grows(rx, 0)
    BY <1>1, <1>2, <1>3, <1>6, <2>1, FinishKeeps
  <2>3. Effect(Contents, 0, 1) /\ Allowed(Contents)
    BY <1>1, <1>3, <1>5, <2>1, <2>2, SectionEffect DEF Allowed
  <2> QED
    BY <1>1, <2>2, <2>3, KeptBy
<1> QED
  BY <1>7, <1>8

LEMMA ControlKept ==
  ASSUME ChannelsInv, rt_control
  PROVE  Kept
<1>1. /\ App /\ UNCHANGED <<live, phantom, kind, chan_flag, on, left, mail, block>>
      /\ k' = ResumeEveryone(ResumeEveryone(k, rx), tx) /\ Goto("sched")
      /\ IF kind = "mailbox" THEN mb' = EmptyMailbox /\ mq' = mq
                             ELSE mq' = FreeMessages(mq) /\ mb' = mb
  BY DEF rt_control, Usable, calls
<1>2. pc[k.cur] = "run" /\ k.cur # Idle
  BY <1>1 DEF App, At
<1>3. Active /\ block[k.cur] = Null
  BY <1>2, ActiveLabel
<1>4. IpcInv /\ CallsTyped /\ kind \in {"mailbox", "queue"} /\ StoreSound
  BY InvFacts
<1>5. IpcInv' /\ k'.wait[rx] = <<>> /\ k'.wait[tx] = <<>>
  BY <1>1, <1>3, <1>4, ResetKeeps
<1>6. StoreSound' /\ Contents' = <<>>
  BY <1>1, <1>4, ResetEffect
<1>7. "sched" \in Pc /\ "sched" \notin {"link", "urgent", "free", "block", "woken"}
  BY DEF Pc
<1>8. Labelled'
  BY <1>1, <1>3, <1>7, PlainLabelled
<1>9. CallsTyped' /\ Served'
  BY <1>1, <1>4, <1>5 DEF CallsTyped, Served, Sides
<1>10. [Abstract!Next]_Contents
  BY <1>6, AllowedStep DEF Allowed
<1> QED
  BY <1>5, <1>6, <1>8, <1>9, <1>10 DEF Kept, ChannelsInv

\* Steps of a detach service that only move the caller on.
LEMMA MoveKept ==
  ASSUME ChannelsInv, Active, Own(rx) = 0, Own(tx) = 0, block[k.cur] = Null, UNCHANGED channel,
         k' = k, phantom' = phantom, live' \subseteq live, Goto("test"),
         NEW o \in Obj, on' = [on EXCEPT ![k.cur] = o]
  PROVE  Kept
<1>1. UNCHANGED <<kind, chan_flag, mb, mq, left, mail, block>>
  BY DEF channel, store, calls
<1>2. /\ IpcInv /\ CallsTyped /\ kind \in {"mailbox", "queue"} /\ StoreSound /\ rx \in Obj
      /\ tx \in Obj /\ k.cur \in Thread /\ live' \subseteq Obj /\ phantom' \in BOOLEAN
  BY InvFacts DEF IpcTypeOK
<1>3. "test" \in Pc /\ "test" \notin {"link", "urgent", "free", "block", "woken", "sleep"}
      /\ "RT_EOK" \in Errno
  BY DEF Pc, Errno
<1>4. IpcInv' /\ Leaves /\ k'.wait = k.wait
  BY <1>2, <1>3, QuietKeeps
<1>5. Labelled'
  <2>1. \A t \in Thread \ {k.cur} : on'[t] = on[t] /\ mail'[t] = mail[t] /\ block'[t] = block[t]
    BY <1>1, <1>2 DEF IpcInv, IpcTypeOK
  <2>2. kind' = kind /\ block'[k.cur] = Null
    BY <1>1
  <2> QED
    BY <1>3, <2>1, <2>2, LabelledStep
<1>6. Grows(rx, 0) /\ Grows(tx, 0)
  <2>1. Grows(rx, 0 - Own(rx)) /\ Grows(tx, 0 - Own(tx))
    BY <1>2, <1>4, LeavesGrow
  <2>2. 0 - Own(rx) = 0 /\ 0 - Own(tx) = 0
    OBVIOUS
  <2> QED
    BY <2>1, <2>2
<1>7. CallsTyped' /\ Effect(Contents, 0, 0) /\ Allowed(Contents)
  BY <1>1, <1>2, NoEffect DEF CallsTyped, Allowed
<1> QED
  BY <1>4, <1>5, <1>6, <1>7, KeptBy

LEMMA DetachKept ==
  ASSUME ChannelsInv, rt_detach \/ DetachStep
  PROVE  Kept
<1>1. IpcInv /\ IpcTypeOK /\ k.cur \in Thread /\ rx \in Obj /\ tx \in Obj
  BY InvFacts
<1>2. CASE rt_detach
  <2>1. /\ App /\ live' \subseteq live /\ on' = [on EXCEPT ![k.cur] = rx] /\ Goto("test")
        /\ k' = k /\ phantom' = phantom /\ UNCHANGED channel
    BY <1>2 DEF rt_detach
  <2>2. pc[k.cur] = "run" /\ k.cur # Idle
    BY <2>1 DEF App, At
  <2>3. Active /\ block[k.cur] = Null /\ Own(rx) = 0 /\ Own(tx) = 0
    BY <2>2, ActiveLabel
  <2> QED
    BY <1>1, <2>1, <2>3, MoveKept
<1>3. CASE DetachSenders
  <2>1. /\ pc[k.cur] = "test" /\ on' = [on EXCEPT ![k.cur] = tx]
        /\ k' = k /\ pc' = pc /\ live' = live /\ phantom' = phantom /\ UNCHANGED channel
    BY <1>3 DEF DetachSenders, At
  <2>2. Goto("test")
    BY <1>1, <2>1 DEF Goto, IpcTypeOK
  <2>3. Active /\ block[k.cur] = Null /\ Own(rx) = 0 /\ Own(tx) = 0
    BY <2>1, ActiveLabel
  <2> QED
    BY <1>1, <2>1, <2>2, <2>3, MoveKept
<1>4. CASE (ResumeAllTest \/ _ipc_list_resume_all) /\ UNCHANGED channel
  <2>1. IpcInv' /\ SameGrants /\ WaitsEased
    BY <1>1, <1>4, ResumeAllTestKeeps, ResumeAllKeeps
  <2>2. UNCHANGED <<kind, mail, block>>
    BY <1>4 DEF channel, calls
  <2>3. live' = live /\ on' = on /\ pc[k.cur] \in {"test", "each"}
    BY <1>4 DEF ResumeAllTest, _ipc_list_resume_all, At
  <2>4. PICK label \in {"run", "each", "test"} : Goto(label)
    BY <1>4 DEF ResumeAllTest, _ipc_list_resume_all
  <2>5. label \in Pc /\ label \notin {"link", "urgent", "free", "block", "woken"}
    BY DEF Pc
  <2>6. block[k.cur] = Null
    BY <2>3, ActiveLabel
  <2>7. Labelled'
    BY <2>2, <2>3, <2>4, <2>5, <2>6, PlainLabelled
  <2> QED
    BY <1>4, <2>1, <2>3, <2>7, QuietKept
<1> QED
  BY <1>2, <1>3, <1>4 DEF DetachStep

\* The object is set up again.
LEMMA InitKept ==
  ASSUME ChannelsInv, NEW f \in {"FIFO", "PRIO"}, rt_init(f)
  PROVE  Kept
<1>1. /\ \A t \in Thread : pc[t] \in {"run", "sched", "sleep"}
      /\ live' = live \cup Sides /\ k' = [k EXCEPT !.wait[rx] = <<>>, !.wait[tx] = <<>>]
      /\ chan_flag' = f /\ mb' = EmptyMailbox /\ mq' = EmptyQueue
      /\ UNCHANGED <<pc, on, phantom, kind, left, mail, block>>
  BY DEF rt_init, calls
<1>2. /\ IpcInv /\ IpcTypeOK /\ CallsTyped /\ Labelled /\ Sides \subseteq Obj
      /\ rx \in Obj /\ tx \in Obj /\ block \in [Thread -> Link] /\ k \in KernelState /\ Joined
  BY InvFacts DEF IpcInv, IpcTypeOK
<1>3. \A t \in Thread, o \in Obj : ~InCall(t, o)
  BY <1>1 DEF InCall
<1>4. \A o \in Obj : k.wait[o] = <<>>
  <2>1. \A o \in Obj : k.wait[o] \in Seq(Thread) /\ \A t \in Thread : ~Member(t, k.wait[o])
    BY <1>2, <1>3 DEF KernelState, Joined
  <2> QED
    BY <2>1, EmptyFacts
<1>5. k' = k
  <2>1. [[k.wait EXCEPT ![rx] = <<>>] EXCEPT ![tx] = <<>>] = k.wait
    BY <1>2, <1>4 DEF KernelState
  <2>2. k' = [k EXCEPT !.wait = [[k.wait EXCEPT ![rx] = <<>>] EXCEPT ![tx] = <<>>]]
    BY <1>1, <1>2 DEF KernelState
  <2> QED
    BY <1>2, <2>1, <2>2 DEF KernelState
<1>6. IpcInv'
  BY <1>1, <1>2, <1>5 DEF IpcInv, IpcTypeOK, Joined, InCall
<1>7. \A t \in Thread : block[t] = Null
  BY <1>1, <1>2 DEF Labelled, LabelOf
<1>8. StoreSound' /\ Contents' = <<>>
  <2>1. /\ RingSound(EmptyMailbox) /\ Mails(EmptyMailbox) = <<>>
        /\ Warehouse(EmptyQueue, block) /\ Messages(EmptyQueue) = <<>>
    BY <1>2, <1>7, EmptyMailboxFacts, WarehouseNew
  <2> QED
    BY <1>1, <2>1 DEF StoreSound, Contents
<1>9. Labelled' /\ CallsTyped'
  BY <1>1, <1>2, <1>5 DEF Labelled, LabelOf, CallsTyped
<1>10. Served'
  BY <1>2, <1>4, <1>5 DEF Served
<1>11. [Abstract!Next]_Contents
  BY <1>8, AllowedStep DEF Allowed
<1> QED
  BY <1>6, <1>8, <1>9, <1>10, <1>11 DEF Kept, ChannelsInv

\* An interrupt handler sends or receives.
LEMMA IsrKeeps ==
  ASSUME ChannelsInv, NEW o \in Sides, Isr(o)
  PROVE  /\ IpcInv' /\ CallsTyped' /\ Labelled' /\ Grows(o, 1)
         /\ \A p \in Sides : p # o => Grows(p, 0)
<1>1. /\ IpcInv /\ CallsTyped /\ Labelled /\ Sides \subseteq Obj /\ o \in Obj /\ IpcTypeOK
  BY InvFacts
<1>2. /\ k' = IF k.wait[o] # <<>> THEN rt_schedule(ResumeFirst(o)) ELSE k
      /\ UNCHANGED <<pc, on, live, phantom, kind, chan_flag, left, mail, block>>
  BY DEF Isr, calls
<1>3. CallsTyped' /\ Labelled'
  BY <1>1, <1>2 DEF CallsTyped, Labelled, LabelOf
<1>4. CASE k.wait[o] # <<>>
  <2>1. k' = rt_schedule(_ipc_list_resume(k, o))
    BY <1>2, <1>4 DEF ResumeFirst
  <2>2. IpcInv' /\ GrantsTo(Head(k.wait[o]), o) /\ WaitsEased
    BY <1>1, <1>2, <1>4, <2>1, IsrReleaseKeeps
  <2>3. ASSUME NEW q \in Sides PROVE Grows(q, IF q = o THEN 1 ELSE 0)
    <3>1. /\ Resumed(q) \in Nat
          /\ Resumed(q)' = IF q = o THEN Resumed(q) + 1 ELSE Resumed(q)
      BY <1>1, <2>2, CountGrants
    <3>2. k'.wait[q] # <<>> => k.wait[q] # <<>>
      BY <1>1, <2>2 DEF WaitsEased
    <3> QED
      BY <3>1, <3>2 DEF Grows
  <2>4. Grows(o, 1)
    BY <2>3
  <2>5. \A p \in Sides : p # o => Grows(p, 0)
    BY <2>3
  <2> QED
    BY <1>3, <2>2, <2>4, <2>5
<1>5. CASE k.wait[o] = <<>>
  <2>1. k' = k
    BY <1>2, <1>5
  <2>2. IpcInv' /\ SameGrants /\ WaitsEased
    BY <1>1, <1>2, <2>1 DEF IpcInv, IpcTypeOK, Joined, InCall, SameGrants, Granted, WaitsEased,
                            InPrioOrder
  <2>3. \A q \in Sides : Grows(q, 0)
    BY <1>1, <2>2, SameGrow
  <2>4. Grows(o, 1)
    BY <1>5, <2>1, <2>3 DEF Grows
  <2> QED
    BY <1>3, <2>2, <2>3, <2>4
<1> QED
  BY <1>4, <1>5

LEMMA IsrKept ==
  ASSUME ChannelsInv, NEW m,
         (m \in Message /\ (IsrSend(m) \/ IsrUrgent(m))) \/ IsrRecv
  PROVE  Kept
<1>1. /\ StoreSound /\ kind \in {"mailbox", "queue"} /\ block[Idle] = Null
      /\ rx \in Sides /\ tx \in Sides /\ rx # tx
  BY InvFacts DEF Sides
<1>2. CASE m \in Message /\ (IsrSend(m) \/ IsrUrgent(m))
  <2>1. Room /\ Isr(rx) /\ kind' = kind /\ block' = block /\ live' = live
    BY <1>2 DEF IsrSend, IsrUrgent, Isr, calls
  <2>2. PICK seq \in {Append(Contents, m), <<m>> \o Contents} :
          Effect(seq, 1, -1) /\ Len(Contents) < Capacity
    BY <1>1, <1>2, <2>1, IsrEffect DEF IsrSend, IsrUrgent
  <2>3. Allowed(seq)
    BY <1>2, <2>2 DEF Allowed
  <2>4. IpcInv' /\ CallsTyped' /\ Labelled' /\ Grows(rx, 1) /\ Grows(tx, 0)
    BY <1>1, <2>1, IsrKeeps
  <2>5. Grows(tx, -1)
    BY <2>4, GrowsLess
  <2> QED
    BY <2>1, <2>2, <2>3, <2>4, <2>5, KeptBy
<1>3. CASE IsrRecv
  <2>1. Filled /\ Isr(tx) /\ kind' = kind /\ block' = block /\ live' = live
    BY <1>3 DEF IsrRecv, Isr, calls
  <2>2. Effect(Tail(Contents), -1, 1) /\ Contents # <<>>
    BY <1>1, <1>3, <2>1, IsrEffect DEF IsrRecv
  <2>3. Allowed(Tail(Contents))
    BY <2>2 DEF Allowed
  <2>4. IpcInv' /\ CallsTyped' /\ Labelled' /\ Grows(tx, 1) /\ Grows(rx, 0)
    BY <1>1, <2>1, IsrKeeps
  <2>5. Grows(rx, -1)
    BY <2>4, GrowsLess
  <2> QED
    BY <2>1, <2>2, <2>3, <2>4, <2>5, KeptBy
<1> QED
  BY <1>2, <1>3

\* The scheduler, delays and timers.
LEMMA BackgroundKept ==
  ASSUME ChannelsInv, Background, UNCHANGED channel
  PROVE  Kept
<1>1. /\ IpcInv /\ IpcTypeOK /\ Labelled /\ k.cur \in Thread
  BY InvFacts
<1>2. IpcInv' /\ SameGrants /\ WaitsEased
  BY <1>1, BackgroundKeeps
<1>3. live' = live /\ on' = on /\ kind' = kind /\ mail' = mail /\ block' = block
  BY DEF Background, Reschedule, Delay, SliceEnd, Timeout, channel, calls
<1>4. Labelled'
  <2>1. CASE pc' = pc
    BY <1>1, <1>3, <2>1 DEF Labelled, LabelOf
  <2>2. CASE Reschedule \/ Delay
    <3>1. PICK label \in {"run", "woken", "sleep"} :
            /\ Goto(label) /\ pc[k.cur] \in {"run", "sched", "block", "sleep"}
            /\ label = "woken" => pc[k.cur] = "block"
      BY <2>2 DEF Reschedule, Delay, App, At
    <3>2. LabelOf(k.cur)
      BY <1>1 DEF Labelled
    <3>3. block[k.cur] = Null /\ (label = "woken" /\ on[k.cur] = tx => mail[k.cur] \in Message)
      BY <3>1, <3>2 DEF LabelOf
    <3>4. label \in Pc
      BY DEF Pc
    <3> QED
      BY <1>3, <3>1, <3>3, <3>4, LabelledStep
  <2> QED
    BY <2>1, <2>2 DEF Background, SliceEnd, Timeout
<1> QED
  BY <1>2, <1>3, <1>4, QuietKept

-----------------------------------------------------------------------------
(* The specification *)

LEMMA ChannelsStart ==
  ASSUME ChannelsInit
  PROVE  ChannelsInv /\ Contents = <<>>
<1>1. /\ IpcInit /\ kind \in {"mailbox", "queue"} /\ chan_flag \in {"FIFO", "PRIO"}
      /\ mb = EmptyMailbox /\ mq = EmptyQueue
      /\ left = [t \in Thread |-> "none"] /\ mail = [t \in Thread |-> NoMessage]
      /\ block = [t \in Thread |-> Null]
  BY DEF ChannelsInit
<1>2. IpcInv /\ \A o \in Obj : k.wait[o] = <<>>
  BY <1>1, InitKeeps
<1>3. block \in [Thread -> Link] /\ \A t \in Thread : block[t] = Null
  BY <1>1 DEF Link
<1>4. StoreSound /\ Contents = <<>>
  BY <1>1, <1>3, NewEffect
<1>5. CallsTyped
  BY <1>1 DEF CallsTyped, Timeouts
<1>6. Labelled
  <2>1. \A t \in Thread : pc[t] = "run"
    BY <1>1 DEF IpcInit
  <2> QED
    BY <1>3, <2>1 DEF Labelled, LabelOf
<1>7. Served
  BY <1>2, ChannelsAssumption DEF Served, Sides
<1> QED
  BY <1>2, <1>4, <1>5, <1>6, <1>7 DEF ChannelsInv

LEMMA ChannelsStep ==
  ASSUME ChannelsInv, [ChannelsNext]_channelVars
  PROVE  Kept
<1>1. CASE \E m \in Message : \/ \E time \in Timeouts : rt_send_wait(m, time)
                              \/ rt_urgent(m) \/ IsrSend(m) \/ IsrUrgent(m)
  <2>1. PICK m \in Message : \/ \E time \in Timeouts : rt_send_wait(m, time)
                             \/ rt_urgent(m) \/ IsrSend(m) \/ IsrUrgent(m)
    BY <1>1
  <2>2. "none" \in Timeouts
    BY DEF Timeouts
  <2> QED
    BY <2>1, <2>2, CallKept, IsrKept
<1>2. CASE \E time \in Timeouts : rt_recv(time)
  <2>1. PICK time \in Timeouts : rt_recv(time)
    BY <1>2
  <2> QED
    BY <2>1, CallKept
<1>3. CASE IsrRecv
  BY <1>3, IsrKept
<1>4. CASE SendAgain \/ RecvAgain \/ WaitFailed(rx) \/ WaitFailed(tx)
  BY <1>4, AgainKept
<1>5. CASE LinkMessage \/ FreeBlock
  BY <1>5, SectionKept
<1>6. CASE rt_control
  BY <1>6, ControlKept
<1>7. CASE rt_detach \/ DetachStep
  BY <1>7, DetachKept
<1>8. CASE \E f \in {"FIFO", "PRIO"} : rt_init(f)
  BY <1>8, InitKept
<1>9. CASE Background /\ UNCHANGED channel
  BY <1>9, BackgroundKept
<1>10. CASE UNCHANGED channelVars
  BY <1>10, StutterKept
<1> QED
  BY <1>1, <1>2, <1>3, <1>4, <1>5, <1>6, <1>7, <1>8, <1>9, <1>10 DEF ChannelsNext

\* The blocks of the lists and of the calls are all there, each once.
LEMMA OwnersCounted ==
  ASSUME NEW q, NEW hand, Warehouse(q, hand)
  PROVE  LET linked == FreeBlocks(q) \o QueuedBlocks(q) IN
         /\ IsInjective(linked)
         /\ \A b \in Cell : Cardinality({t \in Thread : hand[t] = b})
                              + (IF Member(b, linked) THEN 1 ELSE 0) = 1
<1> DEFINE F == FreeBlocks(q)
           Q == QueuedBlocks(q)
           linked == F \o Q
<1>1. /\ F \in Seq(Cell) /\ Q \in Seq(Cell) /\ IsInjective(F) /\ IsInjective(Q)
      /\ \A b \in Cell : ~(Member(b, F) /\ Member(b, Q))
  BY DEF Warehouse, QueueSound, Layout, IsChain
<1>2. /\ \A t \in Thread : hand[t] # Null => ~Member(hand[t], F) /\ ~Member(hand[t], Q)
      /\ \A t, u \in Thread : hand[t] = hand[u] /\ hand[t] # Null => t = u
      /\ \A b \in Cell : Member(b, F) \/ Member(b, Q) \/ \E t \in Thread : hand[t] = b
  BY DEF Warehouse, Owned
<1> HIDE DEF F, Q
<1>3. /\ linked \in Seq(Cell) /\ Len(linked) = Len(F) + Len(Q)
      /\ \A i \in 1 .. Len(F) + Len(Q) :
           linked[i] = IF i <= Len(F) THEN F[i] ELSE Q[i - Len(F)]
  BY <1>1, ConcatProperties
<1>4. /\ DOMAIN linked = 1 .. Len(F) + Len(Q) /\ DOMAIN F = 1 .. Len(F) /\ DOMAIN Q = 1 .. Len(Q)
      /\ Len(F) \in Nat /\ Len(Q) \in Nat
  BY <1>1, <1>3
<1> HIDE DEF linked
<1>5. \A b : Member(b, linked) <=> Member(b, F) \/ Member(b, Q)
  <2>1. ASSUME NEW b, Member(b, linked) PROVE Member(b, F) \/ Member(b, Q)
    <3>1. PICK i \in 1 .. Len(F) + Len(Q) : linked[i] = b
      BY <1>4, <2>1 DEF Member
    <3>2. CASE i <= Len(F)
      BY <1>3, <1>4, <3>1, <3>2 DEF Member
    <3>3. CASE ~(i <= Len(F))
      <4>1. Q[i - Len(F)] = b /\ i - Len(F) \in 1 .. Len(Q)
        BY <1>3, <1>4, <3>1, <3>3
      <4> QED
        BY <1>4, <4>1 DEF Member
    <3> QED
      BY <3>2, <3>3
  <2>2. ASSUME NEW b, Member(b, F) PROVE Member(b, linked)
    <3>1. PICK i \in 1 .. Len(F) : F[i] = b
      BY <1>4, <2>2 DEF Member
    <3>2. i \in 1 .. Len(F) + Len(Q) /\ linked[i] = b
      BY <1>3, <1>4, <3>1
    <3> QED
      BY <1>4, <3>2 DEF Member
  <2>3. ASSUME NEW b, Member(b, Q) PROVE Member(b, linked)
    <3>1. PICK i \in 1 .. Len(Q) : Q[i] = b
      BY <1>4, <2>3 DEF Member
    <3>2. i + Len(F) \in 1 .. Len(F) + Len(Q) /\ ~(i + Len(F) <= Len(F)) /\ (i + Len(F)) - Len(F) = i
      BY <1>4
    <3>3. linked[i + Len(F)] = b
      BY <1>3, <3>1, <3>2
    <3> QED
      BY <1>4, <3>2, <3>3 DEF Member
  <2> QED
    BY <2>1, <2>2, <2>3
<1>6. IsInjective(linked)
  <2>1. ASSUME NEW i \in 1 .. Len(F) + Len(Q), NEW j \in 1 .. Len(F) + Len(Q),
               linked[i] = linked[j]
        PROVE  i = j
    <3>1. /\ i <= Len(F) => linked[i] = F[i] /\ i \in DOMAIN F
          /\ ~(i <= Len(F)) => linked[i] = Q[i - Len(F)] /\ i - Len(F) \in DOMAIN Q
          /\ j <= Len(F) => linked[j] = F[j] /\ j \in DOMAIN F
          /\ ~(j <= Len(F)) => linked[j] = Q[j - Len(F)] /\ j - Len(F) \in DOMAIN Q
      BY <1>3, <1>4
    <3>2. CASE i <= Len(F) /\ j <= Len(F)
      BY <1>1, <2>1, <3>1, <3>2 DEF IsInjective
    <3>3. CASE ~(i <= Len(F)) /\ ~(j <= Len(F))
      <4>1. i - Len(F) = j - Len(F)
        BY <1>1, <2>1, <3>1, <3>3 DEF IsInjective
      <4> QED
        BY <1>4, <4>1
    <3>4. CASE i <= Len(F) /\ ~(j <= Len(F))
      <4>1. Member(linked[i], F) /\ Member(linked[i], Q) /\ linked[i] \in Cell
        BY <1>1, <2>1, <3>1, <3>4 DEF Member
      <4> QED
        BY <1>1, <4>1
    <3>5. CASE ~(i <= Len(F)) /\ j <= Len(F)
      <4>1. Member(linked[i], F) /\ Member(linked[i], Q) /\ linked[i] \in Cell
        BY <1>1, <2>1, <3>1, <3>5 DEF Member
      <4> QED
        BY <1>1, <4>1
    <3> QED
      BY <3>2, <3>3, <3>4, <3>5
  <2> QED
    BY <1>4, <2>1 DEF IsInjective
<1>7. ASSUME NEW b \in Cell
      PROVE  Cardinality({t \in Thread : hand[t] = b}) + (IF Member(b, linked) THEN 1 ELSE 0) = 1
  <2>1. b # Null
    BY QueueAssumption
  <2>2. CASE Member(b, linked)
    <3>1. {t \in Thread : hand[t] = b} = {}
      BY <1>2, <1>5, <2>1, <2>2
    <3> QED
      BY <2>2, <3>1, FS_EmptySet
  <2>3. CASE ~Member(b, linked)
    <3>1. PICK t \in Thread : hand[t] = b
      BY <1>2, <1>5, <2>3
    <3>2. {u \in Thread : hand[u] = b} = {t}
      BY <1>2, <2>1, <3>1
    <3>3. Cardinality({u \in Thread : hand[u] = b}) = 1
      BY <3>2, FS_Singleton
    <3> QED
      BY <2>3, <3>3
  <2> QED
    BY <2>2, <2>3
<1> QED
  BY <1>6, <1>7 DEF linked, F, Q

-----------------------------------------------------------------------------
(* What holds in every behaviour *)

\* Whatever sends, receives, interrupts, timeouts, resets and detaches
\* interleave, the storage is sound and the waiting threads are accounted for.
THEOREM ChannelsInvariant == ChannelsSpec => []ChannelsInv
<1>1. ChannelsInit => ChannelsInv
  BY ChannelsStart
<1>2. ChannelsInv /\ [ChannelsNext]_channelVars => ChannelsInv'
  BY ChannelsStep DEF Kept
<1> QED
  BY <1>1, <1>2, PTL DEF ChannelsSpec

\* The offsets of a mailbox stay in its pool, and every link, entry and tail of
\* a message queue in its type: entry never passes max_msgs.
THEOREM ChannelsTypes == ChannelsSpec => []ChannelsTyped
<1>1. ChannelsInv => ChannelsTyped
  <2>1. ASSUME ChannelsInv PROVE ChannelsTyped
    <3>1. IpcTypeOK /\ CallsTyped /\ StoreSound /\ block \in [Thread -> Link]
      BY <2>1, InvFacts
    <3>2. mb \in MailboxState /\ mq \in QueueState
      BY <3>1, WarehouseFacts DEF StoreSound, RingSound, Warehouse
    <3> QED
      BY <3>1, <3>2 DEF ChannelsTyped, CallsTyped
  <2> QED
    BY <2>1
<1> QED
  BY <1>1, ChannelsInvariant, PTL

\* rt_mq_send_wait and rt_mq_recv copy with interrupts enabled, while others take
\* and link blocks: no block is lost, shared or linked twice, and entry and tail
\* are those of the list.
THEOREM BlocksHaveOwners == ChannelsSpec => []BlocksOwned
<1>1. ChannelsInv => BlocksOwned
  <2>1. ASSUME ChannelsInv PROVE BlocksOwned
    <3>1. Warehouse(mq, block)
      BY <2>1, InvFacts DEF StoreSound
    <3>2. LET linked == FreeBlocks(mq) \o QueuedBlocks(mq) IN
          /\ IsInjective(linked)
          /\ \A b \in Cell : Cardinality({t \in Thread : block[t] = b})
                               + (IF Member(b, linked) THEN 1 ELSE 0) = 1
      BY <3>1, OwnersCounted
    <3> DEFINE Q == QueuedBlocks(mq)
    <3>3. /\ mq.entry = Len(Q) /\ Q \in Seq(Cell)
          /\ mq.head = IF Q = <<>> THEN Null ELSE Q[1]
          /\ mq.tail = IF Q = <<>> THEN Null ELSE Q[Len(Q)]
      BY <3>1 DEF Warehouse, QueueSound, Layout, IsChain
    <3> HIDE DEF Q
    <3>4. mq.head = Null <=> Q = <<>>
      BY <3>3, QueueAssumption
    <3>5. mq.tail = IF mq.head = Null THEN Null ELSE Last(Q)
      BY <3>3, <3>4 DEF Last
    <3> QED
      BY <3>2, <3>3, <3>5 DEF BlocksOwned, Q
  <2> QED
    BY <2>1
<1> QED
  BY <1>1, ChannelsInvariant, PTL

\* A thread that waits for a message or for room is never left behind: what is
\* there is granted to threads that were resumed before it.
THEOREM ChannelsServe == ChannelsSpec => []NobodyForgotten
<1>1. ChannelsInv => NobodyForgotten
  <2>1. ASSUME ChannelsInv, Sides \subseteq live
        PROVE  /\ k.wait[rx] # <<>> => Items <= Resumed(rx)
               /\ k.wait[tx] # <<>> => Space <= Resumed(tx)
    <3>1. Served /\ rx # tx
      BY <2>1, InvFacts DEF ChannelsInv
    <3> QED
      BY <2>1, <3>1 DEF Served, Supply, Sides
  <2> QED
    BY <2>1 DEF NobodyForgotten, Items, Space, Resumed
<1> QED
  BY <1>1, ChannelsInvariant, PTL

\* Resume, timeout, reset and detach race, but each wait for a message or for
\* room ends one way only.
THEOREM ChannelsAnswer == ChannelsSpec => []OneAnswer
<1>1. ChannelsInv => OneAnswer
  BY InvOneAnswer DEF ChannelsInv
<1> QED
  BY <1>1, ChannelsInvariant, PTL

\* Refinement: a mailbox or a message queue of any size, used by any threads and
\* interrupt handlers, is a bounded queue of messages that loses, repeats and
\* reorders nothing.
THEOREM ChannelsImplement == ChannelsSpec => ImplementsChannel
<1>1. ChannelsInit => ChannelsInv /\ Contents = <<>>
  BY ChannelsStart
<1>2. ChannelsInv /\ [ChannelsNext]_channelVars => ChannelsInv' /\ [Abstract!Next]_Contents
  BY ChannelsStep DEF Kept
<1> QED
  BY <1>1, <1>2, PTL DEF ChannelsSpec, ImplementsChannel, Abstract!Spec

-----------------------------------------------------------------------------
(* The ring of a data queue *)

\* The indices meet when the ring is empty and when it is full, and the flags tell
\* which of the two.
RingOrdered(r) ==
  /\ r \in DataRing
  /\ r.put_index = r.get_index <=> r.is_empty \/ r.is_full
  /\ ~(r.is_empty /\ r.is_full)

\* The items of a ring, the oldest first.
Held(r) == [n \in 1 .. rt_data_queue_len(r) |-> r.queue[(r.get_index + n - 1) % Size]]

LEMMA RingFields ==
  ASSUME NEW r \in DataRing
  PROVE  /\ r.queue \in [DataSlot -> Data \cup {NoData}]
         /\ r.get_index \in DataSlot /\ r.put_index \in DataSlot
         /\ r.is_empty \in BOOLEAN /\ r.is_full \in BOOLEAN
BY DEF DataRing

\* An offset that has gone round the ring once at most.
LEMMA AroundOnce ==
  ASSUME NEW x \in Nat, x < 2 * Size
  PROVE  /\ x % Size \in DataSlot
         /\ \A y \in DataSlot : y = x \/ y = x - Size => x % Size = y
BY DataQueueAssumption DEF DataSlot

\* put_index is rt_data_queue_len slots behind get_index.
LEMMA LenFacts ==
  ASSUME NEW r, RingOrdered(r)
  PROVE  LET n == rt_data_queue_len(r) IN
         /\ n \in 0 .. Size /\ n \in Nat
         /\ n = 0 <=> r.is_empty
         /\ n = Size <=> r.is_full
         /\ r.put_index = IF r.get_index + n < Size THEN r.get_index + n
                                                     ELSE r.get_index + n - Size
<1>1. /\ r.get_index \in 0 .. Size - 1 /\ r.put_index \in 0 .. Size - 1
      /\ r.is_empty \in BOOLEAN /\ r.is_full \in BOOLEAN /\ Size \in Nat \ {0}
  BY RingFields, DataQueueAssumption DEF RingOrdered, DataSlot
<1>2. /\ r.put_index = r.get_index <=> r.is_empty \/ r.is_full
      /\ ~(r.is_empty /\ r.is_full)
  BY DEF RingOrdered
<1>3. CASE r.is_empty
  BY <1>1, <1>2, <1>3 DEF rt_data_queue_len
<1>4. CASE ~r.is_empty /\ r.put_index > r.get_index
  <2>1. rt_data_queue_len(r) = r.put_index - r.get_index
    BY <1>4 DEF rt_data_queue_len
  <2> QED
    BY <1>1, <1>2, <1>4, <2>1
<1>5. CASE ~r.is_empty /\ ~(r.put_index > r.get_index)
  <2>1. rt_data_queue_len(r) = Size + r.put_index - r.get_index
    BY <1>5 DEF rt_data_queue_len
  <2> QED
    BY <1>1, <1>2, <1>5, <2>1
<1> QED
  BY <1>3, <1>4, <1>5

LEMMA HeldFacts ==
  ASSUME NEW r, RingOrdered(r)
  PROVE  /\ Held(r) \in Seq(Data \cup {NoData}) /\ Len(Held(r)) = rt_data_queue_len(r)
         /\ \A n \in 1 .. rt_data_queue_len(r), y \in DataSlot :
              y = r.get_index + n - 1 \/ y = r.get_index + n - 1 - Size =>
                Held(r)[n] = r.queue[y]
<1> DEFINE m == rt_data_queue_len(r)
<1>1. /\ r.queue \in [DataSlot -> Data \cup {NoData}] /\ r.get_index \in DataSlot
      /\ m \in 0 .. Size /\ m \in Nat
  BY RingFields, LenFacts DEF RingOrdered
<1>2. Held(r) = [n \in 1 .. m |-> r.queue[(r.get_index + n - 1) % Size]]
  BY DEF Held
<1> HIDE DEF m
<1>3. ASSUME NEW n \in 1 .. m, NEW x, x = r.get_index + n - 1
      PROVE  /\ x % Size \in DataSlot
             /\ \A y \in DataSlot : y = x \/ y = x - Size => x % Size = y
  <2>1. x \in Nat /\ x < 2 * Size
    BY <1>1, <1>3, DataQueueAssumption DEF DataSlot
  <2> QED
    BY <2>1, AroundOnce
<1>4. Held(r) \in Seq(Data \cup {NoData}) /\ Len(Held(r)) = m
  BY <1>1, <1>2, <1>3
<1>5. ASSUME NEW n \in 1 .. m, NEW y \in DataSlot,
             y = r.get_index + n - 1 \/ y = r.get_index + n - 1 - Size
      PROVE  Held(r)[n] = r.queue[y]
  <2>1. PICK x : x = r.get_index + n - 1
    OBVIOUS
  <2>2. y = x \/ y = x - Size
    BY <1>1, <1>5, <2>1, DataQueueAssumption DEF DataSlot
  <2>3. \A z \in DataSlot : z = x \/ z = x - Size => x % Size = z
    BY <1>3, <2>1
  <2>4. x % Size = y
    BY <2>2, <2>3
  <2> QED
    BY <1>2, <2>1, <2>4
<1> QED
  BY <1>4, <1>5 DEF m

LEMMA NewRingFacts ==
  /\ RingOrdered(NewDataRing) /\ rt_data_queue_len(NewDataRing) = 0 /\ Held(NewDataRing) = <<>>
<1>1. RingOrdered(NewDataRing)
  BY DataQueueAssumption DEF RingOrdered, NewDataRing, DataRing, DataSlot
<1>2. rt_data_queue_len(NewDataRing) = 0
  BY DEF rt_data_queue_len, NewDataRing
<1>3. Held(NewDataRing) \in Seq(Data \cup {NoData}) /\ Len(Held(NewDataRing)) = 0
  BY <1>1, <1>2, HeldFacts
<1> QED
  BY <1>1, <1>2, <1>3

\* A push puts its item last.
LEMMA StoredFacts ==
  ASSUME NEW r, RingOrdered(r), ~r.is_full, NEW d \in Data
  PROVE  /\ RingOrdered(Stored(r, d))
         /\ rt_data_queue_len(Stored(r, d)) = rt_data_queue_len(r) + 1
         /\ Held(Stored(r, d)) = Append(Held(r), d)
<1> DEFINE u == Stored(r, d)
           n == rt_data_queue_len(r)
           g == r.get_index
           p == r.put_index
<1>1. /\ r.queue \in [DataSlot -> Data \cup {NoData}] /\ r \in DataRing
      /\ g \in 0 .. Size - 1 /\ p \in 0 .. Size - 1 /\ Size \in Nat \ {0}
      /\ DataSlot = 0 .. Size - 1
  BY RingFields, DataQueueAssumption DEF RingOrdered, DataSlot
<1>2. /\ n \in 0 .. Size - 1 /\ n \in Nat
      /\ p = IF g + n < Size THEN g + n ELSE g + n - Size
  BY <1>1, LenFacts
<1>3. /\ u.queue = [r.queue EXCEPT ![p] = d] /\ u.get_index = g
      /\ u.put_index = (IF p + 1 = Size THEN 0 ELSE p + 1)
      /\ u.is_empty = FALSE /\ u.is_full = (u.put_index = g) /\ u \in DataRing
  <2> DEFINE put == IF p + 1 = Size THEN 0 ELSE p + 1
             q == [r.queue EXCEPT ![p] = d]
  <2>1. put \in DataSlot /\ q \in [DataSlot -> Data \cup {NoData}]
    BY <1>1
  <2>2. u = [r EXCEPT !.queue = q, !.put_index = put, !.is_empty = FALSE, !.is_full = (put = g)]
    BY <1>1 DEF Stored, WrapAround, DataRing
  <2> HIDE DEF u, q, put
  <2>3. /\ u.queue = q /\ u.get_index = g /\ u.put_index = put
        /\ u.is_empty = FALSE /\ u.is_full = (put = g) /\ u \in DataRing
    BY <1>1, <2>1, <2>2 DEF DataRing
  <2> QED
    BY <2>3 DEF q, put
<1> HIDE DEF u
<1>4. RingOrdered(u)
  BY <1>3 DEF RingOrdered
<1>5. rt_data_queue_len(u) = n + 1
  <2>1. /\ rt_data_queue_len(u) \in 0 .. Size /\ rt_data_queue_len(u) # 0
        /\ u.put_index = IF g + rt_data_queue_len(u) < Size THEN g + rt_data_queue_len(u)
                                                ELSE g + rt_data_queue_len(u) - Size
    BY <1>3, <1>4, LenFacts
  <2> HIDE DEF n, g, p
  <2> QED
    BY <1>1, <1>2, <1>3, <2>1
<1>6. Held(u) = Append(Held(r), d)
  <2>1. /\ Held(u) \in Seq(Data \cup {NoData}) /\ Len(Held(u)) = n + 1
        /\ \A i \in 1 .. n + 1, y \in DataSlot :
             y = g + i - 1 \/ y = g + i - 1 - Size => Held(u)[i] = u.queue[y]
    <3>1. /\ Held(u) \in Seq(Data \cup {NoData}) /\ Len(Held(u)) = rt_data_queue_len(u)
          /\ \A i \in 1 .. rt_data_queue_len(u), y \in DataSlot :
               y = u.get_index + i - 1 \/ y = u.get_index + i - 1 - Size => Held(u)[i] = u.queue[y]
      BY <1>4, HeldFacts
    <3> QED
      BY <3>1, <1>3, <1>5
  <2>2. /\ Held(r) \in Seq(Data \cup {NoData}) /\ Len(Held(r)) = n
        /\ \A i \in 1 .. n, y \in DataSlot :
             y = g + i - 1 \/ y = g + i - 1 - Size => Held(r)[i] = r.queue[y]
    BY HeldFacts
  <2> HIDE DEF n, g, p
  <2>3. \A i \in 1 .. n : Held(u)[i] = Held(r)[i]
    <3>1. TAKE i \in 1 .. n
    <3> DEFINE x == IF g + i - 1 < Size THEN g + i - 1 ELSE g + i - 1 - Size
    <3>2. /\ x \in DataSlot /\ x # p /\ i \in 1 .. n + 1
          /\ x = g + i - 1 \/ x = g + i - 1 - Size
      BY <1>1, <1>2
    <3> HIDE DEF x
    <3>3. Held(u)[i] = u.queue[x]
      BY <2>1, <3>2
    <3>4. Held(r)[i] = r.queue[x]
      BY <2>2, <3>2
    <3>5. u.queue[x] = r.queue[x]
      BY <1>1, <1>3, <3>2
    <3> QED
      BY <3>3, <3>4, <3>5
  <2>4. Held(u)[n + 1] = d
    <3>1. Held(u)[n + 1] = u.queue[p]
      <4>1. n + 1 \in 1 .. n + 1 /\ p \in DataSlot /\ (p = g + (n + 1) - 1 \/ p = g + (n + 1) - 1 - Size)
        BY <1>1, <1>2
      <4> QED
        BY <2>1, <4>1
    <3> QED
      BY <1>1, <1>3, <3>1
  <2> QED
    BY <1>2, <2>1, <2>2, <2>3, <2>4
<1> QED
  BY <1>4, <1>5, <1>6 DEF u, n

\* A pop takes the oldest one.
LEMMA FetchedFacts ==
  ASSUME NEW r, RingOrdered(r), ~r.is_empty
  PROVE  /\ RingOrdered(Fetched(r))
         /\ rt_data_queue_len(Fetched(r)) = rt_data_queue_len(r) - 1
         /\ Held(r) # <<>> /\ Held(Fetched(r)) = Tail(Held(r))
<1> DEFINE u == Fetched(r)
           n == rt_data_queue_len(r)
           g == r.get_index
           p == r.put_index
<1>1. /\ r.queue \in [DataSlot -> Data \cup {NoData}] /\ r \in DataRing
      /\ g \in 0 .. Size - 1 /\ p \in 0 .. Size - 1 /\ Size \in Nat \ {0}
      /\ DataSlot = 0 .. Size - 1
  BY RingFields, DataQueueAssumption DEF RingOrdered, DataSlot
<1>2. /\ n \in 1 .. Size /\ n \in Nat
      /\ p = IF g + n < Size THEN g + n ELSE g + n - Size
  BY <1>1, LenFacts
<1>3. /\ u.queue = [r.queue EXCEPT ![g] = NoData] /\ u.put_index = p
      /\ u.get_index = (IF g + 1 = Size THEN 0 ELSE g + 1)
      /\ u.is_full = FALSE /\ u.is_empty = (p = u.get_index) /\ u \in DataRing
  <2> DEFINE get == IF g + 1 = Size THEN 0 ELSE g + 1
             q == [r.queue EXCEPT ![g] = NoData]
  <2>1. get \in DataSlot /\ q \in [DataSlot -> Data \cup {NoData}]
    BY <1>1
  <2>2. u = [r EXCEPT !.queue = q, !.get_index = get, !.is_full = FALSE, !.is_empty = (p = get)]
    BY <1>1 DEF Fetched, WrapAround, DataRing
  <2> HIDE DEF u, q, get
  <2>3. /\ u.queue = q /\ u.get_index = get /\ u.put_index = p
        /\ u.is_full = FALSE /\ u.is_empty = (p = get) /\ u \in DataRing
    BY <1>1, <2>1, <2>2 DEF DataRing
  <2> QED
    BY <2>3 DEF q, get
<1> HIDE DEF u
<1>4. RingOrdered(u)
  BY <1>3 DEF RingOrdered
<1> DEFINE h == u.get_index
<1>5. rt_data_queue_len(u) = n - 1
  <2>1. /\ rt_data_queue_len(u) \in 0 .. Size /\ rt_data_queue_len(u) # Size
        /\ p = IF h + rt_data_queue_len(u) < Size THEN h + rt_data_queue_len(u)
                                                ELSE h + rt_data_queue_len(u) - Size
    BY <1>3, <1>4, LenFacts
  <2> HIDE DEF n, g, p, h
  <2>2. h = (IF g + 1 = Size THEN 0 ELSE g + 1)
    BY <1>3 DEF h
  <2> QED
    BY <1>1, <1>2, <2>1, <2>2
<1>6. /\ Held(r) \in Seq(Data \cup {NoData}) /\ Len(Held(r)) = n
      /\ \A i \in 1 .. n, y \in DataSlot :
           y = g + i - 1 \/ y = g + i - 1 - Size => Held(r)[i] = r.queue[y]
  BY HeldFacts
<1>7. Held(u) = Tail(Held(r))
  <2>1. /\ Held(u) \in Seq(Data \cup {NoData}) /\ Len(Held(u)) = n - 1
        /\ \A i \in 1 .. n - 1, y \in DataSlot :
             y = h + i - 1 \/ y = h + i - 1 - Size => Held(u)[i] = u.queue[y]
    <3>1. /\ Held(u) \in Seq(Data \cup {NoData}) /\ Len(Held(u)) = rt_data_queue_len(u)
          /\ \A i \in 1 .. rt_data_queue_len(u), y \in DataSlot :
               y = h + i - 1 \/ y = h + i - 1 - Size => Held(u)[i] = u.queue[y]
      BY <1>4, HeldFacts
    <3> QED
      BY <3>1, <1>5
  <2>2. h = (IF g + 1 = Size THEN 0 ELSE g + 1)
    BY <1>3
  <2> HIDE DEF n, g, p, h
  <2>3. \A i \in 1 .. n - 1 : Held(u)[i] = Held(r)[i + 1]
    <3>1. TAKE i \in 1 .. n - 1
    <3> DEFINE x == IF h + i - 1 < Size THEN h + i - 1 ELSE h + i - 1 - Size
    <3>2. /\ x = h + i - 1 \/ x = h + i - 1 - Size
          /\ x = g + (i + 1) - 1 \/ x = g + (i + 1) - 1 - Size
          /\ x \in DataSlot /\ x # g /\ i + 1 \in 1 .. n
      BY <1>1, <1>2, <2>2
    <3> HIDE DEF x
    <3>3. Held(u)[i] = u.queue[x]
      BY <2>1, <3>2
    <3>4. Held(r)[i + 1] = r.queue[x]
      BY <1>6, <3>2
    <3>5. u.queue[x] = r.queue[x]
      BY <1>1, <1>3, <3>2
    <3> QED
      BY <3>3, <3>4, <3>5
  <2> QED
    BY <1>2, <1>6, <2>1, <2>3
<1>8. Held(r) # <<>>
  BY <1>2, <1>6
<1> QED
  BY <1>4, <1>5, <1>7, <1>8 DEF u, n

-----------------------------------------------------------------------------
(* A data queue: rt_data_queue_reset holds the scheduler lock while it     *)
(* empties the lists of waiting threads, with interrupts enabled.          *)

\* IpcInv, but for the scheduler lock.
IpcCore ==
  /\ IpcTypeOK /\ Calm(k)
  /\ k.stat[k.cur] = "SUSPEND" => pc[k.cur] \in {"block", "sleep"}
  /\ pc[Idle] = "run"
  /\ Joined

Resetting(t) == pc[t] \in {"test", "each"}

\* Only the current thread can be inside the lock, and the list it has emptied stays
\* empty, since nobody else can begin to wait.
LockHeld ==
  /\ k.lock = IF Resetting(k.cur) THEN 1 ELSE 0
  /\ \A t \in Thread : Resetting(t) =>
       t = k.cur /\ on[t] \in Ends /\ (on[t] = pushes => k.wait[pops] = <<>>)

DataCallsTyped ==
  /\ lwm \in DataSlot
  /\ pending \in [Thread -> Timeouts] /\ data \in [Thread -> Data \cup {NoData}]

\* A push that waits still has its item.
Carried == \A t \in Thread : InCall(t, pushes) => data[t] \in Data

DataInv ==
  IpcCore /\ LockHeld /\ RingOrdered(dq) /\ DataCallsTyped /\ Carried /\ PeersServed

\* No reset has the waiting threads in hand.
Undisturbed ==
  Ends \subseteq live /\ \A t \in Thread : pc[t] \notin {"critical", "test", "each"}

LEMMA CoreUnlocked == IpcInv <=> IpcCore /\ k.lock = 0
BY DEF IpcInv, IpcCore

LEMMA DataFacts ==
  ASSUME DataInv
  PROVE  /\ IpcCore /\ IpcTypeOK /\ k \in KernelState /\ k.cur \in Thread /\ Calm(k) /\ Joined
         /\ Ends \subseteq Obj /\ pops \in Ends /\ pushes \in Ends /\ pops # pushes
         /\ pops \in Obj /\ pushes \in Obj
         /\ ~Resetting(k.cur) => IpcInv
         /\ k.lock \in {0, 1}
BY DataQueueAssumption, CoreUnlocked DEF DataInv, LockHeld, IpcCore, IpcTypeOK, KernelState, Ends

\* A step at which the current thread is in no call and blocks nobody, whether the
\* scheduler is locked or not.
LEMMA CoreStep ==
  ASSUME IpcCore, Calm(k'), k'.cur = k.cur, Eased(k, k'), k.cur # Idle,
         pc[k.cur] \notin {"block", "sleep", "woken"},
         NEW label \in Pc, label \notin {"block", "sleep", "woken"},
         Goto(label) \/ (pc' = pc /\ label = pc[k.cur]),
         NEW o \in Obj, on' \in {on, [on EXCEPT ![k.cur] = o]},
         live' \subseteq Obj, phantom' \in BOOLEAN
  PROVE  IpcCore' /\ WaitsEased /\ SameCalls
<1>1. Calm(k) /\ IpcTypeOK /\ k \in KernelState /\ k.cur \in Thread /\ Joined
      /\ k.stat[k.cur] # "SUSPEND"
  BY DEF IpcCore, IpcTypeOK, KernelState
<1>2. /\ pc' \in [Thread -> Pc] /\ pc'[k.cur] = label
      /\ \A t \in Thread \ {k.cur} : pc'[t] = pc[t]
  <2>1. CASE Goto(label)
    BY <1>1, <2>1, GotoFacts
  <2>2. CASE pc' = pc /\ label = pc[k.cur]
    BY <1>1, <2>2 DEF IpcTypeOK
  <2> QED
    BY <2>1, <2>2
<1>3. on' \in [Thread -> Obj] /\ \A t \in Thread \ {k.cur} : on'[t] = on[t]
  BY <1>1 DEF IpcTypeOK
<1>4. SameCalls
  BY <1>2, <1>3 DEF SameCalls, InCall
<1>5. Joined' /\ WaitsEased
  BY <1>1, <1>4, LoosenedJoined, EasedWaits DEF Eased
<1>6. pc'[Idle] = "run"
  BY <1>2, KernelAssumption DEF IpcCore
<1>7. k'.stat[k'.cur] # "SUSPEND"
  BY <1>1 DEF Eased, Loosened
<1>8. IpcTypeOK'
  BY <1>2, <1>3 DEF IpcTypeOK, Calm, Lists
<1> QED
  BY <1>4, <1>5, <1>6, <1>7, <1>8 DEF IpcCore

\* The scheduler lock is none of the kernel's lists.
LEMMA LockCalm ==
  ASSUME NEW a, Calm(a), NEW n \in Nat
  PROVE  LET u == [a EXCEPT !.lock = n] IN
         /\ Calm(u) /\ u.cur = a.cur /\ u.stat = a.stat /\ u.wait = a.wait
         /\ u.prio = a.prio /\ u.lock = n /\ u.error = a.error /\ Eased(a, u)
<1> DEFINE u == [a EXCEPT !.lock = n]
<1>1. a \in KernelState
  BY DEF Calm, Lists
<1>2. /\ u \in KernelState
      /\ u.ready = a.ready /\ u.group = a.group /\ u.wait = a.wait /\ u.defunct = a.defunct
      /\ u.cur = a.cur /\ u.stat = a.stat /\ u.prio = a.prio /\ u.lock = n
      /\ u.timer = a.timer /\ u.error = a.error
  BY <1>1 DEF KernelState
<1> HIDE DEF u
<1>3. Lists(u)
  BY <1>2, Frame DEF Calm
<1>4. Calm(u)
  BY <1>2, <1>3 DEF Calm, CurSound, TimerSound, ReadyComplete
<1>5. Eased(a, u)
  BY <1>2 DEF Eased, Loosened
<1> QED
  BY <1>2, <1>4, <1>5 DEF u

-----------------------------------------------------------------------------
(* Who is served *)

LEMMA PeersStep ==
  ASSUME DataInv, Undisturbed' => Undisturbed, lwm' = lwm, RingOrdered(dq'),
         NEW d \in {-1, 0, 1}, rt_data_queue_len(dq') = rt_data_queue_len(dq) + d,
         Grows(pops, d) \/ (Resumed(pops)' \in Nat /\ rt_data_queue_len(dq') = 0),
         Grows(pushes, 0 - d) \/ (Resumed(pushes)' \in Nat /\ lwm + 1 <= rt_data_queue_len(dq'))
  PROVE  PeersServed'
<1> DEFINE n == rt_data_queue_len(dq)
           m == rt_data_queue_len(dq')
<1>1. n \in Nat /\ m \in Nat /\ m = n + d /\ lwm \in Nat
  BY LenFacts DEF DataInv, DataCallsTyped, DataSlot
<1>2. Undisturbed => /\ k.wait[pops] # <<>> => n <= Resumed(pops)
                     /\ k.wait[pushes] # <<>> => lwm + 1 <= n + Resumed(pushes)
  BY DEF DataInv, PeersServed, Undisturbed, Resumed
<1> HIDE DEF n
<1>3. ASSUME Undisturbed', k'.wait[pops] # <<>> PROVE m <= Resumed(pops)'
  <2> HIDE DEF m
  <2>1. CASE Grows(pops, d)
    BY <1>1, <1>2, <1>3, <2>1 DEF Grows
  <2>2. CASE Resumed(pops)' \in Nat /\ m = 0
    BY <2>2
  <2> QED
    BY <2>1, <2>2 DEF m
<1>4. ASSUME Undisturbed', k'.wait[pushes] # <<>> PROVE lwm + 1 <= m + Resumed(pushes)'
  <2> HIDE DEF m
  <2>1. CASE Grows(pushes, 0 - d)
    BY <1>1, <1>2, <1>4, <2>1 DEF Grows
  <2>2. CASE Resumed(pushes)' \in Nat /\ lwm + 1 <= m
    BY <1>1, <2>2
  <2> QED
    BY <2>1, <2>2 DEF m
<1> QED
  BY <1>3, <1>4 DEF PeersServed, Undisturbed, Resumed

\* What the ring may become, seen as a Channel.
DataAllowed(seq) ==
  \/ seq = Held(dq) \/ seq = <<>>
  \/ Held(dq) # <<>> /\ seq = Tail(Held(dq))
  \/ \E m \in Data : Len(Held(dq)) < Size /\ seq = Append(Held(dq), m)

DataKept == DataInv' /\ [AsChannel!Next]_ItemsHeld

LEMMA DataAllowedStep ==
  ASSUME DataAllowed(Held(dq'))
  PROVE  [AsChannel!Next]_ItemsHeld
<1>1. ItemsHeld = Held(dq) /\ ItemsHeld' = Held(dq')
  BY DEF ItemsHeld, Held
<1> QED
  BY <1>1 DEF DataAllowed, AsChannel!Next, AsChannel!Get, AsChannel!Reset, AsChannel!Put

\* The ring stays as it is, takes an item, or gives one.
Turn(d) ==
  /\ RingOrdered(dq') /\ rt_data_queue_len(dq') = rt_data_queue_len(dq) + d
  /\ DataAllowed(Held(dq'))

LEMMA DataKeptBy ==
  ASSUME DataInv, IpcCore', LockHeld', DataCallsTyped', Carried',
         Undisturbed' => Undisturbed, lwm' = lwm, NEW d \in {-1, 0, 1}, Turn(d),
         Grows(pops, d) \/ (Resumed(pops)' \in Nat /\ rt_data_queue_len(dq') = 0),
         Grows(pushes, 0 - d) \/ (Resumed(pushes)' \in Nat /\ lwm + 1 <= rt_data_queue_len(dq'))
  PROVE  DataKept
<1>1. PeersServed'
  BY PeersStep DEF Turn
<1>2. [AsChannel!Next]_ItemsHeld
  BY DataAllowedStep DEF Turn
<1> QED
  BY <1>1, <1>2 DEF DataKept, DataInv, Turn

\* While a reset goes on there is nothing to show of the waiting threads.
LEMMA ResetKept ==
  ASSUME DataInv, IpcCore', LockHeld', DataCallsTyped', Carried',
         ~Undisturbed' \/ (k'.wait[pops] = <<>> /\ k'.wait[pushes] = <<>>),
         RingOrdered(dq'), DataAllowed(Held(dq'))
  PROVE  DataKept
<1>1. PeersServed'
  BY DEF PeersServed, Undisturbed
<1>2. [AsChannel!Next]_ItemsHeld
  BY DataAllowedStep
<1> QED
  BY <1>1, <1>2 DEF DataKept, DataInv

LEMMA TurnNone ==
  ASSUME DataInv, dq' = dq PROVE Turn(0)
<1>1. rt_data_queue_len(dq) \in Nat
  BY LenFacts DEF DataInv
<1> QED
  BY <1>1 DEF Turn, DataInv, DataAllowed

LEMMA TurnStored ==
  ASSUME DataInv, ~dq.is_full, NEW d \in Data, dq' = Stored(dq, d) PROVE Turn(1)
<1>1. /\ RingOrdered(dq) /\ rt_data_queue_len(dq) \in 0 .. Size /\ rt_data_queue_len(dq) # Size
      /\ Len(Held(dq)) = rt_data_queue_len(dq)
  BY LenFacts, HeldFacts DEF DataInv
<1>2. /\ RingOrdered(dq') /\ rt_data_queue_len(dq') = rt_data_queue_len(dq) + 1
      /\ Held(dq') = Append(Held(dq), d)
  BY <1>1, StoredFacts
<1>3. Len(Held(dq)) < Size
  BY <1>1, DataQueueAssumption
<1> QED
  BY <1>2, <1>3 DEF Turn, DataAllowed

LEMMA TurnFetched ==
  ASSUME DataInv, ~dq.is_empty, dq' = Fetched(dq) PROVE Turn(-1)
<1>1. RingOrdered(dq) /\ rt_data_queue_len(dq) \in Nat
  BY LenFacts DEF DataInv
<1>2. /\ RingOrdered(dq') /\ rt_data_queue_len(dq') = rt_data_queue_len(dq) - 1
      /\ Held(dq) # <<>> /\ Held(dq') = Tail(Held(dq))
  BY <1>1, FetchedFacts
<1>3. rt_data_queue_len(dq') = rt_data_queue_len(dq) + (-1)
  BY <1>1, <1>2
<1> QED
  BY <1>2, <1>3 DEF Turn, DataAllowed

-----------------------------------------------------------------------------
(* Calls that push and pop *)

\* A step outside the resets, which begins none.
LEMMA OutsideReset ==
  ASSUME DataInv, pc[k.cur] \notin {"test", "each"}, IpcInv',
         NEW label \in Pc, label \notin {"test", "each"},
         \/ pc' = pc
         \/ Goto(label) /\ pc[k.cur] # "critical",
         Ends \subseteq live' => Ends \subseteq live
  PROVE  IpcCore' /\ LockHeld' /\ (Undisturbed' => Undisturbed)
<1>1. IpcTypeOK /\ k.cur \in Thread
  BY DataFacts
<1>2. \A t \in Thread : ~Resetting(t)
  BY DEF DataInv, LockHeld, Resetting
<1>3. IpcCore' /\ k'.lock = 0
  BY CoreUnlocked DEF IpcInv, IpcCore
<1>4. k'.cur \in Thread
  BY <1>3 DEF IpcCore, IpcTypeOK, KernelState
<1>5. (\A t \in Thread : ~Resetting(t)') /\ (Undisturbed' => Undisturbed)
  <2>1. CASE pc' = pc
    BY <1>2, <2>1 DEF Resetting, Undisturbed
  <2>2. CASE Goto(label) /\ pc[k.cur] # "critical"
    <3>1. pc'[k.cur] = label /\ \A t \in Thread \ {k.cur} : pc'[t] = pc[t]
      BY <1>1, <2>2, GotoFacts
    <3>2. \A t \in Thread : ~Resetting(t)'
      BY <1>2, <3>1 DEF Resetting
    <3>3. Undisturbed' => Undisturbed
      BY <2>2, <3>1 DEF Undisturbed
    <3> QED
      BY <3>2, <3>3
  <2> QED
    BY <2>1, <2>2
<1>6. LockHeld'
  BY <1>3, <1>4, <1>5 DEF LockHeld
<1> QED
  BY <1>3, <1>5, <1>6

\* Resuming the first thread of a list changes the kernel.
LEMMA HeadStays ==
  ASSUME Calm(k), NEW o \in Obj, k = ResumeHead(o)
  PROVE  k.wait[o] = <<>>
<1>1. SUFFICES ASSUME k.wait[o] # <<>> PROVE FALSE
  OBVIOUS
<1>2. k = _ipc_list_resume(k, o)
  BY <1>1 DEF ResumeHead, _ipc_list_resume
<1>3. k.stat[Head(k.wait[o])] # "SUSPEND"
  BY <1>1, <1>2, ListResume
<1>4. k.stat[Head(k.wait[o])] = "SUSPEND"
  BY <1>1, HeadFacts
<1> QED
  BY <1>3, <1>4

\* A call ends, and may resume the first thread of o.
LEMMA EndOfCallKeeps ==
  ASSUME DataInv, Active, pc[k.cur] \notin {"critical", "test", "each"},
         NEW o \in Ends, Own(o) = 0, NEW m \in {k, ResumeHead(o)}, EndOfCall(m),
         UNCHANGED <<live, phantom, lwm>>
  PROVE  /\ IpcCore' /\ LockHeld' /\ DataCallsTyped' /\ Carried' /\ (Undisturbed' => Undisturbed)
         /\ Grows(o, 0) /\ (m = ResumeHead(o) => Grows(o, 1))
         /\ \A p \in Ends : p # o => Grows(p, 0 - Own(p))
<1>1. /\ IpcInv /\ IpcTypeOK /\ k.cur \in Thread /\ Ends \subseteq Obj /\ o \in Obj /\ pops \in Obj
      /\ live' \subseteq Obj /\ phantom' \in BOOLEAN
  BY DataFacts DEF IpcTypeOK, Resetting
<1>2. PICK label \in {"run", "sched"} : Goto(label)
  BY DEF EndOfCall
<1>3. label \in Pc /\ label \notin {"block", "sleep", "woken"} /\ "RT_EOK" \in Errno
      /\ label \notin {"test", "each"}
  BY DEF Pc, Errno
<1>4. /\ k' = m /\ pending' = [pending EXCEPT ![k.cur] = "none"]
      /\ data' = [data EXCEPT ![k.cur] = NoData] /\ on' = [on EXCEPT ![k.cur] = pops]
  BY DEF EndOfCall
<1>5. DataCallsTyped'
  BY <1>1, <1>4 DEF DataInv, DataCallsTyped, Timeouts
<1>6. Carried'
  <2>1. ASSUME NEW t \in Thread, InCall(t, pushes)' PROVE data'[t] \in Data
    <3>1. t # k.cur /\ pc'[t] = pc[t] /\ on'[t] = on[t]
      BY <1>1, <1>2, <1>3, <1>4, <2>1, GotoFacts DEF InCall, IpcTypeOK
    <3>2. data[t] \in Data
      BY <2>1, <3>1 DEF DataInv, Carried, InCall
    <3> QED
      BY <1>4, <3>1, <3>2 DEF DataInv, DataCallsTyped
  <2> QED
    BY <2>1 DEF Carried
<1>7. CASE k' = k
  <2>1. IpcInv' /\ Leaves /\ k'.wait = k.wait
    BY <1>1, <1>2, <1>3, <1>4, <1>7, QuietKeeps
  <2>2. IpcCore' /\ LockHeld' /\ (Undisturbed' => Undisturbed)
    BY <1>2, <1>3, <2>1, OutsideReset
  <2>3. \A p \in Ends : Grows(p, 0 - Own(p))
    BY <1>1, <2>1, LeavesGrow
  <2>4. Grows(o, 0)
    <3>1. Grows(o, 0 - Own(o)) /\ 0 - Own(o) = 0
      BY <2>3
    <3> QED
      BY <3>1
  <2>5. CASE k.wait[o] = <<>>
    <3>1. Grows(o, 1)
      BY <1>7, <2>4, <2>5 DEF Grows
    <3> QED
      BY <1>5, <1>6, <2>2, <2>3, <2>4, <3>1
  <2>6. CASE k.wait[o] # <<>>
    <3>1. m # ResumeHead(o)
      BY <1>1, <1>4, <1>7, <2>6, HeadStays DEF IpcInv
    <3> QED
      BY <1>5, <1>6, <2>2, <2>3, <2>4, <3>1
  <2> QED
    BY <2>5, <2>6
<1>8. CASE k' # k
  <2>1. k.wait[o] # <<>> /\ k' = _ipc_list_resume(k, o)
    BY <1>4, <1>8 DEF ResumeHead, _ipc_list_resume
  <2>2. /\ IpcInv' /\ Hands(Head(k.wait[o]), o)
        /\ \A q \in Obj : k.wait[q] = <<>> => k'.wait[q] = <<>>
    BY <1>1, <1>2, <1>3, <1>4, <2>1, EndKeeps
  <2>3. IpcCore' /\ LockHeld' /\ (Undisturbed' => Undisturbed)
    BY <1>2, <1>3, <2>2, OutsideReset
  <2>4. ASSUME NEW q \in Ends PROVE Grows(q, (IF q = o THEN 1 ELSE 0) - Own(q))
    <3>1. /\ Resumed(q) \in Nat /\ Own(q) <= Resumed(q) /\ Own(q) \in {0, 1}
          /\ Resumed(q)' = Resumed(q) - Own(q) + (IF q = o THEN 1 ELSE 0)
      BY <1>1, <2>2, CountHands DEF Own
    <3> QED
      BY <1>1, <2>2, <3>1 DEF Grows
  <2>5. Grows(o, 1)
    BY <2>4
  <2>6. Grows(o, 0)
    BY <2>5, GrowsLess
  <2>7. ASSUME NEW p \in Ends, p # o PROVE Grows(p, 0 - Own(p))
    <3>1. (IF p = o THEN 1 ELSE 0) = 0
      BY <2>7
    <3> QED
      BY <2>4, <3>1
  <2> QED
    BY <1>5, <1>6, <2>3, <2>5, <2>6, <2>7
<1> QED
  BY <1>7, <1>8

\* A call of a thread waits on o.
LEMMA WaitOnKeeps ==
  ASSUME DataInv, Active, pc[k.cur] \notin {"critical", "test", "each"},
         NEW o \in Ends, NEW d \in Data \cup {NoData}, o = pushes => d \in Data,
         NEW time \in Timeouts, WaitOn(o, d, time), UNCHANGED <<live, phantom, lwm>>
  PROVE  /\ IpcCore' /\ LockHeld' /\ DataCallsTyped' /\ Carried' /\ (Undisturbed' => Undisturbed)
         /\ Resumed(o)' \in Nat
         /\ \A p \in Ends : p # o => Grows(p, 0 - Own(p))
<1>1. /\ IpcInv /\ IpcTypeOK /\ k.cur \in Thread /\ Ends \subseteq Obj /\ o \in Obj
  BY DataFacts DEF Resetting
<1>2. /\ k' = Block(k, o, "FIFO", time) /\ Goto("block") /\ on' = [on EXCEPT ![k.cur] = o]
      /\ pending' = [pending EXCEPT ![k.cur] = time] /\ data' = [data EXCEPT ![k.cur] = d]
  BY DEF WaitOn
<1>3. IpcInv' /\ Leaves /\ \A q \in Obj : q # o => k'.wait[q] = k.wait[q]
  BY <1>1, <1>2, WaitKeeps
<1>4. "block" \in Pc /\ "block" \notin {"test", "each"}
  BY DEF Pc
<1>5. IpcCore' /\ LockHeld' /\ (Undisturbed' => Undisturbed)
  BY <1>2, <1>3, <1>4, OutsideReset
<1>6. DataCallsTyped'
  BY <1>1, <1>2 DEF DataInv, DataCallsTyped
<1>7. Carried'
  <2>1. ASSUME NEW t \in Thread, InCall(t, pushes)' PROVE data'[t] \in Data
    <3>1. CASE t = k.cur
      BY <1>1, <1>2, <2>1, <3>1 DEF InCall, IpcTypeOK, DataInv, DataCallsTyped
    <3>2. CASE t # k.cur
      <4>1. pc'[t] = pc[t] /\ on'[t] = on[t]
        BY <1>1, <1>2, <1>4, <3>2, GotoFacts DEF IpcTypeOK
      <4>2. data[t] \in Data
        BY <2>1, <4>1 DEF DataInv, Carried, InCall
      <4> QED
        BY <1>2, <3>2, <4>2 DEF DataInv, DataCallsTyped
    <3> QED
      BY <3>1, <3>2
  <2> QED
    BY <2>1 DEF Carried
<1>8. Resumed(o)' \in Nat /\ \A p \in Ends : p # o => Grows(p, 0 - Own(p))
  BY <1>1, <1>3, LeavesGrow
<1> QED
  BY <1>5, <1>6, <1>7, <1>8

LEMMA FullOrEmpty ==
  ASSUME DataInv
  PROVE  /\ dq.is_full => lwm + 1 <= rt_data_queue_len(dq)
         /\ dq.is_empty => rt_data_queue_len(dq) = 0
         /\ rt_data_queue_len(dq) \in Nat /\ lwm \in Nat
<1>1. /\ rt_data_queue_len(dq) \in Nat /\ (dq.is_empty => rt_data_queue_len(dq) = 0)
      /\ (dq.is_full => rt_data_queue_len(dq) = Size)
  BY LenFacts DEF DataInv
<1>2. lwm \in Nat /\ lwm + 1 <= Size
  BY DataQueueAssumption DEF DataInv, DataCallsTyped, DataSlot
<1> QED
  BY <1>1, <1>2

\* A push finds a place, waits for one, or gives up.
LEMMA PushItemKept ==
  ASSUME DataInv, Active, pc[k.cur] \notin {"critical", "test", "each"}, Own(pops) = 0,
         NEW d \in Data, NEW time \in Timeouts, PushItem(d, time),
         UNCHANGED <<live, phantom, lwm>>
  PROVE  DataKept
<1>1. /\ pops \in Ends /\ pushes \in Ends /\ pops # pushes /\ Own(pushes) \in {0, 1}
      /\ d \in Data \cup {NoData}
  BY DataFacts DEF Own
<1>2. /\ -1 \in {-1, 0, 1} /\ 0 \in {-1, 0, 1} /\ 1 \in {-1, 0, 1} /\ 0 - 1 = -1 /\ 0 - 0 = 0
      /\ -1 \in Int /\ 0 - Own(pushes) \in Int /\ -1 <= 0 - Own(pushes)
  BY <1>1
<1>3. CASE ~dq.is_full /\ dq' = Stored(dq, d) /\ EndOfCall(ResumeHead(pops))
  <2>1. Turn(1)
    BY <1>3, TurnStored
  <2>2. /\ IpcCore' /\ LockHeld' /\ DataCallsTyped' /\ Carried' /\ (Undisturbed' => Undisturbed)
        /\ Grows(pops, 1) /\ Grows(pushes, 0 - Own(pushes))
    <3>1. ResumeHead(pops) \in {k, ResumeHead(pops)}
      OBVIOUS
    <3> QED
      BY <1>1, <1>3, <3>1, EndOfCallKeeps
  <2>3. Grows(pushes, 0 - 1)
    BY <1>2, <2>2, GrowsLess
  <2> QED
    BY <1>2, <2>1, <2>2, <2>3, DataKeptBy
<1>4. CASE dq.is_full /\ time # "none" /\ WaitOn(pushes, d, time)
  <2>1. dq' = dq
    BY <1>4 DEF WaitOn
  <2>2. Turn(0) /\ lwm + 1 <= rt_data_queue_len(dq')
    BY <1>4, <2>1, TurnNone, FullOrEmpty
  <2>3. /\ IpcCore' /\ LockHeld' /\ DataCallsTyped' /\ Carried' /\ (Undisturbed' => Undisturbed)
        /\ Resumed(pushes)' \in Nat /\ Grows(pops, 0 - Own(pops))
    BY <1>1, <1>4, WaitOnKeeps
  <2>4. Grows(pops, 0)
    BY <1>2, <2>3
  <2> QED
    BY <1>2, <2>2, <2>3, <2>4, DataKeptBy
<1>5. CASE dq.is_full /\ time = "none" /\ EndOfCall(k) /\ UNCHANGED dq
  <2>1. Turn(0) /\ lwm + 1 <= rt_data_queue_len(dq')
    BY <1>5, TurnNone, FullOrEmpty
  <2>2. /\ IpcCore' /\ LockHeld' /\ DataCallsTyped' /\ Carried' /\ (Undisturbed' => Undisturbed)
        /\ Grows(pops, 0) /\ Grows(pushes, 0 - Own(pushes))
    BY <1>1, <1>5, EndOfCallKeeps
  <2>3. Resumed(pushes)' \in Nat
    BY <2>2 DEF Grows
  <2> QED
    BY <1>2, <2>1, <2>2, <2>3, DataKeptBy
<1> QED
  BY <1>3, <1>4, <1>5 DEF PushItem

\* A pop finds an item, waits for one, or gives up.
LEMMA PopItemKept ==
  ASSUME DataInv, Active, pc[k.cur] \notin {"critical", "test", "each"}, Own(pushes) = 0,
         NEW time \in Timeouts, PopItem(time), UNCHANGED <<live, phantom, lwm>>
  PROVE  DataKept
<1>1. /\ pops \in Ends /\ pushes \in Ends /\ pops # pushes /\ Own(pops) \in {0, 1}
      /\ NoData \in Data \cup {NoData}
  BY DataFacts DEF Own
<1>2. /\ -1 \in {-1, 0, 1} /\ 0 \in {-1, 0, 1} /\ 0 - (-1) = 1 /\ 0 - 0 = 0
      /\ -1 \in Int /\ 0 - Own(pops) \in Int /\ -1 <= 0 - Own(pops)
  BY <1>1
<1>3. CASE ~dq.is_empty /\ dq' = Fetched(dq) /\ EndOfCall(ResumedByPop)
  <2>1. Turn(-1) /\ dq' = Fetched(dq)
    BY <1>3, TurnFetched
  <2>2. PICK m \in {k, ResumeHead(pushes)} :
          /\ EndOfCall(m)
          /\ rt_data_queue_len(dq') <= lwm => m = ResumeHead(pushes)
    BY <1>3, <2>1 DEF ResumedByPop
  <2>3. /\ IpcCore' /\ LockHeld' /\ DataCallsTyped' /\ Carried' /\ (Undisturbed' => Undisturbed)
        /\ Grows(pushes, 0) /\ (m = ResumeHead(pushes) => Grows(pushes, 1))
        /\ Grows(pops, 0 - Own(pops))
    BY <1>1, <2>2, EndOfCallKeeps
  <2>4. Grows(pops, -1)
    BY <1>2, <2>3, GrowsLess
  <2>5. Grows(pushes, 0 - (-1)) \/ (Resumed(pushes)' \in Nat /\ lwm + 1 <= rt_data_queue_len(dq'))
    <3>1. CASE rt_data_queue_len(dq') <= lwm
      BY <1>2, <2>2, <2>3, <3>1
    <3>2. CASE ~(rt_data_queue_len(dq') <= lwm)
      <4>1. rt_data_queue_len(dq') \in Nat /\ lwm \in Nat
        BY <2>1, LenFacts, FullOrEmpty DEF Turn
      <4>2. Resumed(pushes)' \in Nat
        BY <2>3 DEF Grows
      <4> QED
        BY <3>2, <4>1, <4>2
    <3> QED
      BY <3>1, <3>2
  <2> QED
    BY <1>2, <2>1, <2>3, <2>4, <2>5, DataKeptBy
<1>4. CASE dq.is_empty /\ time # "none" /\ WaitOn(pops, NoData, time)
  <2>1. dq' = dq
    BY <1>4 DEF WaitOn
  <2>2. Turn(0) /\ rt_data_queue_len(dq') = 0
    BY <1>4, <2>1, TurnNone, FullOrEmpty
  <2>3. /\ IpcCore' /\ LockHeld' /\ DataCallsTyped' /\ Carried' /\ (Undisturbed' => Undisturbed)
        /\ Resumed(pops)' \in Nat /\ Grows(pushes, 0 - Own(pushes))
    BY <1>1, <1>4, WaitOnKeeps
  <2>4. Grows(pushes, 0 - 0)
    BY <2>3
  <2> QED
    BY <1>2, <2>2, <2>3, <2>4, DataKeptBy
<1>5. CASE dq.is_empty /\ time = "none" /\ EndOfCall(k) /\ UNCHANGED dq
  <2>1. Turn(0) /\ rt_data_queue_len(dq') = 0
    BY <1>5, TurnNone, FullOrEmpty
  <2>2. /\ IpcCore' /\ LockHeld' /\ DataCallsTyped' /\ Carried' /\ (Undisturbed' => Undisturbed)
        /\ Grows(pushes, 0) /\ Grows(pops, 0 - Own(pops))
    BY <1>1, <1>5, EndOfCallKeeps
  <2>3. Resumed(pops)' \in Nat /\ Grows(pushes, 0 - 0)
    BY <1>2, <2>2 DEF Grows
  <2> QED
    BY <1>2, <2>1, <2>2, <2>3, DataKeptBy
<1> QED
  BY <1>3, <1>4, <1>5 DEF PopItem

\* The calls of threads, the first time and again.
LEMMA DataCallKept ==
  ASSUME DataInv,
         \/ \E d \in Data, time \in Timeouts : rt_data_queue_push(d, time)
         \/ \E time \in Timeouts : rt_data_queue_pop(time)
         \/ PushAgain \/ PopAgain \/ FailedOn(pops) \/ FailedOn(pushes)
  PROVE  DataKept
<1>1. /\ k.cur \in Thread /\ pops \in Obj /\ pushes \in Obj /\ pops # pushes
      /\ pops \in Ends /\ pushes \in Ends
  BY DataFacts
<1>2. CASE App /\ UNCHANGED <<live, phantom, lwm>>
           /\ \/ \E d \in Data, time \in Timeouts : PushItem(d, time)
              \/ \E time \in Timeouts : PopItem(time)
  <2>1. pc[k.cur] = "run" /\ k.cur # Idle
    BY <1>2 DEF App, At
  <2>2. Active /\ Own(pops) = 0 /\ Own(pushes) = 0
    BY <1>1, <2>1, NotGranted DEF Active
  <2> QED
    BY <1>2, <2>1, <2>2, PushItemKept, PopItemKept
<1>3. CASE PushAgain \/ PopAgain \/ FailedOn(pops) \/ FailedOn(pushes)
  <2>1. pc[k.cur] = "woken" /\ UNCHANGED <<live, phantom, lwm>>
    BY <1>3 DEF PushAgain, PopAgain, FailedOn, WokenFrom, At
  <2>2. IpcInv
    BY <2>1, DataFacts DEF Resetting
  <2>3. Active
    BY <2>1, <2>2, CurRuns DEF Active
  <2>4. pending[k.cur] \in Timeouts
    BY <1>1 DEF DataInv, DataCallsTyped
  <2>5. CASE PushAgain
    <3>1. on[k.cur] = pushes /\ PushItem(data[k.cur], pending[k.cur])
      BY <2>5 DEF PushAgain, WokenFrom
    <3>2. data[k.cur] \in Data /\ Own(pops) = 0
      BY <1>1, <2>1, <3>1, NotGranted DEF DataInv, Carried, InCall
    <3> QED
      BY <2>1, <2>3, <2>4, <3>1, <3>2, PushItemKept
  <2>6. CASE PopAgain
    <3>1. on[k.cur] = pops /\ PopItem(pending[k.cur])
      BY <2>6 DEF PopAgain, WokenFrom
    <3>2. Own(pushes) = 0
      BY <1>1, <3>1, NotGranted
    <3> QED
      BY <2>1, <2>3, <2>4, <3>1, <3>2, PopItemKept
  <2>7. CASE FailedOn(pops) \/ FailedOn(pushes)
    <3>1. k.error[k.cur] # "RT_EOK" /\ EndOfCall(k) /\ dq' = dq
      BY <2>7 DEF FailedOn
    <3>2. Own(pops) = 0 /\ Own(pushes) = 0
      BY <1>1, <3>1, NotGranted
    <3>3. Turn(0)
      BY <3>1, TurnNone
    <3>4. /\ IpcCore' /\ LockHeld' /\ DataCallsTyped' /\ Carried' /\ (Undisturbed' => Undisturbed)
          /\ Grows(pops, 0) /\ Grows(pushes, 0 - Own(pushes))
      BY <1>1, <2>1, <2>3, <3>1, <3>2, EndOfCallKeeps
    <3>5. Grows(pushes, 0 - 0) /\ 0 \in {-1, 0, 1}
      BY <3>2, <3>4
    <3> QED
      BY <2>1, <3>3, <3>4, <3>5, DataKeptBy
  <2> QED
    BY <1>3, <2>5, <2>6, <2>7
<1> QED
  BY <1>2, <1>3 DEF rt_data_queue_push, rt_data_queue_pop, DataCalls

-----------------------------------------------------------------------------
(* rt_data_queue_reset, interrupts, and the rest *)


\* While a reset holds the scheduler lock, the thread it resumes and interrupts do no
\* more than shorten the lists.
LEMMA LockedKept ==
  ASSUME DataInv, Resetting(k.cur), Calm(k'), k'.cur = k.cur, k'.lock = k.lock, Eased(k, k'),
         NEW label \in {"test", "each"}, Goto(label) \/ pc' = pc,
         phantom' \in BOOLEAN, UNCHANGED <<on, live, lwm, dqCalls>>,
         RingOrdered(dq'), DataAllowed(Held(dq'))
  PROVE  DataKept
<1>1. /\ IpcCore /\ IpcTypeOK /\ k.cur \in Thread /\ pops \in Obj
      /\ pc[k.cur] \in {"test", "each"}
  BY DataFacts DEF Resetting
<1>2. k.cur # Idle
  BY <1>1 DEF IpcCore
<1>3. PICK l \in {"test", "each"} : Goto(l) \/ (pc' = pc /\ l = pc[k.cur])
  BY <1>1
<1>4. l \in Pc /\ l \notin {"block", "sleep", "woken"} /\ live' \subseteq Obj
  BY <1>1 DEF Pc, IpcTypeOK
<1>5. IpcCore' /\ SameCalls
  BY <1>1, <1>2, <1>3, <1>4, CoreStep
<1>6. pc'[k.cur] = l /\ \A t \in Thread \ {k.cur} : pc'[t] = pc[t]
  BY <1>1, <1>3, <1>4, GotoFacts
<1>7. LockHeld'
  <2>1. k.wait[pops] = <<>> => k'.wait[pops] = <<>>
    BY <1>1 DEF Eased, Loosened
  <2>2. LockHeld
    BY DEF DataInv
  <2> QED
    BY <1>1, <1>6, <2>1, <2>2 DEF LockHeld, Resetting
<1>8. DataCallsTyped' /\ Carried'
  <2>1. pending' = pending /\ data' = data /\ lwm' = lwm /\ pushes \in Obj
    BY DataFacts DEF dqCalls
  <2> QED
    BY <1>5, <2>1 DEF DataInv, DataCallsTyped, Carried, SameCalls
<1>9. ~Undisturbed'
  BY <1>1, <1>6 DEF Undisturbed
<1> QED
  BY <1>5, <1>7, <1>8, <1>9, ResetKept

LEMMA SameAllowed ==
  ASSUME DataInv, dq' = dq
  PROVE  RingOrdered(dq') /\ DataAllowed(Held(dq'))
BY DEF DataInv, DataAllowed

\* rt_data_queue_reset and rt_data_queue_deinit empty the ring.
LEMMA ResetRingKept ==
  ASSUME DataInv, ResetRing, live' \subseteq live
  PROVE  DataKept
<1>1. /\ App /\ dq' = NewDataRing /\ Goto("critical")
      /\ UNCHANGED <<k, on, lwm, pending, data, phantom>>
  BY DEF ResetRing, dqCalls
<1>2. pc[k.cur] = "run" /\ k.cur # Idle
  BY <1>1 DEF App, At
<1>3. /\ IpcInv /\ IpcTypeOK /\ k.cur \in Thread /\ pops \in Obj /\ pushes \in Obj
      /\ live' \subseteq Obj /\ phantom' \in BOOLEAN
  BY <1>1, <1>2, DataFacts DEF IpcTypeOK, Resetting
<1>4. Active /\ "critical" \in Pc /\ "RT_EOK" \in Errno
  BY <1>2 DEF Active, Pc, Errno
<1>5. IpcInv'
  BY <1>1, <1>3, <1>4, QuietKeeps
<1>6. IpcCore' /\ LockHeld'
  BY <1>1, <1>2, <1>4, <1>5, OutsideReset
<1>7. pc'[k.cur] = "critical" /\ \A t \in Thread \ {k.cur} : pc'[t] = pc[t]
  BY <1>1, <1>3, <1>4, GotoFacts
<1>8. DataCallsTyped' /\ Carried' /\ ~Undisturbed'
  BY <1>1, <1>3, <1>7 DEF DataInv, DataCallsTyped, Carried, InCall, Undisturbed
<1>9. RingOrdered(dq') /\ DataAllowed(Held(dq'))
  BY <1>1, NewRingFacts DEF DataAllowed
<1> QED
  BY <1>6, <1>8, <1>9, ResetKept

\* It takes the lock.
LEMMA EnterCriticalKept ==
  ASSUME DataInv, EnterCritical
  PROVE  DataKept
<1>1. /\ pc[k.cur] = "critical" /\ k' = rt_enter_critical(k) /\ on' = [on EXCEPT ![k.cur] = pops]
      /\ Goto("test") /\ UNCHANGED <<live, phantom, dq, lwm, pending, data>>
  BY DEF EnterCritical, WithinReset, At, dqCalls
<1>2. /\ IpcInv /\ IpcCore /\ IpcTypeOK /\ k.cur \in Thread /\ pops \in Obj /\ Calm(k)
      /\ live' \subseteq Obj /\ phantom' \in BOOLEAN
  BY <1>1, DataFacts DEF IpcTypeOK, Resetting
<1>3. k.cur # Idle /\ k.lock = 0 /\ k \in KernelState
  BY <1>1, <1>2 DEF IpcInv, IpcTypeOK
<1>4. k' = [k EXCEPT !.lock = 1]
  BY <1>1, <1>3 DEF rt_enter_critical
<1>5. Calm(k') /\ k'.cur = k.cur /\ k'.lock = 1 /\ Eased(k, k')
  BY <1>2, <1>4, LockCalm
<1>6. "test" \in Pc /\ "test" \notin {"block", "sleep", "woken"}
  BY DEF Pc
<1>7. IpcCore' /\ SameCalls
  BY <1>1, <1>2, <1>3, <1>5, <1>6, CoreStep
<1>8. pc'[k.cur] = "test" /\ \A t \in Thread \ {k.cur} : pc'[t] = pc[t]
  BY <1>1, <1>2, <1>6, GotoFacts
<1>9. LockHeld'
  <2>1. \A t \in Thread : ~Resetting(t)
    BY <1>1 DEF DataInv, LockHeld, Resetting
  <2>2. on'[k.cur] = pops /\ pops \in Ends /\ pops # pushes
    BY <1>1, <1>2, DataFacts DEF IpcTypeOK
  <2> QED
    BY <1>2, <1>5, <1>8, <2>1, <2>2 DEF LockHeld, Resetting
<1>10. DataCallsTyped' /\ Carried' /\ ~Undisturbed'
  BY <1>1, <1>2, <1>7, <1>8 DEF DataInv, DataCallsTyped, Carried, SameCalls, Undisturbed, InCall
<1>11. RingOrdered(dq') /\ DataAllowed(Held(dq'))
  BY <1>1, SameAllowed
<1> QED
  BY <1>7, <1>9, <1>10, <1>11, ResetKept

\* It goes through both lists, and gives the lock back.
LEMMA TestListKept ==
  ASSUME DataInv, TestList
  PROVE  DataKept
<1>1. pc[k.cur] = "test" /\ UNCHANGED <<live, phantom, dq, lwm, pending, data>>
  BY DEF TestList, WithinReset, At, dqCalls
<1>2. /\ IpcCore /\ IpcTypeOK /\ k.cur \in Thread /\ pops \in Obj /\ pushes \in Obj /\ Calm(k)
      /\ pops # pushes /\ live' \subseteq Obj /\ phantom' \in BOOLEAN /\ k \in KernelState
      /\ pops \in Ends /\ pushes \in Ends
  BY <1>1, DataFacts DEF IpcTypeOK
<1>3. k.cur # Idle /\ Resetting(k.cur) /\ LockHeld
  BY <1>1, <1>2 DEF IpcCore, Resetting, DataInv
<1>4. Eased(k, k)
  BY DEF Eased, Loosened
<1>5. RingOrdered(dq') /\ DataAllowed(Held(dq'))
  BY <1>1, SameAllowed
<1>6. CASE k.wait[on[k.cur]] # <<>> /\ Goto("each") /\ UNCHANGED <<k, on>>
  BY <1>1, <1>2, <1>3, <1>4, <1>5, <1>6, LockedKept DEF dqCalls
<1>7. CASE /\ k.wait[on[k.cur]] = <<>> /\ on[k.cur] = pops
           /\ on' = [on EXCEPT ![k.cur] = pushes]
           /\ UNCHANGED <<k, pc>>
  <2>1. "test" \in Pc /\ "test" \notin {"block", "sleep", "woken"}
    BY DEF Pc
  <2>2. IpcCore' /\ SameCalls
    BY <1>1, <1>2, <1>3, <1>4, <1>7, <2>1, CoreStep
  <2>3. LockHeld'
    <3>1. on'[k.cur] = pushes
      BY <1>2, <1>7 DEF IpcTypeOK
    <3> QED
      BY <1>2, <1>3, <1>7, <3>1 DEF LockHeld, Resetting
  <2>4. DataCallsTyped' /\ Carried' /\ ~Undisturbed'
    BY <1>1, <1>2, <1>7, <2>2 DEF DataInv, DataCallsTyped, Carried, SameCalls, Undisturbed, InCall
  <2> QED
    BY <1>5, <2>2, <2>3, <2>4, ResetKept
<1>8. CASE /\ k.wait[on[k.cur]] = <<>> /\ on[k.cur] = pushes
           /\ k' = rt_exit_critical(k)
           /\ Goto("again")
           /\ on' = [on EXCEPT ![k.cur] = pops]
  <2>1. k' = [k EXCEPT !.lock = 0]
    <3>1. k.lock = 1
      BY <1>3 DEF LockHeld
    <3> QED
      BY <1>2, <1>8, <3>1 DEF rt_exit_critical
  <2>2. Calm(k') /\ k'.cur = k.cur /\ k'.lock = 0 /\ k'.wait = k.wait /\ Eased(k, k')
    BY <1>2, <2>1, LockCalm
  <2>3. "again" \in Pc /\ "again" \notin {"block", "sleep", "woken"}
    BY DEF Pc
  <2>4. IpcCore' /\ SameCalls
    BY <1>1, <1>2, <1>3, <1>8, <2>2, <2>3, CoreStep
  <2>5. pc'[k.cur] = "again" /\ \A t \in Thread \ {k.cur} : pc'[t] = pc[t]
    BY <1>2, <1>8, <2>3, GotoFacts
  <2>6. LockHeld'
    BY <1>2, <1>3, <2>2, <2>5 DEF LockHeld, Resetting
  <2>7. DataCallsTyped' /\ Carried'
    BY <1>1, <1>2, <2>4 DEF DataInv, DataCallsTyped, Carried, SameCalls, InCall
  <2>8. k'.wait[pops] = <<>> /\ k'.wait[pushes] = <<>>
    BY <1>2, <1>3, <1>8, <2>2 DEF LockHeld
  <2> QED
    BY <1>5, <2>4, <2>6, <2>7, <2>8, ResetKept
<1> QED
  BY <1>6, <1>7, <1>8 DEF TestList

\* It resumes one thread.
LEMMA ResumeKept ==
  ASSUME DataInv, _ipc_list_resume_all, UNCHANGED dataQueue
  PROVE  DataKept
<1>1. /\ pc[k.cur] = "each" /\ Goto("test") /\ on' = on /\ live' = live
      /\ UNCHANGED <<dq, lwm, dqCalls>>
  BY DEF _ipc_list_resume_all, At, dataQueue
<1>2. IpcTypeOK /\ k.cur \in Thread /\ Calm(k) /\ Resetting(k.cur) /\ on[k.cur] \in Obj
  BY <1>1, DataFacts DEF IpcTypeOK, Resetting
<1>3. RingOrdered(dq') /\ DataAllowed(Held(dq'))
  BY <1>1, SameAllowed
<1>4. /\ Calm(k') /\ k'.cur = k.cur /\ k'.lock = k.lock /\ Eased(k, k') /\ phantom' \in BOOLEAN
  <2>1. CASE k.wait[on[k.cur]] = <<>>
    <3>1. k' = k /\ phantom' = TRUE
      BY <2>1 DEF _ipc_list_resume_all
    <3>2. Eased(k, k)
      BY DEF Eased, Loosened
    <3> QED
      BY <1>2, <3>1, <3>2
  <2>2. CASE k.wait[on[k.cur]] # <<>>
    <3>1. k' = ResumeOneWithError(k, on[k.cur]) /\ phantom' = phantom
      BY <2>2 DEF _ipc_list_resume_all
    <3>2. Released(k, k')
      BY <1>2, <2>2, <3>1, ResumeOneReleases
    <3> QED
      BY <1>2, <3>1, <3>2, ReleasedEased DEF Released, IpcTypeOK
  <2> QED
    BY <2>1, <2>2
<1> QED
  BY <1>1, <1>2, <1>3, <1>4, LockedKept

\* Steps outside the lock that grant nothing and leave the queue alone.
LEMMA OutsideKept ==
  ASSUME DataInv, pc[k.cur] \notin {"test", "each"}, IpcInv', SameGrants, WaitsEased,
         NEW label \in Pc, label \notin {"test", "each"},
         \/ pc' = pc
         \/ Goto(label) /\ pc[k.cur] # "critical",
         live' = live, UNCHANGED dataQueue, Carried'
  PROVE  DataKept
<1>1. IpcCore' /\ LockHeld' /\ (Undisturbed' => Undisturbed)
  BY OutsideReset
<1>2. Grows(pops, 0) /\ Grows(pushes, 0)
  BY DataFacts, SameGrow
<1>3. Grows(pushes, 0 - 0) /\ 0 \in {-1, 0, 1}
  BY <1>2
<1>4. dq' = dq /\ lwm' = lwm /\ DataCallsTyped'
  BY DEF dataQueue, dqCalls, DataInv, DataCallsTyped
<1>5. Turn(0)
  BY <1>4, TurnNone
<1> QED
  BY <1>1, <1>2, <1>3, <1>4, <1>5, DataKeptBy

\* The rt_schedule of rt_exit_critical.
LEMMA ScheduleAgainKept ==
  ASSUME DataInv, ScheduleAgain
  PROVE  DataKept
<1>1. /\ pc[k.cur] = "again" /\ k' = rt_schedule(k) /\ Goto("sched")
      /\ UNCHANGED <<on, live, phantom, dq, lwm, pending, data>>
  BY DEF ScheduleAgain, WithinReset, At, dqCalls
<1>2. /\ IpcInv /\ IpcTypeOK /\ k.cur \in Thread /\ Calm(k) /\ k.lock = 0 /\ pushes \in Obj
  BY <1>1, DataFacts DEF IpcInv, Resetting
<1>3. "sched" \in Pc
  BY DEF Pc
<1>4. /\ pc' \in [Thread -> Pc] /\ pc'[k.cur] = "sched"
      /\ \A t \in Thread \ {k.cur} : pc'[t] = pc[t]
  BY <1>1, <1>2, <1>3, GotoFacts
<1>5. SameCalls
  BY <1>1, <1>4 DEF SameCalls, InCall
<1>6. Eased(k, k)
  BY DEF Eased, Loosened
<1>7. /\ Calm(k') /\ k'.lock = 0 /\ k'.stat[k'.cur] = "RUNNING" /\ Joined' /\ WaitsEased
  BY <1>1, <1>2, <1>5, <1>6, ScheduledStep
<1>8. Unscheduled(k, k')
  BY <1>1, <1>2, ScheduleCalm
<1>9. SameGrants
  BY <1>5, <1>8, SteadyGrants DEF Unscheduled
<1>10. pc'[Idle] = "run"
  BY <1>1, <1>2, <1>4, KernelAssumption DEF IpcInv
<1>11. IpcTypeOK'
  BY <1>1, <1>2, <1>4, <1>7 DEF IpcTypeOK, Calm, Lists
<1>12. IpcInv'
  BY <1>7, <1>10, <1>11 DEF IpcInv
<1>13. Carried'
  BY <1>1, <1>2, <1>5 DEF DataInv, Carried, SameCalls
<1> QED
  BY <1>1, <1>3, <1>7, <1>9, <1>12, <1>13, OutsideKept DEF dataQueue, dqCalls

\* The queue is set up again.
LEMMA DataInitKept ==
  ASSUME DataInv, NEW mark \in DataSlot, rt_data_queue_init(mark)
  PROVE  DataKept
<1>1. /\ App /\ \A t \in Thread : pc[t] \in {"run", "sleep"}
      /\ live' = live \cup Ends /\ k' = [k EXCEPT !.wait[pops] = <<>>, !.wait[pushes] = <<>>]
      /\ dq' = NewDataRing /\ lwm' = mark /\ UNCHANGED <<pc, on, phantom, pending, data>>
  BY DEF rt_data_queue_init, dqCalls
<1>2. /\ IpcCore /\ IpcTypeOK /\ Ends \subseteq Obj /\ pops \in Obj /\ pushes \in Obj
      /\ k \in KernelState /\ Joined
  BY DataFacts
<1>3. \A t \in Thread, o \in Obj : ~InCall(t, o)
  BY <1>1 DEF InCall
<1>4. \A o \in Obj : k.wait[o] = <<>>
  <2>1. \A o \in Obj : k.wait[o] \in Seq(Thread) /\ \A t \in Thread : ~Member(t, k.wait[o])
    BY <1>2, <1>3 DEF KernelState, Joined
  <2> QED
    BY <2>1, EmptyFacts
<1>5. k' = k
  <2>1. [[k.wait EXCEPT ![pops] = <<>>] EXCEPT ![pushes] = <<>>] = k.wait
    BY <1>2, <1>4 DEF KernelState
  <2>2. k' = [k EXCEPT !.wait = [[k.wait EXCEPT ![pops] = <<>>] EXCEPT ![pushes] = <<>>]]
    BY <1>1, <1>2 DEF KernelState
  <2> QED
    BY <1>2, <2>1, <2>2 DEF KernelState
<1>6. IpcCore'
  BY <1>1, <1>2, <1>5 DEF IpcCore, IpcTypeOK, Joined, InCall
<1>7. LockHeld' /\ DataCallsTyped' /\ Carried'
  BY <1>1, <1>5 DEF DataInv, LockHeld, Resetting, DataCallsTyped, Carried, InCall
<1>8. k'.wait[pops] = <<>> /\ k'.wait[pushes] = <<>>
  BY <1>2, <1>4, <1>5
<1>9. RingOrdered(dq') /\ DataAllowed(Held(dq'))
  BY <1>1, NewRingFacts DEF DataAllowed
<1>10. PeersServed' /\ [AsChannel!Next]_ItemsHeld
  BY <1>8, <1>9, DataAllowedStep DEF PeersServed
<1> QED
  BY <1>6, <1>7, <1>9, <1>10 DEF DataKept, DataInv

\* An interrupt handler resumes the first thread of o, or nobody.
LEMMA DataIsrKeeps ==
  ASSUME DataInv, pc[k.cur] \notin {"test", "each"}, NEW o \in Ends,
         NEW m \in {k, ResumeHead(o)}, DataIsr(m)
  PROVE  /\ IpcCore' /\ LockHeld' /\ DataCallsTyped' /\ Carried' /\ (Undisturbed' => Undisturbed)
         /\ Grows(o, 0) /\ (m = ResumeHead(o) => Grows(o, 1))
         /\ \A p \in Ends : p # o => Grows(p, 0)
<1>1. /\ IpcInv /\ IpcTypeOK /\ Ends \subseteq Obj /\ o \in Obj /\ Calm(k)
      /\ "run" \in Pc
  BY DataFacts DEF Resetting, Pc
<1>2. /\ k' = (IF m # k THEN rt_schedule(m) ELSE k)
      /\ UNCHANGED <<pc, on, live, phantom, lwm, pending, data>>
  BY DEF DataIsr, dqCalls
<1>3. DataCallsTyped' /\ Carried'
  BY <1>2 DEF DataInv, DataCallsTyped, Carried, InCall
<1>4. CASE m # k
  <2>1. k.wait[o] # <<>> /\ k' = rt_schedule(_ipc_list_resume(k, o))
    BY <1>2, <1>4 DEF ResumeHead, _ipc_list_resume
  <2>2. IpcInv' /\ GrantsTo(Head(k.wait[o]), o) /\ WaitsEased
    BY <1>1, <1>2, <2>1, IsrReleaseKeeps
  <2>3. IpcCore' /\ LockHeld' /\ (Undisturbed' => Undisturbed)
    BY <1>1, <1>2, <2>2, OutsideReset
  <2>4. ASSUME NEW q \in Ends PROVE Grows(q, IF q = o THEN 1 ELSE 0)
    <3>1. /\ Resumed(q) \in Nat
          /\ Resumed(q)' = IF q = o THEN Resumed(q) + 1 ELSE Resumed(q)
      BY <1>1, <2>2, CountGrants
    <3>2. k'.wait[q] # <<>> => k.wait[q] # <<>>
      BY <1>1, <2>2 DEF WaitsEased
    <3> QED
      BY <3>1, <3>2 DEF Grows
  <2>5. Grows(o, 1) /\ \A p \in Ends : p # o => Grows(p, 0)
    BY <2>4
  <2>6. Grows(o, 0)
    BY <2>5, GrowsLess
  <2> QED
    BY <1>3, <2>3, <2>5, <2>6
<1>5. CASE m = k
  <2>1. k' = k
    BY <1>2, <1>5
  <2>2. IpcInv' /\ SameGrants /\ WaitsEased
    BY <1>1, <1>2, <2>1 DEF IpcInv, IpcTypeOK, Joined, InCall, SameGrants, Granted, WaitsEased,
                            InPrioOrder
  <2>3. \A q \in Ends : Grows(q, 0)
    BY <1>1, <2>2, SameGrow
  <2>4. IpcCore' /\ LockHeld' /\ (Undisturbed' => Undisturbed)
    BY <1>1, <1>2, <2>2, OutsideReset
  <2>5. m = ResumeHead(o) => Grows(o, 1)
    <3>1. SUFFICES ASSUME m = ResumeHead(o) PROVE Grows(o, 1)
      OBVIOUS
    <3>2. k.wait[o] = <<>>
      BY <1>1, <1>5, <3>1, HeadStays
    <3> QED
      BY <2>1, <2>3, <3>2 DEF Grows
  <2> QED
    BY <1>3, <2>3, <2>4, <2>5
<1> QED
  BY <1>4, <1>5

\* An interrupt handler pushes or pops.
LEMMA DataIsrKept ==
  ASSUME DataInv, (\E d \in Data : IsrPush(d)) \/ IsrPop
  PROVE  DataKept
<1>1. /\ k.cur \in Thread /\ pops \in Ends /\ pushes \in Ends /\ pops # pushes /\ IpcTypeOK
      /\ Calm(k) /\ Ends \subseteq Obj
  BY DataFacts
<1>2. /\ -1 \in {-1, 0, 1} /\ 1 \in {-1, 0, 1} /\ 0 - (-1) = 1 /\ 0 - 1 = -1
      /\ -1 \in Int /\ 0 \in Int /\ -1 <= 0
  OBVIOUS
<1>3. PICK n \in {-1, 1}, o \in Ends, m \in {k, ResumeHead(pops), ResumeHead(pushes)} :
        /\ Turn(n) /\ DataIsr(m) /\ m \in {k, ResumeHead(o)}
        /\ \/ n = 1 /\ o = pops /\ m = ResumeHead(pops)
           \/ n = -1 /\ o = pushes /\ (rt_data_queue_len(dq') <= lwm => m = ResumeHead(pushes))
  <2>1. CASE \E d \in Data : IsrPush(d)
    <3>1. Turn(1) /\ DataIsr(ResumeHead(pops))
      BY <2>1, TurnStored DEF IsrPush
    <3> QED
      BY <1>1, <3>1
  <2>2. CASE IsrPop
    <3>1. Turn(-1) /\ dq' = Fetched(dq) /\ DataIsr(ResumedByPop)
      BY <2>2, TurnFetched DEF IsrPop
    <3>2. PICK m \in {k, ResumeHead(pushes)} :
            m = ResumedByPop /\ (rt_data_queue_len(dq') <= lwm => m = ResumeHead(pushes))
      BY <3>1 DEF ResumedByPop
    <3> QED
      BY <1>1, <3>1, <3>2
  <2> QED
    BY <2>1, <2>2
<1>4. UNCHANGED <<pc, on, live, phantom, lwm, dqCalls>>
  BY <1>3 DEF DataIsr, dqCalls
<1>5. CASE Resetting(k.cur)
  <2>1. Released(k, m) /\ m.lock # 0
    <3>1. Released(k, m)
      <4>1. CASE m = k
        BY <1>1, <4>1, ReleasedNone
      <4>2. CASE m # k
        <5>1. k.wait[o] # <<>> /\ m = _ipc_list_resume(k, o)
          BY <1>3, <4>2 DEF ResumeHead, _ipc_list_resume
        <5> QED
          BY <1>1, <5>1, ListResume
      <4> QED
        BY <4>1, <4>2
    <3>2. k.lock = 1
      BY <1>5 DEF DataInv, LockHeld
    <3> QED
      BY <3>1, <3>2 DEF Released
  <2>2. k' = m
    <3>1. rt_schedule(m) = m
      BY <2>1 DEF rt_schedule
    <3> QED
      BY <1>3, <3>1 DEF DataIsr
  <2>3. Calm(k') /\ k'.cur = k.cur /\ k'.lock = k.lock /\ Eased(k, k')
    BY <2>1, <2>2, ReleasedEased DEF Released
  <2>4. RingOrdered(dq') /\ DataAllowed(Held(dq')) /\ phantom' \in BOOLEAN /\ "test" \in {"test", "each"}
    BY <1>1, <1>3, <1>4 DEF Turn, IpcTypeOK
  <2> QED
    BY <1>4, <1>5, <2>3, <2>4, LockedKept
<1>6. CASE ~Resetting(k.cur)
  <2>1. /\ IpcCore' /\ LockHeld' /\ DataCallsTyped' /\ Carried' /\ (Undisturbed' => Undisturbed)
        /\ Grows(o, 0) /\ (m = ResumeHead(o) => Grows(o, 1))
        /\ \A p \in Ends : p # o => Grows(p, 0)
    BY <1>3, <1>6, DataIsrKeeps DEF Resetting
  <2>2. CASE n = 1 /\ o = pops /\ m = ResumeHead(pops)
    <3>1. Grows(pops, 1) /\ Grows(pushes, 0 - 1)
      BY <1>1, <1>2, <2>1, <2>2, GrowsLess
    <3> QED
      BY <1>2, <1>3, <1>4, <2>1, <2>2, <3>1, DataKeptBy
  <2>3. CASE n = -1 /\ o = pushes /\ (rt_data_queue_len(dq') <= lwm => m = ResumeHead(pushes))
    <3>1. Grows(pops, -1)
      BY <1>1, <1>2, <2>1, <2>3, GrowsLess
    <3>2. Grows(pushes, 0 - (-1)) \/ (Resumed(pushes)' \in Nat /\ lwm + 1 <= rt_data_queue_len(dq'))
      <4>1. CASE rt_data_queue_len(dq') <= lwm
        BY <1>2, <2>1, <2>3, <4>1
      <4>2. CASE ~(rt_data_queue_len(dq') <= lwm)
        <5>1. rt_data_queue_len(dq') \in Nat /\ lwm \in Nat
          BY <1>3, LenFacts, FullOrEmpty DEF Turn
        <5>2. Resumed(pushes)' \in Nat
          BY <2>1, <2>3 DEF Grows
        <5> QED
          BY <4>2, <5>1, <5>2
      <4> QED
        BY <4>1, <4>2
    <3> QED
      BY <1>2, <1>3, <1>4, <2>1, <2>3, <3>1, <3>2, DataKeptBy
  <2> QED
    BY <1>3, <2>2, <2>3
<1> QED
  BY <1>5, <1>6

\* The scheduler, delays and timers.
LEMMA DataBackgroundKept ==
  ASSUME DataInv, Background, UNCHANGED dataQueue
  PROVE  DataKept
<1>1. /\ k.cur \in Thread /\ IpcTypeOK /\ Calm(k) /\ k \in KernelState /\ pushes \in Obj
  BY DataFacts
<1>2. live' = live /\ on' = on /\ phantom' = phantom /\ UNCHANGED <<dq, lwm, pending, data, dqCalls>>
  BY DEF Background, Reschedule, Delay, SliceEnd, Timeout, dataQueue, dqCalls
<1>3. CASE Resetting(k.cur)
  <2>1. pc[k.cur] \in {"test", "each"} /\ k.lock = 1
    BY <1>3 DEF DataInv, LockHeld, Resetting
  <2>2. pc' = pc /\ (SliceEnd \/ \E t \in Thread : Timeout(t))
    BY <2>1 DEF Background, Reschedule, Delay, App, At, SliceEnd, Timeout
  <2>3. Calm(k') /\ k'.cur = k.cur /\ k'.lock = k.lock /\ Eased(k, k')
    <3>1. CASE SliceEnd
      <4> DEFINE b == [k EXCEPT !.yield[k.cur] = TRUE]
      <4>1. /\ Calm(b) /\ b.cur = k.cur /\ b.stat = k.stat /\ b.wait = k.wait
            /\ b.prio = k.prio /\ b.lock = k.lock /\ b.error = k.error
        BY <1>1, YieldCalm
      <4>2. k' = rt_schedule(b)
        BY <3>1 DEF SliceEnd
      <4> HIDE DEF b
      <4>3. k' = b
        BY <2>1, <4>1, <4>2 DEF rt_schedule
      <4> QED
        BY <4>1, <4>3 DEF Eased, Loosened
    <3>2. CASE \E t \in Thread : Timeout(t)
      <4>1. PICK t \in Thread : Timeout(t)
        BY <3>2
      <4> DEFINE b == _thread_timeout(k, t)
      <4>2. k.stat[t] = "SUSPEND"
        BY <1>1, <4>1 DEF Timeout, Calm, TimerSound
      <4>3. Released(k, b)
        BY <1>1, <4>2, TimeoutReleases
      <4>4. k' = rt_schedule(b)
        BY <4>1 DEF Timeout
      <4> HIDE DEF b
      <4>5. k' = b
        BY <2>1, <4>3, <4>4 DEF rt_schedule, Released
      <4> QED
        BY <4>3, <4>5, ReleasedEased DEF Released
    <3> QED
      BY <2>2, <3>1, <3>2
  <2>4. RingOrdered(dq') /\ DataAllowed(Held(dq')) /\ "test" \in {"test", "each"} /\ phantom' \in BOOLEAN
    BY <1>1, <1>2, SameAllowed DEF IpcTypeOK
  <2> QED
    BY <1>2, <1>3, <2>2, <2>3, <2>4, LockedKept
<1>4. CASE ~Resetting(k.cur)
  <2>1. IpcInv /\ pc[k.cur] \notin {"test", "each"}
    BY <1>4, DataFacts DEF Resetting
  <2>2. IpcInv' /\ SameGrants /\ WaitsEased
    BY <2>1, BackgroundKeeps
  <2>3. CASE pc' = pc
    <3>1. Carried' /\ "run" \in Pc
      BY <1>2, <2>3 DEF DataInv, Carried, InCall, Pc
    <3> QED
      BY <1>2, <2>1, <2>2, <2>3, <3>1, OutsideKept
  <2>4. CASE Reschedule \/ Delay
    <3>1. PICK label \in {"run", "woken", "sleep"} :
            /\ Goto(label) /\ pc[k.cur] \in {"run", "sched", "block", "sleep"}
            /\ label = "woken" => pc[k.cur] = "block"
      BY <2>4 DEF Reschedule, Delay, App, At
    <3>2. label \in Pc /\ label \notin {"test", "each"}
      BY DEF Pc
    <3>3. pc'[k.cur] = label /\ \A t \in Thread \ {k.cur} : pc'[t] = pc[t]
      BY <1>1, <3>1, <3>2, GotoFacts
    <3>4. Carried'
      BY <1>1, <1>2, <3>1, <3>3 DEF DataInv, Carried, InCall
    <3> QED
      BY <1>2, <2>1, <2>2, <3>1, <3>2, <3>4, OutsideKept
  <2> QED
    BY <2>3, <2>4 DEF Background, SliceEnd, Timeout
<1> QED
  BY <1>3, <1>4

LEMMA DataStutterKept ==
  ASSUME DataInv, UNCHANGED dataQueueVars
  PROVE  DataKept
<1>1. UNCHANGED <<k, pc, on, live, phantom, dq, lwm, pending, data>>
  BY DEF dataQueueVars, ipc, dataQueue, dqCalls
<1>2. IpcCore' /\ LockHeld' /\ DataCallsTyped' /\ Carried' /\ RingOrdered(dq')
  BY <1>1 DEF DataInv, IpcCore, IpcTypeOK, Joined, InCall, LockHeld, Resetting, DataCallsTyped, Carried
<1>3. \A o \in Ends : Resumed(o)' = Resumed(o)
  BY <1>1 DEF Resumed, Granted, InCall
<1>4. PeersServed'
  BY <1>1, <1>3 DEF DataInv, PeersServed, Ends
<1>5. ItemsHeld' = ItemsHeld
  BY <1>1 DEF ItemsHeld
<1> QED
  BY <1>1, <1>2, <1>4, <1>5 DEF DataKept, DataInv

LEMMA DataQueueStart ==
  ASSUME DataQueueInit
  PROVE  DataInv /\ ItemsHeld = <<>>
<1>1. /\ IpcInit /\ dq = NewDataRing /\ lwm \in DataSlot
      /\ pending = [t \in Thread |-> "none"] /\ data = [t \in Thread |-> NoData]
  BY DEF DataQueueInit
<1>2. /\ IpcInv /\ (\A o \in Obj : k.wait[o] = <<>>) /\ \A t \in Thread, o \in Obj : ~InCall(t, o)
  BY <1>1, InitKeeps
<1>3. RingOrdered(dq) /\ ItemsHeld = <<>>
  BY <1>1, NewRingFacts DEF ItemsHeld, Held
<1>4. \A t \in Thread : ~Resetting(t)
  BY <1>1 DEF IpcInit, Resetting
<1>5. IpcCore /\ LockHeld
  <2>1. k.cur \in Thread
    BY <1>2, CurRuns
  <2> QED
    BY <1>2, <1>4, <2>1, CoreUnlocked DEF LockHeld
<1>6. DataCallsTyped
  BY <1>1 DEF DataCallsTyped, Timeouts
<1>7. Carried /\ PeersServed
  BY <1>2, DataQueueAssumption DEF Carried, PeersServed
<1> QED
  BY <1>3, <1>5, <1>6, <1>7 DEF DataInv

LEMMA DataQueueStep ==
  ASSUME DataInv, [DataQueueNext]_dataQueueVars
  PROVE  DataKept
<1>1. CASE \/ \E d \in Data : IsrPush(d) \/ \E time \in Timeouts : rt_data_queue_push(d, time)
           \/ \E time \in Timeouts : rt_data_queue_pop(time)
           \/ IsrPop \/ PushAgain \/ PopAgain \/ FailedOn(pops) \/ FailedOn(pushes)
  <2>1. CASE (\E d \in Data : IsrPush(d)) \/ IsrPop
    BY <2>1, DataIsrKept
  <2>2. CASE \/ \E d \in Data, time \in Timeouts : rt_data_queue_push(d, time)
             \/ \E time \in Timeouts : rt_data_queue_pop(time)
             \/ PushAgain \/ PopAgain \/ FailedOn(pops) \/ FailedOn(pushes)
    BY <2>2, DataCallKept
  <2> QED
    BY <1>1, <2>1, <2>2
<1>2. CASE rt_data_queue_reset \/ rt_data_queue_deinit
  <2>1. ResetRing /\ live' \subseteq live
    BY <1>2 DEF rt_data_queue_reset, rt_data_queue_deinit
  <2> QED
    BY <2>1, ResetRingKept
<1>3. CASE EnterCritical
  BY <1>3, EnterCriticalKept
<1>4. CASE TestList
  BY <1>4, TestListKept
<1>5. CASE ScheduleAgain
  BY <1>5, ScheduleAgainKept
<1>6. CASE \E mark \in DataSlot : rt_data_queue_init(mark)
  BY <1>6, DataInitKept
<1>7. CASE (_ipc_list_resume_all \/ Background) /\ UNCHANGED dataQueue
  BY <1>7, ResumeKept, DataBackgroundKept
<1>8. CASE UNCHANGED dataQueueVars
  BY <1>8, DataStutterKept
<1> QED
  BY <1>1, <1>2, <1>3, <1>4, <1>5, <1>6, <1>7, <1>8 DEF DataQueueNext

\* Whatever pushes, pops, interrupts, timeouts and resets interleave, a data queue
\* stays in order and the threads that wait are accounted for.
THEOREM DataQueueInvariant == DataQueueSpec => []DataInv
<1>1. DataQueueInit => DataInv
  BY DataQueueStart
<1>2. DataInv /\ [DataQueueNext]_dataQueueVars => DataInv'
  BY DataQueueStep DEF DataKept
<1> QED
  BY <1>1, <1>2, PTL DEF DataQueueSpec

\* The indices of a data queue stay in its ring, and its low water mark below its
\* size.
THEOREM DataTypes == DataQueueSpec => []DataQueueTyped
<1>1. DataInv => DataQueueTyped
  BY DEF DataInv, IpcCore, RingOrdered, DataCallsTyped, DataQueueTyped
<1> QED
  BY <1>1, DataQueueInvariant, PTL

\* A pop leaves no waiting push behind once lwm items are left, and no thread waits
\* to pop while there is an item that nobody was resumed for; rt_data_queue_reset
\* forgets nobody, although it lets interrupts in between the threads it resumes.
THEOREM DataServe == DataQueueSpec => []PeersServed
<1>1. DataInv => PeersServed
  BY DEF DataInv
<1> QED
  BY <1>1, DataQueueInvariant, PTL

\* Resume, timeout and reset race, but each wait of a push or a pop ends one way only.
THEOREM DataAnswer == DataQueueSpec => []OneAnswer
<1>1. DataInv => OneAnswer
  <2>1. ASSUME DataInv PROVE OneAnswer
    <3>1. Calm(k) /\ Joined
      BY <2>1, DataFacts
    <3> QED
      BY <3>1, CalmAnswer
  <2> QED
    BY <2>1
<1> QED
  BY <1>1, DataQueueInvariant, PTL

\* Refinement: a data queue of any size, used by any threads and interrupt handlers,
\* is a bounded queue that loses, repeats and reorders nothing.
THEOREM DataImplement == DataQueueSpec => QueuesItems
<1>1. DataQueueInit => DataInv /\ ItemsHeld = <<>>
  BY DataQueueStart
<1>2. DataInv /\ [DataQueueNext]_dataQueueVars => DataInv' /\ [AsChannel!Next]_ItemsHeld
  BY DataQueueStep DEF DataKept
<1> QED
  BY <1>1, <1>2, PTL DEF DataQueueSpec, QueuesItems, AsChannel!Spec
=============================================================================
