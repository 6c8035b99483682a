--------------------------- MODULE ServicesProofs ---------------------------
(***************************************************************************)
(* The services whose objects carry no owner: semaphores, events and       *)
(* completions, for any set of threads and any number of objects.  The     *)
(* invariant of the blocking calls (IpcProofs) is joined with what each    *)
(* service promises, and each kind of step preserves the whole:            *)
(*                                                                         *)
(*   semaphores   tokens are neither lost nor made up, nobody waits while  *)
(*                there is one, releases serve waiting threads in order;   *)
(*   events       nobody waits for bits that are set, and a bit that one   *)
(*                thread clears has been seen by that thread alone;        *)
(*   completions  a wait that ended well saw the flag its waker raised.    *)
(***************************************************************************)
EXTENDS Semaphore, Event, Completion, IpcProofs

-----------------------------------------------------------------------------
(* Semaphores *)

\* The properties hold for whatever object, used as a semaphore or not.
AllConserved == \A o \in live : owed[o] = value[o] + Cardinality({t \in Thread : Granted(t, o)})
NoneIdle == \A o \in live : value[o] > 0 => k.wait[o] = <<>>
AllOrdered == \A o \in Obj : flag[o] = "PRIO" => InPrioOrder(o)

IInv == IpcInv /\ TypeOK /\ AllConserved /\ NoneIdle /\ AllOrdered

-----------------------------------------------------------------------------
(* The properties in terms of counts *)

LEMMA TokensCounted ==
  AllConserved <=> \A o \in live : owed[o] = value[o] + Resumed(o)
BY DEF AllConserved, Resumed

LEMMA TokensCountedNext ==
  AllConserved' <=> \A o \in live' : owed'[o] = value'[o] + Resumed(o)'
BY DEF AllConserved, Resumed

\* A step that touches no value: the queues get shorter at most.
LEMMA QuietStep ==
  ASSUME IInv, IpcInv', SameGrants, WaitsEased, live' \subseteq live, UNCHANGED sems
  PROVE  IInv'
<1>1. /\ flag' = flag /\ value' = value /\ owed' = owed /\ live \subseteq Obj
  BY DEF sems, IInv, TypeOK, IpcTypeOK
<1>2. AllConserved'
  <2>1. ASSUME NEW o \in live' PROVE owed'[o] = value'[o] + Resumed(o)'
    <3>1. o \in live /\ o \in Obj
      BY <1>1
    <3>2. Resumed(o)' = Resumed(o)
      BY <3>1, CountSame
    <3> QED
      BY <1>1, <3>1, <3>2, TokensCounted DEF IInv
  <2> QED
    BY <2>1, TokensCountedNext
<1>3. NoneIdle'
  BY <1>1 DEF IInv, NoneIdle, WaitsEased
<1>4. AllOrdered'
  BY <1>1 DEF IInv, AllOrdered, WaitsEased
<1>5. TypeOK'
  BY <1>1 DEF IInv, TypeOK, IpcInv
<1> QED
  BY <1>2, <1>3, <1>4, <1>5 DEF IInv

-----------------------------------------------------------------------------
(* Taking a token *)

LEMMA InvFacts ==
  ASSUME IInv
  PROVE  /\ IpcInv /\ IpcTypeOK /\ live \subseteq Obj
         /\ flag \in [Obj -> Flags] /\ value \in [Obj -> 0 .. SemMax] /\ owed \in [Obj -> Int]
         /\ SemMax \in Nat /\ Calm(k) /\ k \in KernelState
BY CurRuns, LimitsAssumption DEF IInv, TypeOK, IpcInv, IpcTypeOK

\* Only o changes: what is owed keeps pace with its value and with d grants.
Balanced(o, d) ==
  /\ value' \in [Obj -> 0 .. SemMax] /\ owed' \in [Obj -> Int]
  /\ \A q \in Obj \ {o} : value'[q] = value[q] /\ owed'[q] = owed[q]
  /\ owed'[o] - value'[o] = owed[o] - value[o] + d

Counted(o, d) ==
  \A q \in Obj : /\ Resumed(q) \in Nat
                 /\ Resumed(q)' = IF q = o THEN Resumed(q) + d ELSE Resumed(q)

\* Such a step preserves the properties when it lets nobody wait for a token.
LEMMA BalancedStep ==
  ASSUME IInv, IpcInv', WaitsEased, live' \subseteq live, flag' = flag,
         NEW o \in Obj, NEW d \in Int, Balanced(o, d), Counted(o, d),
         o \in live /\ value'[o] > 0 => k'.wait[o] = <<>>
  PROVE  IInv'
<1>1. /\ live \subseteq Obj /\ flag \in [Obj -> Flags]
      /\ value \in [Obj -> 0 .. SemMax] /\ owed \in [Obj -> Int] /\ SemMax \in Nat
  BY InvFacts
<1>2. TypeOK'
  BY <1>1 DEF TypeOK, IpcInv, Balanced
<1>3. AllConserved'
  <2>1. ASSUME NEW q \in live' PROVE owed'[q] = value'[q] + Resumed(q)'
    <3>1. q \in live /\ q \in Obj
      BY <1>1
    <3>2. owed[q] = value[q] + Resumed(q)
      BY <3>1, TokensCounted DEF IInv
    <3>3. /\ Resumed(q) \in Nat
          /\ Resumed(q)' = IF q = o THEN Resumed(q) + d ELSE Resumed(q)
      BY <3>1 DEF Counted
    <3>4. /\ value'[q] \in Int /\ owed'[q] \in Int /\ value[q] \in Int /\ owed[q] \in Int
          /\ q # o => value'[q] = value[q] /\ owed'[q] = owed[q]
          /\ q = o => owed'[q] - value'[q] = owed[q] - value[q] + d
      BY <1>1, <3>1 DEF Balanced
    <3> HIDE DEF IInv
    <3>5. CASE q = o
      <4>1. Resumed(q)' = Resumed(q) + d
        BY <3>3, <3>5
      <4>2. owed'[q] - value'[q] = owed[q] - value[q] + d
        BY <3>4, <3>5
      <4> QED
        BY ONLY <3>2, <3>3, <3>4, <4>1, <4>2, d \in Int
    <3>6. CASE q # o
      BY <3>2, <3>3, <3>4, <3>6
    <3> QED
      BY <3>5, <3>6
  <2> QED
    BY <2>1, TokensCountedNext
<1>4. NoneIdle'
  <2>1. ASSUME NEW q \in live', value'[q] > 0 PROVE k'.wait[q] = <<>>
    <3>1. q \in live /\ q \in Obj
      BY <1>1
    <3>2. CASE q # o
      <4>1. value'[q] = value[q]
        BY <3>1, <3>2 DEF Balanced
      <4>2. k.wait[q] = <<>>
        BY <2>1, <3>1, <4>1 DEF IInv, NoneIdle
      <4> QED
        BY <3>1, <4>2 DEF WaitsEased
    <3>3. CASE q = o
      BY <2>1, <3>1, <3>3
    <3> QED
      BY <3>2, <3>3
  <2> QED
    BY <2>1 DEF NoneIdle
<1>5. AllOrdered'
  BY DEF IInv, AllOrdered, WaitsEased
<1> QED
  BY <1>2, <1>3, <1>4, <1>5 DEF IInv

\* No grant is made or read.
LEMMA NoneCounted ==
  ASSUME SameGrants, NEW o
  PROVE  Counted(o, 0)
BY CountSame DEF Counted

LEMMA EasedSelf ==
  ASSUME k'.prio = k.prio, k'.wait = k.wait
  PROVE  WaitsEased
BY DEF WaitsEased, InPrioOrder

LEMMA TakeInv ==
  ASSUME IInv, NEW o \in Obj, NEW time \in Timeouts, rt_sem_take(o, time)
  PROVE  IInv'
<1>1. /\ IpcInv /\ IpcTypeOK /\ live \subseteq Obj
      /\ flag \in [Obj -> Flags] /\ value \in [Obj -> 0 .. SemMax] /\ owed \in [Obj -> Int]
      /\ SemMax \in Nat /\ Calm(k) /\ k \in KernelState
  BY InvFacts
<1>2. /\ App /\ o \in live /\ on' = [on EXCEPT ![k.cur] = o]
      /\ live' = live /\ phantom' = phantom /\ flag' = flag
      /\ Similar(k, k) /\ "RT_EOK" \in Errno /\ "run" \in Pc
      /\ live' \subseteq Obj /\ phantom' \in BOOLEAN
  BY <1>1, SimilarSelf DEF rt_sem_take, IpcTypeOK, Errno, Pc
<1>3. pc' = pc => Goto("run")
  BY <1>1, <1>2, AppFacts DEF Goto, IpcTypeOK
<1>4. ASSUME k' = k, pc' = pc
      PROVE  IpcInv' /\ SameGrants /\ k'.prio = k.prio /\ k'.wait = k.wait
  BY <1>1, <1>2, <1>3, <1>4, QuietCall
<1>5. CASE /\ value[o] > 0 /\ value' = [value EXCEPT ![o] = @ - 1]
           /\ owed' = [owed EXCEPT ![o] = @ - 1] /\ k' = k /\ pc' = pc
  <2>1. k.wait[o] = <<>>
    BY <1>2, <1>5 DEF IInv, NoneIdle
  <2>2. value[o] \in 0 .. SemMax /\ owed[o] \in Int
    BY <1>1
  <2>3. value' \in [Obj -> 0 .. SemMax] /\ owed' \in [Obj -> Int]
    BY <1>1, <1>5, <2>2
  <2>4. Balanced(o, 0)
    BY <1>1, <1>5, <2>2, <2>3 DEF Balanced
  <2>5. Counted(o, 0) /\ WaitsEased /\ IpcInv' /\ k'.wait[o] = <<>>
    BY <1>4, <1>5, <2>1, NoneCounted, EasedSelf
  <2> QED
    BY <1>2, <2>4, <2>5, BalancedStep
<1>6. CASE k' = k /\ pc' = pc /\ value' = value /\ owed' = owed
  <2>1. IpcInv' /\ SameGrants /\ WaitsEased /\ UNCHANGED sems
    BY <1>2, <1>4, <1>6 DEF WaitsEased, InPrioOrder, sems
  <2> QED
    BY <1>2, <2>1, QuietStep
<1>7. CASE /\ value[o] = 0 /\ k' = Block(k, o, flag[o], time) /\ Goto("block")
           /\ value' = value /\ owed' = owed
  <2>1. /\ IpcInv' /\ SameGrants /\ k'.prio = k.prio
        /\ k'.wait = [k.wait EXCEPT ![o] = Queued(k.wait[o], k.cur, flag[o], k.prio)]
    BY <1>1, <1>2, <1>7, BlockKeeps
  <2>2. TypeOK'
    BY <1>1, <1>2, <1>7, <2>1 DEF TypeOK, IpcInv
  <2>3. AllConserved'
    <3>1. ASSUME NEW q \in live' PROVE owed'[q] = value'[q] + Resumed(q)'
      <4>1. q \in live /\ q \in Obj
        BY <1>1, <1>2
      <4>2. Resumed(q)' = Resumed(q)
        BY <4>1, <2>1, CountSame
      <4> QED
        BY <1>7, <4>1, <4>2, TokensCounted DEF IInv
    <3> QED
      BY <3>1, TokensCountedNext
  <2>4. NoneIdle'
    <3>1. ASSUME NEW q \in live', value'[q] > 0 PROVE k'.wait[q] = <<>>
      <4>1. q # o /\ k'.wait[q] = k.wait[q]
        BY <1>1, <1>7, <2>1, <3>1 DEF KernelState
      <4> QED
        BY <1>2, <1>7, <3>1, <4>1 DEF IInv, NoneIdle
    <3> QED
      BY <3>1 DEF NoneIdle
  <2>5. AllOrdered'
    <3>1. ASSUME NEW q \in Obj, flag'[q] = "PRIO" PROVE Ordered(k'.wait[q], k'.prio)
      <4>1. Ordered(k.wait[q], k.prio)
        BY <1>2, <3>1 DEF IInv, AllOrdered, InPrioOrder, Ordered
      <4>2. CASE q # o
        <5>1. k'.wait[q] = k.wait[q]
          BY <1>1, <2>1, <4>2 DEF KernelState
        <5> QED
          BY <2>1, <4>1, <5>1
      <4>3. CASE q = o
        <5>1. /\ k.wait[o] \in Seq(Thread) /\ IsInjective(k.wait[o]) /\ k.cur \in Thread
              /\ k.prio \in [Thread -> Prio]
          BY <1>1 DEF KernelState, Calm, Lists, WaitListsSound
        <5>2. ~Member(k.cur, k.wait[o])
          BY <1>1, <1>2, AppFacts, AwakeUnlisted
        <5>3. Ordered(Queued(k.wait[o], k.cur, "PRIO", k.prio), k.prio)
          BY <4>1, <4>3, <5>1, <5>2, QueuedFacts
        <5>4. k'.wait[o] = Queued(k.wait[o], k.cur, "PRIO", k.prio)
          BY <1>1, <1>2, <2>1, <3>1, <4>3 DEF KernelState
        <5> QED
          BY <2>1, <4>3, <5>3, <5>4
      <4> QED
        BY <4>2, <4>3
    <3> QED
      BY <3>1 DEF AllOrdered, InPrioOrder, Ordered
  <2> QED
    BY <2>1, <2>2, <2>3, <2>4, <2>5 DEF IInv
<1> QED
  BY <1>5, <1>6, <1>7 DEF rt_sem_take

\* TakeReturn: a granted token has reached its taker.
LEMMA TakeReturnInv ==
  ASSUME IInv, TakeReturn
  PROVE  IInv'
<1>1. /\ IpcInv /\ IpcTypeOK /\ live \subseteq Obj
      /\ flag \in [Obj -> Flags] /\ value \in [Obj -> 0 .. SemMax] /\ owed \in [Obj -> Int]
      /\ SemMax \in Nat
  BY InvFacts
<1>2. At("woken") /\ Goto("run") /\ UNCHANGED <<k, on, live, phantom, flag, value>>
  BY DEF TakeReturn
<1>3. /\ IpcInv' /\ WaitsEased
      /\ k.cur \in Thread /\ k.stat[k.cur] = "RUNNING" /\ InCall(k.cur, on[k.cur])
      /\ on[k.cur] \in Obj
      /\ \A t \in Thread, q \in Obj : Granted(t, q)' <=> Granted(t, q) /\ t # k.cur
  BY <1>1, <1>2, ReturnKeeps
<1>4. PICK o \in Obj : o = on[k.cur]
  BY <1>3
<1>5. PICK c \in Thread : c = k.cur
  BY <1>3
<1>6. Granted(c, o) <=> k.error[c] = "RT_EOK"
  BY <1>3, <1>4, <1>5 DEF Granted
<1>7. \A q \in Obj : /\ Resumed(q) \in Nat
                     /\ Resumed(q)' = IF q = o /\ Granted(c, o) THEN Resumed(q) - 1
                                                                    ELSE Resumed(q)
  <2>1. InCall(c, o) /\ \A t \in Thread, q \in Obj : Granted(t, q)' <=> Granted(t, q) /\ t # c
    BY <1>3, <1>4, <1>5
  <2> QED
    BY <2>1, CountReturn
<1>8. o \in live /\ value'[o] > 0 => k'.wait[o] = <<>>
  BY <1>2 DEF IInv, NoneIdle
<1>9. CASE k.error[c] = "RT_EOK"
  <2>1. owed' = [owed EXCEPT ![o] = @ - 1]
    BY <1>4, <1>5, <1>9 DEF TakeReturn
  <2>2. Balanced(o, -1)
    BY <1>1, <1>2, <2>1 DEF Balanced
  <2>3. Counted(o, -1)
    BY <1>6, <1>7, <1>9 DEF Counted
  <2> QED
    BY <1>2, <1>3, <1>8, <2>2, <2>3, BalancedStep
<1>10. CASE k.error[c] # "RT_EOK"
  <2>1. owed' = owed
    BY <1>5, <1>10 DEF TakeReturn
  <2>2. Balanced(o, 0)
    BY <1>1, <1>2, <2>1 DEF Balanced
  <2>3. Counted(o, 0)
    BY <1>6, <1>7, <1>10 DEF Counted
  <2> QED
    BY <1>2, <1>3, <1>8, <2>2, <2>3, BalancedStep
<1> QED
  BY <1>9, <1>10

-----------------------------------------------------------------------------
(* Putting tokens in *)

\* What ReleaseValue does to the accounts, with or without a waiting thread.
LEMMA ReleaseBalanced ==
  ASSUME IInv, NEW o \in Obj, ReleaseValue(o)
  PROVE  /\ k.wait[o] # <<>> => Balanced(o, 1) /\ value' = value
         /\ k.wait[o] = <<>> => Balanced(o, 0)
<1>1. /\ value \in [Obj -> 0 .. SemMax] /\ owed \in [Obj -> Int] /\ SemMax \in Nat
  BY InvFacts
<1>2. value[o] \in 0 .. SemMax /\ owed[o] \in Int
  BY <1>1
<1>3. CASE k.wait[o] # <<>>
  <2>1. value' = value /\ owed' = [owed EXCEPT ![o] = @ + 1]
    BY <1>3 DEF ReleaseValue
  <2> QED
    BY <1>1, <1>2, <1>3, <2>1 DEF Balanced
<1>4. CASE k.wait[o] = <<>> /\ value[o] < SemMax
  <2>1. value' = [value EXCEPT ![o] = @ + 1] /\ owed' = [owed EXCEPT ![o] = @ + 1]
    BY <1>4 DEF ReleaseValue
  <2>2. value' \in [Obj -> 0 .. SemMax] /\ owed' \in [Obj -> Int]
    BY <1>1, <1>2, <1>4, <2>1
  <2> QED
    BY <1>1, <1>2, <1>4, <2>1, <2>2 DEF Balanced
<1>5. CASE k.wait[o] = <<>> /\ ~(value[o] < SemMax)
  <2>1. value' = value /\ owed' = owed
    BY <1>5 DEF ReleaseValue
  <2> QED
    BY <1>1, <1>2, <1>5, <2>1 DEF Balanced
<1> QED
  BY <1>3, <1>4, <1>5

\* The two ends of a release: somebody is granted the token, or nobody waits.
LEMMA GrantStep ==
  ASSUME IInv, IpcInv', NEW o \in live, k.wait[o] # <<>>, GrantsTo(Head(k.wait[o]), o),
         WaitsEased, ReleaseValue(o), live' = live, flag' = flag
  PROVE  IInv'
<1>1. o \in Obj /\ value \in [Obj -> 0 .. SemMax] /\ SemMax \in Nat
  BY InvFacts
<1>2. Balanced(o, 1) /\ value' = value
  BY <1>1, ReleaseBalanced
<1>3. \A q \in Obj : /\ Resumed(q) \in Nat
                     /\ Resumed(q)' = IF q = o THEN Resumed(q) + 1 ELSE Resumed(q)
  BY <1>1, CountGrants
<1>4. Counted(o, 1)
  BY <1>3 DEF Counted
<1>5. value'[o] > 0 => k'.wait[o] = <<>>
  BY <1>1, <1>2 DEF IInv, NoneIdle
<1> QED
  BY <1>1, <1>2, <1>4, <1>5, BalancedStep

LEMMA EmptyStep ==
  ASSUME IInv, IpcInv', NEW o \in live, k.wait[o] = <<>>, SameGrants, WaitsEased,
         ReleaseValue(o), live' = live, flag' = flag
  PROVE  IInv'
<1>1. o \in Obj
  BY InvFacts
<1>2. Balanced(o, 0) /\ Counted(o, 0) /\ k'.wait[o] = <<>>
  BY <1>1, ReleaseBalanced, NoneCounted DEF WaitsEased
<1> QED
  BY <1>1, <1>2, BalancedStep

LEMMA ReleaseInv ==
  ASSUME IInv, NEW o \in Obj, rt_sem_release(o)
  PROVE  IInv'
<1>1. IpcInv /\ IpcTypeOK /\ Calm(k) /\ live \subseteq Obj
  BY InvFacts
<1>2. /\ App /\ o \in live /\ ReleaseValue(o) /\ k' = ReleaseSection(o)
      /\ on' = on /\ live' = live /\ phantom' = phantom /\ flag' = flag
      /\ Similar(k, k) /\ "RT_EOK" \in Errno /\ "run" \in Pc
      /\ live' \subseteq Obj /\ phantom' \in BOOLEAN
  BY <1>1, SimilarSelf DEF rt_sem_release, IpcTypeOK, Errno, Pc
<1>3. CASE k.wait[o] # <<>>
  <2>1. k' = _ipc_list_resume(k, o) /\ Goto("sched")
    BY <1>3 DEF rt_sem_release, ReleaseSection
  <2>2. IpcInv' /\ GrantsTo(Head(k.wait[o]), o) /\ WaitsEased
    BY <1>1, <1>2, <1>3, <2>1, ReleaseKeeps
  <2> QED
    BY <1>2, <1>3, <2>2, GrantStep
<1>4. CASE k.wait[o] = <<>>
  <2>1. k' = k /\ Goto("run")
    BY <1>4 DEF rt_sem_release, ReleaseSection
  <2>2. IpcInv' /\ SameGrants /\ k'.prio = k.prio /\ k'.wait = k.wait
    BY <1>1, <1>2, <2>1, QuietCall
  <2>3. WaitsEased
    BY <2>2, EasedSelf
  <2> QED
    BY <1>2, <1>4, <2>2, <2>3, EmptyStep
<1> QED
  BY <1>3, <1>4

LEMMA IsrReleaseInv ==
  ASSUME IInv, NEW o \in Obj, IsrRelease(o)
  PROVE  IInv'
<1>1. IpcInv /\ IpcTypeOK /\ live \subseteq Obj
  BY InvFacts
<1>2. /\ o \in live /\ ReleaseValue(o)
      /\ pc' = pc /\ on' = on /\ live' = live /\ phantom' = phantom /\ flag' = flag
  BY DEF IsrRelease
<1>3. CASE k.wait[o] # <<>>
  <2>1. k' = rt_schedule(_ipc_list_resume(k, o))
    BY <1>3 DEF IsrRelease, ReleaseSection
  <2>2. IpcInv' /\ GrantsTo(Head(k.wait[o]), o) /\ WaitsEased
    BY <1>1, <1>2, <1>3, <2>1, IsrReleaseKeeps
  <2> QED
    BY <1>2, <1>3, <2>2, GrantStep
<1>4. CASE k.wait[o] = <<>>
  <2>1. k' = k
    BY <1>4 DEF IsrRelease
  <2>2. IpcInv' /\ SameGrants
    BY <1>1, <1>2, <2>1 DEF IpcInv, IpcTypeOK, Joined, InCall, SameGrants, Granted
  <2>3. WaitsEased
    BY <2>1, EasedSelf
  <2> QED
    BY <1>2, <1>4, <2>2, <2>3, EmptyStep
<1> QED
  BY <1>3, <1>4

\* RT_IPC_CMD_RESET: everybody goes away empty-handed before the value is set.
LEMMA ControlInv ==
  ASSUME IInv, NEW o \in Obj, NEW v \in 0 .. SemMax, rt_sem_control(o, v)
  PROVE  IInv'
<1>1. /\ IpcInv /\ IpcTypeOK /\ live \subseteq Obj
      /\ value \in [Obj -> 0 .. SemMax] /\ owed \in [Obj -> Int] /\ SemMax \in Nat
  BY InvFacts
<1>2. /\ App /\ k' = ResumeEveryone(k, o) /\ Goto("sched")
      /\ on' = on /\ live' = live /\ phantom' = phantom /\ flag' = flag
      /\ value' = [value EXCEPT ![o] = v] /\ owed' = [owed EXCEPT ![o] = @ - value[o] + v]
  BY DEF rt_sem_control
<1>3. IpcInv' /\ SameGrants /\ WaitsEased /\ k'.wait[o] = <<>>
  BY <1>1, <1>2, ControlKeeps
<1>4. Balanced(o, 0)
  <2>1. value[o] \in 0 .. SemMax /\ owed[o] \in Int
    BY <1>1
  <2>2. value' \in [Obj -> 0 .. SemMax] /\ owed' \in [Obj -> Int]
    BY <1>1, <1>2, <2>1
  <2> QED
    BY <1>1, <1>2, <2>1, <2>2 DEF Balanced
<1> QED
  BY <1>2, <1>3, <1>4, NoneCounted, BalancedStep

\* A detached semaphore set up again has nobody in a call on it.
LEMMA InitObjectInv ==
  ASSUME IInv, NEW o \in Obj, NEW f \in Flags, NEW v \in 0 .. SemMax, rt_sem_init(o, f, v)
  PROVE  IInv'
<1>1. /\ IpcInv /\ live \subseteq Obj /\ flag \in [Obj -> Flags]
      /\ value \in [Obj -> 0 .. SemMax] /\ owed \in [Obj -> Int] /\ SemMax \in Nat
  BY InvFacts
<1>2. /\ flag' = [flag EXCEPT ![o] = f] /\ value' = [value EXCEPT ![o] = v]
      /\ owed' = [owed EXCEPT ![o] = v] /\ live' = live \cup {o} /\ InitObject(o)
  BY DEF rt_sem_init, InitObject
<1>3. /\ IpcInv' /\ SameGrants /\ WaitsEased /\ k' = k /\ k.wait[o] = <<>>
      /\ \A t \in Thread : ~InCall(t, o)
  BY <1>1, <1>2, InitObjectKeeps
<1>4. TypeOK'
  <2>1. flag' \in [Obj -> Flags] /\ value' \in [Obj -> 0 .. SemMax] /\ owed' \in [Obj -> Int]
    BY <1>1, <1>2
  <2> QED
    BY <1>3, <2>1 DEF TypeOK, IpcInv
<1>5. AllConserved'
  <2>1. ASSUME NEW q \in live' PROVE owed'[q] = value'[q] + Resumed(q)'
    <3>1. q \in Obj
      BY <1>1, <1>2
    <3>2. Resumed(q)' = Resumed(q)
      BY <1>3, <3>1, CountSame
    <3>3. CASE q = o
      <4>1. Resumed(q) = 0
        BY <1>3, <3>3, CountNone
      <4> QED
        BY <1>1, <1>2, <3>1, <3>2, <3>3, <4>1
    <3>4. CASE q # o
      BY <1>1, <1>2, <3>1, <3>2, <3>4, TokensCounted DEF IInv
    <3> QED
      BY <3>3, <3>4
  <2> QED
    BY <2>1, TokensCountedNext
<1>6. NoneIdle'
  BY <1>1, <1>2, <1>3 DEF IInv, NoneIdle
<1>7. AllOrdered'
  <2>1. ASSUME NEW q \in Obj, flag'[q] = "PRIO" PROVE InPrioOrder(q)'
    <3>1. CASE q = o
      BY <1>3, <3>1 DEF InPrioOrder
    <3>2. CASE q # o
      BY <1>1, <1>2, <1>3, <2>1, <3>2 DEF IInv, AllOrdered, WaitsEased
    <3> QED
      BY <3>1, <3>2
  <2> QED
    BY <2>1 DEF AllOrdered
<1> QED
  BY <1>3, <1>4, <1>5, <1>6, <1>7 DEF IInv

-----------------------------------------------------------------------------
(* The specification *)

LEMMA SemaphoreInit ==
  ASSUME Init
  PROVE  IInv
<1>1. /\ IpcInit /\ flag \in [Obj -> Flags] /\ value \in [Obj -> 0 .. SemMax] /\ owed = value
      /\ SemMax \in Nat
  BY LimitsAssumption DEF Init
<1>2. /\ IpcInv
      /\ \A o \in Obj : k.wait[o] = <<>> /\ InPrioOrder(o)
      /\ \A t \in Thread, o \in Obj : ~InCall(t, o)
  BY <1>1, InitKeeps
<1>3. IpcTypeOK /\ live \subseteq Obj
  BY <1>2 DEF IpcInv, IpcTypeOK
<1>4. TypeOK
  BY <1>1, <1>3 DEF TypeOK
<1>5. AllConserved
  <2>1. ASSUME NEW q \in live PROVE owed[q] = value[q] + Resumed(q)
    <3>1. q \in Obj /\ Resumed(q) = 0
      BY <1>2, <1>3, CountNone
    <3> QED
      BY <1>1, <3>1
  <2> QED
    BY <2>1, TokensCounted
<1>6. NoneIdle
  BY <1>2, <1>3 DEF NoneIdle
<1>7. AllOrdered
  BY <1>2 DEF AllOrdered
<1> QED
  BY <1>2, <1>4, <1>5, <1>6, <1>7 DEF IInv

LEMMA SemaphoreNext ==
  ASSUME IInv, [Next]_vars
  PROVE  IInv'
<1>0. IpcInv /\ IpcTypeOK
  BY InvFacts
<1>1. CASE \E o \in Sem, time \in Timeouts : rt_sem_take(o, time)
  BY <1>1, SemAssumption, TakeInv
<1>2. CASE \E o \in Sem : rt_sem_release(o)
  BY <1>2, SemAssumption, ReleaseInv
<1>3. CASE \E o \in Sem : IsrRelease(o)
  BY <1>3, SemAssumption, IsrReleaseInv
<1>4. CASE \E o \in Sem : rt_sem_detach(o)
  <2>1. PICK o \in Sem : DetachBegin(o) /\ UNCHANGED sems
    BY <1>4 DEF rt_sem_detach
  <2>2. IpcInv' /\ SameGrants /\ WaitsEased /\ live' \subseteq live
    BY <1>0, <2>1, SemAssumption, DetachBeginKeeps DEF DetachBegin
  <2> QED
    BY <2>1, <2>2, QuietStep
<1>5. CASE \E o \in Sem, v \in 0 .. SemMax : rt_sem_control(o, v)
  BY <1>5, SemAssumption, ControlInv
<1>6. CASE \E o \in Sem, v \in 0 .. SemMax, f \in Flags : rt_sem_init(o, f, v)
  BY <1>6, SemAssumption, InitObjectInv
<1>7. CASE TakeReturn
  BY <1>7, TakeReturnInv
<1>8. CASE (ResumeAllTest \/ _ipc_list_resume_all \/ Background) /\ UNCHANGED sems
  <2>1. IpcInv' /\ SameGrants /\ WaitsEased
    BY <1>0, <1>8, ResumeAllTestKeeps, ResumeAllKeeps, BackgroundKeeps
  <2>2. live' = live
    BY <1>8 DEF ResumeAllTest, _ipc_list_resume_all, Background, Reschedule, Delay,
                SliceEnd, Timeout
  <2> QED
    BY <1>8, <2>1, <2>2, QuietStep
<1>9. CASE UNCHANGED vars
  <2>1. UNCHANGED <<k, pc, on, live, phantom, flag, value, owed>>
    BY <1>9 DEF vars, ipc, sems
  <2>2. IpcInv' /\ SameGrants
    BY <1>0, <2>1 DEF IpcInv, IpcTypeOK, Joined, InCall, SameGrants, Granted
  <2>3. WaitsEased /\ UNCHANGED sems
    BY <2>1, EasedSelf DEF sems
  <2> QED
    BY <2>1, <2>2, <2>3, QuietStep
<1> QED
  BY <1>1, <1>2, <1>3, <1>4, <1>5, <1>6, <1>7, <1>8, <1>9 DEF Next

\* In every reachable state the accounts balance, nobody waits in front of a
\* token, and the lists, timers, states and answers of all calls agree.
THEOREM SemaphoreInvariant == Spec => []IInv
<1>1. Init => IInv
  BY SemaphoreInit
<1>2. IInv /\ [Next]_vars => IInv'
  BY SemaphoreNext
<1> QED
  BY <1>1, <1>2, PTL DEF Spec

\* rt_sem_take, rt_sem_release, resets and timeouts keep every variable in its
\* type: in particular sem->value never passes RT_SEM_VALUE_MAX.
THEOREM SemaphoreTypes == Spec => []TypeOK
<1>1. IInv => TypeOK
  BY DEF IInv
<1> QED
  BY <1>1, SemaphoreInvariant, PTL

\* Whatever takes, releases, timeouts and resets interleave, tokens are neither
\* lost nor made up, and rt_sem_release gives a token to a waiting thread before
\* it keeps it: nobody waits in rt_sem_take while the value is positive.
THEOREM SemaphoreTokens == Spec => []TokensServed
<1>1. IInv => TokensConserved
  BY DEF IInv, AllConserved, TokensConserved
<1>2. IInv => NoIdleToken
  BY DEF IInv, NoneIdle, NoIdleToken
<1> QED
  BY <1>1, <1>2, SemaphoreInvariant, PTL DEF TokensServed

\* _ipc_list_suspend with RT_IPC_FLAG_PRIO: the waiting threads stay in order
\* of priority, whoever is resumed, times out or is reset in between.
THEOREM SemaphoreOrder == Spec => []PrioOrder
<1>1. IInv => PrioOrder
  BY SemAssumption DEF IInv, AllOrdered, PrioOrder
<1> QED
  BY <1>1, SemaphoreInvariant, PTL

\* Resume, timeout, reset and detach race, but each wait in rt_sem_take ends
\* one way only: lists, timers, thread states and thread->error agree.
THEOREM SemaphoreAnswers == Spec => []OneAnswer
<1>1. IInv => OneAnswer
  BY InvOneAnswer DEF IInv
<1> QED
  BY <1>1, SemaphoreInvariant, PTL

-----------------------------------------------------------------------------
(* The loop of rt_event_send *)

\* The states of the loop after 0 .. n of the threads of s.
IsSend(f, a, s, n) ==
  f = [i \in 0 .. n |-> IF i = 0 THEN a ELSE Serve(f[i - 1], s[i])]

LEMMA SendExists ==
  ASSUME NEW a, NEW s, NEW n \in Nat
  PROVE  \E f : IsSend(f, a, s, n)
<1> DEFINE Bad == {m \in Nat : ~\E f : IsSend(f, a, s, m)}
<1>1. SUFFICES ASSUME Bad # {} PROVE FALSE
  OBVIOUS
<1>2. PICK m \in Bad : \A i \in Bad : m <= i
  BY <1>1, LeastOf
<1> HIDE DEF Bad
<1>3. m \in Nat /\ ~\E f : IsSend(f, a, s, m)
  BY DEF Bad
<1>4. m # 0
  <2> DEFINE g == [i \in 0 .. 0 |-> a]
  <2>1. g = [i \in 0 .. 0 |-> IF i = 0 THEN a ELSE Serve(g[i - 1], s[i])]
    OBVIOUS
  <2> HIDE DEF g
  <2>2. IsSend(g, a, s, 0)
    BY <2>1 DEF IsSend
  <2> QED
    BY <2>2, <1>3
<1>5. m - 1 \in Nat /\ m - 1 \notin Bad
  BY <1>2, <1>3, <1>4
<1>6. PICK f : IsSend(f, a, s, m - 1)
  BY <1>5 DEF Bad
<1> DEFINE g == [i \in 0 .. m |-> IF i = m THEN Serve(f[m - 1], s[m]) ELSE f[i]]
           h == [i \in 0 .. m |-> IF i = 0 THEN a ELSE Serve(g[i - 1], s[i])]
<1>7. ASSUME NEW i \in 0 .. m PROVE g[i] = h[i]
  <2>1. CASE i = m
    <3>1. g[i] = Serve(f[m - 1], s[m])
      BY <2>1
    <3>2. h[i] = Serve(g[m - 1], s[m])
      BY <2>1, <1>4
    <3>3. m - 1 \in 0 .. m /\ m - 1 # m
      BY <1>3, <1>4
    <3>4. g[m - 1] = f[m - 1]
      BY <3>3
    <3> HIDE DEF g, h
    <3> QED
      BY <3>1, <3>2, <3>4, <2>1
  <2>2. CASE i # m
    <3>1. i \in 0 .. m - 1 /\ g[i] = f[i]
      BY <2>2, <1>3
    <3>2. f[i] = IF i = 0 THEN a ELSE Serve(f[i - 1], s[i])
      BY <3>1, <1>6 DEF IsSend
    <3>3. i # 0 => g[i - 1] = f[i - 1]
      BY <3>1, <1>3
    <3>4. h[i] = IF i = 0 THEN a ELSE Serve(g[i - 1], s[i])
      OBVIOUS
    <3> HIDE DEF g, h
    <3> QED
      BY <3>1, <3>2, <3>3, <3>4
  <2> QED
    BY <2>1, <2>2
<1>8. g = h
  <2>1. g = [i \in 0 .. m |-> g[i]] /\ h = [i \in 0 .. m |-> h[i]]
    OBVIOUS
  <2> HIDE DEF g, h
  <2> QED
    BY <2>1, <1>7
<1>9. IsSend(g, a, s, m)
  <2>1. g = [i \in 0 .. m |-> IF i = 0 THEN a ELSE Serve(g[i - 1], s[i])]
    BY <1>8, Zenon DEF h
  <2> HIDE DEF g
  <2> QED
    BY <2>1, Zenon DEF IsSend
<1> QED
  BY <1>3, <1>9

\* Whoever is on the list is satisfied with less only if it was with more.
LEMMA LessSatisfies ==
  ASSUME NEW have, NEW less, less \subseteq have, NEW want, NEW opt, Satisfied(less, want, opt)
  PROVE  Satisfied(have, want, opt)
BY DEF Satisfied

\* The threads that wait for o no more, although nobody refused them, and take b
\* from the set; before the section m is the kernel state and e is event_set.
Takers(m, e, o, b) ==
  {t \in Thread : /\ InCall(t, o) /\ m.stat[t] # "SUSPEND" /\ m.error[t] = "RT_EOK"
                  /\ option[t].clear /\ b \in e[t]}

Bit(b, bits) == IF b \in bits THEN 1 ELSE 0

\* What the loop has done when the first n of the threads of o are seen to, where
\* it began with start in the set.
Sending(a, o, start, n) ==
  /\ Released(k, a.k) /\ a.k.error = k.error
  /\ a.event_set \in [Thread -> SUBSET Bits] /\ a.set \subseteq start
  /\ \A t \in Thread :
       ~Member(t, k.wait[o]) => /\ a.k.stat[t] = k.stat[t]
                                /\ a.event_set[t] = event_set[t]
  /\ \A t \in Thread :
       a.k.stat[t] = "SUSPEND" => a.event_set[t] = event_set[t]
  /\ \A i \in DOMAIN k.wait[o] :
       IF i > n THEN a.k.stat[k.wait[o][i]] = "SUSPEND"
       ELSE a.k.stat[k.wait[o][i]] = "SUSPEND" =>
              ~Satisfied(a.set, event_set[k.wait[o][i]], option[k.wait[o][i]])
  /\ \A b \in Bits :
       Cardinality(Takers(a.k, a.event_set, o, b)) + Bit(b, a.set)
         = Cardinality(Takers(k, event_set, o, b)) + Bit(b, start)

LEMMA ResumePlain ==
  ASSUME NEW a, Calm(a), NEW t \in Thread, a.stat[t] = "SUSPEND"
  PROVE  LET u == rt_thread_resume(a, t) IN
         /\ Released(a, u) /\ u.error = a.error /\ u.stat[t] # "SUSPEND"
         /\ \A v \in Thread \ {t} : u.stat[v] = a.stat[v]
<1> DEFINE u == rt_thread_resume(a, t)
<1>1. u = ResumeLocked(a, t)
  BY DEF rt_thread_resume
<1> HIDE DEF u
<1>2. Awakened(a, u, t) /\ u.error = a.error
  BY <1>1, WakeCalm
<1>3. OneTold(a, u, t)
  BY <1>2 DEF OneTold
<1>4. /\ Released(a, u) /\ u.stat[t] # "SUSPEND"
      /\ \A v \in Thread \ {t} : u.stat[v] = a.stat[v]
  BY <1>2, <1>3, AwakenedReleases
<1> QED
  BY <1>2, <1>4 DEF u

\* t takes b from the set, or takes something else.
LEMMA TakersStep ==
  ASSUME NEW m, NEW u, NEW e, NEW f, NEW o, NEW b, NEW t \in Thread, NEW takes \in BOOLEAN,
         \A v \in Thread \ {t} : u.stat[v] = m.stat[v] /\ u.error[v] = m.error[v] /\ f[v] = e[v],
         m.stat[t] = "SUSPEND",
         takes <=> t \in Takers(u, f, o, b)
  PROVE  /\ Cardinality(Takers(m, e, o, b)) \in Nat
         /\ Cardinality(Takers(u, f, o, b)) =
              Cardinality(Takers(m, e, o, b)) + (IF takes THEN 1 ELSE 0)
<1> DEFINE A == Takers(m, e, o, b)
           B == Takers(u, f, o, b)
<1>1. IsFiniteSet(A) /\ A \subseteq Thread /\ B \subseteq Thread /\ t \notin A
  BY IpcAssumption, FS_Subset DEF Takers
<1>2. (\A v \in Thread \ {t} : v \in B <=> v \in A) /\ (takes <=> t \in B)
  BY DEF Takers
<1> HIDE DEF A, B
<1>3. Cardinality(A) \in Nat
  BY <1>1, FS_CardinalityType
<1>4. takes => Cardinality(B) = Cardinality(A) + 1
  <2>1. takes => B = A \cup {t}
    BY <1>1, <1>2
  <2> QED
    BY <1>1, <2>1, FS_AddElement
<1>5. ~takes => B = A
  BY <1>1, <1>2
<1>6. Cardinality(B) = Cardinality(A) + (IF takes THEN 1 ELSE 0)
  BY <1>3, <1>4, <1>5
<1> QED
  BY <1>3, <1>6 DEF A, B

LEMMA ServeStep ==
  ASSUME IpcInv, EventsTyped, NEW o \in Obj, NEW start \in SUBSET Bits, NEW a,
         NEW n \in 1 .. Len(k.wait[o]), Sending(a, o, start, n - 1)
  PROVE  Sending(Serve(a, k.wait[o][n]), o, start, n)
<1> DEFINE w == k.wait[o]
           t == w[n]
           hit == a.event_set[t] \cap a.set
           c == Serve(a, t)
<1>1. /\ Calm(k) /\ Joined /\ w \in Seq(Thread) /\ IsInjective(w)
      /\ event_set \in [Thread -> SUBSET Bits] /\ option \in [Thread -> Options]
  BY CurRuns DEF IpcInv, Calm, Lists, WaitListsSound, EventsTyped, KernelState
<1>2. n \in DOMAIN w /\ t \in Thread /\ Member(t, w)
  BY <1>1 DEF Member
<1>3. k.stat[t] = "SUSPEND" /\ InCall(t, o) /\ k.error[t] = "RT_EOK"
  BY <1>1, <1>2 DEF Joined, Calm, Lists, WaitListsSound
<1>4. /\ Released(k, a.k) /\ a.k.error = k.error /\ Calm(a.k)
      /\ a.event_set \in [Thread -> SUBSET Bits] /\ a.set \subseteq start
      /\ a.k.stat[t] = "SUSPEND" /\ a.event_set[t] = event_set[t]
  <2>1. /\ Released(k, a.k) /\ a.k.error = k.error
        /\ a.event_set \in [Thread -> SUBSET Bits] /\ a.set \subseteq start
        /\ \A v \in Thread : a.k.stat[v] = "SUSPEND" => a.event_set[v] = event_set[v]
    BY DEF Sending
  <2>2. n > n - 1
    OBVIOUS
  <2>3. a.k.stat[t] = "SUSPEND"
    BY <1>2, <2>2 DEF Sending
  <2>4. Calm(a.k)
    BY <2>1 DEF Released
  <2> QED
    BY <1>2, <2>1, <2>3, <2>4
<1>5. ASSUME NEW i \in DOMAIN w
      PROVE  w[i] \in Thread /\ (w[i] = t => i = n) /\ i \in Nat /\ n \in Nat
  <2>1. i \in 1 .. Len(w) /\ n \in 1 .. Len(w) /\ Len(w) \in Nat
    BY <1>1
  <2>2. w[i] = w[n] => i = n
    BY <1>1, <1>2 DEF IsInjective
  <2> QED
    BY <1>1, <2>1, <2>2
<1>6. \A i \in DOMAIN w :
        IF i > n - 1 THEN a.k.stat[w[i]] = "SUSPEND"
        ELSE a.k.stat[w[i]] = "SUSPEND" => ~Satisfied(a.set, event_set[w[i]], option[w[i]])
  BY DEF Sending
<1> HIDE DEF t
<1>7. CASE ~Satisfied(a.set, a.event_set[t], option[t])
  <2>1. c = a
    BY <1>7 DEF Serve
  <2>2. ASSUME NEW i \in DOMAIN w
        PROVE  IF i > n THEN a.k.stat[w[i]] = "SUSPEND"
               ELSE a.k.stat[w[i]] = "SUSPEND" => ~Satisfied(a.set, event_set[w[i]], option[w[i]])
    <3>1. CASE i = n
      BY <1>4, <1>7, <3>1, <1>5 DEF t
    <3>2. CASE i # n
      BY <1>5, <1>6, <3>2
    <3> QED
      BY <3>1, <3>2
  <2>3. Sending(a, o, start, n)
    BY <2>2 DEF Sending
  <2> QED
    BY <2>1, <2>3 DEF t
<1>8. CASE Satisfied(a.set, a.event_set[t], option[t])
  <2>1. /\ c.k = rt_thread_resume(a.k, t)
        /\ c.event_set = [a.event_set EXCEPT ![t] = hit]
        /\ c.set = IF option[t].clear THEN a.set \ hit ELSE a.set
    BY <1>8 DEF Serve
  <2>2. hit \in SUBSET Bits /\ c.set \subseteq a.set
    BY <1>2, <1>4, <2>1
  <2>3. /\ Released(a.k, c.k) /\ c.k.error = a.k.error /\ c.k.stat[t] # "SUSPEND"
        /\ \A v \in Thread \ {t} : c.k.stat[v] = a.k.stat[v]
    <3>1. rt_thread_resume(a.k, t) = c.k
      BY <2>1
    <3> QED
      BY <1>2, <1>4, <3>1, ResumePlain
  <2>4. /\ c.event_set \in [Thread -> SUBSET Bits] /\ c.event_set[t] = hit
        /\ \A v \in Thread \ {t} : c.event_set[v] = a.event_set[v]
    BY <1>2, <1>4, <2>1, <2>2
  <2> HIDE DEF c
  <2>5. Released(k, c.k) /\ c.k.error = k.error /\ c.set \subseteq start
    BY <1>4, <2>2, <2>3, ReleasedTrans
  <2>6. ASSUME NEW v \in Thread, ~Member(v, w)
        PROVE  c.k.stat[v] = k.stat[v] /\ c.event_set[v] = event_set[v]
    <3>1. v # t
      BY <1>2, <2>6
    <3> QED
      BY <3>1, <2>3, <2>4, <2>6 DEF Sending
  <2>7. ASSUME NEW v \in Thread, c.k.stat[v] = "SUSPEND"
        PROVE  c.event_set[v] = event_set[v]
    <3>1. v # t
      BY <2>3, <2>7
    <3> QED
      BY <3>1, <2>3, <2>4, <2>7 DEF Sending
  <2>8. ASSUME NEW i \in DOMAIN w
        PROVE  IF i > n THEN c.k.stat[w[i]] = "SUSPEND"
               ELSE c.k.stat[w[i]] = "SUSPEND" => ~Satisfied(c.set, event_set[w[i]], option[w[i]])
    <3>1. CASE i = n
      BY <1>5, <2>3, <3>1 DEF t
    <3>2. CASE i # n
      <4>1. w[i] # t /\ w[i] \in Thread /\ i \in Nat /\ n \in Nat
        BY <1>5, <3>2
      <4>2. c.k.stat[w[i]] = a.k.stat[w[i]]
        BY <2>3, <4>1
      <4>3. Satisfied(c.set, event_set[w[i]], option[w[i]])
              => Satisfied(a.set, event_set[w[i]], option[w[i]])
        BY <2>2, LessSatisfies
      <4>4. CASE i > n
        <5>1. i > n - 1
          BY <4>1, <4>4
        <5> QED
          BY <1>6, <4>2, <4>4, <5>1
      <4>5. CASE ~(i > n)
        <5>1. ~(i > n - 1)
          BY <3>2, <4>1, <4>5
        <5> QED
          BY <1>6, <4>2, <4>3, <4>5, <5>1
      <4> QED
        BY <4>4, <4>5
    <3> QED
      BY <3>1, <3>2
  <2>9. ASSUME NEW b \in Bits
        PROVE  Cardinality(Takers(c.k, c.event_set, o, b)) + Bit(b, c.set)
                 = Cardinality(Takers(k, event_set, o, b)) + Bit(b, start)
    <3> DEFINE takes == option[t].clear /\ b \in hit
               A == Cardinality(Takers(a.k, a.event_set, o, b))
               C == Cardinality(Takers(c.k, c.event_set, o, b))
    <3>1. option[t].clear \in BOOLEAN
      BY <1>1, <1>2 DEF Options
    <3>2. takes <=> t \in Takers(c.k, c.event_set, o, b)
      BY <1>2, <1>3, <2>3, <2>4, <2>5 DEF Takers
    <3>3. Bit(b, a.set) = Bit(b, c.set) + (IF takes THEN 1 ELSE 0)
      BY <2>1, <3>1 DEF Bit
    <3>4. A + Bit(b, a.set) = Cardinality(Takers(k, event_set, o, b)) + Bit(b, start)
      BY DEF Sending
    <3>5. /\ takes \in BOOLEAN /\ a.k.stat[t] = "SUSPEND"
          /\ \A v \in Thread \ {t} : /\ c.k.stat[v] = a.k.stat[v] /\ c.k.error[v] = a.k.error[v]
                                     /\ c.event_set[v] = a.event_set[v]
      BY <1>4, <2>3, <2>4, <3>1
    <3> HIDE DEF takes
    <3>6. A \in Nat /\ C = A + (IF takes THEN 1 ELSE 0)
      BY <1>2, <3>2, <3>5, TakersStep
    <3>7. Bit(b, c.set) \in Nat
      BY DEF Bit
    <3> HIDE DEF A, C
    <3>8. C + Bit(b, c.set) = A + Bit(b, a.set)
      BY <3>3, <3>6, <3>7
    <3> QED
      BY <3>4, <3>8 DEF C
  <2> QED
    BY <2>4, <2>5, <2>6, <2>7, <2>8, <2>9 DEF Sending, c, t
<1> QED
  BY <1>7, <1>8 DEF t

\* The loop of rt_event_send has seen to every thread that waited.
LEMMA SendFacts ==
  ASSUME IpcInv, EventsTyped, NEW o \in Obj, NEW bits \in SUBSET Bits
  PROVE  Sending(SendSection(o, bits), o, set[o] \cup bits, Len(k.wait[o]))
<1> DEFINE w == k.wait[o]
           N == Len(w)
           start == set[o] \cup bits
           a == [k |-> k, event_set |-> event_set, set |-> start]
           f[n \in 0 .. N] == IF n = 0 THEN a ELSE Serve(f[n - 1], w[n])
<1>1. /\ w \in Seq(Thread) /\ N \in Nat /\ start \in SUBSET Bits /\ Calm(k)
      /\ event_set \in [Thread -> SUBSET Bits]
      /\ \A t \in Thread : Member(t, w) => k.stat[t] = "SUSPEND"
  BY CurRuns DEF IpcInv, Calm, Lists, WaitListsSound, KernelState, EventsTyped
<1>2. SendSection(o, bits) = f[N]
  BY DEF SendSection
<1> HIDE DEF N
<1>3. IsSend(f, a, w, N)
  <2> DEFINE g == CHOOSE h : IsSend(h, a, w, N)
  <2> HIDE DEF a, w
  <2>1. IsSend(g, a, w, N)
    BY <1>1, SendExists
  <2>2. f = g
    BY DEF IsSend
  <2> QED
    BY <2>1, <2>2
<1> HIDE DEF f
<1>4. Sending(a, o, start, 0)
  <2>1. \A i \in DOMAIN w : i > 0 /\ k.stat[w[i]] = "SUSPEND"
    <3>1. \A i \in DOMAIN w : i > 0 /\ w[i] \in Thread /\ Member(w[i], w)
      BY <1>1 DEF Member
    <3> QED
      BY <1>1, <3>1
  <2>2. Released(k, k)
    BY <1>1, ReleasedNone
  <2>3. a.k = k /\ a.event_set = event_set /\ a.set = start
    OBVIOUS
  <2> HIDE DEF a, start
  <2> QED
    BY <1>1, <2>1, <2>2, <2>3 DEF Sending
<1> HIDE DEF a, start
<1> DEFINE Bad == {n \in 0 .. N : ~Sending(f[n], o, start, n)}
<1>5. Bad = {}
  <2>1. SUFFICES ASSUME Bad # {} PROVE FALSE
    OBVIOUS
  <2>2. PICK n \in Bad : \A i \in Bad : n <= i
    <3>1. Bad \in SUBSET Nat
      BY <1>1
    <3> HIDE DEF Bad
    <3> QED
      BY <2>1, <3>1, LeastOf
  <2>3. n \in 0 .. N /\ ~Sending(f[n], o, start, n)
    OBVIOUS
  <2>4. f[n] = IF n = 0 THEN a ELSE Serve(f[n - 1], w[n])
    BY <1>3, <2>3, Zenon DEF IsSend
  <2>5. CASE n = 0
    BY <1>4, <2>3, <2>4, <2>5
  <2>6. CASE n # 0
    <3>1. n - 1 \in 0 .. N /\ n - 1 \notin Bad /\ n \in 1 .. Len(w)
      BY <1>1, <2>2, <2>3, <2>6 DEF N
    <3>2. Sending(f[n - 1], o, start, n - 1)
      BY <3>1
    <3>3. Sending(Serve(f[n - 1], w[n]), o, start, n)
      <4> HIDE DEF Bad
      <4> QED
        BY <1>1, <3>1, <3>2, ServeStep
    <3> QED
      BY <2>3, <2>4, <2>6, <3>3
  <2> QED
    BY <2>5, <2>6
<1>6. Sending(f[N], o, start, N)
  BY <1>1, <1>5
<1> QED
  BY <1>2, <1>6 DEF N, start, w

-----------------------------------------------------------------------------
(* The invariant of the events *)

\* NoMissedEvent, waiting thread by waiting thread.
NoneMissed ==
  \A o \in live \cap EventSet, t \in Thread :
    Member(t, k.wait[o]) => ~Satisfied(set[o], event_set[t], option[t])

EventInv == IpcInv /\ EventsTyped /\ NoneMissed /\ BitsOnce

LEMMA MissedFacts ==
  ASSUME IpcInv, NoneMissed
  PROVE  NoMissedEvent
<1>1. k.wait \in [Obj -> Seq(Thread)] /\ live \subseteq Obj
  BY CurRuns DEF IpcInv, IpcTypeOK, KernelState
<1> QED
  BY <1>1 DEF NoneMissed, NoMissedEvent, Member

LEMMA EventFacts ==
  ASSUME EventInv
  PROVE  /\ IpcInv /\ IpcTypeOK /\ live \subseteq Obj /\ Calm(k) /\ k \in KernelState /\ Joined
         /\ EventSet \subseteq Obj /\ event_flag \in [Obj -> {"FIFO", "PRIO"}]
         /\ set \in [Obj -> SUBSET Bits] /\ event_set \in [Thread -> SUBSET Bits]
         /\ option \in [Thread -> Options] /\ due \in [Obj -> [Bits -> Int]]
BY CurRuns, EventAssumption DEF EventInv, EventsTyped, IpcInv, IpcTypeOK

\* What the account of b says of o, with the threads that took b counted.
Account(o, b) == Cardinality(Takers(k, event_set, o, b)) + Bit(b, set[o]) = due[o][b]

LEMMA AccountFacts ==
  BitsOnce <=> \A o \in live \cap EventSet, b \in Bits : Account(o, b)
<1>1. \A o, b : Promised(o, b) = Takers(k, event_set, o, b)
  BY DEF Promised, Takers, Granted
<1> QED
  BY <1>1 DEF BitsOnce, Account, Bit

LEMMA AccountFactsNext ==
  BitsOnce' <=> \A o \in live' \cap EventSet, b \in Bits : Account(o, b)'
<1>1. \A o, b : Promised(o, b)' = Takers(k, event_set, o, b)'
  BY DEF Promised, Takers, Granted
<1> QED
  BY <1>1 DEF BitsOnce, Account, Bit

\* While grants, and the bits of who has one, stay, so do the takers.
LEMMA SameTakers ==
  ASSUME NEW o \in Obj, NEW b \in Bits,
         \A t \in Thread : Granted(t, o)' <=> Granted(t, o),
         \A t \in Thread : Granted(t, o) => event_set'[t] = event_set[t] /\ option'[t] = option[t]
  PROVE  Takers(k, event_set, o, b)' = Takers(k, event_set, o, b)
BY DEF Takers, Granted

LEMMA TakersCount ==
  ASSUME NEW o, NEW b
  PROVE  Cardinality(Takers(k, event_set, o, b)) \in Nat
<1>1. IsFiniteSet(Takers(k, event_set, o, b))
  BY IpcAssumption, FS_Subset DEF Takers
<1> QED
  BY <1>1, FS_CardinalityType

\* A step that touches no event set: the lists get shorter at most.
LEMMA QuietEvents ==
  ASSUME EventInv, IpcInv', SameGrants, WaitsEased, live' \subseteq live, UNCHANGED events
  PROVE  EventInv'
<1>1. /\ event_flag' = event_flag /\ set' = set /\ event_set' = event_set
      /\ option' = option /\ due' = due /\ live \subseteq Obj
  BY EventFacts DEF events
<1>2. EventsTyped'
  BY <1>1 DEF EventInv, EventsTyped, IpcInv
<1>3. NoneMissed'
  BY <1>1 DEF EventInv, NoneMissed, WaitsEased
<1>4. BitsOnce'
  <2>1. ASSUME NEW o \in live' \cap EventSet, NEW b \in Bits PROVE Account(o, b)'
    <3>1. o \in live \cap EventSet /\ o \in Obj
      BY <1>1
    <3>2. Takers(k, event_set, o, b)' = Takers(k, event_set, o, b)
      BY <1>1, <3>1, SameTakers DEF SameGrants
    <3>3. Account(o, b)
      BY <3>1, AccountFacts DEF EventInv
    <3> QED
      BY <1>1, <3>2, <3>3 DEF Account
  <2> QED
    BY <2>1, AccountFactsNext
<1> QED
  BY <1>2, <1>3, <1>4 DEF EventInv

\* Nothing changes of the event sets but o, except that threads leave their lists.
ElsewhereSame(o) ==
  /\ live' \subseteq live
  /\ \A q \in Obj \ {o} : set'[q] = set[q] /\ due'[q] = due[q]
  /\ \A q \in Obj \ {o}, t \in Thread :
       /\ Member(t, k'.wait[q]) => Member(t, k.wait[q])
       /\ Granted(t, q)' <=> Granted(t, q)
       /\ Member(t, k'.wait[q]) \/ Granted(t, q) =>
            event_set'[t] = event_set[t] /\ option'[t] = option[t]

LEMMA SetStep ==
  ASSUME EventInv, IpcInv', EventsTyped', NEW o \in Obj, ElsewhereSame(o),
         o \in live' \cap EventSet =>
           /\ \A t \in Thread :
                Member(t, k'.wait[o]) => ~Satisfied(set'[o], event_set'[t], option'[t])
           /\ \A b \in Bits : Account(o, b)'
  PROVE  EventInv'
<1>1. live \subseteq Obj /\ live' \subseteq live
  BY EventFacts DEF ElsewhereSame
<1>2. NoneMissed'
  <2>1. ASSUME NEW q \in live' \cap EventSet, NEW t \in Thread, Member(t, k'.wait[q]), q # o
        PROVE  ~Satisfied(set'[q], event_set'[t], option'[t])
    <3>1. q \in Obj \ {o} /\ q \in live \cap EventSet
      BY <1>1, <2>1
    <3>2. /\ set'[q] = set[q] /\ event_set'[t] = event_set[t] /\ option'[t] = option[t]
          /\ Member(t, k.wait[q])
      BY <2>1, <3>1 DEF ElsewhereSame
    <3> QED
      BY <3>1, <3>2 DEF EventInv, NoneMissed
  <2> QED
    BY <2>1 DEF NoneMissed
<1>3. BitsOnce'
  <2>1. ASSUME NEW q \in live' \cap EventSet, NEW b \in Bits, q # o PROVE Account(q, b)'
    <3>1. q \in Obj \ {o} /\ q \in live \cap EventSet /\ q \in Obj
      BY <1>1, <2>1
    <3>2. \A t \in Thread : /\ Granted(t, q)' <=> Granted(t, q)
                            /\ Granted(t, q) => event_set'[t] = event_set[t] /\ option'[t] = option[t]
      BY <3>1 DEF ElsewhereSame
    <3>3. Takers(k, event_set, q, b)' = Takers(k, event_set, q, b)
      BY <3>1, <3>2, SameTakers
    <3>4. Account(q, b) /\ set'[q] = set[q] /\ due'[q] = due[q]
      BY <3>1, AccountFacts DEF EventInv, ElsewhereSame
    <3> QED
      BY <3>3, <3>4 DEF Account
  <2> QED
    BY <2>1, AccountFactsNext
<1> QED
  BY <1>2, <1>3 DEF EventInv

\* What Count does to the account of each bit.
LEMMA CountFacts ==
  ASSUME due \in [Obj -> [Bits -> Int]], NEW o \in Obj, NEW bits, NEW by \in Int
  PROVE  LET d == Count(o, bits, by) IN
         /\ d \in [Obj -> [Bits -> Int]]
         /\ \A q \in Obj \ {o} : d[q] = due[q]
         /\ \A b \in Bits : d[o][b] = IF b \in bits THEN due[o][b] + by ELSE due[o][b]
<1> DEFINE g == [b \in Bits |-> IF b \in bits THEN due[o][b] + by ELSE due[o][b]]
           d == Count(o, bits, by)
<1>1. g \in [Bits -> Int]
  <2>1. \A b \in Bits : due[o][b] \in Int
    OBVIOUS
  <2> QED
    BY <2>1
<1>2. d = [due EXCEPT ![o] = g]
  BY DEF Count
<1>3. \A b \in Bits : g[b] = IF b \in bits THEN due[o][b] + by ELSE due[o][b]
  OBVIOUS
<1> HIDE DEF g, d
<1>4. d \in [Obj -> [Bits -> Int]] /\ d[o] = g /\ \A q \in Obj \ {o} : d[q] = due[q]
  BY <1>1, <1>2
<1> QED
  BY <1>3, <1>4 DEF d

-----------------------------------------------------------------------------
(* The calls *)

\* A call that finds what it wants.
LEMMA RecvAtOnce ==
  ASSUME EventInv, NEW o \in EventSet, NEW want \in SUBSET Bits, NEW opt \in Options, App,
         o \in live, on' = [on EXCEPT ![k.cur] = o],
         k' = [k EXCEPT !.error[k.cur] = "RT_EOK"],
         set' = [set EXCEPT ![o] = IF opt.clear THEN @ \ want ELSE @],
         due' = IF opt.clear THEN Count(o, set[o] \cap want, -1) ELSE due,
         UNCHANGED <<pc, event_set, option, live, phantom, event_flag>>
  PROVE  EventInv'
<1>1. /\ IpcInv /\ IpcTypeOK /\ live \subseteq Obj /\ Calm(k) /\ o \in Obj
      /\ event_flag \in [Obj -> {"FIFO", "PRIO"}]
      /\ set \in [Obj -> SUBSET Bits] /\ event_set \in [Thread -> SUBSET Bits]
      /\ option \in [Thread -> Options] /\ due \in [Obj -> [Bits -> Int]]
  BY EventFacts
<1>2. IpcInv' /\ SameGrants /\ k'.wait = k.wait
  <2>1. Goto("run")
    BY <1>1, AppFacts DEF Goto, IpcTypeOK
  <2>2. /\ Similar(k, k) /\ "RT_EOK" \in Errno /\ "run" \in Pc
        /\ live' \subseteq Obj /\ phantom' \in BOOLEAN
    BY <1>1, SimilarSelf DEF IpcTypeOK, Errno, Pc
  <2>3. k' \in {k, [k EXCEPT !.error[k.cur] = "RT_EOK"]}
    OBVIOUS
  <2> QED
    BY <1>1, <2>1, <2>2, <2>3, QuietCall
<1>3. /\ set'[o] = IF opt.clear THEN set[o] \ want ELSE set[o]
      /\ \A q \in Obj \ {o} : set'[q] = set[q]
      /\ set' \in [Obj -> SUBSET Bits]
  BY <1>1
<1>4. /\ due' \in [Obj -> [Bits -> Int]] /\ \A q \in Obj \ {o} : due'[q] = due[q]
      /\ \A b \in Bits : due'[o][b] = IF opt.clear /\ b \in set[o] \cap want
                                      THEN due[o][b] + (-1) ELSE due[o][b]
  <2>1. CASE opt.clear
    <3>1. due' = Count(o, set[o] \cap want, -1)
      BY <2>1
    <3> QED
      BY <1>1, <2>1, <3>1, CountFacts
  <2>2. CASE ~opt.clear
    BY <1>1, <2>2
  <2> QED
    BY <2>1, <2>2
<1>5. EventsTyped'
  BY <1>1, <1>2, <1>3, <1>4 DEF EventsTyped, IpcInv
<1>6. ElsewhereSame(o)
  BY <1>2, <1>3, <1>4 DEF ElsewhereSame, SameGrants
<1>7. ASSUME NEW t \in Thread, Member(t, k'.wait[o])
      PROVE  ~Satisfied(set'[o], event_set'[t], option'[t])
  <2>1. ~Satisfied(set[o], event_set[t], option[t])
    BY <1>2, <1>7 DEF EventInv, NoneMissed
  <2>2. set'[o] \subseteq set[o]
    BY <1>3
  <2> QED
    BY <2>1, <2>2, LessSatisfies
<1>8. ASSUME NEW b \in Bits PROVE Account(o, b)'
  <2>1. Takers(k, event_set, o, b)' = Takers(k, event_set, o, b)
    BY <1>1, <1>2, SameTakers DEF SameGrants
  <2>2. Cardinality(Takers(k, event_set, o, b)) + Bit(b, set[o]) = due[o][b]
    BY AccountFacts DEF EventInv, Account
  <2>3. Cardinality(Takers(k, event_set, o, b)) \in Nat /\ due[o][b] \in Int
    BY <1>1, TakersCount
  <2>4. Bit(b, set'[o]) = IF opt.clear /\ b \in set[o] \cap want THEN Bit(b, set[o]) + (-1)
                                                                  ELSE Bit(b, set[o])
    BY <1>3 DEF Bit
  <2>5. Bit(b, set[o]) \in Nat
    BY DEF Bit
  <2> DEFINE C == Cardinality(Takers(k, event_set, o, b))
  <2>6. C + Bit(b, set'[o]) = due'[o][b]
    <3> HIDE DEF C
    <3>1. C \in Nat /\ C + Bit(b, set[o]) = due[o][b]
      BY <2>2, <2>3 DEF C
    <3> QED
      BY ONLY <3>1, <2>3, <2>4, <2>5, <1>4, b \in Bits
  <2> QED
    BY <2>1, <2>6 DEF Account
<1> QED
  BY <1>1, <1>2, <1>5, <1>6, <1>7, <1>8, SetStep

\* A call that waits is not satisfied by the bits that are there.
LEMMA RecvBlocks ==
  ASSUME EventInv, NEW o \in EventSet, NEW want \in SUBSET Bits, NEW opt \in Options, NEW time,
         App, o \in live, on' = [on EXCEPT ![k.cur] = o],
         ~Satisfied(set[o], want, opt),
         event_set' = [event_set EXCEPT ![k.cur] = want],
         option' = [option EXCEPT ![k.cur] = opt],
         k' = Block(k, o, event_flag[o], time), Goto("block"),
         UNCHANGED <<set, due, live, phantom, event_flag>>
  PROVE  EventInv'
<1>1. /\ IpcInv /\ IpcTypeOK /\ live \subseteq Obj /\ Calm(k) /\ o \in Obj /\ k \in KernelState
      /\ event_flag \in [Obj -> {"FIFO", "PRIO"}] /\ Joined
      /\ set \in [Obj -> SUBSET Bits] /\ event_set \in [Thread -> SUBSET Bits]
      /\ option \in [Thread -> Options] /\ due \in [Obj -> [Bits -> Int]]
  BY EventFacts
<1>2. /\ IpcInv' /\ SameGrants
      /\ k'.wait = [k.wait EXCEPT ![o] = Queued(k.wait[o], k.cur, event_flag[o], k.prio)]
  <2>1. Similar(k, k) /\ live' = live /\ phantom' = phantom
    BY <1>1, SimilarSelf
  <2>2. PICK f : f = event_flag[o]
    OBVIOUS
  <2>3. /\ k' = Block(k, o, f, time) /\ Goto("block") /\ on' = [on EXCEPT ![k.cur] = o]
        /\ IpcInv /\ App /\ o \in Obj
    BY <1>1, <2>2
  <2>4. /\ IpcInv' /\ SameGrants /\ k'.prio = k.prio
        /\ k'.wait = [k.wait EXCEPT ![o] = Queued(k.wait[o], k.cur, f, k.prio)]
    BY ONLY <2>1, <2>3, BlockKeeps
  <2> QED
    BY <2>2, <2>4
<1>3. PICK c \in Thread : c = k.cur
  BY <1>1, AppFacts
<1>4. /\ event_set'[c] = want /\ option'[c] = opt
      /\ \A t \in Thread \ {c} : event_set'[t] = event_set[t] /\ option'[t] = option[t]
      /\ event_set' \in [Thread -> SUBSET Bits] /\ option' \in [Thread -> Options]
  BY <1>1, <1>3
<1>5. \A q \in Obj : ~Member(c, k.wait[q]) /\ ~Granted(c, q)
  BY <1>1, <1>3, AppFacts, AwakeUnlisted DEF Granted
<1>6. \A q \in Obj \ {o} : k'.wait[q] = k.wait[q]
  BY <1>1, <1>2 DEF KernelState
<1>7. \A t \in Thread : Member(t, k'.wait[o]) => Member(t, k.wait[o]) \/ t = c
  <2>1. /\ k.wait[o] \in Seq(Thread) /\ IsInjective(k.wait[o]) /\ k.prio \in [Thread -> Prio]
    BY <1>1 DEF KernelState, Calm, Lists, WaitListsSound
  <2>2. k'.wait[o] = Queued(k.wait[o], c, event_flag[o], k.prio)
    BY <1>1, <1>2, <1>3 DEF KernelState
  <2>3. PICK f : f = event_flag[o]
    OBVIOUS
  <2>4. \A v : Member(v, Queued(k.wait[o], c, f, k.prio)) <=> Member(v, k.wait[o]) \/ v = c
    BY <1>1, <1>5, <2>1, QueuedFacts
  <2> QED
    BY <2>2, <2>3, <2>4
<1>8. EventsTyped'
  BY <1>1, <1>2, <1>4 DEF EventsTyped, IpcInv
<1>9. ElsewhereSame(o)
  BY <1>2, <1>4, <1>5, <1>6 DEF ElsewhereSame, SameGrants
<1>10. ASSUME NEW t \in Thread, Member(t, k'.wait[o])
       PROVE  ~Satisfied(set'[o], event_set'[t], option'[t])
  <2>1. CASE t = c
    BY <1>4, <2>1
  <2>2. CASE t # c
    BY <1>4, <1>7, <1>10, <2>2 DEF EventInv, NoneMissed
  <2> QED
    BY <2>1, <2>2
<1>11. ASSUME NEW b \in Bits PROVE Account(o, b)'
  <2>1. \A t \in Thread : Granted(t, o) => event_set'[t] = event_set[t] /\ option'[t] = option[t]
    BY <1>1, <1>4, <1>5
  <2>2. Takers(k, event_set, o, b)' = Takers(k, event_set, o, b)
    BY <1>1, <1>2, <2>1, SameTakers DEF SameGrants
  <2>3. Account(o, b)
    BY AccountFacts DEF EventInv
  <2> QED
    BY <2>2, <2>3 DEF Account
<1> QED
  BY <1>1, <1>2, <1>8, <1>9, <1>10, <1>11, SetStep

\* RecvReturn: the bits a thread was granted have reached it.
LEMMA RecvReturnKeeps ==
  ASSUME EventInv, RecvReturn
  PROVE  EventInv'
<1>1. /\ IpcInv /\ IpcTypeOK /\ live \subseteq Obj /\ Calm(k) /\ k \in KernelState
      /\ event_flag \in [Obj -> {"FIFO", "PRIO"}]
      /\ set \in [Obj -> SUBSET Bits] /\ event_set \in [Thread -> SUBSET Bits]
      /\ option \in [Thread -> Options] /\ due \in [Obj -> [Bits -> Int]]
  BY EventFacts
<1>2. At("woken") /\ Goto("run") /\ UNCHANGED <<k, on, live, phantom, event_flag, set>>
  BY DEF RecvReturn
<1>3. /\ IpcInv'
      /\ k.cur \in Thread /\ k.stat[k.cur] = "RUNNING" /\ InCall(k.cur, on[k.cur])
      /\ on[k.cur] \in Obj
      /\ \A t \in Thread, q \in Obj : Granted(t, q)' <=> Granted(t, q) /\ t # k.cur
  BY <1>1, <1>2, ReturnKeeps
<1>4. PICK c \in Thread : c = k.cur
  BY <1>3
<1>5. PICK o \in Obj : o = on[c]
  BY <1>3, <1>4
<1>6. /\ event_set' = [event_set EXCEPT ![c] = {}]
      /\ option' = [option EXCEPT ![c] = NoOption]
      /\ due' = IF k.error[c] = "RT_EOK" /\ option[c].clear
                THEN Count(o, event_set[c], -1) ELSE due
  BY <1>4, <1>5 DEF RecvReturn
<1>7. /\ event_set' \in [Thread -> SUBSET Bits] /\ option' \in [Thread -> Options]
      /\ \A t \in Thread \ {c} : event_set'[t] = event_set[t] /\ option'[t] = option[t]
  BY <1>1, <1>6 DEF NoOption, Options
<1>8. /\ due' \in [Obj -> [Bits -> Int]] /\ \A q \in Obj \ {o} : due'[q] = due[q]
      /\ \A b \in Bits :
           due'[o][b] = IF k.error[c] = "RT_EOK" /\ option[c].clear /\ b \in event_set[c]
                        THEN due[o][b] + (-1) ELSE due[o][b]
  <2>1. CASE k.error[c] = "RT_EOK" /\ option[c].clear
    <3>1. due' = Count(o, event_set[c], -1)
      BY <1>6, <2>1
    <3> QED
      BY <1>1, <2>1, <3>1, CountFacts
  <2>2. CASE ~(k.error[c] = "RT_EOK" /\ option[c].clear)
    BY <1>1, <1>6, <2>2
  <2> QED
    BY <2>1, <2>2
<1>9. /\ \A q \in Obj : ~Member(c, k.wait[q])
      /\ \A q \in Obj : InCall(c, q) <=> q = o
      /\ k.stat[c] = "RUNNING"
  BY <1>1, <1>3, <1>4, <1>5, AwakeUnlisted DEF InCall
<1>10. EventsTyped'
  BY <1>1, <1>2, <1>3, <1>7, <1>8 DEF EventsTyped, IpcInv
<1>11. ElsewhereSame(o)
  <2>1. \A q \in Obj \ {o}, t \in Thread : Granted(t, q) => t # c
    BY <1>9 DEF Granted
  <2>2. \A q \in Obj, t \in Thread : Granted(t, q)' <=> Granted(t, q) /\ t # c
    BY <1>3, <1>4
  <2> QED
    BY <1>2, <1>7, <1>8, <1>9, <2>1, <2>2 DEF ElsewhereSame
<1>12. ASSUME o \in live' \cap EventSet, NEW t \in Thread, Member(t, k'.wait[o])
       PROVE  ~Satisfied(set'[o], event_set'[t], option'[t])
  <2>1. t # c /\ Member(t, k.wait[o]) /\ o \in live \cap EventSet /\ set' = set
    BY <1>2, <1>9, <1>12
  <2> QED
    BY <1>7, <2>1 DEF EventInv, NoneMissed
<1>13. ASSUME o \in live' \cap EventSet, NEW b \in Bits PROVE Account(o, b)'
  <2> DEFINE A == Takers(k, event_set, o, b)
             took == k.error[c] = "RT_EOK" /\ option[c].clear /\ b \in event_set[c]
  <2>1. \A t \in Thread : t \in A' <=> t \in A /\ t # c
    <3>1. \A t \in Thread : Granted(t, o)' <=> Granted(t, o) /\ t # c
      BY <1>3, <1>4
    <3>2. \A t \in Thread : t \in A <=> Granted(t, o) /\ option[t].clear /\ b \in event_set[t]
      BY DEF Takers, Granted
    <3>3. \A t \in Thread :
            t \in A' <=> Granted(t, o)' /\ option'[t].clear /\ b \in event_set'[t]
      BY DEF Takers, Granted
    <3> QED
      BY <3>1, <3>2, <3>3, <1>7
  <2>2. c \in A <=> took
    BY <1>9 DEF Takers
  <2>3. A' = A \ {c} /\ A \subseteq Thread /\ IsFiniteSet(A)
    <3>1. A \subseteq Thread /\ A' \subseteq Thread
      BY DEF Takers
    <3>2. IsFiniteSet(A)
      BY <3>1, IpcAssumption, FS_Subset
    <3> HIDE DEF A
    <3> QED
      BY <2>1, <3>1, <3>2
  <2>4. Cardinality(A) + Bit(b, set[o]) = due[o][b]
    <3>1. o \in live \cap EventSet
      BY <1>2, <1>13
    <3> QED
      BY <3>1, AccountFacts DEF EventInv, Account
  <2>5. Bit(b, set[o]) \in Nat /\ Cardinality(A) \in Nat /\ due[o][b] \in Int
    BY <1>1, TakersCount DEF Bit
  <2> HIDE DEF A, took
  <2>6. Cardinality(A') = IF took THEN Cardinality(A) - 1 ELSE Cardinality(A)
    <3>1. took => Cardinality(A \ {c}) = Cardinality(A) - 1
      BY <2>2, <2>3, FS_RemoveElement
    <3>2. ~took => A \ {c} = A
      BY <2>2
    <3> QED
      BY <2>3, <3>1, <3>2
  <2>7. due'[o][b] = IF took THEN due[o][b] + (-1) ELSE due[o][b]
    BY <1>8 DEF took
  <2>8. Cardinality(A') + Bit(b, set[o]) = due'[o][b]
    BY <2>4, <2>5, <2>6, <2>7
  <2> QED
    BY <1>2, <2>8 DEF Account, A
<1> QED
  BY <1>1, <1>3, <1>10, <1>11, <1>12, <1>13, SetStep

\* What a send leaves, before and after an rt_schedule.
LEMMA SentKeeps ==
  ASSUME EventInv, NEW o \in EventSet, NEW bits \in SUBSET Bits, NEW a,
         Sending(a, o, set[o] \cup bits, Len(k.wait[o])), Sent(o, bits, a),
         IpcInv', SameCalls, o \in live,
         \A t \in Thread, q \in Obj : Member(t, k'.wait[q]) <=> Member(t, a.k.wait[q]),
         \A t \in Thread : (k'.stat[t] = "SUSPEND" <=> a.k.stat[t] = "SUSPEND")
                           /\ k'.error[t] = a.k.error[t]
  PROVE  EventInv'
<1> DEFINE start == set[o] \cup bits
<1>1. /\ IpcInv /\ IpcTypeOK /\ live \subseteq Obj /\ Calm(k) /\ k \in KernelState /\ o \in Obj
      /\ event_flag \in [Obj -> {"FIFO", "PRIO"}] /\ Joined
      /\ set \in [Obj -> SUBSET Bits] /\ event_set \in [Thread -> SUBSET Bits]
      /\ option \in [Thread -> Options] /\ due \in [Obj -> [Bits -> Int]]
  BY EventFacts
<1>2. /\ set' = [set EXCEPT ![o] = a.set] /\ event_set' = a.event_set
      /\ due' = Count(o, bits \ set[o], 1)
      /\ on' = on /\ live' = live /\ event_flag' = event_flag /\ option' = option
  BY DEF Sent
<1>3. /\ Released(k, a.k) /\ a.k.error = k.error /\ Calm(a.k)
      /\ a.event_set \in [Thread -> SUBSET Bits] /\ a.set \subseteq start
      /\ \A t \in Thread :
           /\ ~Member(t, k.wait[o]) => /\ a.k.stat[t] = k.stat[t]
                                       /\ a.event_set[t] = event_set[t]
           /\ a.k.stat[t] = "SUSPEND" => a.event_set[t] = event_set[t]
  BY DEF Sending, Released
<1>4. /\ set' \in [Obj -> SUBSET Bits] /\ set'[o] = a.set
      /\ \A q \in Obj \ {o} : set'[q] = set[q]
  BY <1>1, <1>2, <1>3
<1>5. /\ due' \in [Obj -> [Bits -> Int]] /\ \A q \in Obj \ {o} : due'[q] = due[q]
      /\ \A b \in Bits : due'[o][b] = IF b \in bits \ set[o] THEN due[o][b] + 1 ELSE due[o][b]
  BY <1>1, <1>2, CountFacts
<1>6. EventsTyped'
  BY <1>1, <1>2, <1>3, <1>4, <1>5 DEF EventsTyped, IpcInv
<1>7. \A t \in Thread, q \in Obj : Granted(t, q)' <=>
        InCall(t, q) /\ a.k.stat[t] # "SUSPEND" /\ k.error[t] = "RT_EOK"
  BY <1>3 DEF Granted, SameCalls
<1>8. ASSUME NEW t \in Thread, Member(t, k.wait[o])
      PROVE  /\ k.stat[t] = "SUSPEND" /\ InCall(t, o)
             /\ \A q \in Obj : (Member(t, k.wait[q]) \/ InCall(t, q)) => q = o
  BY <1>1, <1>8 DEF Joined, Calm, Lists, WaitListsSound, InCall
<1>9. ElsewhereSame(o)
  <2>1. ASSUME NEW q \in Obj \ {o}, NEW t \in Thread
        PROVE  /\ Member(t, k'.wait[q]) => Member(t, k.wait[q])
               /\ Granted(t, q)' <=> Granted(t, q)
               /\ Member(t, k'.wait[q]) \/ Granted(t, q) => a.event_set[t] = event_set[t]
    <3>1. Member(t, k'.wait[q]) => Member(t, k.wait[q])
      BY <1>3 DEF Released
    <3>2. CASE Member(t, k.wait[o])
      <4>1. ~Member(t, k.wait[q]) /\ ~InCall(t, q)
        BY <1>8, <3>2
      <4> QED
        BY <3>1, <4>1, <1>7 DEF Granted
    <3>3. CASE ~Member(t, k.wait[o])
      BY <3>1, <3>3, <1>3, <1>7 DEF Granted
    <3> QED
      BY <3>2, <3>3
  <2> QED
    BY <1>2, <1>4, <1>5, <2>1 DEF ElsewhereSame
<1>10. ASSUME NEW t \in Thread, Member(t, k'.wait[o])
       PROVE  ~Satisfied(set'[o], event_set'[t], option'[t])
  <2>1. Member(t, k.wait[o]) /\ a.k.stat[t] = "SUSPEND"
    <3>1. Member(t, a.k.wait[o])
      BY <1>1, <1>10
    <3> QED
      BY <1>1, <1>3, <3>1 DEF Released, Calm, Lists, WaitListsSound
  <2>2. PICK w \in Seq(Thread) : w = k.wait[o]
    BY <1>1 DEF KernelState
  <2>3. PICK i \in DOMAIN w : w[i] = t
    BY <2>1, <2>2 DEF Member
  <2>4. i \in Nat /\ ~(i > Len(w))
    BY <2>2, <2>3
  <2>5. ~Satisfied(a.set, event_set[t], option[t])
    BY <2>1, <2>2, <2>3, <2>4 DEF Sending
  <2> QED
    BY <1>2, <1>3, <1>4, <2>1, <2>5
<1>11. ASSUME NEW b \in Bits PROVE (o \in live' \cap EventSet) => Account(o, b)'
  <2>1. Takers(k, event_set, o, b)' = Takers(a.k, a.event_set, o, b)
    BY <1>1, <1>2, <1>3, <1>7 DEF Takers, Granted, SameCalls
  <2>2. Cardinality(Takers(a.k, a.event_set, o, b)) + Bit(b, a.set)
          = Cardinality(Takers(k, event_set, o, b)) + Bit(b, start)
    BY DEF Sending
  <2>3. Cardinality(Takers(k, event_set, o, b)) + Bit(b, set[o]) = due[o][b]
    BY AccountFacts DEF EventInv, Account
  <2>4. Bit(b, start) = Bit(b, set[o]) + (IF b \in bits \ set[o] THEN 1 ELSE 0)
    BY DEF Bit
  <2>5. /\ Bit(b, set[o]) \in Nat /\ due[o][b] \in Int
        /\ Cardinality(Takers(k, event_set, o, b)) \in Nat
    BY <1>1, TakersCount DEF Bit
  <2> DEFINE C == Cardinality(Takers(k, event_set, o, b))
             D == Cardinality(Takers(a.k, a.event_set, o, b)) + Bit(b, a.set)
  <2>6. /\ D = C + Bit(b, start) /\ C + Bit(b, set[o]) = due[o][b]
        /\ C \in Nat
    BY <2>2, <2>3, <2>5
  <2> HIDE DEF C, D
  <2>7. D = due'[o][b]
    BY ONLY <2>6, <2>4, <2>5, <1>5, b \in Bits
  <2> QED
    BY <1>4, <2>1, <2>7 DEF Account, D
<1> QED
  BY <1>1, <1>6, <1>9, <1>10, <1>11, SetStep

LEMMA EventSendKeeps ==
  ASSUME EventInv, NEW o \in EventSet, NEW bits \in SUBSET Bits, rt_event_send(o, bits)
  PROVE  EventInv'
<1> DEFINE a == SendSection(o, bits)
<1>1. /\ IpcInv /\ IpcTypeOK /\ live \subseteq Obj /\ o \in Obj /\ EventsTyped
  BY EventFacts DEF EventInv
<1>2. /\ App /\ o \in live /\ k' = a.k /\ Sent(o, bits, a)
      /\ on' = on /\ live' = live /\ phantom' = phantom
  BY DEF rt_event_send, Sent
<1>3. PICK label \in {"sched", "run"} : Goto(label)
  BY DEF rt_event_send
<1>4. Sending(a, o, set[o] \cup bits, Len(k.wait[o]))
  BY <1>1, SendFacts
<1> HIDE DEF a
<1>5. k.lock = 0 /\ k.cur # Idle /\ pc[k.cur] = "run"
  BY <1>1, <1>2, AppFacts
<1>6. Released(k, k')
  BY <1>2, <1>4 DEF Sending
<1>7. Calm(k') /\ k'.lock = 0 /\ k'.cur = k.cur /\ Eased(k, k')
  BY <1>5, <1>6, ReleasedEased DEF Released
<1>8. IpcInv' /\ SameCalls
  <2>1. /\ label \in Pc /\ label \notin {"block", "sleep", "woken"}
        /\ pc[k.cur] \notin {"block", "sleep", "woken"}
        /\ on' \in {on, [on EXCEPT ![k.cur] = o]}
        /\ live' \subseteq Obj /\ phantom' \in BOOLEAN
    BY <1>1, <1>2, <1>5 DEF Pc, IpcTypeOK
  <2> QED
    BY <1>1, <1>3, <1>5, <1>7, <2>1, CallerStep
<1> QED
  BY <1>2, <1>4, <1>8, SentKeeps

LEMMA IsrEventSendKeeps ==
  ASSUME EventInv, NEW o \in EventSet, NEW bits \in SUBSET Bits, IsrEventSend(o, bits)
  PROVE  EventInv'
<1> DEFINE a == SendSection(o, bits)
<1>1. /\ IpcInv /\ IpcTypeOK /\ live \subseteq Obj /\ o \in Obj /\ EventsTyped
  BY EventFacts DEF EventInv
<1>2. /\ o \in live /\ k' = (IF a.k # k THEN rt_schedule(a.k) ELSE k) /\ Sent(o, bits, a)
      /\ pc' = pc /\ on' = on /\ live' = live /\ phantom' = phantom
  BY DEF IsrEventSend, Sent
<1>3. Sending(a, o, set[o] \cup bits, Len(k.wait[o]))
  BY <1>1, SendFacts
<1> HIDE DEF a
<1>4. Released(k, a.k)
  BY <1>3 DEF Sending
<1>5. k.lock = 0 /\ Calm(a.k) /\ a.k.lock = 0 /\ Eased(k, a.k)
  BY <1>1, <1>4, ReleasedEased DEF Released, IpcInv
<1>6. CASE a.k = k
  <2>1. k' = k /\ SameCalls
    BY <1>2, <1>6 DEF SameCalls, InCall
  <2>2. IpcInv'
    BY <1>1, <1>2, <2>1 DEF IpcInv, IpcTypeOK, Joined, InCall
  <2> QED
    BY <1>2, <1>3, <1>6, <2>1, <2>2, SentKeeps
<1>7. CASE a.k # k
  <2>1. k' = rt_schedule(a.k)
    BY <1>2, <1>7
  <2>2. UNCHANGED <<pc, on>> /\ live' \subseteq Obj /\ phantom' \in BOOLEAN
    BY <1>1, <1>2 DEF IpcTypeOK
  <2>3. IpcInv' /\ SameCalls
    BY <1>1, <1>5, <2>1, <2>2, InterruptKeeps
  <2>4. Unscheduled(a.k, k')
    BY <1>5, <2>1, ScheduleCalm
  <2> QED
    BY <1>2, <1>3, <2>3, <2>4, SentKeeps DEF Unscheduled
<1> QED
  BY <1>6, <1>7

\* RT_IPC_CMD_RESET and the set-up of an event set: no bit is left, nobody waits,
\* and what is due is what has been granted.
LEMMA ClearedKeeps ==
  ASSUME EventInv, NEW o \in EventSet, IpcInv', SameGrants, WaitsEased, k'.wait[o] = <<>>,
         live' \subseteq live \cup {o},
         set' = [set EXCEPT ![o] = {}],
         due' = [due EXCEPT ![o] = [b \in Bits |-> Cardinality(Promised(o, b))]],
         event_flag' \in [Obj -> {"FIFO", "PRIO"}], event_set' = event_set, option' = option
  PROVE  EventInv'
<1>1. /\ IpcInv /\ IpcTypeOK /\ live \subseteq Obj /\ o \in Obj
      /\ set \in [Obj -> SUBSET Bits] /\ event_set \in [Thread -> SUBSET Bits]
      /\ option \in [Thread -> Options] /\ due \in [Obj -> [Bits -> Int]]
  BY EventFacts
<1>2. /\ set' \in [Obj -> SUBSET Bits] /\ set'[o] = {}
      /\ \A q \in Obj \ {o} : set'[q] = set[q]
  BY <1>1
<1>3. \A b : Promised(o, b) = Takers(k, event_set, o, b)
  BY DEF Promised, Takers, Granted
<1>4. [b \in Bits |-> Cardinality(Promised(o, b))] \in [Bits -> Int]
  BY <1>3, TakersCount
<1>5. /\ due' \in [Obj -> [Bits -> Int]]
      /\ \A q \in Obj \ {o} : due'[q] = due[q]
      /\ \A b \in Bits : due'[o][b] = Cardinality(Takers(k, event_set, o, b))
  BY <1>1, <1>3, <1>4
<1>6. EventsTyped'
  BY <1>1, <1>2, <1>5 DEF EventsTyped, IpcInv
<1>7. \A t \in Thread : ~Member(t, k'.wait[o])
  BY DEF Member
<1>8. NoneMissed'
  <2>1. ASSUME NEW q \in live' \cap EventSet, NEW t \in Thread, Member(t, k'.wait[q])
        PROVE  ~Satisfied(set'[q], event_set'[t], option'[t])
    <3>1. q # o
      BY <1>7, <2>1
    <3>2. q \in live \cap EventSet /\ q \in Obj
      BY <1>1, <2>1, <3>1
    <3>3. Member(t, k.wait[q]) /\ set'[q] = set[q]
      BY <1>2, <2>1, <3>1, <3>2 DEF WaitsEased
    <3> QED
      BY <3>2, <3>3 DEF EventInv, NoneMissed
  <2> QED
    BY <2>1 DEF NoneMissed
<1>9. BitsOnce'
  <2>1. ASSUME NEW q \in live' \cap EventSet, NEW b \in Bits PROVE Account(q, b)'
    <3>1. q \in Obj
      BY <1>1, <2>1
    <3>2. Takers(k, event_set, q, b)' = Takers(k, event_set, q, b)
      BY <3>1, SameTakers DEF SameGrants
    <3>3. CASE q = o
      <4>1. Bit(b, set'[o]) = 0
        BY <1>2 DEF Bit
      <4> QED
        BY <1>5, <3>2, <3>3, <4>1, TakersCount DEF Account
    <3>4. CASE q # o
      <4>1. q \in live \cap EventSet
        BY <2>1, <3>4
      <4>2. Account(q, b) /\ due'[q] = due[q] /\ set'[q] = set[q]
        BY <1>2, <1>5, <3>1, <3>4, <4>1, AccountFacts DEF EventInv
      <4> QED
        BY <3>2, <4>2 DEF Account
    <3> QED
      BY <3>3, <3>4
  <2> QED
    BY <2>1, AccountFactsNext
<1> QED
  BY <1>6, <1>8, <1>9 DEF EventInv

LEMMA EventInitKeeps ==
  ASSUME EventInv, NEW o \in EventSet, NEW f \in {"FIFO", "PRIO"}, rt_event_init(o, f)
  PROVE  EventInv'
<1>1. o \in Obj /\ IpcInv /\ event_flag \in [Obj -> {"FIFO", "PRIO"}]
  BY EventFacts
<1>2. InitObject(o)
  BY DEF rt_event_init
<1>3. /\ IpcInv' /\ SameGrants /\ WaitsEased /\ k' = k /\ k.wait[o] = <<>>
      /\ \A t \in Thread : ~InCall(t, o)
  BY <1>1, <1>2, InitObjectKeeps
<1>4. \A b \in Bits : Cardinality(Promised(o, b)) = 0
  <2>1. \A b : Promised(o, b) = {}
    BY <1>3 DEF Promised, Granted
  <2> QED
    BY <2>1, FS_EmptySet
<1>5. [b \in Bits |-> Cardinality(Promised(o, b))] = [b \in Bits |-> 0]
  BY <1>4
<1>6. /\ due' = [due EXCEPT ![o] = [b \in Bits |-> Cardinality(Promised(o, b))]]
      /\ set' = [set EXCEPT ![o] = {}] /\ event_flag' \in [Obj -> {"FIFO", "PRIO"}]
      /\ event_set' = event_set /\ option' = option /\ live' \subseteq live \cup {o}
      /\ k'.wait[o] = <<>>
  BY <1>1, <1>3, <1>5 DEF rt_event_init, InitObject
<1> QED
  BY <1>3, <1>6, ClearedKeeps

LEMMA EventControlKeeps ==
  ASSUME EventInv, NEW o \in EventSet, rt_event_control(o)
  PROVE  EventInv'
<1>1. o \in Obj /\ IpcInv /\ event_flag \in [Obj -> {"FIFO", "PRIO"}]
  BY EventFacts
<1>2. /\ App /\ k' = ResumeEveryone(k, o) /\ Goto("sched")
      /\ on' = on /\ live' = live /\ phantom' = phantom
  BY DEF rt_event_control
<1>3. IpcInv' /\ SameGrants /\ WaitsEased /\ k'.wait[o] = <<>>
  BY <1>1, <1>2, ControlKeeps
<1>4. /\ due' = [due EXCEPT ![o] = [b \in Bits |-> Cardinality(Promised(o, b))]]
      /\ set' = [set EXCEPT ![o] = {}] /\ event_flag' \in [Obj -> {"FIFO", "PRIO"}]
      /\ event_set' = event_set /\ option' = option /\ live' \subseteq live \cup {o}
  BY <1>1 DEF rt_event_control
<1> QED
  BY <1>3, <1>4, ClearedKeeps

LEMMA RecvKeeps ==
  ASSUME EventInv, NEW o \in EventSet, NEW want \in Wanted, NEW opt \in Options,
         NEW time \in Timeouts, rt_event_recv(o, want, opt, time)
  PROVE  EventInv'
<1>1. want \in SUBSET Bits
  BY DEF Wanted
<1>2. /\ App /\ o \in live /\ on' = [on EXCEPT ![k.cur] = o]
      /\ live' = live /\ phantom' = phantom /\ event_flag' = event_flag
  BY DEF rt_event_recv
<1>3. CASE /\ Satisfied(set[o], want, opt)
           /\ k' = [k EXCEPT !.error[k.cur] = "RT_EOK"]
           /\ set' = [set EXCEPT ![o] = IF opt.clear THEN @ \ want ELSE @]
           /\ due' = IF opt.clear THEN Count(o, set[o] \cap want, -1) ELSE due
           /\ UNCHANGED <<pc, event_set, option>>
  <2>1. UNCHANGED <<pc, event_set, option, live, phantom, event_flag>>
    BY <1>2, <1>3
  <2> QED
    BY <1>1, <1>2, <1>3, <2>1, RecvAtOnce
<1>4. CASE /\ k' = [k EXCEPT !.error[k.cur] = "RT_ETIMEOUT"]
           /\ UNCHANGED <<pc, set, event_set, option, due>>
  <2>1. /\ IpcInv /\ IpcTypeOK /\ o \in Obj /\ Calm(k) /\ k \in KernelState
    BY EventFacts
  <2>2. Goto("run")
    BY <1>2, <1>4, <2>1, AppFacts DEF Goto, IpcTypeOK
  <2>3. /\ Similar(k, k) /\ "RT_ETIMEOUT" \in Errno /\ "run" \in Pc
        /\ live' \subseteq Obj /\ phantom' \in BOOLEAN
        /\ k' \in {k, [k EXCEPT !.error[k.cur] = "RT_ETIMEOUT"]}
    BY <1>2, <1>4, <2>1, SimilarSelf DEF IpcTypeOK, Errno, Pc
  <2>4. IpcInv' /\ SameGrants /\ k'.prio = k.prio /\ k'.wait = k.wait
    BY <1>2, <2>1, <2>2, <2>3, QuietCall
  <2>5. WaitsEased /\ UNCHANGED events
    BY <1>2, <1>4, <2>4 DEF WaitsEased, InPrioOrder, events
  <2> QED
    BY <1>2, <2>4, <2>5, QuietEvents
<1>5. CASE /\ ~Satisfied(set[o], want, opt)
           /\ event_set' = [event_set EXCEPT ![k.cur] = want]
           /\ option' = [option EXCEPT ![k.cur] = opt]
           /\ k' = Block(k, o, event_flag[o], time)
           /\ Goto("block")
           /\ UNCHANGED <<set, due>>
  <2>1. UNCHANGED <<set, due, live, phantom, event_flag>>
    BY <1>2, <1>5
  <2> QED
    BY <1>1, <1>2, <1>5, <2>1, RecvBlocks
<1> QED
  BY <1>3, <1>4, <1>5 DEF rt_event_recv

-----------------------------------------------------------------------------
(* The theorems of the events *)

LEMMA EventsNextKeep == EventInv /\ [EventsNext]_eventVars => EventInv'
<1> SUFFICES ASSUME EventInv, [EventsNext]_eventVars PROVE EventInv'
  OBVIOUS
<1>1. IpcInv /\ EventSet \subseteq Obj
  BY EventFacts
<1>2. ASSUME NEW o \in EventSet,
             \/ \E want \in Wanted, opt \in Options, time \in Timeouts :
                  rt_event_recv(o, want, opt, time)
             \/ \E bits \in Wanted : rt_event_send(o, bits) \/ IsrEventSend(o, bits)
             \/ rt_event_control(o)
             \/ \E f \in {"FIFO", "PRIO"} : rt_event_init(o, f)
      PROVE  EventInv'
  BY <1>2, RecvKeeps, EventSendKeeps, IsrEventSendKeeps, EventControlKeeps, EventInitKeeps
     DEF Wanted
<1>3. ASSUME NEW o \in EventSet, rt_event_detach(o) PROVE EventInv'
  <2>1. DetachBegin(o) /\ UNCHANGED events /\ o \in Obj /\ live' \subseteq live
    BY <1>1, <1>3 DEF rt_event_detach, DetachBegin
  <2> QED
    BY <1>1, <2>1, DetachBeginKeeps, QuietEvents
<1>4. CASE RecvReturn
  BY <1>4, RecvReturnKeeps
<1>5. CASE (ResumeAllTest \/ _ipc_list_resume_all \/ Background) /\ UNCHANGED events
  <2>1. IpcInv' /\ SameGrants /\ WaitsEased
    BY <1>1, <1>5, ResumeAllTestKeeps, ResumeAllKeeps, BackgroundKeeps
  <2>2. live' = live
    BY <1>5 DEF ResumeAllTest, _ipc_list_resume_all, Background, Reschedule, Delay,
                SliceEnd, Timeout
  <2> QED
    BY <1>5, <2>1, <2>2, QuietEvents
<1>6. CASE UNCHANGED eventVars
  <2>1. /\ k' = k /\ pc' = pc /\ on' = on /\ live' = live /\ phantom' = phantom
        /\ UNCHANGED events
    BY <1>6 DEF eventVars, ipc
  <2>2. IpcInv' /\ SameGrants /\ WaitsEased
    BY <1>1, <2>1 DEF IpcInv, IpcTypeOK, Joined, InCall, SameGrants, Granted, WaitsEased,
                      InPrioOrder
  <2> QED
    BY <2>1, <2>2, QuietEvents
<1> QED
  BY <1>2, <1>3, <1>4, <1>5, <1>6 DEF EventsNext

LEMMA EventsInitInv == EventsInit => EventInv
<1> SUFFICES ASSUME EventsInit PROVE EventInv
  OBVIOUS
<1>1. /\ IpcInit /\ event_flag \in [Obj -> {"FIFO", "PRIO"}]
      /\ set = [o \in Obj |-> {}] /\ event_set = [t \in Thread |-> {}]
      /\ option = [t \in Thread |-> NoOption]
      /\ due = [o \in Obj |-> [b \in Bits |-> 0]]
  BY DEF EventsInit
<1>2. /\ IpcInv /\ \A o \in Obj : k.wait[o] = <<>>
      /\ \A t \in Thread, o \in Obj : ~InCall(t, o)
  BY <1>1, InitKeeps
<1>3. live \subseteq Obj
  BY <1>2 DEF IpcInv, IpcTypeOK
<1>4. EventsTyped
  BY <1>1, <1>2 DEF EventsTyped, IpcInv, NoOption, Options
<1>5. NoneMissed
  BY <1>2, <1>3 DEF NoneMissed, Member
<1>6. BitsOnce
  <2>1. ASSUME NEW o \in live \cap EventSet, NEW b \in Bits PROVE Account(o, b)
    <3>1. Takers(k, event_set, o, b) = {}
      BY <1>2, <1>3, <2>1 DEF Takers
    <3>2. o \in Obj /\ Bit(b, set[o]) = 0 /\ due[o][b] = 0
      BY <1>1, <1>3, <2>1 DEF Bit
    <3> QED
      BY <3>1, <3>2, FS_EmptySet DEF Account
  <2> QED
    BY <2>1, AccountFacts
<1> QED
  BY <1>2, <1>4, <1>5, <1>6 DEF EventInv

LEMMA EventInvariant == EventsSpec => []EventInv
<1> QED
  BY EventsInitInv, EventsNextKeep, PTL DEF EventsSpec

\* rt_event_send and rt_event_recv, from whatever threads, interrupts and
\* timeouts: nobody is left waiting for bits that are there, and a bit received
\* with RT_EVENT_FLAG_CLEAR is received once for each time it was raised.
THEOREM EventsServe == EventsSpec => []EventsServed
<1>1. EventInv => NoMissedEvent
  BY MissedFacts DEF EventInv
<1>2. EventInv => BitsOnce
  BY DEF EventInv
<1> QED
  BY <1>1, <1>2, EventInvariant, PTL DEF EventsServed

\* Every wait in rt_event_recv ends one way only.
THEOREM EventsAnswer == EventsSpec => []OneAnswer
<1>1. EventInv => OneAnswer
  BY InvOneAnswer DEF EventInv
<1> QED
  BY <1>1, EventInvariant, PTL

\* Sets, options and what is due keep their types.
THEOREM EventsTypes == EventsSpec => []EventsTyped
<1>1. EventInv => EventsTyped
  BY DEF EventInv
<1> QED
  BY <1>1, EventInvariant, PTL

-----------------------------------------------------------------------------
(* The completions *)

\* Nobody but its waiter is in a call on a completion.
OneWaits == \A t \in Thread, o \in Completions : InCall(t, o) => t = Waiter[o]

CompletionInv == IpcInv /\ CompletionTyped /\ OneWaits /\ DoneIsSeen

LEMMA CompletionFacts ==
  ASSUME CompletionInv
  PROVE  /\ IpcInv /\ IpcTypeOK /\ live \subseteq Obj /\ Calm(k) /\ k \in KernelState /\ Joined
         /\ Completions \subseteq Obj /\ completed \in [Obj -> BOOLEAN]
BY CurRuns, CompletionAssumption DEF CompletionInv, CompletionTyped, IpcInv, IpcTypeOK

\* The steps that all the services share end or begin no call.
LEMMA BackgroundCalls ==
  ASSUME IpcInv, Background
  PROVE  SameCalls
<1>1. IpcTypeOK /\ k.cur \in Thread
  BY CurRuns DEF IpcInv
<1>2. CASE Reschedule
  <2>1. /\ on' = on
        /\ \/ At("sched") /\ Goto("run")
           \/ At("block") /\ Goto("woken")
           \/ At("sleep") /\ Goto("run")
    BY <1>2 DEF Reschedule
  <2> QED
    BY <1>1, <2>1 DEF At, Goto, IpcTypeOK, SameCalls, InCall
<1>3. CASE Delay
  <2>1. on' = on /\ At("run") /\ Goto("sleep")
    BY <1>3 DEF Delay, App
  <2> QED
    BY <1>1, <2>1 DEF At, Goto, IpcTypeOK, SameCalls, InCall
<1>4. CASE SliceEnd \/ \E t \in Thread : Timeout(t)
  BY <1>4 DEF SliceEnd, Timeout, SameCalls, InCall
<1> QED
  BY <1>2, <1>3, <1>4 DEF Background

\* Nobody else is granted anything, and no completion but o is taken or given.
LEMMA TakenStep ==
  ASSUME CompletionInv, IpcInv', NEW o \in Completions, NEW c \in Thread, c = Waiter[o],
         completed' = [completed EXCEPT ![o] = FALSE],
         \A t \in Thread, q \in Obj : t # c => (InCall(t, q)' <=> InCall(t, q)),
         \A q \in Obj : InCall(c, q)' => q = o,
         \A t \in Thread, q \in Obj : Granted(t, q)' => Granted(t, q) /\ t # c,
         \A q \in Obj \ {o} : k'.wait[q] = k.wait[q]
  PROVE  CompletionInv'
<1>1. /\ completed \in [Obj -> BOOLEAN] /\ Completions \subseteq Obj
  BY CompletionFacts
<1>2. /\ completed' \in [Obj -> BOOLEAN] /\ completed'[o] = FALSE
      /\ \A q \in Obj \ {o} : completed'[q] = completed[q]
  BY <1>1
<1>3. OneWaits'
  BY <1>1 DEF CompletionInv, OneWaits
<1>4. ASSUME NEW q \in Completions
      PROVE  /\ completed'[q] => k'.wait[q] = <<>>
             /\ \A t \in Thread : Granted(t, q)' => completed'[q]
  <2>1. CASE q = o
    <3>1. \A t \in Thread : Granted(t, o) => t = c
      BY DEF CompletionInv, OneWaits, Granted
    <3> QED
      BY <1>1, <1>2, <2>1, <3>1
  <2>2. CASE q # o
    BY <1>1, <1>2, <2>2 DEF CompletionInv, DoneIsSeen
  <2> QED
    BY <2>1, <2>2
<1> QED
  BY <1>2, <1>3, <1>4 DEF CompletionInv, CompletionTyped, IpcInv, DoneIsSeen

LEMMA CompletionWaitKeeps ==
  ASSUME CompletionInv, NEW o \in Completions, NEW time \in Timeouts, rt_completion_wait(o, time)
  PROVE  CompletionInv'
<1>1. /\ IpcInv /\ IpcTypeOK /\ live \subseteq Obj /\ Calm(k) /\ k \in KernelState /\ o \in Obj
  BY CompletionFacts
<1>2. /\ App /\ on' = [on EXCEPT ![k.cur] = o] /\ live' = live /\ phantom' = phantom
      /\ k.cur = Waiter[o] /\ completed' = [completed EXCEPT ![o] = FALSE]
  BY DEF rt_completion_wait
<1>3. PICK c \in Thread : c = k.cur
  BY <1>1, <1>2, AppFacts
<1>4. \A t \in Thread : t # c => on'[t] = on[t]
  BY <1>1, <1>2, <1>3 DEF IpcTypeOK
<1>5. \A q \in Obj : ~Granted(c, q) /\ ~InCall(c, q)
  BY <1>1, <1>2, <1>3, AppFacts DEF Granted
<1>6. CASE k' = k /\ pc' = pc
  <2>1. Goto("run")
    BY <1>1, <1>2, <1>6, AppFacts DEF Goto, IpcTypeOK
  <2>2. /\ Similar(k, k) /\ "RT_EOK" \in Errno /\ "run" \in Pc
        /\ live' \subseteq Obj /\ phantom' \in BOOLEAN
    BY <1>1, <1>2, SimilarSelf DEF IpcTypeOK, Errno, Pc
  <2>3. IpcInv' /\ SameGrants /\ k'.prio = k.prio /\ k'.wait = k.wait
    BY <1>1, <1>2, <1>6, <2>1, <2>2, QuietCall
  <2>4. /\ \A t \in Thread, q \in Obj : t # c => (InCall(t, q)' <=> InCall(t, q))
        /\ \A q \in Obj : ~InCall(c, q)'
    BY <1>2, <1>3, <1>4, <1>6 DEF InCall, App, At
  <2>5. \A t \in Thread, q \in Obj : Granted(t, q)' => Granted(t, q) /\ t # c
    BY <1>5, <2>3 DEF SameGrants
  <2> QED
    BY <1>2, <1>3, <2>3, <2>4, <2>5, TakenStep
<1>7. CASE k' = Block(k, o, "FIFO", time) /\ Goto("block")
  <2>1. PICK f : f = "FIFO"
    OBVIOUS
  <2>2. k' = Block(k, o, f, time) /\ Similar(k, k)
    BY <1>1, <1>7, <2>1, SimilarSelf
  <2>8. /\ Goto("block") /\ on' = [on EXCEPT ![k.cur] = o] /\ IpcInv /\ App /\ o \in Obj
        /\ live' = live /\ phantom' = phantom
    BY <1>1, <1>2, <1>7
  <2>3. /\ IpcInv' /\ SameGrants /\ k'.prio = k.prio
        /\ k'.wait = [k.wait EXCEPT ![o] = Queued(k.wait[o], k.cur, f, k.prio)]
    BY ONLY <2>2, <2>8, BlockKeeps
  <2>4. \A q \in Obj \ {o} : k'.wait[q] = k.wait[q]
    BY <1>1, <2>3 DEF KernelState
  <2>5. /\ pc'[c] = "block" /\ on'[c] = o
        /\ \A t \in Thread : t # c => pc'[t] = pc[t]
    BY <1>1, <1>2, <1>3, <1>7 DEF Goto, IpcTypeOK
  <2>6. /\ \A t \in Thread, q \in Obj : t # c => (InCall(t, q)' <=> InCall(t, q))
        /\ \A q \in Obj : InCall(c, q)' => q = o
    BY <1>4, <2>5 DEF InCall
  <2>7. \A t \in Thread, q \in Obj : Granted(t, q)' => Granted(t, q) /\ t # c
    BY <1>5, <2>3 DEF SameGrants
  <2> QED
    BY <1>2, <1>3, <2>3, <2>4, <2>6, <2>7, TakenStep
<1> QED
  BY <1>6, <1>7 DEF rt_completion_wait

\* A completion that was granted has reached its thread, or it has given up.
LEMMA WaitReturnKeeps ==
  ASSUME CompletionInv, WaitReturn
  PROVE  CompletionInv'
<1>1. /\ IpcInv /\ IpcTypeOK /\ completed \in [Obj -> BOOLEAN] /\ Completions \subseteq Obj
  BY CompletionFacts
<1>2. /\ At("woken") /\ Goto("run") /\ k' = k /\ on' = on /\ live' = live /\ phantom' = phantom
      /\ completed' = [completed EXCEPT ![on[k.cur]] = FALSE]
  BY DEF WaitReturn
<1>3. /\ IpcInv' /\ WaitsEased
      /\ k.cur \in Thread /\ k.stat[k.cur] = "RUNNING" /\ InCall(k.cur, on[k.cur])
      /\ on[k.cur] \in Obj
      /\ \A t \in Thread, q \in Obj : Granted(t, q)' <=> Granted(t, q) /\ t # k.cur
  BY <1>1, <1>2, ReturnKeeps
<1>4. PICK c \in Thread, o \in Obj : c = k.cur /\ o = on[k.cur]
  BY <1>3
<1>5. /\ \A t \in Thread, q \in Obj : t # c => (InCall(t, q)' <=> InCall(t, q))
      /\ \A q \in Obj : ~InCall(c, q)'
  BY <1>1, <1>2, <1>4 DEF InCall, Goto, IpcTypeOK
<1>6. CASE o \in Completions
  <2>1. c = Waiter[o]
    BY <1>3, <1>4, <1>6 DEF CompletionInv, OneWaits
  <2> QED
    BY <1>2, <1>3, <1>4, <1>5, <1>6, <2>1, TakenStep
<1>7. CASE o \notin Completions
  <2>1. completed' \in [Obj -> BOOLEAN] /\ \A q \in Completions : completed'[q] = completed[q]
    BY <1>1, <1>2, <1>4, <1>7
  <2>2. OneWaits' /\ DoneIsSeen'
    BY <1>1, <1>2, <1>3, <1>4, <1>5, <2>1 DEF CompletionInv, OneWaits, DoneIsSeen
  <2> QED
    BY <1>3, <2>1, <2>2 DEF CompletionInv, CompletionTyped, IpcInv
<1> QED
  BY <1>6, <1>7

-----------------------------------------------------------------------------
(* Completing *)

\* The one that waits is resumed, if somebody does, and the completion is set.
LEMMA GivenStep ==
  ASSUME CompletionInv, IpcInv', SameCalls, WaitsEased, NEW o \in Obj,
         completed' = [completed EXCEPT ![o] = TRUE],
         k.wait[o] # <<>> => GrantsTo(Head(k.wait[o]), o),
         k.wait[o] = <<>> => SameGrants
  PROVE  CompletionInv'
<1>1. /\ IpcInv /\ Calm(k) /\ Joined /\ k \in KernelState
      /\ completed \in [Obj -> BOOLEAN] /\ Completions \subseteq Obj
  BY CompletionFacts
<1>2. Calm(k') /\ Joined' /\ k' \in KernelState
  BY DEF IpcInv, IpcTypeOK
<1>3. /\ completed' \in [Obj -> BOOLEAN] /\ completed'[o] = TRUE
      /\ \A q \in Obj : completed[q] => completed'[q]
      /\ \A q \in Obj : q # o => completed'[q] = completed[q]
  BY <1>1
<1>4. OneWaits'
  BY <1>1 DEF CompletionInv, OneWaits, SameCalls
<1>5. \A t \in Thread, q \in Obj : Granted(t, q)' => Granted(t, q) \/ q = o
  BY DEF GrantsTo, SameGrants
<1>6. o \in Completions => k'.wait[o] = <<>>
  <2>1. CASE k.wait[o] = <<>>
    BY <2>1 DEF WaitsEased
  <2>2. CASE k.wait[o] # <<>> /\ o \in Completions
    <3>1. PICK h \in Thread : h = Head(k.wait[o]) /\ Member(h, k.wait[o])
      BY <1>1, <2>2, HeadFacts
    <3>2. h = Waiter[o] /\ Granted(h, o)'
      BY <1>1, <2>2, <3>1 DEF CompletionInv, OneWaits, Joined, GrantsTo
    <3>3. ASSUME NEW t \in Thread, Member(t, k'.wait[o]) PROVE FALSE
      <4>1. InCall(t, o)' /\ k'.stat[t] = "SUSPEND"
        BY <1>2, <3>3 DEF Joined, Calm, Lists, WaitListsSound
      <4>2. t = h
        BY <2>2, <3>2, <4>1 DEF CompletionInv, OneWaits, SameCalls
      <4> QED
        BY <3>2, <4>1, <4>2 DEF Granted
    <3>4. k'.wait[o] \in Seq(Thread)
      BY <1>2 DEF KernelState
    <3> QED
      BY <3>3, <3>4, EmptyFacts
  <2> QED
    BY <2>1, <2>2
<1>7. ASSUME NEW q \in Completions
      PROVE  /\ completed'[q] => k'.wait[q] = <<>>
             /\ \A t \in Thread : Granted(t, q)' => completed'[q]
  BY <1>1, <1>3, <1>5, <1>6 DEF CompletionInv, DoneIsSeen, WaitsEased
<1> QED
  BY <1>3, <1>4, <1>7 DEF CompletionInv, CompletionTyped, IpcInv, DoneIsSeen

LEMMA DoneSectionKeeps ==
  ASSUME CompletionInv, DoneSection
  PROVE  CompletionInv'
<1>1. /\ IpcInv /\ IpcTypeOK /\ Calm(k) /\ k \in KernelState /\ k.lock = 0
  BY CompletionFacts DEF IpcInv
<1>2. /\ pc[k.cur] = "done" /\ k' = Resume(on[k.cur])
      /\ on' = on /\ live' = live /\ phantom' = phantom
      /\ completed' = [completed EXCEPT ![on[k.cur]] = TRUE]
  BY DEF DoneSection, At
<1>3. PICK label \in {"sched", "run"} : Goto(label)
  BY DEF DoneSection
<1>4. k.cur \in Thread /\ k.cur # Idle
  BY <1>1, <1>2, CurRuns
<1>5. PICK o \in Obj : o = on[k.cur]
  BY <1>1, <1>4 DEF IpcTypeOK
<1>6. /\ label \in Pc /\ label \notin {"block", "sleep", "woken"}
      /\ pc[k.cur] \notin {"block", "sleep", "woken"}
      /\ on' \in {on, [on EXCEPT ![k.cur] = o]}
      /\ live' \subseteq Obj /\ phantom' \in BOOLEAN
  BY <1>1, <1>2 DEF Pc, IpcTypeOK
<1>7. CASE k.wait[o] # <<>>
  <2>1. k' = _ipc_list_resume(k, o)
    BY <1>2, <1>5, <1>7 DEF Resume, _ipc_list_resume
  <2>2. /\ Released(k, k') /\ k'.stat[Head(k.wait[o])] # "SUSPEND" /\ k'.error = k.error
        /\ \A v \in Thread \ {Head(k.wait[o])} : k'.stat[v] = k.stat[v]
    BY <1>1, <1>7, <2>1, ListResume
  <2>3. Calm(k') /\ k'.lock = 0 /\ k'.cur = k.cur /\ Eased(k, k')
    BY <1>1, <2>2, ReleasedEased DEF Released
  <2>4. IpcInv' /\ WaitsEased /\ SameCalls
    BY <1>1, <1>3, <1>4, <1>6, <2>3, CallerStep
  <2>5. FirstResumed(k, k', o)
    BY <2>2, <2>3 DEF FirstResumed, Eased
  <2>6. GrantsTo(Head(k.wait[o]), o)
    BY <1>1, <1>7, <2>4, <2>5, FirstGranted
  <2> QED
    BY <1>2, <1>5, <1>7, <2>4, <2>6, GivenStep
<1>8. CASE k.wait[o] = <<>>
  <2>1. k' = k
    BY <1>2, <1>5, <1>8 DEF Resume
  <2>2. Calm(k') /\ k'.lock = 0 /\ k'.cur = k.cur /\ Eased(k, k')
    BY <1>1, <2>1 DEF Eased, Loosened
  <2>3. IpcInv' /\ WaitsEased /\ SameCalls
    BY <1>1, <1>3, <1>4, <1>6, <2>2, CallerStep
  <2>4. SameGrants
    BY <2>1, <2>3, SteadyGrants
  <2> QED
    BY <1>2, <1>5, <1>8, <2>3, <2>4, GivenStep
<1> QED
  BY <1>7, <1>8

LEMMA IsrDoneKeeps ==
  ASSUME CompletionInv, NEW o \in Completions, IsrDone(o)
  PROVE  CompletionInv'
<1>1. /\ IpcInv /\ IpcTypeOK /\ Calm(k) /\ k \in KernelState /\ o \in Obj
  BY CompletionFacts
<1>2. /\ pc' = pc /\ on' = on /\ live' = live /\ phantom' = phantom
      /\ completed' = [completed EXCEPT ![o] = TRUE]
  BY DEF IsrDone
<1>3. SameCalls
  BY <1>2 DEF SameCalls, InCall
<1>4. CASE k.wait[o] # <<>>
  <2>1. k' = rt_schedule(_ipc_list_resume(k, o))
    BY <1>4 DEF IsrDone, Resume, _ipc_list_resume
  <2>2. IpcInv' /\ GrantsTo(Head(k.wait[o]), o) /\ WaitsEased
    BY <1>1, <1>2, <1>4, <2>1, IsrReleaseKeeps
  <2> QED
    BY <1>1, <1>2, <1>3, <1>4, <2>2, GivenStep
<1>5. CASE k.wait[o] = <<>>
  <2>1. k' = k
    BY <1>5 DEF IsrDone
  <2>2. IpcInv' /\ SameGrants /\ WaitsEased
    BY <1>1, <1>2, <2>1 DEF IpcInv, IpcTypeOK, Joined, InCall, SameGrants, Granted, WaitsEased,
                            InPrioOrder
  <2> QED
    BY <1>1, <1>2, <1>3, <1>5, <2>2, GivenStep
<1> QED
  BY <1>4, <1>5

-----------------------------------------------------------------------------
(* The theorems of the completions *)

\* A step that leaves the completions alone.
LEMMA QuietCompletions ==
  ASSUME CompletionInv, IpcInv', SameCalls, SameGrants, WaitsEased, completed' = completed
  PROVE  CompletionInv'
<1>1. OneWaits' /\ DoneIsSeen'
  BY CompletionFacts DEF CompletionInv, OneWaits, DoneIsSeen, SameCalls, SameGrants, WaitsEased
<1> QED
  BY <1>1 DEF CompletionInv, CompletionTyped, IpcInv

LEMMA DoneTestKeeps ==
  ASSUME CompletionInv, NEW o \in Completions, rt_completion_done(o)
  PROVE  CompletionInv'
<1>1. /\ IpcInv /\ IpcTypeOK /\ Calm(k) /\ k \in KernelState /\ o \in Obj /\ live \subseteq Obj
  BY CompletionFacts
<1>2. /\ App /\ on' = [on EXCEPT ![k.cur] = o] /\ k' = k /\ live' = live /\ phantom' = phantom
      /\ completed' = completed
  BY DEF rt_completion_done
<1>3. PICK label \in {"run", "done"} : Goto(label)
  BY DEF rt_completion_done
<1>4. /\ label \in Pc /\ label \notin {"block", "sleep", "woken"}
      /\ live' \subseteq Obj /\ phantom' \in BOOLEAN /\ Similar(k, k) /\ "RT_EOK" \in Errno
  BY <1>1, <1>2, SimilarSelf DEF Pc, IpcTypeOK, Errno
<1>5. IpcInv' /\ SameGrants /\ k'.prio = k.prio /\ k'.wait = k.wait
  BY <1>1, <1>2, <1>3, <1>4, QuietCall
<1>6. SameCalls
  BY <1>1, <1>2, <1>3, AppFacts DEF Goto, IpcTypeOK, SameCalls, InCall
<1>7. WaitsEased
  BY <1>5 DEF WaitsEased, InPrioOrder
<1> QED
  BY <1>2, <1>5, <1>6, <1>7, QuietCompletions

LEMMA CompletionInitKeeps ==
  ASSUME CompletionInv, NEW o \in Completions, rt_completion_init(o)
  PROVE  CompletionInv'
<1>1. /\ IpcInv /\ IpcTypeOK /\ Calm(k) /\ Joined /\ k \in KernelState /\ o \in Obj
      /\ completed \in [Obj -> BOOLEAN] /\ Completions \subseteq Obj
  BY CompletionFacts
<1>2. /\ k' = [k EXCEPT !.wait[o] = <<>>] /\ completed' = [completed EXCEPT ![o] = FALSE]
      /\ pc' = pc /\ on' = on /\ live' = live /\ phantom' = phantom
      /\ \A t \in Thread : ~InCall(t, o)
  BY DEF rt_completion_init, InCall
<1>3. k.wait[o] = <<>>
  <2>1. k.wait[o] \in Seq(Thread) /\ \A t \in Thread : ~Member(t, k.wait[o])
    BY <1>1, <1>2 DEF KernelState, Joined
  <2> QED
    BY <2>1, EmptyFacts
<1>4. k' = k
  <2>1. [k.wait EXCEPT ![o] = <<>>] = k.wait
    BY <1>1, <1>3 DEF KernelState
  <2> QED
    BY <1>1, <1>2, <2>1 DEF KernelState
<1>5. IpcInv'
  BY <1>1, <1>2, <1>4 DEF IpcInv, IpcTypeOK, Joined, InCall
<1>6. /\ completed' \in [Obj -> BOOLEAN] /\ completed'[o] = FALSE
      /\ \A q \in Obj \ {o} : completed'[q] = completed[q]
  BY <1>1, <1>2
<1>7. OneWaits' /\ DoneIsSeen'
  BY <1>1, <1>2, <1>4, <1>6 DEF CompletionInv, OneWaits, DoneIsSeen, InCall, Granted
<1> QED
  BY <1>5, <1>6, <1>7 DEF CompletionInv, CompletionTyped, IpcInv

LEMMA CompletionNextKeeps == CompletionInv /\ [CompletionNext]_completionVars => CompletionInv'
<1> SUFFICES ASSUME CompletionInv, [CompletionNext]_completionVars PROVE CompletionInv'
  OBVIOUS
<1>1. IpcInv
  BY CompletionFacts
<1>2. CASE Background /\ UNCHANGED completed
  BY <1>1, <1>2, BackgroundKeeps, BackgroundCalls, QuietCompletions
<1>3. CASE UNCHANGED completionVars
  <2>1. k' = k /\ pc' = pc /\ on' = on /\ live' = live /\ phantom' = phantom /\ completed' = completed
    BY <1>3 DEF completionVars, ipc
  <2>2. IpcInv' /\ SameCalls /\ SameGrants /\ WaitsEased
    BY <1>1, <2>1 DEF IpcInv, IpcTypeOK, Joined, InCall, SameCalls, SameGrants, Granted,
                      WaitsEased, InPrioOrder
  <2> QED
    BY <2>1, <2>2, QuietCompletions
<1> QED
  BY <1>2, <1>3, CompletionWaitKeeps, DoneTestKeeps, IsrDoneKeeps, CompletionInitKeeps,
     WaitReturnKeeps, DoneSectionKeeps DEF CompletionNext

LEMMA CompletionInitInv == CompletionInit => CompletionInv
<1> SUFFICES ASSUME CompletionInit PROVE CompletionInv
  OBVIOUS
<1>1. IpcInv /\ \A t \in Thread, o \in Obj : ~InCall(t, o)
  BY InitKeeps DEF CompletionInit
<1>2. completed = [o \in Obj |-> FALSE]
  BY DEF CompletionInit
<1> QED
  BY <1>1, <1>2, CompletionAssumption
     DEF CompletionInv, CompletionTyped, IpcInv, OneWaits, DoneIsSeen, Granted

LEMMA CompletionInvariant == CompletionSpec => []CompletionInv
<1> QED
  BY CompletionInitInv, CompletionNextKeeps, PTL DEF CompletionSpec

\* Nobody waits for a completion that is done, and a wait that was granted finds
\* it: rt_completion_done may look at the flag long before it acts on it.
THEOREM CompletionSeen == CompletionSpec => []DoneIsSeen
<1>1. CompletionInv => DoneIsSeen
  BY DEF CompletionInv
<1> QED
  BY <1>1, CompletionInvariant, PTL

\* Every wait in rt_completion_wait ends one way only.
THEOREM CompletionAnswer == CompletionSpec => []OneAnswer
<1>1. CompletionInv => OneAnswer
  BY InvOneAnswer DEF CompletionInv
<1> QED
  BY <1>1, CompletionInvariant, PTL

=============================================================================
