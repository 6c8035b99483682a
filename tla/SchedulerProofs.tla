-------------------------- MODULE SchedulerProofs --------------------------
(***************************************************************************)
(* The scheduler and thread services, proved for every set of threads,     *)
(* every number of priorities and every nesting of critical sections.      *)
(* The inductive invariant is TypeOK, the soundness of all the lists       *)
(* (Sound), what a call relies on between its two sections (InHandSound)   *)
(* and the condition of the thread on the processor (CurAlive).            *)
(*                                                                         *)
(* At the end the context switch, for any threads and any number of        *)
(* interrupt levels: Switch keeps its contexts and implements Processor.   *)
(* NestExact tells a handler from a thread, RecordExact says where a       *)
(* switch leads, ContextsKept what it finds there; each step disturbs one  *)
(* of the three at most.                                                   *)
(***************************************************************************)
EXTENDS Scheduler, Switch, KernelProofs, FiniteSetTheorems

-----------------------------------------------------------------------------
(* Soundness of a kernel state in which the calls have the threads S in hand *)

Sound(m, S) ==
  /\ Lists(m) /\ CurSound(m) /\ TimerSound(m)
  /\ ReadyComplete(m, S) /\ IdleRunnable(m)

\* rt_schedule keeps a sound state sound.
LEMMA SoundSchedule ==
  ASSUME NEW m, NEW S, Sound(m, S)
  PROVE  Sound(rt_schedule(m), S)
<1> DEFINE u == rt_schedule(m)
<1>1. /\ Lists(u) /\ CurSound(u) /\ ReadyComplete(u, S) /\ OnlyScheduled(m, u)
  BY ScheduleFacts DEF Sound
<1> HIDE DEF u
<1>2. IdleRunnable(u)
  BY <1>1, KernelAssumption DEF Sound, IdleRunnable, OnlyScheduled, Runnable
<1>3. m.timer \subseteq Thread
  BY DEF Sound, Lists, KernelState
<1>4. TimerSound(u)
  BY <1>1, <1>3 DEF Sound, TimerSound, OnlyScheduled, Runnable
<1> QED
  BY <1>1, <1>2, <1>4 DEF Sound, u

\* A state that differs only in yield, error or lock is as sound.
LEMMA SoundNeutral ==
  ASSUME NEW m, NEW S, Sound(m, S), NEW u \in KernelState,
         u.ready = m.ready, u.group = m.group, u.wait = m.wait, u.defunct = m.defunct,
         u.stat = m.stat, u.prio = m.prio, u.cur = m.cur, u.timer = m.timer
  PROVE  Sound(u, S) /\ \A t \in Thread : Detached(u, t) <=> Detached(m, t)
<1>1. Lists(u)
  <2>1. Lists(m) /\ \A t \in Thread : u.stat[t] = m.stat[t] /\ u.prio[t] = m.prio[t]
    BY DEF Sound
  <2> QED
    BY <2>1, Frame
<1>2. CurSound(u) /\ TimerSound(u) /\ ReadyComplete(u, S) /\ IdleRunnable(u)
  BY DEF Sound, CurSound, TimerSound, ReadyComplete, IdleRunnable
<1> QED
  BY <1>1, <1>2 DEF Sound, Detached

\* Waking a suspended thread keeps the state sound and moves nobody else.
LEMMA SoundWake ==
  ASSUME NEW m, NEW S, Sound(m, S), NEW t \in Thread, m.stat[t] = "SUSPEND",
         NEW u \in {ResumeLocked(m, t), _thread_timeout(m, t)}
  PROVE  /\ Sound(u, S) /\ u.cur = m.cur /\ u.lock = m.lock /\ OthersStay(m, u, t)
         /\ u.stat = [m.stat EXCEPT ![t] = IF t = m.cur THEN "RUNNING" ELSE "READY"]
         /\ t # m.cur => Member(t, u.ready[u.prio[t]])
<1>1. /\ Lists(u) /\ OthersStay(m, u, t)
      /\ u.stat = [m.stat EXCEPT ![t] = IF t = m.cur THEN "RUNNING" ELSE "READY"]
      /\ t # m.cur => Member(t, u.ready[m.prio[t]])
      /\ u.prio = m.prio /\ u.cur = m.cur /\ u.lock = m.lock /\ u.timer = m.timer \ {t}
  BY WakeFacts DEF Sound
<1>2. m \in KernelState
  BY DEF Sound, Lists
<1>3. /\ u.stat[t] = IF t = m.cur THEN "RUNNING" ELSE "READY"
      /\ \A v \in Thread \ {t} : u.stat[v] = m.stat[v]
  BY <1>1, <1>2 DEF KernelState
<1>4. CurSound(u)
  BY <1>1, <1>2, <1>3 DEF Sound, CurSound, KernelState
<1>5. TimerSound(u) /\ IdleRunnable(u)
  BY <1>1, <1>2, <1>3, KernelAssumption DEF Sound, TimerSound, IdleRunnable, KernelState
<1>6. ASSUME NEW v \in Thread \ S, u.stat[v] = "READY"
      PROVE  Member(v, u.ready[u.prio[v]])
  <2>1. CASE v = t
    BY <2>1, <1>1, <1>3, <1>6
  <2>2. CASE v # t
    <3>1. m.prio[v] \in Prio /\ Member(v, m.ready[m.prio[v]])
      BY <2>2, <1>2, <1>3, <1>6 DEF Sound, ReadyComplete, KernelState
    <3> QED
      BY <3>1, <2>2, <1>1 DEF OthersStay
  <2> QED
    BY <2>1, <2>2
<1> QED
  BY <1>1, <1>4, <1>5, <1>6 DEF Sound, ReadyComplete

\* Suspending the current thread leaves everybody else in place.
LEMMA SoundSuspend ==
  ASSUME NEW m, NEW S, Sound(m, S), m.cur # Idle
  PROVE  LET u == rt_thread_suspend(m, m.cur) IN
         /\ Sound(u, S) /\ u.cur = m.cur /\ u.lock = m.lock /\ OthersStay(m, u, m.cur)
         /\ \A v \in Thread \ {m.cur} : u.stat[v] = m.stat[v]
         /\ m.stat[m.cur] = "RUNNING" => u.stat[m.cur] = "SUSPEND"
         /\ m.stat[m.cur] # "RUNNING" => u = m
<1> DEFINE t == m.cur
           u == rt_thread_suspend(m, t)
<1>0. m \in KernelState /\ t \in Thread /\ Lists(m) /\ m.stat[t] # "READY"
  BY DEF Sound, Lists, KernelState, CurSound
<1>1. /\ Lists(u) /\ OthersStay(m, u, t)
      /\ u.stat = IF Runnable(m, t) THEN [m.stat EXCEPT ![t] = "SUSPEND"] ELSE m.stat
      /\ ~Runnable(m, t) => u = m
      /\ u.prio = m.prio /\ u.cur = m.cur /\ u.lock = m.lock
      /\ u.timer = IF Runnable(m, t) THEN m.timer \ {t} ELSE m.timer
  BY <1>0, SuspendFacts
<1> HIDE DEF u, t
<1>2. Runnable(m, t) <=> m.stat[t] = "RUNNING"
  BY <1>0 DEF Runnable
<1>3. /\ \A v \in Thread \ {t} : u.stat[v] = m.stat[v]
      /\ m.stat[t] = "RUNNING" => u.stat[t] = "SUSPEND"
      /\ m.stat[t] # "RUNNING" => u = m
  BY <1>0, <1>1, <1>2 DEF KernelState
<1>4. CASE m.stat[t] # "RUNNING"
  BY <1>1, <1>3, <1>4 DEF t, u
<1>5. CASE m.stat[t] = "RUNNING"
  <2>1. m.cur = t /\ m.timer \subseteq Thread
    BY <1>0 DEF t, KernelState
  <2>2. u.timer = m.timer \ {t}
    BY <1>1, <1>2, <1>5
  <2>3. CurSound(u)
    BY <1>1, <1>3, <1>5, <2>1 DEF Sound, CurSound
  <2>4. TimerSound(u)
    BY <1>3, <2>1, <2>2 DEF Sound, TimerSound
  <2>5. IdleRunnable(u)
    BY <1>3, <2>1, KernelAssumption DEF Sound, IdleRunnable
  <2>6. ASSUME NEW v \in Thread \ S, u.stat[v] = "READY"
        PROVE  Member(v, u.ready[u.prio[v]])
    <3>1. v # t
      BY <1>3, <1>5, <2>6
    <3>2. m.prio[v] \in Prio /\ Member(v, m.ready[m.prio[v]])
      BY <3>1, <1>0, <1>3, <2>6 DEF Sound, ReadyComplete, KernelState
    <3> QED
      BY <3>1, <3>2, <1>1 DEF OthersStay
  <2> QED
    BY <1>1, <1>3, <2>3, <2>4, <2>5, <2>6 DEF Sound, ReadyComplete, t, u
<1> QED
  BY <1>4, <1>5

\* Changing a priority keeps every READY thread on the list of its priority.
LEMMA SoundPriority ==
  ASSUME NEW m, NEW S, Sound(m, S), NEW t \in Thread, NEW p \in Prio
  PROVE  LET u == ChangePriority(m, t, p) IN
         /\ Sound(u, S) /\ u.cur = m.cur /\ u.lock = m.lock /\ u.stat = m.stat
         /\ OthersStay(m, u, t)
<1> DEFINE u == ChangePriority(m, t, p)
<1>0. m \in KernelState
  BY DEF Sound, Lists
<1>1. /\ Lists(u) /\ OthersStay(m, u, t)
      /\ u.stat = m.stat /\ u.prio = [m.prio EXCEPT ![t] = p]
      /\ m.stat[t] = "READY" => Member(t, u.ready[p])
      /\ u.cur = m.cur /\ u.lock = m.lock /\ u.timer = m.timer
  BY ChangePriorityFacts DEF Sound
<1> HIDE DEF u
<1>2. u.prio[t] = p /\ \A v \in Thread \ {t} : u.prio[v] = m.prio[v]
  BY <1>0, <1>1 DEF KernelState
<1>3. CurSound(u) /\ TimerSound(u) /\ IdleRunnable(u)
  BY <1>1 DEF Sound, CurSound, TimerSound, IdleRunnable
<1>4. ASSUME NEW v \in Thread \ S, u.stat[v] = "READY"
      PROVE  Member(v, u.ready[u.prio[v]])
  <2>1. CASE v = t
    BY <2>1, <1>1, <1>2, <1>4
  <2>2. CASE v # t
    <3>1. m.prio[v] \in Prio /\ Member(v, m.ready[m.prio[v]])
      BY <1>0, <1>1, <1>4 DEF Sound, ReadyComplete, KernelState
    <3> QED
      BY <3>1, <2>2, <1>1, <1>2 DEF OthersStay
  <2> QED
    BY <2>1, <2>2
<1> QED
  BY <1>1, <1>3, <1>4 DEF Sound, ReadyComplete, u

\* The first section of a delete takes t off its list and into the call's hands.
LEMMA SoundRemove ==
  ASSUME NEW m, NEW S, Sound(m, S), NEW t \in Thread
  PROVE  LET u == rt_schedule_remove_thread(m, t) IN
         /\ Sound(u, S \cup {t}) /\ u.cur = m.cur /\ u.lock = m.lock /\ u.stat = m.stat
         /\ OthersStay(m, u, t) /\ Detached(u, t)
<1> DEFINE u == rt_schedule_remove_thread(m, t)
<1>0. m \in KernelState
  BY DEF Sound, Lists
<1>1. /\ Lists(u) /\ Detached(u, t) /\ OthersStay(m, u, t)
      /\ u.stat = m.stat /\ u.prio = m.prio
      /\ u.cur = m.cur /\ u.lock = m.lock /\ u.timer = m.timer
  BY RemoveThreadFacts DEF Sound
<1> HIDE DEF u
<1>2. CurSound(u) /\ TimerSound(u) /\ IdleRunnable(u)
  BY <1>1 DEF Sound, CurSound, TimerSound, IdleRunnable
<1>3. ASSUME NEW v \in Thread \ (S \cup {t}), u.stat[v] = "READY"
      PROVE  Member(v, u.ready[u.prio[v]])
  <2>1. m.prio[v] \in Prio /\ Member(v, m.ready[m.prio[v]])
    BY <1>0, <1>1, <1>3 DEF Sound, ReadyComplete, KernelState
  <2> QED
    BY <2>1, <1>1 DEF OthersStay
<1> QED
  BY <1>1, <1>2, <1>3 DEF Sound, ReadyComplete, u

\* Closing a detached thread other than the idle thread: it is on nobody's
\* hands any more.
LEMMA SoundClose ==
  ASSUME NEW m, NEW S, Sound(m, S), NEW t \in Thread \ {Idle}, Detached(m, t)
  PROVE  LET u == CloseThread(m, t) IN
         /\ Sound(u, S \ {t}) /\ u.cur = m.cur /\ u.lock = m.lock
         /\ u.stat = [m.stat EXCEPT ![t] = "CLOSE"] /\ OthersStay(m, u, t)
<1> DEFINE u == CloseThread(m, t)
<1>0. m \in KernelState
  BY DEF Sound, Lists
<1>1. /\ Lists(u) /\ OthersStay(m, u, t)
      /\ u.stat = [m.stat EXCEPT ![t] = "CLOSE"] /\ u.prio = m.prio
      /\ u.cur = m.cur /\ u.lock = m.lock /\ u.timer = m.timer \ {t}
  BY CloseFacts DEF Sound
<1> HIDE DEF u
<1>2. u.stat[t] = "CLOSE" /\ \A v \in Thread \ {t} : u.stat[v] = m.stat[v]
  BY <1>0, <1>1 DEF KernelState
<1>3. m.timer \subseteq Thread /\ m.cur \in Thread
  BY <1>0 DEF KernelState
<1>4. CurSound(u) /\ TimerSound(u) /\ IdleRunnable(u)
  BY <1>1, <1>2, <1>3, KernelAssumption DEF Sound, CurSound, TimerSound, IdleRunnable
<1>5. ASSUME NEW v \in Thread \ (S \ {t}), u.stat[v] = "READY"
      PROVE  Member(v, u.ready[u.prio[v]])
  <2>1. v # t
    BY <1>2, <1>5
  <2>2. m.prio[v] \in Prio /\ Member(v, m.ready[m.prio[v]])
    BY <2>1, <1>0, <1>2, <1>5 DEF Sound, ReadyComplete, KernelState
  <2> QED
    BY <2>1, <2>2, <1>1 DEF OthersStay
<1> QED
  BY <1>1, <1>4, <1>5 DEF Sound, ReadyComplete, u

-----------------------------------------------------------------------------
(* The inductive invariant *)

IInv == TypeOK /\ Sound(k, Claimed) /\ InHandSound /\ CurAlive

\* The two assumptions under which the services are proved: see DeleteBegin
\* and TimerExpire for what happens without the second.
Disciplined == Exclusive = TRUE /\ Quiet = TRUE

\* The idle thread is in nobody's hands, and a thread that is in some other
\* thread's hands is not on the processor and not in a ready list.
LEMMA ClaimedFacts ==
  ASSUME IInv
  PROVE  /\ Idle \notin Claimed /\ Claimed \subseteq Thread
         /\ \A t \in Claimed : k.stat[t] \notin {"FREE", "CLOSE"}
<1>1. ASSUME NEW u \in Holding
      PROVE  /\ target[u] # Idle /\ target[u] \in Thread
             /\ k.stat[target[u]] \notin {"FREE", "CLOSE"}
  <2>1. u \in Thread /\ target[u] \in Thread
    BY DEF IInv, TypeOK, Holding
  <2>2. CASE pc[u] = "resume"
    BY <2>1, <2>2 DEF IInv, InHandSound, Sound, IdleRunnable
  <2>3. CASE pc[u] # "resume"
    BY <2>1, <2>3 DEF IInv, InHandSound
  <2> QED
    BY <2>1, <2>2, <2>3
<1> QED
  BY <1>1 DEF Claimed

\* The holders and what they hold are as before.
SameHands == /\ Holding' = Holding
             /\ \A u \in Holding : pc'[u] = pc[u] /\ target'[u] = target[u]

\* What a step that leaves the holders alone must respect.
Gentle ==
  /\ \A t \in Claimed :
       /\ k.stat[t] = "SUSPEND" => k'.stat[t] = "SUSPEND"
       /\ k'.stat[t] \notin {"FREE", "CLOSE"}
       /\ k.stat[t] = "READY" => k'.stat[t] \in {"READY", "RUNNING"}
       /\ Detached(k, t) => Detached(k', t) \/ (t = k.cur /\ k'.stat[t] = "READY")
       /\ t = k'.cur => t = k.cur \/ (k.stat[t] = "READY" /\ ~Detached(k, t))
  /\ \A t \in Holding : k'.stat[t] = "CLOSE" => k.stat[t] = "CLOSE"

LEMMA HandsKept ==
  ASSUME IInv, SameHands, Gentle, Lists(k')
  PROVE  InHandSound' /\ Claimed' = Claimed
<1>1. Claimed' = Claimed
  BY DEF SameHands, Claimed
<1>2. ASSUME NEW t \in Thread, k'.stat[t] = "CLOSE" PROVE t \notin Holding'
  BY <1>2 DEF SameHands, Gentle, IInv, InHandSound
<1>3. ASSUME NEW u \in Holding'
      PROVE  LET t == target'[u] IN
             /\ pc'[u] = "resume" => k'.stat[t] = "SUSPEND"
             /\ pc'[u] # "resume" =>
                  /\ t # Idle /\ k'.stat[t] \notin {"FREE", "CLOSE"}
                  /\ t # u => t \notin Holding'
                  /\ pc'[u] = "delete" => t # u
                  /\ Detached(k', t) \/ (t = u /\ k'.stat[t] = "READY")
             /\ t # u => t # k'.cur
             /\ \A v \in Holding' : target'[v] = t => v = u
  <2> DEFINE t == target[u]
  <2>0. /\ u \in Holding /\ u \in Thread /\ pc'[u] = pc[u] /\ target'[u] = t
        /\ t \in Claimed /\ t \in Thread
    BY <1>3 DEF SameHands, Holding, Claimed, IInv, TypeOK
  <2>1. /\ pc[u] = "resume" => k.stat[t] = "SUSPEND"
        /\ pc[u] # "resume" =>
             /\ t # Idle /\ k.stat[t] \notin {"FREE", "CLOSE"}
             /\ t # u => t \notin Holding
             /\ pc[u] = "delete" => t # u
             /\ Detached(k, t) \/ (t = u /\ k.stat[t] = "READY")
        /\ t # u => t # k.cur
        /\ \A v \in Holding : target[v] = t => v = u
    BY <2>0 DEF IInv, InHandSound
  <2>2. /\ k.stat[t] = "SUSPEND" => k'.stat[t] = "SUSPEND"
        /\ k'.stat[t] \notin {"FREE", "CLOSE"}
        /\ k.stat[t] = "READY" => k'.stat[t] \in {"READY", "RUNNING"}
        /\ Detached(k, t) => Detached(k', t) \/ (t = k.cur /\ k'.stat[t] = "READY")
        /\ t = k'.cur => t = k.cur \/ (k.stat[t] = "READY" /\ ~Detached(k, t))
    BY <2>0 DEF Gentle
  <2> HIDE DEF t
  <2>3. k'.stat[t] = "RUNNING" => Detached(k', t)
    BY <2>0, OneKindOfList
  <2>4. pc[u] # "resume" => Detached(k', t) \/ (t = u /\ k'.stat[t] = "READY")
    BY <2>1, <2>2, <2>3
  <2>5. t # u => t # k'.cur
    BY <2>1, <2>2
  <2>6. \A v \in Holding' : target'[v] = t => v = u
    BY <2>1 DEF SameHands
  <2>7. Holding' = Holding
    BY DEF SameHands
  <2> QED
    BY <2>0, <2>1, <2>2, <2>4, <2>5, <2>6, <2>7
<1> QED
  BY <1>1, <1>2, <1>3 DEF InHandSound

\* A step that leaves the holders alone keeps the invariant.
LEMMA PlainStep ==
  ASSUME IInv, SameHands, Gentle, Sound(k', Claimed), CurAlive',
         pc' \in [Thread -> Pc], target' \in [Thread -> Thread], isr' \in {"none", "timer"}
  PROVE  IInv'
<1>1. Lists(k') /\ k' \in KernelState
  BY DEF Sound, Lists
<1>2. InHandSound' /\ Claimed' = Claimed
  BY <1>1, HandsKept
<1>3. TypeOK'
  BY <1>1 DEF TypeOK
<1> QED
  BY <1>2, <1>3 DEF IInv

\* A step that ends in rt_schedule, after m was reached without touching a
\* claimed thread, keeps the invariant.
LEMMA ScheduleStep ==
  ASSUME IInv, SameHands, NEW m, Sound(m, Claimed), m.cur = k.cur, m.lock = k.lock,
         \A t \in Claimed : m.stat[t] = k.stat[t] /\ (Detached(k, t) => Detached(m, t)),
         \A t \in Thread : m.stat[t] = "CLOSE" => k.stat[t] = "CLOSE",
         m.stat[k.cur] \in {"RUNNING", "SUSPEND", "CLOSE"},
         k' = rt_schedule(m),
         pc' \in [Thread -> Pc], target' \in [Thread -> Thread], isr' \in {"none", "timer"}
  PROVE  IInv'
<1>1. /\ Sound(k', Claimed) /\ OnlyScheduled(m, k')
      /\ k'.cur # m.cur => m.lock = 0 /\ k'.stat[k'.cur] = "RUNNING"
      /\ m.lock = 0 /\ (m.group # {} \/ m.stat[m.cur] = "RUNNING") => k'.stat[k'.cur] = "RUNNING"
      /\ \A t \in Thread : KeptOut(m, k', t)
      /\ k'.cur # m.cur => \E p \in Prio : Member(k'.cur, m.ready[p])
  <2>1. Sound(k', Claimed)
    BY SoundSchedule
  <2>2. Lists(m) /\ CurSound(m) /\ ReadyComplete(m, Claimed)
    BY DEF Sound
  <2> QED
    BY <2>1, <2>2, ScheduleFacts
<1>2. /\ k'.cur \in Thread /\ m.cur \in Thread /\ k' \in KernelState /\ m \in KernelState
      /\ Lists(k') /\ Lists(m)
  BY <1>1 DEF Sound, Lists, KernelState
<1>3. Claimed \subseteq Thread /\ Idle \notin Claimed /\ Holding \subseteq Thread
  BY ClaimedFacts DEF Holding
<1>4. \A t \in Thread : /\ Runnable(k', t) <=> Runnable(m, t)
                        /\ ~Runnable(m, t) => k'.stat[t] = m.stat[t]
  BY <1>1 DEF OnlyScheduled
<1>5. Gentle
  <2>1. ASSUME NEW t \in Claimed
        PROVE  /\ k.stat[t] = "SUSPEND" => k'.stat[t] = "SUSPEND"
               /\ k'.stat[t] \notin {"FREE", "CLOSE"}
               /\ k.stat[t] = "READY" => k'.stat[t] \in {"READY", "RUNNING"}
    <3>1. t \in Thread /\ m.stat[t] = k.stat[t] /\ k.stat[t] \notin {"FREE", "CLOSE"}
      BY <1>3, ClaimedFacts
    <3> QED
      BY <3>1, <1>4 DEF Runnable
  <2>2. ASSUME NEW t \in Claimed
        PROVE  Detached(k, t) => Detached(k', t) \/ (t = k.cur /\ k'.stat[t] = "READY")
    BY <1>1, <1>3 DEF KeptOut
  <2>3. ASSUME NEW t \in Claimed, t = k'.cur, t # k.cur
        PROVE  k.stat[t] = "READY" /\ ~Detached(k, t)
    <3>1. PICK p \in Prio : Member(t, m.ready[p])
      BY <2>3, <1>1
    <3>2. m.stat[t] = "READY" /\ ~Detached(m, t)
      BY <3>1, <1>2, <1>3 DEF Lists, ReadyListsSound, Detached
    <3> QED
      BY <3>2
  <2>4. ASSUME NEW t \in Holding, k'.stat[t] = "CLOSE" PROVE k.stat[t] = "CLOSE"
    BY <2>4, <1>3, <1>4 DEF Runnable
  <2> QED
    BY <2>1, <2>2, <2>3, <2>4 DEF Gentle
<1>6. k'.stat[k'.cur] \in {"RUNNING", "SUSPEND"}
  <2>1. CASE k'.cur # m.cur
    BY <2>1, <1>1
  <2>2. CASE k'.cur = m.cur /\ m.stat[m.cur] # "CLOSE"
    <3>1. k'.stat[m.cur] # "READY"
      BY <2>2, <1>1 DEF Sound, CurSound
    <3> QED
      BY <2>2, <3>1, <1>2, <1>4 DEF Runnable
  <2>3. CASE m.stat[m.cur] = "CLOSE"
    <3>1. m.lock = 0
      BY <2>3, <1>2 DEF IInv, CurAlive
    <3>2. Idle \in Thread /\ m.stat[Idle] = "READY"
      BY <2>3, KernelAssumption DEF Sound, IdleRunnable, CurSound
    <3>3. m.prio[Idle] \in Prio /\ Member(Idle, m.ready[m.prio[Idle]])
      BY <3>2, <1>2, <1>3 DEF Sound, ReadyComplete, KernelState
    <3>4. m.ready[m.prio[Idle]] # <<>>
      BY <3>3 DEF Member
    <3>5. m.group # {}
      BY <3>3, <3>4, <1>2 DEF Lists, GroupExact
    <3> QED
      BY <3>1, <3>5, <1>1
  <2> QED
    BY <2>1, <2>2, <2>3
<1>7. ASSUME pc'[k'.cur] = "close", target'[k'.cur] = k'.cur PROVE k'.lock = 0
  <2>1. k'.lock = m.lock
    BY <1>1 DEF OnlyScheduled
  <2>2. k'.cur \in Holding /\ pc[k'.cur] = "close" /\ target[k'.cur] = k'.cur
    BY <1>2, <1>7 DEF SameHands, Holding
  <2>3. CASE k'.cur = k.cur
    BY <2>1, <2>2, <2>3 DEF IInv, CurAlive
  <2>4. CASE k'.cur # k.cur
    BY <2>1, <2>4, <1>1
  <2> QED
    BY <2>3, <2>4
<1>8. CurAlive'
  BY <1>6, <1>7 DEF CurAlive
<1> QED
  BY <1>1, <1>5, <1>8, PlainStep

-----------------------------------------------------------------------------
(* Init and the steps of Next *)

LEMMA InitInv ==
  ASSUME Init PROVE IInv
<1> USE KernelAssumption, SchedulerAssumption
<1>1. MaxPrio - 1 \in Prio /\ Main \in Thread /\ Idle \in Thread /\ Main # Idle
  BY DEF Prio
<1>2. /\ k.stat = [t \in Thread |-> IF t = Main THEN "RUNNING"
                                    ELSE IF t = Idle THEN "READY" ELSE "INIT"]
      /\ k.prio = InitPrio
      /\ k.ready = [p \in Prio |-> IF p = MaxPrio - 1 THEN <<Idle>> ELSE <<>>]
      /\ k.group = {MaxPrio - 1} /\ k.cur = Main /\ k.lock = 0
      /\ k.wait = [o \in Obj |-> <<>>] /\ k.timer = {} /\ k.defunct = <<>>
      /\ pc = [t \in Thread |-> "run"] /\ target = [t \in Thread |-> t] /\ isr = "none"
  BY DEF Init
<1>3. Holding = {} /\ Claimed = {}
  BY <1>2 DEF Holding, Claimed
<1>4. k \in KernelState
  BY <1>1 DEF Init, KernelState, Stat, Errno
<1>5. TypeOK
  BY <1>2, <1>4 DEF TypeOK, Pc
<1>6. \A p \in Prio : /\ k.ready[p] = IF p = MaxPrio - 1 THEN <<Idle>> ELSE <<>>
                      /\ \A t : Member(t, k.ready[p]) <=> p = MaxPrio - 1 /\ t = Idle
                      /\ IsInjective(k.ready[p])
  BY <1>2 DEF Member, IsInjective
<1>7. /\ \A o \in Obj : IsInjective(k.wait[o]) /\ \A t : ~Member(t, k.wait[o])
      /\ IsInjective(k.defunct) /\ \A t : ~Member(t, k.defunct)
  BY <1>2 DEF Member, IsInjective
<1>8. ReadyListsSound(k) /\ GroupExact(k)
  <2>1. k.stat[Idle] = "READY" /\ k.prio[Idle] = MaxPrio - 1
    BY <1>1, <1>2
  <2>2. ReadyListsSound(k)
    BY <2>1, <1>6 DEF ReadyListsSound
  <2>3. ASSUME NEW p \in Prio PROVE p \in k.group <=> k.ready[p] # <<>>
    BY <1>2, <1>6
  <2> QED
    BY <2>2, <2>3 DEF GroupExact
<1>9. WaitListsSound(k) /\ DefunctSound(k)
  BY <1>7 DEF WaitListsSound, DefunctSound
<1>10. CurSound(k) /\ TimerSound(k) /\ IdleRunnable(k)
  BY <1>1, <1>2 DEF CurSound, TimerSound, IdleRunnable
<1>11. ReadyComplete(k, Claimed)
  BY <1>1, <1>2, <1>6 DEF ReadyComplete
<1>12. InHandSound /\ CurAlive
  BY <1>1, <1>2, <1>3 DEF InHandSound, CurAlive
<1> QED
  BY <1>4, <1>5, <1>8, <1>9, <1>10, <1>11, <1>12 DEF IInv, Sound, Lists

\* A thread that is not in the middle of a call is alive or about to go, and
\* is in nobody's hands.
LEMMA CurFree ==
  ASSUME IInv, k.cur \notin Holding
  PROVE  /\ k.cur \in Thread /\ k.cur \notin Claimed
         /\ k.stat[k.cur] \in {"RUNNING", "SUSPEND", "CLOSE"}
         /\ pc[k.cur] # "sched" => k.stat[k.cur] \in {"RUNNING", "SUSPEND"}
<1>1. k.cur \in Thread
  BY DEF IInv, TypeOK, KernelState
<1>2. k.cur \notin Claimed
  BY DEF IInv, InHandSound, Claimed
<1> QED
  BY <1>1, <1>2 DEF IInv, CurAlive

\* Moving the current thread between two labels outside the held calls.
LEMMA GotoHands ==
  ASSUME IInv, k.cur \notin Holding, target' = target, NEW l \in {"run", "sched", "sleep", "woken"},
         pc' = [pc EXCEPT ![k.cur] = l] \/ pc' = pc
  PROVE  SameHands /\ pc' \in [Thread -> Pc] /\ target' \in [Thread -> Thread]
<1>1. pc \in [Thread -> Pc] /\ k.cur \in Thread /\ l \in Pc /\ target \in [Thread -> Thread]
  BY DEF IInv, TypeOK, KernelState, Pc
<1>2. pc' \in [Thread -> Pc] /\ \A t \in Thread \ {k.cur} : pc'[t] = pc[t]
  BY <1>1
<1>3. pc'[k.cur] \notin {"resume", "delete", "close"}
  BY <1>1 DEF Holding
<1>4. Holding' = Holding
  BY <1>1, <1>2, <1>3 DEF Holding
<1> QED
  BY <1>1, <1>2, <1>4 DEF SameHands, Holding

\* A step that changes neither the current thread, nor the lock, nor a claimed
\* thread, and ends without rt_schedule.
LEMMA QuietStep ==
  ASSUME IInv, SameHands, Sound(k', Claimed), k'.cur = k.cur,
         pc' \in [Thread -> Pc], target' \in [Thread -> Thread], isr' \in {"none", "timer"},
         \A t \in Claimed : k'.stat[t] = k.stat[t] /\ (Detached(k, t) => Detached(k', t)),
         \A t \in Holding : k'.stat[t] = "CLOSE" => k.stat[t] = "CLOSE",
         CurAlive'
  PROVE  IInv'
<1>1. \A t \in Claimed : k.stat[t] \notin {"FREE", "CLOSE"}
  BY ClaimedFacts
<1>2. Gentle
  BY <1>1 DEF Gentle
<1> QED
  BY <1>2, PlainStep

LEMMA CreateThreadInv ==
  ASSUME IInv, NEW t \in Thread, CreateThread(t) PROVE IInv'
<1> DEFINE c == k.cur
<1>1. /\ k.stat[t] = "FREE" /\ pc[c] = "run" /\ c # Idle /\ isr' = isr
      /\ k' = [k EXCEPT !.stat[t] = "INIT", !.prio[t] = InitPrio[t], !.error[t] = "RT_EOK"]
      /\ pc' = pc /\ target' = target
  BY DEF CreateThread, App, At
<1>2. k \in KernelState /\ Lists(k) /\ Sound(k, Claimed)
  BY DEF IInv, TypeOK, Sound
<1>3. c \notin Holding /\ Holding \subseteq Thread
  BY <1>1 DEF Holding
<1>4. c \in Thread /\ k.stat[c] \in {"RUNNING", "SUSPEND"}
  BY <1>1, <1>3, CurFree
<1>5. /\ k' \in KernelState
      /\ k'.ready = k.ready /\ k'.group = k.group /\ k'.wait = k.wait /\ k'.defunct = k.defunct
      /\ k'.cur = k.cur /\ k'.lock = k.lock /\ k'.timer = k.timer
      /\ k'.stat = [k.stat EXCEPT ![t] = "INIT"] /\ k'.prio = [k.prio EXCEPT ![t] = InitPrio[t]]
  BY <1>1, <1>2, SchedulerAssumption DEF KernelState, Stat, Errno
<1>6. /\ k'.stat[t] = "INIT"
      /\ \A v \in Thread \ {t} : k'.stat[v] = k.stat[v] /\ k'.prio[v] = k.prio[v]
  BY <1>2, <1>5 DEF KernelState
<1>7. Detached(k, t)
  BY <1>1, <1>2, OneKindOfList
<1>8. Lists(k') /\ \A v \in Thread : Detached(k', v) <=> Detached(k, v)
  <2>1. \A v \in Thread : \/ Detached(k, v)
                          \/ /\ k'.stat[v] = k.stat[v]
                             /\ k.stat[v] = "READY" => k'.prio[v] = k.prio[v]
    BY <1>6, <1>7
  <2> QED
    BY ONLY <2>1, <1>2, <1>5, Frame
<1>9. CurSound(k') /\ TimerSound(k') /\ IdleRunnable(k') /\ ReadyComplete(k', Claimed)
  <2>1. CurSound(k')
    BY <1>1, <1>2, <1>4, <1>5, <1>6 DEF Sound, CurSound
  <2>2. TimerSound(k')
    BY <1>1, <1>2, <1>5, <1>6 DEF Sound, TimerSound, KernelState
  <2>3. IdleRunnable(k')
    BY <1>1, <1>2, <1>6, KernelAssumption DEF Sound, IdleRunnable
  <2>4. ReadyComplete(k', Claimed)
    BY <1>2, <1>5, <1>6 DEF Sound, ReadyComplete
  <2> QED
    BY <2>1, <2>2, <2>3, <2>4
<1>10. SameHands /\ pc' \in [Thread -> Pc] /\ target' \in [Thread -> Thread]
  BY <1>1, <1>3, GotoHands
<1>11. t \notin Claimed /\ Claimed \subseteq Thread
  BY <1>1, ClaimedFacts
<1>12. CurAlive'
  BY <1>1, <1>4, <1>5, <1>6 DEF CurAlive
<1> QED
  BY <1>1, <1>3, <1>5, <1>6, <1>8, <1>9, <1>10, <1>11, <1>12, QuietStep DEF Sound, IInv, TypeOK

\* What application code may rely on about its own thread.
LEMMA AppFacts ==
  ASSUME IInv, pc[k.cur] = "run"
  PROVE  /\ k \in KernelState /\ Sound(k, Claimed) /\ Lists(k)
         /\ k.cur \in Thread /\ k.cur \notin Holding /\ k.cur \notin Claimed
         /\ k.stat[k.cur] \in {"RUNNING", "SUSPEND"}
         /\ Claimed \subseteq Thread /\ Holding \subseteq Thread
         /\ isr \in {"none", "timer"}
<1>1. k.cur \notin Holding /\ Holding \subseteq Thread
  BY DEF Holding
<1> QED
  BY <1>1, CurFree, ClaimedFacts DEF IInv, Sound, TypeOK

LEMMA StartThreadInv ==
  ASSUME IInv, Disciplined, NEW t \in Thread, StartThread(t) PROVE IInv'
<1> DEFINE m == [k EXCEPT !.stat[t] = "SUSPEND", !.yield[t] = FALSE]
<1>1. /\ pc[k.cur] = "run" /\ k.stat[t] = "INIT" /\ t \notin Claimed
      /\ k' = rt_thread_resume(m, t)
      /\ pc' = [pc EXCEPT ![k.cur] = "sched"] /\ target' = target /\ isr' = isr
  BY DEF StartThread, App, At, Goto, Untouched, Disciplined
<1>2. /\ k \in KernelState /\ Sound(k, Claimed) /\ Lists(k)
      /\ k.cur \in Thread /\ k.cur \notin Holding /\ k.cur \notin Claimed
      /\ k.stat[k.cur] \in {"RUNNING", "SUSPEND"}
      /\ Claimed \subseteq Thread /\ Holding \subseteq Thread /\ isr \in {"none", "timer"}
  BY <1>1, AppFacts
<1>3. /\ m \in KernelState
      /\ m.ready = k.ready /\ m.group = k.group /\ m.wait = k.wait /\ m.defunct = k.defunct
      /\ m.cur = k.cur /\ m.lock = k.lock /\ m.timer = k.timer /\ m.prio = k.prio
      /\ m.stat = [k.stat EXCEPT ![t] = "SUSPEND"]
  BY <1>2 DEF KernelState, Stat
<1> HIDE DEF m
<1>4. m.stat[t] = "SUSPEND" /\ \A v \in Thread \ {t} : m.stat[v] = k.stat[v]
  BY <1>2, <1>3 DEF KernelState
<1>5. Detached(k, t)
  BY <1>1, <1>2, OneKindOfList
<1>6. Lists(m) /\ \A v \in Thread : Detached(m, v) <=> Detached(k, v)
  <2>1. \A v \in Thread : \/ Detached(k, v)
                          \/ /\ m.stat[v] = k.stat[v]
                             /\ k.stat[v] = "READY" => m.prio[v] = k.prio[v]
    BY <1>3, <1>4, <1>5
  <2> QED
    BY ONLY <2>1, <1>2, <1>3, Frame
<1>7. Sound(m, Claimed)
  <2>1. CurSound(m)
    BY <1>1, <1>2, <1>3, <1>4 DEF Sound, CurSound
  <2>2. TimerSound(m)
    BY <1>1, <1>2, <1>3, <1>4 DEF Sound, TimerSound, KernelState
  <2>3. IdleRunnable(m)
    BY <1>1, <1>2, <1>4, KernelAssumption DEF Sound, IdleRunnable
  <2>4. ReadyComplete(m, Claimed)
    BY <1>2, <1>3, <1>4 DEF Sound, ReadyComplete
  <2> QED
    BY <2>1, <2>2, <2>3, <2>4, <1>6 DEF Sound
<1>8. k' = ResumeLocked(m, t)
  BY <1>1, <1>4 DEF rt_thread_resume
<1>9. /\ Sound(k', Claimed) /\ k'.cur = m.cur /\ k'.lock = m.lock /\ OthersStay(m, k', t)
      /\ k'.stat = [m.stat EXCEPT ![t] = IF t = m.cur THEN "RUNNING" ELSE "READY"]
  BY <1>4, <1>7, <1>8, SoundWake
<1>10. \A v \in Thread \ {t} : k'.stat[v] = k.stat[v]
  BY <1>3, <1>4, <1>9 DEF KernelState
<1>11. k'.stat[t] # "CLOSE"
  BY <1>3, <1>9 DEF KernelState
<1>12. \A v \in Claimed : k'.stat[v] = k.stat[v] /\ (Detached(k, v) => Detached(k', v))
  <2>1. ASSUME NEW v \in Claimed PROVE v \in Thread \ {t}
    BY <1>1, <1>2
  <2>2. ASSUME NEW v \in Claimed, Detached(m, v) PROVE Detached(k', v)
    BY <2>1, <2>2, <1>9 DEF Detached, OthersStay
  <2> QED
    BY <2>1, <2>2, <1>6, <1>10
<1>13. SameHands /\ pc' \in [Thread -> Pc] /\ target' \in [Thread -> Thread]
  BY <1>1, <1>2, GotoHands
<1>14. CurAlive'
  <2>1. pc'[k.cur] = "sched"
    BY <1>1, <1>2 DEF IInv, TypeOK
  <2>2. k'.stat[k.cur] \in {"RUNNING", "SUSPEND"}
    BY <1>1, <1>2, <1>10
  <2> QED
    BY <2>1, <2>2, <1>3, <1>9 DEF CurAlive
<1> QED
  BY <1>1, <1>2, <1>3, <1>9, <1>10, <1>11, <1>12, <1>13, <1>14, QuietStep

\* Marking the current thread as yielding changes nothing that Sound speaks of.
LEMMA SetYieldFacts ==
  ASSUME IInv
  PROVE  LET m == [k EXCEPT !.yield[k.cur] = TRUE] IN
         /\ Sound(m, Claimed) /\ m.cur = k.cur /\ m.lock = k.lock /\ m.stat = k.stat
         /\ \A t \in Thread : Detached(m, t) <=> Detached(k, t)
<1> DEFINE m == [k EXCEPT !.yield[k.cur] = TRUE]
<1>1. k \in KernelState /\ Sound(k, Claimed)
  BY DEF IInv, TypeOK
<1>2. /\ m \in KernelState
      /\ m.ready = k.ready /\ m.group = k.group /\ m.wait = k.wait /\ m.defunct = k.defunct
      /\ m.cur = k.cur /\ m.lock = k.lock /\ m.timer = k.timer /\ m.prio = k.prio
      /\ m.stat = k.stat
  BY <1>1 DEF KernelState
<1> HIDE DEF m
<1>3. Sound(m, Claimed) /\ \A t \in Thread : Detached(m, t) <=> Detached(k, t)
  BY <1>1, <1>2, SoundNeutral
<1> QED
  BY <1>2, <1>3 DEF m

LEMMA YieldInv ==
  ASSUME IInv, Yield PROVE IInv'
<1> DEFINE m == [k EXCEPT !.yield[k.cur] = TRUE]
<1>1. /\ pc[k.cur] = "run" /\ k' = rt_schedule(m)
      /\ pc' = pc /\ target' = target /\ isr' = isr
  BY DEF Yield, App, At
<1>2. /\ Sound(m, Claimed) /\ m.cur = k.cur /\ m.lock = k.lock /\ m.stat = k.stat
      /\ \A t \in Thread : Detached(m, t) <=> Detached(k, t)
  BY SetYieldFacts
<1> HIDE DEF m
<1>3. /\ k.cur \notin Holding /\ k.stat[k.cur] \in {"RUNNING", "SUSPEND"}
      /\ Claimed \subseteq Thread /\ isr \in {"none", "timer"}
  BY <1>1, AppFacts
<1>4. SameHands /\ pc' \in [Thread -> Pc] /\ target' \in [Thread -> Thread]
  BY <1>1, <1>3, GotoHands
<1> QED
  BY <1>1, <1>2, <1>3, <1>4, ScheduleStep

LEMMA TickInv ==
  ASSUME IInv, NEW slice \in BOOLEAN, Tick(slice) PROVE IInv'
<1> DEFINE m == [k EXCEPT !.yield[k.cur] = TRUE]
<1>1. /\ k' = IF slice THEN rt_schedule(m) ELSE k
      /\ pc' = pc /\ target' = target /\ isr' = "timer"
  BY DEF Tick
<1>2. /\ Sound(m, Claimed) /\ m.cur = k.cur /\ m.lock = k.lock /\ m.stat = k.stat
      /\ \A t \in Thread : Detached(m, t) <=> Detached(k, t)
  BY SetYieldFacts
<1> HIDE DEF m
<1>3. Claimed \subseteq Thread /\ Holding' = Holding /\ Claimed' = Claimed
  BY <1>1, ClaimedFacts DEF Holding, Claimed
<1>4. SameHands /\ pc' \in [Thread -> Pc] /\ target' \in [Thread -> Thread]
  BY <1>1, <1>3 DEF SameHands, IInv, TypeOK
<1>5. k.stat[k.cur] \in {"RUNNING", "SUSPEND", "CLOSE"}
  BY DEF IInv, CurAlive
<1>6. CASE slice
  <2>1. k' = rt_schedule(m)
    BY <1>1, <1>6
  <2> QED
    BY <2>1, <1>1, <1>2, <1>3, <1>4, <1>5, ScheduleStep
<1>7. CASE ~slice
  <2>1. k' = k
    BY <1>1, <1>7
  <2>2. CurAlive' /\ Sound(k', Claimed)
    BY <2>1, <1>1 DEF IInv, CurAlive
  <2> QED
    BY <2>1, <2>2, <1>1, <1>4, QuietStep
<1> QED
  BY <1>6, <1>7

LEMMA TickEndInv ==
  ASSUME IInv, TickEnd PROVE IInv'
<1>1. k' = k /\ pc' = pc /\ target' = target /\ isr' = "none"
  BY DEF TickEnd
<1>2. Holding' = Holding
  BY <1>1 DEF Holding
<1>3. SameHands /\ pc' \in [Thread -> Pc] /\ target' \in [Thread -> Thread]
  BY <1>1, <1>2 DEF SameHands, IInv, TypeOK
<1>4. CurAlive' /\ Sound(k', Claimed)
  BY <1>1 DEF IInv, CurAlive
<1> QED
  BY <1>1, <1>3, <1>4, QuietStep

LEMMA SuspendSelfInv ==
  ASSUME IInv, SuspendSelf PROVE IInv'
<1>1. /\ pc[k.cur] = "run" /\ k.cur # Idle /\ k' = rt_thread_suspend(k, k.cur)
      /\ pc' = pc /\ target' = target /\ isr' = isr
  BY DEF SuspendSelf, App, At
<1>2. /\ k \in KernelState /\ Sound(k, Claimed) /\ Lists(k)
      /\ k.cur \in Thread /\ k.cur \notin Holding /\ k.cur \notin Claimed
      /\ k.stat[k.cur] \in {"RUNNING", "SUSPEND"}
      /\ Claimed \subseteq Thread /\ Holding \subseteq Thread /\ isr \in {"none", "timer"}
  BY <1>1, AppFacts
<1>3. /\ Sound(k', Claimed) /\ k'.cur = k.cur /\ k'.lock = k.lock /\ OthersStay(k, k', k.cur)
      /\ \A v \in Thread \ {k.cur} : k'.stat[v] = k.stat[v]
      /\ k.stat[k.cur] = "RUNNING" => k'.stat[k.cur] = "SUSPEND"
      /\ k.stat[k.cur] # "RUNNING" => k' = k
  BY <1>1, <1>2, SoundSuspend
<1>4. SameHands /\ pc' \in [Thread -> Pc] /\ target' \in [Thread -> Thread]
  BY <1>1, <1>2, GotoHands
<1>5. k'.stat[k.cur] = "SUSPEND"
  BY <1>2, <1>3
<1>6. \A t \in Claimed : k'.stat[t] = k.stat[t] /\ (Detached(k, t) => Detached(k', t))
  BY <1>2, <1>3 DEF Detached, OthersStay
<1>7. CurAlive'
  BY <1>1, <1>3, <1>5 DEF CurAlive
<1> QED
  BY <1>1, <1>2, <1>3, <1>4, <1>5, <1>6, <1>7, QuietStep

LEMMA SleepInv ==
  ASSUME IInv, Sleep PROVE IInv'
<1> DEFINE e == [k EXCEPT !.error[k.cur] = "RT_EOK"]
           m == rt_thread_suspend(e, e.cur)
<1>1. /\ pc[k.cur] = "run" /\ k.cur # Idle
      /\ k' = StartTimer(rt_thread_suspend(e, k.cur), k.cur)
      /\ pc' = [pc EXCEPT ![k.cur] = "sleep"] /\ target' = target /\ isr' = isr
  BY DEF Sleep, App, At, Goto
<1>2. /\ k \in KernelState /\ Sound(k, Claimed) /\ Lists(k)
      /\ k.cur \in Thread /\ k.cur \notin Holding /\ k.cur \notin Claimed
      /\ k.stat[k.cur] \in {"RUNNING", "SUSPEND"}
      /\ Claimed \subseteq Thread /\ Holding \subseteq Thread /\ isr \in {"none", "timer"}
  BY <1>1, AppFacts
<1>3. /\ e \in KernelState
      /\ e.ready = k.ready /\ e.group = k.group /\ e.wait = k.wait /\ e.defunct = k.defunct
      /\ e.cur = k.cur /\ e.lock = k.lock /\ e.timer = k.timer /\ e.prio = k.prio
      /\ e.stat = k.stat
  BY <1>2 DEF KernelState, Errno
<1> HIDE DEF e
<1>4. Sound(e, Claimed) /\ \A t \in Thread : Detached(e, t) <=> Detached(k, t)
  BY <1>2, <1>3, SoundNeutral
<1>5. /\ Sound(m, Claimed) /\ m.cur = e.cur /\ m.lock = e.lock /\ OthersStay(e, m, e.cur)
      /\ \A v \in Thread \ {e.cur} : m.stat[v] = e.stat[v]
      /\ e.stat[e.cur] = "RUNNING" => m.stat[e.cur] = "SUSPEND"
      /\ e.stat[e.cur] # "RUNNING" => m = e
  BY <1>1, <1>3, <1>4, SoundSuspend
<1>6. m.stat[k.cur] = "SUSPEND" /\ m.cur = k.cur /\ m.lock = k.lock
  BY <1>2, <1>3, <1>5
<1>7. m \in KernelState /\ Lists(m) /\ k' = [m EXCEPT !.timer = @ \cup {k.cur}]
  BY <1>1, <1>3, <1>5 DEF Sound, Lists, StartTimer
<1> HIDE DEF m
<1>8. /\ k' \in KernelState
      /\ k'.ready = m.ready /\ k'.group = m.group /\ k'.wait = m.wait /\ k'.defunct = m.defunct
      /\ k'.cur = m.cur /\ k'.lock = m.lock /\ k'.timer = m.timer \cup {k.cur}
      /\ k'.prio = m.prio /\ k'.stat = m.stat
  BY <1>2, <1>7 DEF KernelState
<1>9. Lists(k') /\ \A t \in Thread : Detached(k', t) <=> Detached(m, t)
  <2>1. \A v \in Thread : \/ Detached(m, v)
                          \/ /\ k'.stat[v] = m.stat[v]
                             /\ m.stat[v] = "READY" => k'.prio[v] = m.prio[v]
    BY <1>8
  <2> QED
    BY ONLY <2>1, <1>7, <1>8, Frame
<1>10. Sound(k', Claimed)
  <2>1. TimerSound(k')
    BY <1>5, <1>6, <1>8 DEF Sound, TimerSound
  <2> QED
    BY <2>1, <1>5, <1>8, <1>9 DEF Sound, CurSound, ReadyComplete, IdleRunnable
<1>11. \A t \in Claimed : k'.stat[t] = k.stat[t] /\ (Detached(k, t) => Detached(k', t))
  <2>1. ASSUME NEW t \in Claimed PROVE t \in Thread /\ t # e.cur
    BY <1>2, <1>3
  <2>2. ASSUME NEW t \in Claimed, Detached(e, t) PROVE Detached(m, t)
    BY <2>1, <2>2, <1>5 DEF Detached, OthersStay
  <2> QED
    BY <2>1, <2>2, <1>3, <1>4, <1>5, <1>8, <1>9
<1>12. \A t \in Holding : k'.stat[t] = "CLOSE" => k.stat[t] = "CLOSE"
  BY <1>2, <1>3, <1>5, <1>8
<1>13. SameHands /\ pc' \in [Thread -> Pc] /\ target' \in [Thread -> Thread]
  BY <1>1, <1>2, GotoHands
<1>14. pc'[k.cur] = "sleep"
  BY <1>1, <1>2 DEF IInv, TypeOK
<1>15. CurAlive'
  BY <1>6, <1>8, <1>14 DEF CurAlive
<1> QED
  BY <1>1, <1>2, <1>6, <1>8, <1>10, <1>11, <1>12, <1>13, <1>15, QuietStep

LEMMA ScheduleInv ==
  ASSUME IInv, Schedule PROVE IInv'
<1>1. PICK l \in {"run", "woken"} :
        /\ pc[k.cur] \in {"sched", "run", "sleep"} /\ k' = rt_schedule(k)
        /\ pc' = [pc EXCEPT ![k.cur] = l] /\ target' = target /\ isr' = isr
  BY DEF Schedule, At, Goto
<1>2. k.cur \notin Holding
  BY <1>1 DEF Holding
<1>3. SameHands /\ pc' \in [Thread -> Pc] /\ target' \in [Thread -> Thread]
  BY <1>1, <1>2, GotoHands
<1>4. k.stat[k.cur] \in {"RUNNING", "SUSPEND", "CLOSE"} /\ Sound(k, Claimed) /\ isr' \in {"none", "timer"}
  BY <1>1 DEF IInv, CurAlive, TypeOK
<1> QED
  BY <1>1, <1>3, <1>4, ScheduleStep

\* A step of the current thread that only changes error or lock.
LEMMA NeutralStep ==
  ASSUME IInv, k.cur \notin Holding, k' \in KernelState,
         k'.ready = k.ready, k'.group = k.group, k'.wait = k.wait, k'.defunct = k.defunct,
         k'.stat = k.stat, k'.prio = k.prio, k'.cur = k.cur, k'.timer = k.timer,
         pc[k.cur] # "sched", NEW l \in {"run", "sched", "sleep", "woken"},
         pc' = [pc EXCEPT ![k.cur] = l] \/ pc' = pc, target' = target, isr' = isr
  PROVE  IInv'
<1>1. Sound(k, Claimed) /\ isr \in {"none", "timer"} /\ Claimed \subseteq Thread
  BY ClaimedFacts DEF IInv, TypeOK
<1>2. Sound(k', Claimed) /\ \A t \in Thread : Detached(k', t) <=> Detached(k, t)
  BY <1>1, SoundNeutral
<1>3. SameHands /\ pc' \in [Thread -> Pc] /\ target' \in [Thread -> Thread]
  BY GotoHands
<1>4. k.cur \in Thread /\ k.stat[k.cur] \in {"RUNNING", "SUSPEND"}
  BY CurFree
<1>5. k.cur \notin Holding'
  BY <1>3 DEF SameHands
<1>6. pc'[k.cur] # "close"
  BY <1>4, <1>5 DEF Holding
<1>7. CurAlive'
  BY <1>4, <1>6 DEF CurAlive
<1> QED
  BY <1>1, <1>2, <1>3, <1>7, QuietStep

LEMMA SleepReturnInv ==
  ASSUME IInv, SleepReturn PROVE IInv'
<1>1. /\ pc[k.cur] = "woken"
      /\ k' = [k EXCEPT !.error[k.cur] = IF @ = "RT_ETIMEOUT" THEN "RT_EOK" ELSE @]
      /\ pc' = [pc EXCEPT ![k.cur] = "run"] /\ target' = target /\ isr' = isr
  BY DEF SleepReturn, At, Goto
<1>2. k \in KernelState /\ k.cur \notin Holding
  BY <1>1 DEF IInv, TypeOK, Holding
<1>3. /\ k' \in KernelState
      /\ k'.ready = k.ready /\ k'.group = k.group /\ k'.wait = k.wait /\ k'.defunct = k.defunct
      /\ k'.stat = k.stat /\ k'.prio = k.prio /\ k'.cur = k.cur /\ k'.timer = k.timer
  BY <1>1, <1>2 DEF KernelState, Errno
<1> QED
  BY <1>1, <1>2, <1>3, NeutralStep

LEMMA EnterCriticalInv ==
  ASSUME IInv, EnterCritical PROVE IInv'
<1> DEFINE n == k.lock + 1
<1>1. /\ pc[k.cur] = "run" /\ k' = [k EXCEPT !.lock = n]
      /\ pc' = pc /\ target' = target /\ isr' = isr
  BY DEF EnterCritical, App, At, rt_enter_critical
<1>2. k \in KernelState /\ k.cur \notin Holding
  BY <1>1 DEF IInv, TypeOK, Holding
<1>3. n \in Nat
  <2>1. k.lock \in Nat
    BY <1>2 DEF KernelState
  <2> QED
    BY <2>1
<1> HIDE DEF n
<1>4. /\ k' \in KernelState
      /\ k'.ready = k.ready /\ k'.group = k.group /\ k'.wait = k.wait /\ k'.defunct = k.defunct
      /\ k'.stat = k.stat /\ k'.prio = k.prio /\ k'.cur = k.cur /\ k'.timer = k.timer
  BY <1>1, <1>2, <1>3 DEF KernelState
<1> QED
  BY <1>1, <1>2, <1>4, NeutralStep

LEMMA ExitCriticalInv ==
  ASSUME IInv, ExitCritical PROVE IInv'
<1> DEFINE n == IF k.lock <= 1 THEN 0 ELSE k.lock - 1
<1>1. /\ pc[k.cur] = "run" /\ k' = [k EXCEPT !.lock = n]
      /\ pc' = [pc EXCEPT ![k.cur] = "sched"] \/ pc' = pc
      /\ target' = target /\ isr' = isr
  BY DEF ExitCritical, App, At, rt_exit_critical
<1>2. k \in KernelState /\ k.cur \notin Holding
  BY <1>1 DEF IInv, TypeOK, Holding
<1>3. n \in Nat
  <2>1. k.lock \in Nat
    BY <1>2 DEF KernelState
  <2> QED
    BY <2>1
<1> HIDE DEF n
<1>4. /\ k' \in KernelState
      /\ k'.ready = k.ready /\ k'.group = k.group /\ k'.wait = k.wait /\ k'.defunct = k.defunct
      /\ k'.stat = k.stat /\ k'.prio = k.prio /\ k'.cur = k.cur /\ k'.timer = k.timer
  BY <1>1, <1>2, <1>3 DEF KernelState
<1> QED
  BY <1>1, <1>2, <1>4, NeutralStep

LEMMA SetPriorityInv ==
  ASSUME IInv, Disciplined, NEW t \in Thread, NEW p \in Prio, SetPriority(t, p) PROVE IInv'
<1>1. /\ pc[k.cur] = "run" /\ t \notin Claimed /\ k' = ChangePriority(k, t, p)
      /\ pc' = pc /\ target' = target /\ isr' = isr
  BY DEF SetPriority, App, At, Untouched, Disciplined
<1>2. /\ k \in KernelState /\ Sound(k, Claimed) /\ Lists(k)
      /\ k.cur \in Thread /\ k.cur \notin Holding /\ k.cur \notin Claimed
      /\ k.stat[k.cur] \in {"RUNNING", "SUSPEND"}
      /\ Claimed \subseteq Thread /\ Holding \subseteq Thread /\ isr \in {"none", "timer"}
  BY <1>1, AppFacts
<1>3. /\ Sound(k', Claimed) /\ k'.cur = k.cur /\ k'.lock = k.lock /\ k'.stat = k.stat
      /\ OthersStay(k, k', t)
  BY <1>1, <1>2, SoundPriority
<1>4. SameHands /\ pc' \in [Thread -> Pc] /\ target' \in [Thread -> Thread]
  BY <1>1, <1>2, GotoHands
<1>5. \A v \in Claimed : k'.stat[v] = k.stat[v] /\ (Detached(k, v) => Detached(k', v))
  BY <1>1, <1>2, <1>3 DEF Detached, OthersStay
<1>6. CurAlive'
  BY <1>1, <1>2, <1>3 DEF CurAlive
<1> QED
  BY <1>1, <1>2, <1>3, <1>4, <1>5, <1>6, QuietStep

\* Both interrupts that wake a thread: the timeout and the device.
LEMMA WakeInv ==
  ASSUME IInv, NEW t \in Thread, k.stat[t] = "SUSPEND", t \notin Claimed,
         NEW m \in {ResumeLocked(k, t), _thread_timeout(k, t)}, k' = rt_schedule(m),
         pc' = pc, target' = target, isr' = isr
  PROVE  IInv'
<1>1. k \in KernelState /\ Sound(k, Claimed) /\ isr \in {"none", "timer"} /\ Claimed \subseteq Thread
  BY ClaimedFacts DEF IInv, TypeOK
<1>2. /\ Sound(m, Claimed) /\ m.cur = k.cur /\ m.lock = k.lock /\ OthersStay(k, m, t)
      /\ m.stat = [k.stat EXCEPT ![t] = IF t = k.cur THEN "RUNNING" ELSE "READY"]
  BY <1>1, SoundWake
<1>3. /\ \A v \in Thread \ {t} : m.stat[v] = k.stat[v]
      /\ m.stat[t] = IF t = k.cur THEN "RUNNING" ELSE "READY"
  BY <1>1, <1>2 DEF KernelState
<1>4. SameHands /\ pc' \in [Thread -> Pc] /\ target' \in [Thread -> Thread]
  BY DEF SameHands, Holding, IInv, TypeOK
<1>5. \A v \in Claimed : m.stat[v] = k.stat[v] /\ (Detached(k, v) => Detached(m, v))
  BY <1>1, <1>2, <1>3 DEF Detached, OthersStay
<1>6. k.cur \in Thread /\ k.stat[k.cur] \in {"RUNNING", "SUSPEND", "CLOSE"}
  BY <1>1 DEF IInv, CurAlive, KernelState
<1>7. m.stat[k.cur] \in {"RUNNING", "SUSPEND", "CLOSE"}
  BY <1>3, <1>6
<1>8. \A v \in Thread : m.stat[v] = "CLOSE" => k.stat[v] = "CLOSE"
  BY <1>3
<1> QED
  BY <1>1, <1>2, <1>4, <1>5, <1>7, <1>8, ScheduleStep

LEMMA TimerExpireInv ==
  ASSUME IInv, Disciplined, NEW t \in Thread, TimerExpire(t) PROVE IInv'
<1>1. /\ t \in k.timer /\ t \notin Claimed /\ k' = rt_schedule(_thread_timeout(k, t))
      /\ pc' = pc /\ target' = target /\ isr' = isr
  BY DEF TimerExpire, NotExpiring, Disciplined
<1>2. k.stat[t] = "SUSPEND"
  BY <1>1 DEF IInv, Sound, TimerSound
<1> QED
  BY <1>1, <1>2, WakeInv

LEMMA DeviceIsrInv ==
  ASSUME IInv, Disciplined, NEW t \in Thread, DeviceIsr(t) PROVE IInv'
<1>1. /\ k.stat[t] = "SUSPEND" /\ t \notin Claimed /\ k' = rt_schedule(ResumeLocked(k, t))
      /\ pc' = pc /\ target' = target /\ isr' = isr
  BY DEF DeviceIsr, Untouched, Disciplined, rt_thread_resume
<1> QED
  BY <1>1, WakeInv

\* The first section of a call takes a thread in hand that nobody has.
LEMMA TakeInHand ==
  ASSUME IInv, pc[k.cur] = "run", NEW t \in Thread, t \notin Claimed,
         NEW l \in {"resume", "delete", "close"},
         pc' = [pc EXCEPT ![k.cur] = l], target' = [target EXCEPT ![k.cur] = t], isr' = isr,
         Sound(k', Claimed \cup {t}), k'.cur = k.cur, k'.lock = k.lock, k'.stat = k.stat,
         \A v \in Claimed : Detached(k, v) => Detached(k', v),
         l = "resume" => k.stat[t] = "SUSPEND",
         l = "delete" => t # k.cur,
         l # "resume" => /\ t # Idle /\ k.stat[t] \notin {"FREE", "CLOSE"}
                         /\ t \notin Holding /\ Detached(k', t)
                         /\ t = k.cur => k.lock = 0
  PROVE  IInv'
<1>1. /\ k \in KernelState /\ Sound(k, Claimed) /\ Lists(k)
      /\ k.cur \in Thread /\ k.cur \notin Holding /\ k.cur \notin Claimed
      /\ k.stat[k.cur] \in {"RUNNING", "SUSPEND"}
      /\ Claimed \subseteq Thread /\ Holding \subseteq Thread /\ isr \in {"none", "timer"}
  BY AppFacts
<1>2. /\ pc' \in [Thread -> Pc] /\ target' \in [Thread -> Thread]
      /\ pc'[k.cur] = l /\ target'[k.cur] = t
      /\ \A u \in Thread \ {k.cur} : pc'[u] = pc[u] /\ target'[u] = target[u]
  BY <1>1 DEF IInv, TypeOK, Pc
<1>3. Holding' = Holding \cup {k.cur}
  BY <1>1, <1>2 DEF Holding
<1>4. Claimed' = Claimed \cup {t}
  BY <1>1, <1>2, <1>3 DEF Claimed
<1>5. k' \in KernelState
  BY DEF Sound, Lists
<1>6. \A v \in Holding : target[v] # t /\ target[v] # k.cur /\ target[v] \in Claimed
  BY <1>1 DEF Claimed
<1>7. ASSUME NEW u \in Holding'
      PROVE  /\ pc'[u] = "resume" => k'.stat[target'[u]] = "SUSPEND"
             /\ pc'[u] # "resume" =>
                  /\ target'[u] # Idle /\ k'.stat[target'[u]] \notin {"FREE", "CLOSE"}
                  /\ target'[u] # u => target'[u] \notin Holding'
                  /\ pc'[u] = "delete" => target'[u] # u
                  /\ Detached(k', target'[u]) \/ (target'[u] = u /\ k'.stat[target'[u]] = "READY")
             /\ target'[u] # u => target'[u] # k'.cur
             /\ \A v \in Holding' : target'[v] = target'[u] => v = u
  <2>1. CASE u = k.cur
    BY <2>1, <1>1, <1>2, <1>3, <1>6
  <2>2. CASE u # k.cur
    <3>1. u \in Holding /\ u \in Thread /\ pc'[u] = pc[u] /\ target'[u] = target[u]
      BY <2>2, <1>1, <1>2, <1>3
    <3>2. /\ pc[u] = "resume" => k.stat[target[u]] = "SUSPEND"
          /\ pc[u] # "resume" =>
               /\ target[u] # Idle /\ k.stat[target[u]] \notin {"FREE", "CLOSE"}
               /\ target[u] # u => target[u] \notin Holding
               /\ pc[u] = "delete" => target[u] # u
               /\ Detached(k, target[u]) \/ (target[u] = u /\ k.stat[target[u]] = "READY")
          /\ target[u] # u => target[u] # k.cur
          /\ \A v \in Holding : target[v] = target[u] => v = u
      BY <3>1 DEF IInv, InHandSound
    <3>3. Detached(k, target[u]) => Detached(k', target[u])
      BY <3>1, <1>6
    <3>4. \A v \in Holding' : target'[v] = target'[u] => v = u
      BY <3>1, <3>2, <1>1, <1>2, <1>3, <1>6
    <3>5. target[u] # u => target[u] \notin Holding \/ pc[u] = "resume"
      BY <3>2
    <3> QED
      BY <3>1, <3>2, <3>3, <3>4, <3>5, <1>3, <1>6
  <2> QED
    BY <2>1, <2>2
<1>8. \A v \in Thread : k'.stat[v] = "CLOSE" => v \notin Holding'
  BY <1>1, <1>3 DEF IInv, InHandSound
<1>9. InHandSound'
  BY <1>7, <1>8 DEF InHandSound
<1>10. CurAlive'
  BY <1>1, <1>2 DEF CurAlive
<1>11. TypeOK'
  BY <1>1, <1>2, <1>5 DEF TypeOK
<1> QED
  BY <1>4, <1>9, <1>10, <1>11 DEF IInv

\* The second section of a call ends it and lets go of the thread.
LEMMA LetGo ==
  ASSUME IInv, k.cur \in Holding, NEW l \in {"run", "sched"},
         pc' = [pc EXCEPT ![k.cur] = l], target' = [target EXCEPT ![k.cur] = k.cur], isr' = isr,
         Sound(k', Claimed \ {target[k.cur]}), k'.cur = k.cur,
         \A v \in Thread \ {target[k.cur]} : k'.stat[v] = k.stat[v],
         OthersStay(k, k', target[k.cur]),
         k'.stat[target[k.cur]] = "CLOSE" => pc[k.cur] # "resume",
         CurAlive'
  PROVE  IInv'
<1> DEFINE c == k.cur
           t == target[k.cur]
<1>1. c \in Thread /\ t \in Thread /\ Holding \subseteq Thread /\ isr \in {"none", "timer"}
  BY DEF IInv, TypeOK, KernelState, Holding
<1>2. /\ pc' \in [Thread -> Pc] /\ target' \in [Thread -> Thread]
      /\ pc'[c] = l
      /\ \A u \in Thread \ {c} : pc'[u] = pc[u] /\ target'[u] = target[u]
  BY <1>1 DEF IInv, TypeOK, Pc
<1>3. Holding' = Holding \ {c}
  BY <1>1, <1>2 DEF Holding
<1>4. \A v \in Holding \ {c} : target[v] # t /\ target[v] \in Thread
  BY <1>1 DEF IInv, InHandSound, TypeOK
<1>5. Claimed' = Claimed \ {t}
  <2>1. Claimed' = {target[v] : v \in Holding \ {c}}
    BY <1>1, <1>2, <1>3 DEF Claimed
  <2> QED
    BY <2>1, <1>4 DEF Claimed
<1>6. k' \in KernelState
  BY DEF Sound, Lists
<1>7. ASSUME NEW u \in Holding'
      PROVE  /\ pc'[u] = "resume" => k'.stat[target'[u]] = "SUSPEND"
             /\ pc'[u] # "resume" =>
                  /\ target'[u] # Idle /\ k'.stat[target'[u]] \notin {"FREE", "CLOSE"}
                  /\ target'[u] # u => target'[u] \notin Holding'
                  /\ pc'[u] = "delete" => target'[u] # u
                  /\ Detached(k', target'[u]) \/ (target'[u] = u /\ k'.stat[target'[u]] = "READY")
             /\ target'[u] # u => target'[u] # k'.cur
             /\ \A v \in Holding' : target'[v] = target'[u] => v = u
  <2>1. u \in Holding /\ u # c /\ u \in Thread /\ pc'[u] = pc[u] /\ target'[u] = target[u]
    BY <1>1, <1>2, <1>3
  <2>2. /\ pc[u] = "resume" => k.stat[target[u]] = "SUSPEND"
        /\ pc[u] # "resume" =>
             /\ target[u] # Idle /\ k.stat[target[u]] \notin {"FREE", "CLOSE"}
             /\ target[u] # u => target[u] \notin Holding
             /\ pc[u] = "delete" => target[u] # u
             /\ Detached(k, target[u]) \/ (target[u] = u /\ k.stat[target[u]] = "READY")
        /\ target[u] # u => target[u] # k.cur
        /\ \A v \in Holding : target[v] = target[u] => v = u
    BY <2>1 DEF IInv, InHandSound
  <2>3. target[u] \in Thread \ {t} /\ k'.stat[target[u]] = k.stat[target[u]]
    BY <2>1, <1>4
  <2>4. Detached(k, target[u]) => Detached(k', target[u])
    BY <2>3 DEF OthersStay, Detached
  <2>5. \A v \in Holding' : target'[v] = target'[u] => v = u
    BY <2>1, <2>2, <1>1, <1>2, <1>3
  <2> QED
    BY <2>1, <2>2, <2>3, <2>4, <2>5, <1>3
<1>8. \A v \in Thread : k'.stat[v] = "CLOSE" => v \notin Holding'
  <2>1. ASSUME NEW v \in Thread \ {t}, k'.stat[v] = "CLOSE" PROVE v \notin Holding'
    BY <2>1, <1>3 DEF IInv, InHandSound
  <2>2. ASSUME k'.stat[t] = "CLOSE" PROVE t \notin Holding'
    BY <2>2, <1>3 DEF IInv, InHandSound
  <2> QED
    BY <2>1, <2>2
<1>9. InHandSound'
  BY <1>7, <1>8 DEF InHandSound
<1>10. TypeOK'
  BY <1>1, <1>2, <1>6 DEF TypeOK
<1> QED
  BY <1>5, <1>9, <1>10 DEF IInv

LEMMA ResumeTestInv ==
  ASSUME IInv, Disciplined, NEW t \in Thread, ResumeTest(t) PROVE IInv'
<1>1. /\ pc[k.cur] = "run" /\ k.stat[t] = "SUSPEND" /\ t \notin Claimed /\ k' = k
      /\ pc' = [pc EXCEPT ![k.cur] = "resume"] /\ target' = [target EXCEPT ![k.cur] = t]
      /\ isr' = isr
  BY DEF ResumeTest, App, At, Goto, Untouched, Disciplined
<1>2. Sound(k', Claimed \cup {t})
  BY <1>1 DEF IInv, Sound, ReadyComplete
<1> QED
  BY <1>1, <1>2, TakeInHand

LEMMA DeleteBeginInv ==
  ASSUME IInv, Disciplined, NEW t \in Thread, NEW call \in {"delete", "close"},
         DeleteBegin(t, call)
  PROVE  IInv'
<1>1. /\ pc[k.cur] = "run" /\ t # Idle /\ k.stat[t] \notin {"FREE", "CLOSE"}
      /\ t \notin Claimed /\ t \notin Holding /\ (t = k.cur => call = "close" /\ k.lock = 0)
      /\ k' = IF k.stat[t] # "INIT" THEN rt_schedule_remove_thread(k, t) ELSE k
      /\ pc' = [pc EXCEPT ![k.cur] = call] /\ target' = [target EXCEPT ![k.cur] = t]
      /\ isr' = isr
  BY DEF DeleteBegin, App, At, Goto, Untouched, Disciplined
<1>2. /\ k \in KernelState /\ Sound(k, Claimed) /\ Lists(k)
      /\ k.cur \in Thread /\ k.cur \notin Holding /\ k.cur \notin Claimed
      /\ k.stat[k.cur] \in {"RUNNING", "SUSPEND"}
      /\ Claimed \subseteq Thread /\ Holding \subseteq Thread /\ isr \in {"none", "timer"}
  BY <1>1, AppFacts
<1>3. /\ Sound(k', Claimed \cup {t}) /\ k'.cur = k.cur /\ k'.lock = k.lock /\ k'.stat = k.stat
      /\ OthersStay(k, k', t) /\ Detached(k', t)
  <2>1. CASE k.stat[t] # "INIT"
    <3>1. k' = rt_schedule_remove_thread(k, t)
      BY <1>1, <2>1
    <3> QED
      BY <3>1, <1>2, SoundRemove
  <2>2. CASE k.stat[t] = "INIT"
    <3>1. k' = k
      BY <1>1, <2>2
    <3>2. Detached(k, t)
      BY <1>2, <2>2, OneKindOfList
    <3> QED
      BY <3>1, <3>2, <1>2 DEF Sound, ReadyComplete, OthersStay
  <2> QED
    BY <2>1, <2>2
<1>4. \A v \in Claimed : Detached(k, v) => Detached(k', v)
  BY <1>1, <1>2, <1>3 DEF Detached, OthersStay
<1>5. call \in {"resume", "delete", "close"} /\ call # "resume"
  OBVIOUS
<1> QED
  BY <1>1, <1>3, <1>4, <1>5, TakeInHand

LEMMA ResumeActInv ==
  ASSUME IInv, ResumeAct PROVE IInv'
<1> DEFINE t == target[k.cur]
<1>1. /\ pc[k.cur] = "resume" /\ k' = ResumeLocked(k, t) /\ isr' = isr
      /\ pc' = [pc EXCEPT ![k.cur] = "run"] /\ target' = [target EXCEPT ![k.cur] = k.cur]
  BY DEF ResumeAct, At, Goto, Done
<1>2. k \in KernelState /\ Sound(k, Claimed) /\ k.cur \in Thread /\ k.cur \in Holding /\ t \in Thread
  BY <1>1 DEF IInv, TypeOK, KernelState, Holding
<1>3. k.stat[t] = "SUSPEND" /\ k.stat[k.cur] \in {"RUNNING", "SUSPEND"}
  BY <1>1, <1>2 DEF IInv, InHandSound, CurAlive
<1>4. /\ Sound(k', Claimed) /\ k'.cur = k.cur /\ k'.lock = k.lock /\ OthersStay(k, k', t)
      /\ k'.stat = [k.stat EXCEPT ![t] = IF t = k.cur THEN "RUNNING" ELSE "READY"]
      /\ t # k.cur => Member(t, k'.ready[k'.prio[t]])
  BY <1>1, <1>2, <1>3, SoundWake
<1>5. /\ \A v \in Thread \ {t} : k'.stat[v] = k.stat[v]
      /\ k'.stat[t] = IF t = k.cur THEN "RUNNING" ELSE "READY"
  BY <1>2, <1>4 DEF KernelState
<1>6. Sound(k', Claimed \ {t})
  <2>1. ASSUME NEW v \in Thread \ (Claimed \ {t}), k'.stat[v] = "READY"
        PROVE  Member(v, k'.ready[k'.prio[v]])
    <3>1. CASE v = t
      BY <3>1, <2>1, <1>4, <1>5
    <3>2. CASE v # t
      BY <3>2, <2>1, <1>4 DEF Sound, ReadyComplete
    <3> QED
      BY <3>1, <3>2
  <2> QED
    BY <2>1, <1>4 DEF Sound, ReadyComplete
<1>7. pc'[k.cur] = "run" /\ k'.stat[k.cur] \in {"RUNNING", "SUSPEND"}
  BY <1>1, <1>2, <1>3, <1>5 DEF IInv, TypeOK
<1>8. CurAlive'
  BY <1>4, <1>7 DEF CurAlive
<1> QED
  BY <1>1, <1>2, <1>4, <1>5, <1>6, <1>8, LetGo

LEMMA DeleteEndInv ==
  ASSUME IInv, DeleteEnd PROVE IInv'
<1> DEFINE t == target[k.cur]
<1>1. PICK l \in {"run", "sched"} :
        /\ pc[k.cur] \in {"delete", "close"} /\ k' = CloseThread(k, t) /\ isr' = isr
        /\ pc[k.cur] = "close" <=> l = "sched"
        /\ pc' = [pc EXCEPT ![k.cur] = l] /\ target' = [target EXCEPT ![k.cur] = k.cur]
  BY DEF DeleteEnd, At, Goto, Done
<1>2. k \in KernelState /\ Sound(k, Claimed) /\ k.cur \in Thread /\ k.cur \in Holding /\ t \in Thread
  BY <1>1 DEF IInv, TypeOK, KernelState, Holding
<1>3. k.stat[k.cur] # "READY" /\ k.stat[k.cur] \in {"RUNNING", "SUSPEND"}
  BY <1>1, <1>2 DEF IInv, CurAlive, Sound, CurSound
<1>4. t # Idle /\ Detached(k, t)
  BY <1>1, <1>2, <1>3 DEF IInv, InHandSound
<1>5. /\ Sound(k', Claimed \ {t}) /\ k'.cur = k.cur /\ k'.lock = k.lock
      /\ k'.stat = [k.stat EXCEPT ![t] = "CLOSE"] /\ OthersStay(k, k', t)
  BY <1>1, <1>2, <1>4, SoundClose
<1>6. /\ \A v \in Thread \ {t} : k'.stat[v] = k.stat[v]
      /\ k'.stat[t] = "CLOSE"
  BY <1>2, <1>5 DEF KernelState
<1>7. pc'[k.cur] = l
  BY <1>1, <1>2 DEF IInv, TypeOK
<1>8. t = k.cur => k.lock = 0 /\ l = "sched"
  BY <1>1, <1>2 DEF IInv, InHandSound, CurAlive
<1>9. CurAlive'
  BY <1>2, <1>3, <1>5, <1>6, <1>7, <1>8 DEF CurAlive
<1> QED
  BY <1>1, <1>2, <1>5, <1>6, <1>9, LetGo

LEMMA ExitThreadInv ==
  ASSUME IInv, ExitThread PROVE IInv'
<1> DEFINE c == k.cur
           m == rt_schedule_remove_thread(k, c)
<1>1. /\ pc[c] = "run" /\ c # Idle /\ k.lock = 0 /\ k' = CloseThread(m, c)
      /\ pc' = [pc EXCEPT ![c] = "sched"] /\ target' = target /\ isr' = isr
  BY DEF ExitThread, App, At, Goto, _thread_exit
<1>2. /\ k \in KernelState /\ Sound(k, Claimed) /\ Lists(k)
      /\ k.cur \in Thread /\ k.cur \notin Holding /\ k.cur \notin Claimed
      /\ k.stat[k.cur] \in {"RUNNING", "SUSPEND"}
      /\ Claimed \subseteq Thread /\ Holding \subseteq Thread /\ isr \in {"none", "timer"}
  BY <1>1, AppFacts
<1>3. /\ Sound(m, Claimed \cup {c}) /\ m.cur = c /\ m.lock = k.lock /\ m.stat = k.stat
      /\ OthersStay(k, m, c) /\ Detached(m, c)
  BY <1>2, SoundRemove
<1> HIDE DEF m
<1>4. /\ Sound(k', (Claimed \cup {c}) \ {c}) /\ k'.cur = m.cur /\ k'.lock = m.lock
      /\ k'.stat = [m.stat EXCEPT ![c] = "CLOSE"] /\ OthersStay(m, k', c)
  BY <1>1, <1>2, <1>3, SoundClose
<1>5. (Claimed \cup {c}) \ {c} = Claimed
  BY <1>2
<1>6. k'.stat[c] = "CLOSE" /\ \A v \in Thread \ {c} : k'.stat[v] = k.stat[v]
  BY <1>2, <1>3, <1>4 DEF KernelState
<1>7. \A v \in Claimed : k'.stat[v] = k.stat[v] /\ (Detached(k, v) => Detached(k', v))
  <2>1. ASSUME NEW v \in Claimed PROVE v \in Thread \ {c}
    BY <1>2
  <2>2. ASSUME NEW v \in Claimed, Detached(k, v) PROVE Detached(m, v)
    BY <2>1, <2>2, <1>3 DEF Detached, OthersStay
  <2>3. ASSUME NEW v \in Claimed, Detached(m, v) PROVE Detached(k', v)
    BY <2>1, <2>3, <1>4 DEF Detached, OthersStay
  <2> QED
    BY <2>1, <2>2, <2>3, <1>6
<1>8. SameHands /\ pc' \in [Thread -> Pc] /\ target' \in [Thread -> Thread]
  BY <1>1, <1>2, GotoHands
<1>9. pc'[c] = "sched"
  BY <1>1, <1>2 DEF IInv, TypeOK
<1>10. CurAlive'
  BY <1>1, <1>3, <1>4, <1>6, <1>9 DEF CurAlive
<1>11. \A v \in Holding : k'.stat[v] = "CLOSE" => k.stat[v] = "CLOSE"
  BY <1>2, <1>6
<1>12. Sound(k', Claimed) /\ k'.cur = k.cur
  BY <1>3, <1>4, <1>5
<1> QED
  BY <1>1, <1>2, <1>7, <1>8, <1>10, <1>11, <1>12, QuietStep

LEMMA ReapInv ==
  ASSUME IInv, Reap PROVE IInv'
<1> DEFINE t == Head(k.defunct)
           m == rt_list_remove(k, t)
<1>1. /\ pc[k.cur] = "run" /\ k.cur = Idle /\ k.defunct # <<>> /\ isr' = isr
      /\ k' = [m EXCEPT !.stat[t] = "FREE", !.prio[t] = InitPrio[t]]
      /\ pc' = [pc EXCEPT ![t] = "run"] /\ target' = [target EXCEPT ![t] = t]
  BY DEF Reap, At
<1>2. /\ k \in KernelState /\ Sound(k, Claimed) /\ Lists(k)
      /\ k.cur \in Thread /\ k.cur \notin Holding /\ k.cur \notin Claimed
      /\ k.stat[k.cur] \in {"RUNNING", "SUSPEND"}
      /\ Claimed \subseteq Thread /\ Holding \subseteq Thread /\ isr \in {"none", "timer"}
  BY <1>1, AppFacts
<1>3. t \in Thread /\ k.stat[t] = "CLOSE"
  <2>1. k.defunct \in Seq(Thread)
    BY <1>2 DEF KernelState
  <2>2. t \in Thread /\ Member(t, k.defunct)
    BY <2>1, <1>1, EmptyFacts
  <2> QED
    BY <2>2, <1>2 DEF Lists, DefunctSound
<1>4. /\ Lists(m) /\ Detached(m, t) /\ OthersStay(k, m, t)
      /\ m.stat = k.stat /\ m.prio = k.prio
      /\ m.cur = k.cur /\ m.lock = k.lock /\ m.timer = k.timer
  BY <1>2, <1>3, RemoveParkedFacts
<1> HIDE DEF m, t
<1>5. m \in KernelState
  BY <1>4 DEF Lists
<1>6. /\ k' \in KernelState
      /\ k'.ready = m.ready /\ k'.group = m.group /\ k'.wait = m.wait /\ k'.defunct = m.defunct
      /\ k'.stat = [m.stat EXCEPT ![t] = "FREE"] /\ k'.prio = [m.prio EXCEPT ![t] = InitPrio[t]]
      /\ k'.cur = m.cur /\ k'.lock = m.lock /\ k'.timer = m.timer
  BY <1>1, <1>3, <1>5, SchedulerAssumption DEF KernelState, Stat
<1>7. /\ k'.stat[t] = "FREE"
      /\ \A v \in Thread \ {t} : k'.stat[v] = k.stat[v] /\ k'.prio[v] = k.prio[v]
  BY <1>3, <1>4, <1>5, <1>6 DEF KernelState
<1>8. Lists(k') /\ \A v \in Thread : Detached(k', v) <=> Detached(m, v)
  <2>1. \A v \in Thread : \/ Detached(m, v)
                          \/ /\ k'.stat[v] = m.stat[v]
                             /\ m.stat[v] = "READY" => k'.prio[v] = m.prio[v]
    BY <1>4, <1>7
  <2> QED
    BY ONLY <2>1, <1>4, <1>6, Frame
<1>9. t # k.cur /\ t # Idle /\ t \notin Claimed /\ t \notin Holding
  BY <1>1, <1>2, <1>3, ClaimedFacts DEF IInv, InHandSound
<1>10. CurSound(k') /\ TimerSound(k') /\ IdleRunnable(k')
  <2>1. CurSound(k')
    BY <1>2, <1>4, <1>6, <1>7, <1>9 DEF Sound, CurSound
  <2>2. TimerSound(k')
    BY <1>2, <1>3, <1>4, <1>6, <1>7 DEF Sound, TimerSound, KernelState
  <2>3. IdleRunnable(k')
    BY <1>2, <1>7, <1>9, KernelAssumption DEF Sound, IdleRunnable
  <2> QED
    BY <2>1, <2>2, <2>3
<1>11. ASSUME NEW v \in Thread \ Claimed, k'.stat[v] = "READY"
       PROVE  Member(v, k'.ready[k'.prio[v]])
  <2>1. v # t
    BY <1>7, <1>11
  <2>2. k.prio[v] \in Prio /\ Member(v, k.ready[k.prio[v]])
    BY <2>1, <1>2, <1>7, <1>11 DEF Sound, ReadyComplete, KernelState
  <2> QED
    BY <2>1, <2>2, <1>4, <1>6, <1>7 DEF OthersStay
<1>12. Sound(k', Claimed)
  BY <1>8, <1>10, <1>11 DEF Sound, ReadyComplete
<1>13. /\ pc' \in [Thread -> Pc] /\ target' \in [Thread -> Thread]
       /\ pc'[t] = "run" /\ \A v \in Thread \ {t} : pc'[v] = pc[v] /\ target'[v] = target[v]
  BY <1>1, <1>3 DEF IInv, TypeOK, Pc
<1>14. SameHands
  <2>1. Holding' = Holding
    BY <1>9, <1>13 DEF Holding
  <2> QED
    BY <2>1, <1>2, <1>9, <1>13 DEF SameHands
<1>15. \A v \in Claimed : k'.stat[v] = k.stat[v] /\ (Detached(k, v) => Detached(k', v))
  <2>1. ASSUME NEW v \in Claimed PROVE v \in Thread \ {t}
    BY <1>2, <1>9
  <2>2. ASSUME NEW v \in Claimed, Detached(k, v) PROVE Detached(m, v)
    BY <2>1, <2>2, <1>4 DEF Detached, OthersStay
  <2> QED
    BY <2>1, <2>2, <1>7, <1>8
<1>16. CurAlive'
  BY <1>1, <1>2, <1>4, <1>6, <1>7, <1>9, <1>13 DEF CurAlive
<1>17. \A v \in Holding : k'.stat[v] = "CLOSE" => k.stat[v] = "CLOSE"
  BY <1>2, <1>7, <1>9
<1>18. k'.cur = k.cur
  BY <1>4, <1>6
<1> QED
  BY <1>1, <1>2, <1>12, <1>13, <1>14, <1>15, <1>16, <1>17, <1>18, QuietStep

LEMMA StutterInv ==
  ASSUME IInv, UNCHANGED vars PROVE IInv'
BY DEF vars, IInv, TypeOK, InHandSound, CurAlive, Holding, Claimed

-----------------------------------------------------------------------------
(* The theorems *)

\* The inductive invariant holds in every reachable state of scheduler.c,
\* thread.c and idle.c under the two assumptions of Disciplined.
THEOREM Invariance == Disciplined => (Spec => []IInv)
<1> SUFFICES ASSUME Disciplined PROVE Spec => []IInv
  OBVIOUS
<1>1. Init => IInv
  BY InitInv
<1>2. IInv /\ [Next]_vars => IInv'
  <2> SUFFICES ASSUME IInv, [Next]_vars PROVE IInv'
    OBVIOUS
  <2>1. ASSUME NEW t \in Thread, CreateThread(t) PROVE IInv'
    BY <2>1, CreateThreadInv
  <2>2. ASSUME NEW t \in Thread, StartThread(t) PROVE IInv'
    BY <2>2, StartThreadInv
  <2>3. ASSUME NEW t \in Thread, ResumeTest(t) PROVE IInv'
    BY <2>3, ResumeTestInv
  <2>4. ASSUME NEW t \in Thread, TimerExpire(t) PROVE IInv'
    BY <2>4, TimerExpireInv
  <2>5. ASSUME NEW t \in Thread, DeviceIsr(t) PROVE IInv'
    BY <2>5, DeviceIsrInv
  <2>6. ASSUME NEW t \in Thread, NEW p \in Prio, SetPriority(t, p) PROVE IInv'
    BY <2>6, SetPriorityInv
  <2>7. ASSUME NEW t \in Thread, NEW call \in {"delete", "close"}, DeleteBegin(t, call) PROVE IInv'
    BY <2>7, DeleteBeginInv
  <2>8. ASSUME NEW slice \in BOOLEAN, Tick(slice) PROVE IInv'
    BY <2>8, TickInv
  <2>9. ASSUME Yield PROVE IInv'
    BY <2>9, YieldInv
  <2>10. ASSUME SuspendSelf PROVE IInv'
    BY <2>10, SuspendSelfInv
  <2>11. ASSUME Sleep PROVE IInv'
    BY <2>11, SleepInv
  <2>12. ASSUME Schedule PROVE IInv'
    BY <2>12, ScheduleInv
  <2>13. ASSUME SleepReturn PROVE IInv'
    BY <2>13, SleepReturnInv
  <2>14. ASSUME ResumeAct PROVE IInv'
    BY <2>14, ResumeActInv
  <2>15. ASSUME EnterCritical PROVE IInv'
    BY <2>15, EnterCriticalInv
  <2>16. ASSUME ExitCritical PROVE IInv'
    BY <2>16, ExitCriticalInv
  <2>17. ASSUME ExitThread PROVE IInv'
    BY <2>17, ExitThreadInv
  <2>18. ASSUME DeleteEnd PROVE IInv'
    BY <2>18, DeleteEndInv
  <2>19. ASSUME Reap PROVE IInv'
    BY <2>19, ReapInv
  <2>20. ASSUME TickEnd PROVE IInv'
    BY <2>20, TickEndInv
  <2>21. ASSUME UNCHANGED vars PROVE IInv'
    BY <2>21, StutterInv
  <2> QED
    BY <2>1, <2>2, <2>3, <2>4, <2>5, <2>6, <2>7, <2>8, <2>9, <2>10, <2>11,
       <2>12, <2>13, <2>14, <2>15, <2>16, <2>17, <2>18, <2>19, <2>20, <2>21
       DEF Next
<1> QED
  BY <1>1, <1>2, PTL DEF Spec

\* Every variable of the scheduler keeps its type.
THEOREM TypeCorrect == Disciplined => (Spec => []TypeOK)
<1>1. IInv => TypeOK
  BY DEF IInv
<1> QED
  BY <1>1, Invariance, PTL

\* The ready, wait and defunct lists, the priority bitmap, the thread states
\* and the armed timers always agree (rt_schedule, rt_thread_resume,
\* _thread_timeout, rt_thread_delete and the idle thread's reaping).
THEOREM ListsAlwaysConsistent == Disciplined => (Spec => []ListsConsistent)
<1>1. IInv => ListsConsistent
  BY DEF IInv, Sound, Lists, ListsConsistent, ListsSound
<1> QED
  BY <1>1, Invariance, PTL

\* No READY thread ever drops out of the lists that rt_schedule searches.
THEOREM NothingEverLost == Disciplined => (Spec => []NothingLost)
<1>1. IInv => NothingLost
  BY DEF IInv, Sound, NothingLost
<1> QED
  BY <1>1, Invariance, PTL

\* What a call of rt_thread_resume, _delete or _detach relies on between its
\* two sections, and what the processor runs, always holds.
THEOREM CallsAlwaysSound == Disciplined => (Spec => [](InHandSound /\ CurAlive))
<1>1. IInv => InHandSound /\ CurAlive
  BY DEF IInv
<1> QED
  BY <1>1, Invariance, PTL

\* A thread object that the idle thread has given back is reachable from
\* nowhere in the kernel.
THEOREM NothingEverDangles == Disciplined => (Spec => []NothingDangles)
<1>1. ASSUME IInv PROVE NothingDangles
  <2>1. ASSUME NEW t \in Thread, k.stat[t] = "FREE"
        PROVE  /\ t # k.cur /\ t \notin k.timer /\ t \notin Claimed
               /\ \A p \in Prio : ~Member(t, k.ready[p])
               /\ ~Member(t, k.defunct)
    <3>1. t # k.cur
      BY <1>1, <2>1 DEF IInv, CurAlive
    <3>2. t \notin k.timer
      BY <1>1, <2>1 DEF IInv, Sound, TimerSound
    <3>3. t \notin Claimed
      BY <1>1, <2>1, ClaimedFacts
    <3>4. (\A p \in Prio : ~Member(t, k.ready[p])) /\ ~Member(t, k.defunct)
      BY <1>1, <2>1, OneKindOfList DEF IInv, Sound
    <3> QED
      BY <3>1, <3>2, <3>3, <3>4
  <2> QED
    BY <2>1 DEF NothingDangles
<1> QED
  BY <1>1, Invariance, PTL

-----------------------------------------------------------------------------
(* Switches *)

Switch ==
  k'.cur # k.cur =>
    /\ k.lock = 0
    /\ k'.stat[k'.cur] = "RUNNING" /\ MostUrgent(k', Claimed)
    /\ k.stat[k.cur] = "RUNNING" => k'.stat[k.cur] = "READY"

LEMMA ScheduleSwitch ==
  ASSUME NEW m, Sound(m, Claimed), m.cur = k.cur, m.lock = k.lock,
         k.stat[k.cur] = "RUNNING" => m.stat[k.cur] = "RUNNING", k' = rt_schedule(m)
  PROVE  Switch
<1>1. Lists(m) /\ CurSound(m) /\ ReadyComplete(m, Claimed)
  BY DEF Sound
<1>2. k'.cur # m.cur =>
        /\ m.lock = 0 /\ k'.stat[k'.cur] = "RUNNING" /\ MostUrgent(k', Claimed)
        /\ m.stat[m.cur] = "RUNNING" => k'.stat[m.cur] = "READY"
  BY <1>1, ScheduleFacts
<1> QED
  BY <1>2 DEF Switch

\* Only the steps that call rt_schedule can switch.
LEMMA StepSwitch ==
  ASSUME IInv, Disciplined, Next PROVE Switch
<1> DEFINE y == [k EXCEPT !.yield[k.cur] = TRUE]
<1>0. k \in KernelState /\ Sound(k, Claimed) /\ Lists(k) /\ k.cur \in Thread
  BY DEF IInv, TypeOK, Sound, KernelState
<1>1. Sound(y, Claimed) /\ y.cur = k.cur /\ y.lock = k.lock /\ y.stat = k.stat
  BY SetYieldFacts
<1>2. ASSUME k' = rt_schedule(k) \/ k' = rt_schedule(y) PROVE Switch
  <2>1. CASE k' = rt_schedule(k)
    BY <2>1, <1>0, ScheduleSwitch
  <2>2. CASE k' = rt_schedule(y)
    <3> HIDE DEF y
    <3> QED
      BY <2>2, <1>1, ScheduleSwitch
  <2> QED
    BY <1>2, <2>1, <2>2
<1> HIDE DEF y
<1>3. ASSUME NEW t \in Thread, k.stat[t] = "SUSPEND",
             NEW m \in {ResumeLocked(k, t), _thread_timeout(k, t)}, k' = rt_schedule(m)
      PROVE  Switch
  <2>1. /\ Sound(m, Claimed) /\ m.cur = k.cur /\ m.lock = k.lock
        /\ m.stat = [k.stat EXCEPT ![t] = IF t = k.cur THEN "RUNNING" ELSE "READY"]
    BY <1>0, <1>3, SoundWake
  <2>2. k.stat[k.cur] = "RUNNING" => m.stat[k.cur] = "RUNNING"
    BY <1>0, <2>1 DEF KernelState
  <2> QED
    BY <1>3, <2>1, <2>2, ScheduleSwitch
<1>4. ASSUME NEW t \in Thread, TimerExpire(t) PROVE Switch
  <2>1. k.stat[t] = "SUSPEND" /\ k' = rt_schedule(_thread_timeout(k, t))
    BY <1>4, <1>0 DEF TimerExpire, Sound, TimerSound
  <2> QED
    BY <2>1, <1>3
<1>5. ASSUME NEW t \in Thread, DeviceIsr(t) PROVE Switch
  <2>1. k.stat[t] = "SUSPEND" /\ k' = rt_schedule(ResumeLocked(k, t))
    BY <1>5 DEF DeviceIsr, rt_thread_resume
  <2> QED
    BY <2>1, <1>3
<1>6. ASSUME NEW slice \in BOOLEAN, Tick(slice) PROVE Switch
  <2>1. CASE slice
    BY <1>6, <2>1, <1>2 DEF Tick, y
  <2>2. CASE ~slice
    BY <1>6, <2>2 DEF Tick, Switch
  <2> QED
    BY <2>1, <2>2
<1>7. ASSUME Yield \/ Schedule PROVE Switch
  BY <1>7, <1>2 DEF Yield, Schedule, y
<1>8. ASSUME NEW t \in Thread, CreateThread(t) PROVE k'.cur = k.cur
  BY <1>8, <1>0 DEF CreateThread, KernelState
<1>9. ASSUME NEW t \in Thread, StartThread(t) PROVE k'.cur = k.cur
  <2> DEFINE m == [k EXCEPT !.stat[t] = "SUSPEND", !.yield[t] = FALSE]
  <2>1. k' = rt_thread_resume(m, t)
    BY <1>9 DEF StartThread
  <2>2. m \in KernelState /\ m.cur = k.cur
    BY <1>0 DEF KernelState, Stat
  <2> HIDE DEF m
  <2>3. rt_thread_resume(m, t).cur = m.cur
    BY <2>2 DEF rt_thread_resume, ResumeLocked, rt_schedule_insert_thread, StopTimer,
                rt_list_remove, KernelState
  <2> QED
    BY <2>1, <2>2, <2>3
<1>10. ASSUME NEW t \in Thread, NEW p \in Prio, SetPriority(t, p) PROVE k'.cur = k.cur
  BY <1>10, <1>0, SoundPriority DEF SetPriority
<1>11. ASSUME NEW t \in Thread, NEW call \in {"delete", "close"}, DeleteBegin(t, call)
       PROVE  k'.cur = k.cur
  BY <1>11, <1>0, SoundRemove DEF DeleteBegin
<1>12. ASSUME SuspendSelf PROVE k'.cur = k.cur
  BY <1>12, <1>0, SoundSuspend DEF SuspendSelf, App
<1>13. ASSUME Sleep PROVE k'.cur = k.cur
  <2> DEFINE e == [k EXCEPT !.error[k.cur] = "RT_EOK"]
             m == rt_thread_suspend(e, e.cur)
  <2>1. /\ e \in KernelState
        /\ e.ready = k.ready /\ e.group = k.group /\ e.wait = k.wait /\ e.defunct = k.defunct
        /\ e.cur = k.cur /\ e.timer = k.timer /\ e.prio = k.prio /\ e.stat = k.stat
    BY <1>0 DEF KernelState, Errno
  <2>2. k' = StartTimer(m, k.cur) /\ k.cur # Idle
    BY <1>13, <2>1 DEF Sleep, App
  <2> HIDE DEF e
  <2>3. Sound(e, Claimed)
    BY <1>0, <2>1, SoundNeutral
  <2>4. m.cur = e.cur /\ m \in KernelState
    BY <2>1, <2>2, <2>3, SoundSuspend DEF Sound, Lists
  <2> HIDE DEF m
  <2> QED
    BY <2>1, <2>2, <2>4 DEF StartTimer, KernelState
<1>14. ASSUME SleepReturn \/ EnterCritical \/ ExitCritical PROVE k'.cur = k.cur
  <2>1. ASSUME NEW n PROVE [k EXCEPT !.lock = n].cur = k.cur
    BY <1>0 DEF KernelState
  <2>2. CASE SleepReturn
    BY <2>2, <1>0 DEF SleepReturn, KernelState
  <2>3. CASE EnterCritical
    BY <2>1, <2>3 DEF EnterCritical, rt_enter_critical
  <2>4. CASE ExitCritical
    BY <2>1, <2>4 DEF ExitCritical, rt_exit_critical
  <2> QED
    BY <1>14, <2>2, <2>3, <2>4
<1>15. ASSUME ResumeAct PROVE k'.cur = k.cur
  BY <1>15, <1>0 DEF ResumeAct, ResumeLocked, rt_schedule_insert_thread, StopTimer,
                     rt_list_remove, KernelState
<1>16. ASSUME ExitThread PROVE k'.cur = k.cur
  <2> DEFINE m == rt_schedule_remove_thread(k, k.cur)
  <2>1. m.cur = k.cur /\ m \in KernelState
    BY <1>0, SoundRemove DEF Sound, Lists
  <2>2. k' = CloseThread(m, k.cur)
    BY <1>16 DEF ExitThread, _thread_exit
  <2> HIDE DEF m
  <2> QED
    BY <2>1, <2>2 DEF CloseThread, rt_thread_defunct_enqueue, StopTimer, KernelState
<1>17. ASSUME DeleteEnd PROVE k'.cur = k.cur
  BY <1>17, <1>0 DEF DeleteEnd, CloseThread, rt_thread_defunct_enqueue, StopTimer, KernelState
<1>18. ASSUME Reap PROVE k'.cur = k.cur
  BY <1>18, <1>0 DEF Reap, rt_list_remove, KernelState
<1>19. ASSUME NEW t \in Thread, ResumeTest(t) PROVE k'.cur = k.cur
  BY <1>19 DEF ResumeTest
<1>20. ASSUME TickEnd PROVE k'.cur = k.cur
  BY <1>20 DEF TickEnd
<1>21. k'.cur = k.cur => Switch
  BY DEF Switch
<1> QED
  BY <1>4, <1>5, <1>6, <1>7, <1>8, <1>9, <1>10, <1>11, <1>12, <1>13, <1>14, <1>15,
     <1>16, <1>17, <1>18, <1>19, <1>20, <1>21 DEF Next

\* rt_schedule never switches while the scheduler is locked, and hands the
\* processor only to a thread that no ready thread outranks.
THEOREM SwitchesAlwaysSound == Disciplined => (Spec => SwitchSound)
<1> SUFFICES ASSUME Disciplined PROVE Spec => SwitchSound
  OBVIOUS
<1>1. IInv /\ [Next]_vars =>
        [k'.cur # k.cur =>
           /\ k.lock = 0
           /\ k'.stat[k'.cur] = "RUNNING" /\ MostUrgent(k', Claimed)
           /\ k.stat[k.cur] = "RUNNING" => k'.stat[k.cur] = "READY"]_vars
  BY StepSwitch DEF Switch
<1>2. Spec => []IInv
  BY Invariance
<1> QED
  BY <1>1, <1>2, PTL DEF Spec, SwitchSound

\* The preemption that a locked scheduler held back is delivered by the next
\* rt_schedule of a service, whatever interrupts came in between.
THEOREM PreemptionAlwaysDelivered == Disciplined => (Spec => DeferredPreemption)
<1> SUFFICES ASSUME Disciplined PROVE Spec => DeferredPreemption
  OBVIOUS
<1> DEFINE Delivered == k'.stat[k'.cur] = "RUNNING" /\ MostUrgent(k', Claimed)
           Waiting == (At("sched") \/ At("sleep")) /\ k.lock = 0 /\ pc' # pc /\ isr' = "none"
<1>1. ASSUME IInv, Next, Waiting PROVE Delivered
  <2>1. pc[k.cur] \in {"sched", "sleep"} /\ isr = "none" /\ pc' # pc /\ k.lock = 0
    BY <1>1 DEF At
  <2>2. Schedule
    BY <2>1, <1>1 DEF Next, CreateThread, StartThread, ResumeTest, TimerExpire, DeviceIsr,
       SetPriority, DeleteBegin, Tick, Yield, SuspendSelf, Sleep, SleepReturn, ResumeAct,
       EnterCritical, ExitCritical, ExitThread, DeleteEnd, Reap, TickEnd, App, At
  <2>3. k' = rt_schedule(k)
    BY <2>2 DEF Schedule
  <2>4. Lists(k) /\ CurSound(k) /\ ReadyComplete(k, Claimed) /\ IdleRunnable(k) /\ k \in KernelState
    BY <1>1 DEF IInv, Sound, TypeOK
  <2>5. k.group # {} \/ k.stat[k.cur] = "RUNNING"
    <3>1. CASE Idle = k.cur
      BY <3>1, <2>4 DEF IdleRunnable, CurSound
    <3>2. CASE Idle # k.cur
      <4>1. Idle \in Thread \ Claimed /\ k.stat[Idle] = "READY"
        BY <3>2, <2>4, <1>1, KernelAssumption, ClaimedFacts DEF IdleRunnable, CurSound
      <4>2. k.prio[Idle] \in Prio /\ Member(Idle, k.ready[k.prio[Idle]])
        BY <4>1, <2>4 DEF ReadyComplete, KernelState
      <4>3. k.ready[k.prio[Idle]] # <<>>
        BY <4>2 DEF Member
      <4> QED
        BY <4>2, <4>3, <2>4 DEF Lists, GroupExact
    <3> QED
      BY <3>1, <3>2
  <2> QED
    BY <2>1, <2>3, <2>4, <2>5, ScheduleFacts
<1>2. IInv /\ [Next]_vars => [Waiting => Delivered]_vars
  BY <1>1
<1>3. Spec => []IInv
  BY Invariance
<1> QED
  BY <1>2, <1>3, PTL DEF Spec, DeferredPreemption

-----------------------------------------------------------------------------
(* The context switch *)

ContextsInv == SwitchTypeOK /\ ContextsSound

-----------------------------------------------------------------------------
\* The handlers served are finitely many.
LEMMA ServingFinite == IsFiniteSet(Serving) /\ Cardinality(Serving) \in Nat
<1>1. Serving \in SUBSET Level
  BY DEF Serving
<1> QED
  BY <1>1, SwitchAssumption, FS_Subset, FS_CardinalityType

\* In a thread none is, in a handler that calls rt_schedule one is.
LEMMA NestTells ==
  ASSUME NestExact, ThreadMode \/ \E l \in Level : handler[l] = "serving"
  PROVE  rt_interrupt_nest = 0 <=> \A l \in Level : handler[l] # "serving"
<1>1. Cardinality(Serving) = 0 <=> Serving = {}
  BY ServingFinite, FS_EmptySet
<1> QED
  BY <1>1 DEF NestExact, Serving

LEMMA EnterCounts ==
  ASSUME NestExact, SwitchTypeOK, NEW l \in Level, rt_interrupt_enter(l)
  PROVE  NestExact'
<1>1. Serving' = Serving \cup {l} /\ l \notin Serving
  BY DEF Serving, rt_interrupt_enter, SwitchTypeOK
<1> QED
  BY <1>1, ServingFinite, FS_AddElement DEF NestExact, rt_interrupt_enter

LEMMA LeaveCounts ==
  ASSUME NestExact, SwitchTypeOK, NEW l \in Level, rt_interrupt_leave(l)
  PROVE  NestExact' /\ rt_interrupt_nest' \in Nat
<1>1. Serving' = Serving \ {l} /\ l \in Serving
  BY DEF Serving, rt_interrupt_leave, SwitchTypeOK
<1>2. Cardinality(Serving) # 0
  BY <1>1, ServingFinite, FS_EmptySet
<1>3. rt_interrupt_nest' = rt_interrupt_nest - 1
  BY DEF rt_interrupt_leave
<1>4. Cardinality(Serving') = Cardinality(Serving) - 1
  BY <1>1, ServingFinite, FS_RemoveElement
<1> QED
  BY <1>2, <1>3, <1>4, ServingFinite DEF NestExact

\* A handler that is taken or returns is not being served.
LEMMA NestStays ==
  ASSUME NestExact, SwitchTypeOK, rt_interrupt_nest' = rt_interrupt_nest,
         \/ handler' = handler
         \/ \E l \in Level : TakeInterrupt(l) \/ ReturnFromInterrupt(l)
  PROVE  NestExact'
<1>1. ASSUME NEW l \in Level, handler[l] # "serving",
             \/ handler' = [handler EXCEPT ![l] = "entered"]
             \/ handler' = [handler EXCEPT ![l] = "off"]
      PROVE  Serving' = Serving
  BY <1>1 DEF Serving, SwitchTypeOK
<1>2. ASSUME NEW l \in Level, TakeInterrupt(l) PROVE Serving' = Serving
  <2>1. l \in Nat /\ handler[l] = "off" /\ handler' = [handler EXCEPT ![l] = "entered"]
    BY <1>2, SwitchAssumption DEF TakeInterrupt
  <2> QED
    BY <2>1, <1>1
<1>3. ASSUME NEW l \in Level, ReturnFromInterrupt(l) PROVE Serving' = Serving
  BY <1>1, <1>3 DEF ReturnFromInterrupt
<1>4. handler' = handler => Serving' = Serving
  BY DEF Serving
<1>5. Serving' = Serving
  BY <1>2, <1>3, <1>4
<1> QED
  BY <1>5 DEF NestExact

-----------------------------------------------------------------------------
(* The two ways to switch *)

\* A switch that saves the interrupted thread and loads another, or the same
\* one, keeps all contexts.
LEMMA SaveAndLoad ==
  ASSUME SwitchTypeOK, ContextsKept, NEW to \in Thread,
         sp' = [sp EXCEPT ![regs.thread] = regs], regs' = sp'[to], place' = place
  PROVE  ContextsKept' /\ regs'.thread = to /\ regs' \in Context /\ sp' \in [Thread -> Context]
<1> DEFINE own(t) == [thread |-> t, place |-> place[t]]
<1>1. regs = own(regs.thread) /\ regs.thread \in Thread
  BY DEF SwitchTypeOK, ContextsKept, Context
<1>2. \A t \in Thread : sp'[t] = own(t)
  BY <1>1 DEF SwitchTypeOK, ContextsKept
<1>3. regs' = own(to)
  BY <1>2
<1>4. regs' \in Context /\ sp' \in [Thread -> Context]
  BY <1>1, <1>3 DEF SwitchTypeOK, Context
<1> QED
  BY <1>2, <1>3, <1>4 DEF ContextsKept

LEMMA SwitchInThread ==
  ASSUME ContextsInv, NEW to \in Thread, SwitchThreads(to), rt_interrupt_nest = 0
  PROVE  ContextsInv'
<1> USE DEF ContextsInv, ContextsSound
<1>1. ThreadMode
  BY NestTells DEF SwitchThreads
<1>2. ~pending /\ rt_current_thread = regs.thread
  BY <1>1 DEF ThreadMode, RecordExact
<1>3. /\ sp' = [sp EXCEPT ![regs.thread] = regs] /\ regs' = sp'[to] /\ place' = place
      /\ rt_current_thread' = to /\ UNCHANGED <<recorded, nesting>>
  BY <1>2 DEF SwitchThreads, rt_hw_context_switch
<1>4. ContextsKept' /\ regs'.thread = to /\ regs' \in Context /\ sp' \in [Thread -> Context]
  BY <1>3, SaveAndLoad
<1>5. NestExact'
  BY <1>3, NestStays DEF nesting
<1>6. RecordExact'
  BY <1>2, <1>3, <1>4 DEF RecordExact, recorded
<1>7. SwitchTypeOK'
  BY <1>3, <1>4 DEF SwitchTypeOK, recorded, nesting
<1> QED
  BY <1>4, <1>5, <1>6, <1>7

\* The first request of a series finds the interrupted thread the current one;
\* the later ones keep it.
LEMMA SwitchInHandler ==
  ASSUME ContextsInv, NEW to \in Thread, SwitchThreads(to), rt_interrupt_nest # 0
  PROVE  ContextsInv'
<1> USE DEF ContextsInv, ContextsSound
<1>1. /\ rt_hw_context_switch_interrupt(rt_current_thread, to)
      /\ rt_current_thread' = to /\ UNCHANGED <<place, nesting>>
  BY DEF SwitchThreads
<1>2. regs' = regs /\ sp' = sp /\ place' = place
  BY <1>1 DEF rt_hw_context_switch_interrupt
<1>3. ContextsKept'
  BY <1>2 DEF ContextsKept
<1>4. rt_interrupt_from_thread' = regs.thread
  BY <1>1 DEF RecordExact, rt_hw_context_switch_interrupt
<1>5. RecordExact'
  BY <1>1, <1>2, <1>4 DEF RecordExact, rt_hw_context_switch_interrupt
<1>6. NestExact'
  BY <1>1, NestStays DEF nesting
<1>7. SwitchTypeOK'
  BY <1>1, <1>2 DEF SwitchTypeOK, rt_hw_context_switch_interrupt, nesting
<1> QED
  BY <1>3, <1>5, <1>6, <1>7

LEMMA HandlerSwitches == ASSUME ContextsInv, SW_handler PROVE ContextsInv'
<1> USE DEF ContextsInv, ContextsSound
<1>1. /\ rt_interrupt_from_thread = regs.thread
      /\ rt_interrupt_to_thread = rt_current_thread
      /\ rt_thread_switch_interrupt_flag
  BY DEF SW_handler, RecordExact
<1>2. /\ sp' = [sp EXCEPT ![regs.thread] = regs] /\ regs' = sp'[rt_current_thread]
      /\ place' = place
  BY <1>1 DEF SW_handler
<1>3. rt_current_thread \in Thread
  BY DEF SwitchTypeOK
<1>4. /\ ContextsKept' /\ regs'.thread = rt_current_thread
      /\ regs' \in Context /\ sp' \in [Thread -> Context]
  BY <1>2, <1>3, SaveAndLoad
<1>5. NestExact'
  BY NestStays DEF SW_handler, nesting
<1>6. RecordExact'
  BY <1>4 DEF SW_handler, RecordExact
<1>7. SwitchTypeOK'
  BY <1>2, <1>4 DEF SwitchTypeOK, SW_handler, nesting
<1> QED
  BY <1>4, <1>5, <1>6, <1>7

-----------------------------------------------------------------------------
(* Induction *)

LEMMA NextPlace == ASSUME NEW n \in 0 .. (Places - 1) PROVE (n + 1) % Places \in 0 .. (Places - 1)
  BY SwitchAssumption

LEMMA ExecuteKeeps == ASSUME ContextsInv, ExecuteThread PROVE ContextsInv'
<1> USE DEF ContextsInv, ContextsSound
<1>1. /\ regs'.thread = regs.thread /\ regs'.place = (regs.place + 1) % Places
      /\ place' = [place EXCEPT ![regs.thread] = (regs.place + 1) % Places]
      /\ regs' = [regs EXCEPT !.place = (regs.place + 1) % Places]
      /\ regs.thread \in Thread /\ regs.place \in 0 .. (Places - 1)
  BY DEF ExecuteThread, SwitchTypeOK, Context
<1>2. regs' \in Context /\ place' \in [Thread -> 0 .. (Places - 1)]
  BY <1>1, NextPlace DEF SwitchTypeOK, Context
<1>3. ContextsKept'
  BY <1>1 DEF ContextsKept, ExecuteThread, SwitchTypeOK
<1>4. RecordExact'
  BY <1>1 DEF RecordExact, ExecuteThread, recorded
<1>5. NestExact'
  BY NestStays DEF ExecuteThread, nesting
<1>6. SwitchTypeOK'
  BY <1>2 DEF SwitchTypeOK, ExecuteThread, recorded, nesting
<1> QED
  BY <1>3, <1>4, <1>5, <1>6

\* The steps of handlers that touch neither contexts nor the record.
LEMMA NestingKeeps ==
  ASSUME ContextsInv, UNCHANGED <<regs, sp, place, rt_current_thread, recorded>>,
         NestExact', rt_interrupt_nest' \in Nat, handler' \in [Level -> Stage]
  PROVE  ContextsInv'
  BY DEF ContextsInv, ContextsSound, SwitchTypeOK, ContextsKept, RecordExact, recorded

LEMMA ContextsInit == SwitchInit => ContextsInv
<1> SUFFICES ASSUME SwitchInit PROVE ContextsInv
  OBVIOUS
<1> USE DEF SwitchInit
<1>1. Serving = {}
  BY DEF Serving
<1>2. NestExact
  BY <1>1, FS_EmptySet DEF NestExact
<1>3. 0 \in 0 .. (Places - 1)
  BY SwitchAssumption
<1>4. SwitchTypeOK
  BY <1>3 DEF SwitchTypeOK, Context, Stage
<1>5. ContextsKept /\ RecordExact
  BY DEF ContextsKept, RecordExact
<1> QED
  BY <1>2, <1>4, <1>5 DEF ContextsInv, ContextsSound

LEMMA NextInv == ASSUME ContextsInv, [SwitchNext]_cpu PROVE ContextsInv'
<1>0. SwitchTypeOK /\ NestExact
  BY DEF ContextsInv, ContextsSound
<1>1. CASE ExecuteThread
  BY <1>1, ExecuteKeeps
<1>2. ASSUME NEW to \in Thread, SwitchThreads(to) PROVE ContextsInv'
  BY <1>2, SwitchInThread, SwitchInHandler
<1>3. ASSUME NEW l \in Level, TakeInterrupt(l) PROVE ContextsInv'
  <2>1. NestExact'
    BY <1>0, <1>3, NestStays DEF TakeInterrupt
  <2>2. handler' \in [Level -> Stage]
    BY <1>0, <1>3 DEF TakeInterrupt, SwitchTypeOK, Stage
  <2>3. rt_interrupt_nest' \in Nat
    BY <1>0, <1>3 DEF TakeInterrupt, SwitchTypeOK
  <2>4. UNCHANGED <<regs, sp, place, rt_current_thread, recorded>>
    BY <1>3 DEF TakeInterrupt
  <2> QED
    BY <2>1, <2>2, <2>3, <2>4, NestingKeeps
<1>4. ASSUME NEW l \in Level, rt_interrupt_enter(l) PROVE ContextsInv'
  <2>1. NestExact'
    BY <1>0, <1>4, EnterCounts
  <2>2. handler' \in [Level -> Stage]
    BY <1>0, <1>4 DEF rt_interrupt_enter, SwitchTypeOK, Stage
  <2>3. rt_interrupt_nest' \in Nat
    BY <1>0, <1>4 DEF rt_interrupt_enter, SwitchTypeOK
  <2>4. UNCHANGED <<regs, sp, place, rt_current_thread, recorded>>
    BY <1>4 DEF rt_interrupt_enter
  <2> QED
    BY <2>1, <2>2, <2>3, <2>4, NestingKeeps
<1>5. ASSUME NEW l \in Level, rt_interrupt_leave(l) PROVE ContextsInv'
  <2>1. NestExact'
    BY <1>0, <1>5, LeaveCounts
  <2>2. handler' \in [Level -> Stage]
    BY <1>0, <1>5 DEF rt_interrupt_leave, SwitchTypeOK, Stage
  <2>3. rt_interrupt_nest' \in Nat
    BY <1>0, <1>5, LeaveCounts
  <2>4. UNCHANGED <<regs, sp, place, rt_current_thread, recorded>>
    BY <1>5 DEF rt_interrupt_leave
  <2> QED
    BY <2>1, <2>2, <2>3, <2>4, NestingKeeps
<1>6. ASSUME NEW l \in Level, ReturnFromInterrupt(l) PROVE ContextsInv'
  <2>1. NestExact'
    BY <1>0, <1>6, NestStays DEF ReturnFromInterrupt
  <2>2. handler' \in [Level -> Stage]
    BY <1>0, <1>6 DEF ReturnFromInterrupt, SwitchTypeOK, Stage
  <2>3. rt_interrupt_nest' \in Nat
    BY <1>0, <1>6 DEF ReturnFromInterrupt, SwitchTypeOK
  <2>4. UNCHANGED <<regs, sp, place, rt_current_thread, recorded>>
    BY <1>6 DEF ReturnFromInterrupt
  <2> QED
    BY <2>1, <2>2, <2>3, <2>4, NestingKeeps
<1>7. CASE SW_handler
  BY <1>7, HandlerSwitches
<1>8. CASE UNCHANGED cpu
  <2>1. NestExact'
    BY <1>0, <1>8, NestStays DEF cpu, nesting
  <2> QED
    BY <1>0, <1>8, <2>1, NestingKeeps DEF cpu, nesting, SwitchTypeOK
<1> QED
  BY <1>1, <1>2, <1>3, <1>4, <1>5, <1>6, <1>7, <1>8 DEF SwitchNext

\* However rt_schedule is called from threads and from nested handlers, no
\* context is lost: the next switch saves and loads the right ones.
THEOREM ContextsSafe == SwitchSpec => [](SwitchTypeOK /\ ContextsSound)
<1>1. SwitchInit => ContextsInv
  BY ContextsInit
<1>2. ContextsInv /\ [SwitchNext]_cpu => ContextsInv'
  BY NextInv
<1> QED
  BY <1>1, <1>2, PTL DEF SwitchSpec, ContextsInv

-----------------------------------------------------------------------------
(* Refinement *)

LEMMA InitRefines == SwitchInit => Instant!Init
  BY DEF SwitchInit, Instant!Init

\* In a thread, the thread that executes is the chosen one, at its own place.
LEMMA ExecuteRefines == ASSUME ContextsInv, ExecuteThread PROVE Instant!Execute
<1>1. regs.thread = rt_current_thread /\ regs.place = place[rt_current_thread]
  BY DEF ContextsInv, ContextsSound, RecordExact, ContextsKept, ExecuteThread, ThreadMode
<1> QED
  BY <1>1 DEF ExecuteThread, Instant!Execute

LEMMA NextRefines ==
  ASSUME ContextsInv, [SwitchNext]_cpu
  PROVE  [Instant!Next]_<<rt_current_thread, place>>
<1>1. CASE ExecuteThread
  BY <1>1, ExecuteRefines DEF Instant!Next
<1>2. ASSUME NEW to \in Thread, SwitchThreads(to) PROVE Instant!Next
  BY <1>2 DEF SwitchThreads, Instant!Next, Instant!Choose
<1>3. ASSUME NEW l \in Level,
             \/ TakeInterrupt(l) \/ rt_interrupt_enter(l)
             \/ rt_interrupt_leave(l) \/ ReturnFromInterrupt(l)
      PROVE  UNCHANGED <<rt_current_thread, place>>
  BY <1>3 DEF TakeInterrupt, rt_interrupt_enter, rt_interrupt_leave, ReturnFromInterrupt
<1>4. CASE SW_handler
  BY <1>4 DEF SW_handler
<1>5. CASE UNCHANGED cpu
  BY <1>5 DEF cpu
<1> QED
  BY <1>1, <1>2, <1>3, <1>4, <1>5 DEF SwitchNext

\* Refinement: the deferred switch, for any number of threads and levels, is
\* invisible to threads: the chosen one executes, from where it was stopped.
THEOREM SwitchRefines == SwitchSpec => ImplementsProcessor
<1>1. SwitchInit => ContextsInv /\ Instant!Init
  BY ContextsInit, InitRefines
<1>2. ContextsInv /\ [SwitchNext]_cpu => ContextsInv' /\ [Instant!Next]_<<rt_current_thread, place>>
  BY NextInv, NextRefines
<1> QED
  BY <1>1, <1>2, PTL DEF SwitchSpec, ImplementsProcessor, Instant!Spec
=============================================================================
