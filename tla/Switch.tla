------------------------------- MODULE Switch -------------------------------
(***************************************************************************)
(* The context switch under interrupts: cpuport.c, context_gcc.S,          *)
(* interrupt_gcc.S, irq.c and the end of rt_schedule.  A handler must not  *)
(* take the processor away from the handlers it interrupts, so in a        *)
(* handler rt_schedule only records the switch; SW_handler, whose          *)
(* interrupt is the least urgent one, carries it out before any thread     *)
(* executes again.  By then further handlers may have chosen other         *)
(* threads.  A context is what the registers hold of a thread: which one   *)
(* it is and its place in its code, counted modulo Places.                 *)
(***************************************************************************)
EXTENDS Kernel

CONSTANTS Level,    \* the preemption levels of the interrupts that call the kernel
          Places

ASSUME SwitchAssumption ==
  /\ Level \subseteq Nat /\ IsFiniteSet(Level)
  /\ Places \in Nat \ {0}

VARIABLES regs,     \* the registers: the context that executes or is interrupted
          sp,       \* thread->sp: the context on the stack of each thread
          place,    \* how far the code of each thread has been executed
          rt_current_thread,
          rt_interrupt_from_thread, rt_interrupt_to_thread,
          rt_thread_switch_interrupt_flag,
          pending,  \* the pending bit of the software interrupt
          rt_interrupt_nest,
          handler   \* where the handler of each level is, if it is active

recorded == <<rt_interrupt_from_thread, rt_interrupt_to_thread,
              rt_thread_switch_interrupt_flag, pending>>
nesting == <<rt_interrupt_nest, handler>>
cpu == <<regs, sp, place, rt_current_thread, recorded, nesting>>

Context == [thread : Thread, place : 0 .. (Places - 1)]

\* "entered": before its rt_interrupt_enter; "left": after rt_interrupt_leave
Stage == {"off", "entered", "serving", "left"}

SwitchTypeOK ==
  /\ regs \in Context /\ sp \in [Thread -> Context]
  /\ place \in [Thread -> 0 .. (Places - 1)]
  /\ rt_current_thread \in Thread
  /\ rt_interrupt_from_thread \in Thread /\ rt_interrupt_to_thread \in Thread
  /\ rt_thread_switch_interrupt_flag \in BOOLEAN /\ pending \in BOOLEAN
  /\ rt_interrupt_nest \in Nat
  /\ handler \in [Level -> Stage]

\* rt_hw_stack_init has put every thread at the entry of its code, and
\* rt_hw_context_switch_to has loaded the first one.
SwitchInit ==
  /\ rt_current_thread \in Thread
  /\ place = [t \in Thread |-> 0]
  /\ sp = [t \in Thread |-> [thread |-> t, place |-> 0]]
  /\ regs = sp[rt_current_thread]
  /\ rt_interrupt_from_thread = rt_current_thread
  /\ rt_interrupt_to_thread = rt_current_thread
  /\ rt_thread_switch_interrupt_flag = FALSE /\ pending = FALSE
  /\ rt_interrupt_nest = 0 /\ handler = [l \in Level |-> "off"]

-----------------------------------------------------------------------------
\* No handler is active and the software interrupt is not about to be taken.
ThreadMode == ~pending /\ \A l \in Level : handler[l] = "off"

\* The most urgent active handler is the one that executes.
Executes(l) == handler[l] # "off" /\ \A h \in Level : h > l => handler[h] = "off"

\* Some instructions of a thread, with the registers as they are.
ExecuteThread ==
  /\ ThreadMode
  /\ LET next == (regs.place + 1) % Places
     IN  /\ regs' = [regs EXCEPT !.place = next]
         /\ place' = [place EXCEPT ![regs.thread] = next]
  /\ UNCHANGED <<sp, rt_current_thread, recorded, nesting>>

rt_hw_context_switch(from, to) ==
  /\ sp' = [sp EXCEPT ![from] = regs]
  /\ regs' = sp'[to]
  /\ UNCHANGED recorded

\* Mutant: the thread to switch from is that of the last request.
RecordLast(from, to) ==
  /\ rt_interrupt_from_thread' = from
  /\ rt_interrupt_to_thread' = to
  /\ rt_thread_switch_interrupt_flag' = TRUE
  /\ pending' = TRUE
  /\ UNCHANGED <<regs, sp>>

rt_hw_context_switch_interrupt(from, to) ==
  /\ rt_interrupt_from_thread' =
       IF rt_thread_switch_interrupt_flag THEN rt_interrupt_from_thread ELSE from
  /\ rt_interrupt_to_thread' = to
  /\ rt_thread_switch_interrupt_flag' = TRUE
  /\ pending' = TRUE
  /\ UNCHANGED <<regs, sp>>

\* rt_schedule, in a thread or in a handler, has chosen another thread.
SwitchThreads(to) ==
  /\ to # rt_current_thread
  /\ ThreadMode \/ \E l \in Level : Executes(l) /\ handler[l] = "serving"
  /\ rt_current_thread' = to
  /\ IF rt_interrupt_nest = 0
     THEN rt_hw_context_switch(rt_current_thread, to)
     ELSE rt_hw_context_switch_interrupt(rt_current_thread, to)
  /\ UNCHANGED <<place, nesting>>

\* An interrupt is taken in a thread or in a less urgent handler.
TakeInterrupt(l) ==
  /\ \A h \in Level : h >= l => handler[h] = "off"
  /\ handler' = [handler EXCEPT ![l] = "entered"]
  /\ UNCHANGED <<regs, sp, place, rt_current_thread, recorded, rt_interrupt_nest>>

rt_interrupt_enter(l) ==
  /\ Executes(l) /\ handler[l] = "entered"
  /\ rt_interrupt_nest' = rt_interrupt_nest + 1
  /\ handler' = [handler EXCEPT ![l] = "serving"]
  /\ UNCHANGED <<regs, sp, place, rt_current_thread, recorded>>

rt_interrupt_leave(l) ==
  /\ Executes(l) /\ handler[l] = "serving"
  /\ rt_interrupt_nest' = rt_interrupt_nest - 1
  /\ handler' = [handler EXCEPT ![l] = "left"]
  /\ UNCHANGED <<regs, sp, place, rt_current_thread, recorded>>

ReturnFromInterrupt(l) ==
  /\ Executes(l) /\ handler[l] = "left"
  /\ handler' = [handler EXCEPT ![l] = "off"]
  /\ UNCHANGED <<regs, sp, place, rt_current_thread, recorded, rt_interrupt_nest>>

\* Mutant: the new thread is loaded before the interrupted one is saved, which
\* differs when the handlers came back to the thread they interrupted.
LoadFirst ==
  /\ pending /\ \A l \in Level : handler[l] = "off"
  /\ pending' = FALSE
  /\ rt_thread_switch_interrupt_flag' = FALSE
  /\ sp' = [sp EXCEPT ![rt_interrupt_from_thread] = regs]
  /\ regs' = sp[rt_interrupt_to_thread]
  /\ UNCHANGED <<place, rt_current_thread, rt_interrupt_from_thread,
                 rt_interrupt_to_thread, nesting>>

\* The software interrupt.  Bit 5 of register 0x804 keeps other interrupts out
\* of the handler, which reads the record after it has cleared the pending bit.
SW_handler ==
  /\ pending /\ \A l \in Level : handler[l] = "off"
  /\ pending' = FALSE
  /\ rt_thread_switch_interrupt_flag' = FALSE
  /\ IF rt_thread_switch_interrupt_flag
     THEN /\ sp' = [sp EXCEPT ![rt_interrupt_from_thread] = regs]
          /\ regs' = sp'[rt_interrupt_to_thread]
     ELSE UNCHANGED <<regs, sp>>
  /\ UNCHANGED <<place, rt_current_thread, rt_interrupt_from_thread,
                 rt_interrupt_to_thread, nesting>>

SwitchNext ==
  \/ ExecuteThread
  \/ \E to \in Thread : SwitchThreads(to)
  \/ \E l \in Level : \/ TakeInterrupt(l) \/ rt_interrupt_enter(l)
                      \/ rt_interrupt_leave(l) \/ ReturnFromInterrupt(l)
  \/ SW_handler

SwitchSpec == SwitchInit /\ [][SwitchNext]_cpu

-----------------------------------------------------------------------------
\* The registers hold the context that a switch still to come saves; every
\* other thread's is on its own stack.
ContextsKept ==
  /\ regs.place = place[regs.thread]
  /\ \A t \in Thread \ {regs.thread} : sp[t] = [thread |-> t, place |-> place[t]]

\* What is recorded leads from the interrupted thread to the chosen one, and
\* the software interrupt is pending for it; else the chosen thread executes.
RecordExact ==
  /\ pending = rt_thread_switch_interrupt_flag
  /\ IF pending
     THEN /\ rt_interrupt_from_thread = regs.thread
          /\ rt_interrupt_to_thread = rt_current_thread
     ELSE regs.thread = rt_current_thread

\* The count on which rt_schedule decides is that of the handlers served.
Serving == {l \in Level : handler[l] = "serving"}
NestExact == rt_interrupt_nest = Cardinality(Serving)

\* No context is lost or duplicated, in whichever order handlers nest, choose
\* threads and return before SW_handler gets its turn.
ContextsSound == ContextsKept /\ RecordExact /\ NestExact

\* Whatever handlers nest and choose in between, the thread that rt_schedule
\* chose last is the one that executes, and it goes on where it was stopped.
Instant == INSTANCE Processor WITH current <- rt_current_thread

ImplementsProcessor == Instant!Spec
=============================================================================
