------------------------------ MODULE MCParts ------------------------------
(***************************************************************************)
(* Instances of the scheduler (main and one worker at two priorities above *)
(* the idle thread's), the context switch (the same threads, two levels of *)
(* interrupts), the heap, the console, the flash, the ring buffer, a       *)
(* button and the LEDs in one run, which takes one of them at the start.   *)
(* They do not interact.                                                   *)
(***************************************************************************)
EXTENDS Scheduler, LwRB, Switch, Heap, Console, Button, Flash, Led

CONSTANTS main, a, idle,                         \* of Scheduler
          power_record, sensor,                  \* of Flash
          l1, l2                                 \* of Led

VARIABLE part   \* the one this behaviour is about

sequential == <<heapVars, consoleVars, flashVars, buttonVars, ledVars>>
all == <<part, vars, ring, cpu, sequential>>

Threads == {main, a, idle}
Urgency == (main :> 0) @@ (a :> 1) @@ (idle :> 2)

Kinds == {power_record, sensor}
RecordPages == (power_record :> 3) @@ (sensor :> 1)
RecordMaxNum == (power_record :> 4) @@ (sensor :> 1)

Arrays == {<<1>>, <<0, 1>>, <<1, 0, 1>>}
Rounds == {-1, 0, 2}

Chunks == UNION {[1 .. n -> Byte] : n \in 1 .. Size}

No_flash == /\ kind = "unused" /\ slot = "unused" /\ config = "unused"
            /\ power = "unused" /\ doing = "unused" /\ buf = "unused"
            /\ new = "unused" /\ log = "unused" /\ window = "unused"
            /\ torn = "unused" /\ spoiled = "unused" /\ set = "unused"
            /\ failures = "unused"

PartsInit ==
  /\ part \in {"threads", "switch", "lwrb", "heap", "console", "flash", "button", "led"}
  /\ Init
  /\ RingInit /\ (part = "lwrb" \/ buff = [n \in Index |-> 0])
  /\ SwitchInit /\ (part = "switch" \/ rt_current_thread = Main)
  /\ HeapInit
  /\ ConsoleInit
  /\ IF part = "flash" THEN FlashInit ELSE No_flash
  /\ ButtonInit
  /\ LedInit /\ (part = "led" \/ loop_init = [l \in Lamp |-> 0])

\* A step of one part leaves the variables of the others alone.
Only(p) == part = p /\ UNCHANGED part

In_threads == Only("threads") /\ UNCHANGED <<ring, cpu, sequential>>
In_lwrb == Only("lwrb") /\ UNCHANGED <<vars, cpu, sequential>>
In_switch == Only("switch") /\ UNCHANGED <<vars, ring, sequential>>
Other == UNCHANGED <<vars, ring, cpu>>
In_heap == Only("heap") /\ Other /\ UNCHANGED <<consoleVars, flashVars, buttonVars, ledVars>>
In_console == Only("console") /\ Other /\ UNCHANGED <<heapVars, flashVars, buttonVars, ledVars>>
In_flash == Only("flash") /\ Other /\ UNCHANGED <<heapVars, consoleVars, buttonVars, ledVars>>
In_button == Only("button") /\ Other /\ UNCHANGED <<heapVars, consoleVars, flashVars, ledVars>>
In_led == Only("led") /\ Other /\ UNCHANGED <<heapVars, consoleVars, flashVars, buttonVars>>

PartsNext ==
  \/ In_threads /\ Next
  \/ In_lwrb /\ RingNext
  \/ In_switch /\ SwitchNext
  \/ In_heap /\ HeapNext
  \/ In_console /\ ConsoleNext
  \/ In_flash /\ FlashNext
  \/ In_button /\ ButtonNext
  \/ In_led /\ LedNext

PartsSpec == PartsInit /\ [][PartsNext]_all

-----------------------------------------------------------------------------
\* The properties of the parts are their own; here are their types.
PartsTyped ==
  /\ TypeOK
  /\ RingTypeOK
  /\ SwitchTypeOK
  /\ HeapTyped
  /\ ConsoleTyped
  /\ ButtonTyped
  /\ LedTyped
  /\ part = "flash" => FlashTyped
=============================================================================
