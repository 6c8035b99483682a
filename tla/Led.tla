-------------------------------- MODULE Led --------------------------------
(***************************************************************************)
(* agile_led.c: the LEDs that blink, in a list that agile_led_process      *)
(* walks every 5 ms under a recursive mutex.  The walk takes one LED at a  *)
(* time; a completion callback runs inside it, may call the services of    *)
(* any LED, and the walk then starts over from the head of the list.       *)
(***************************************************************************)
EXTENDS Integers, FiniteSets, Lists

CONSTANTS Lamp,
          Modes,    \* the light arrays: sequences of durations, in ticks
          Loops     \* the loop counts that are asked for; negative: for ever

ASSUME LedAssumption ==
  /\ Modes \subseteq Seq(Nat)
  /\ Loops \subseteq Int

VARIABLES created,
          active,     \* the list of _slist_head
          light_arr, arr_index, loop_init, loop_cnt,
          wait,       \* ticks until tick_timeout
          node,       \* where in active the walk is; 0: nowhere, -1: in a callback
          shown       \* history: entries shown since the last start or change

lamp == <<light_arr, arr_index, loop_init, loop_cnt, wait, shown>>
ledVars == <<created, active, lamp, node>>

LedTyped ==
  /\ created \subseteq Lamp
  /\ active \in Seq(Lamp) /\ Range(active) \subseteq created /\ IsInjective(active)
  /\ light_arr \in [Lamp -> Modes \cup {<<>>}]
  /\ arr_index \in [Lamp -> Nat]
  /\ \A l \in Range(active) : arr_index[l] <= Len(light_arr[l])
  /\ loop_init \in [Lamp -> Loops] /\ loop_cnt \in [Lamp -> Int]
  /\ wait \in [Lamp -> Nat]
  /\ node \in -1 .. Len(active)
  /\ shown \in [Lamp -> Nat]

LedInit ==
  /\ created = {} /\ active = <<>>
  /\ light_arr = [l \in Lamp |-> <<>>] /\ arr_index = [l \in Lamp |-> 0]
  /\ \E n \in Loops : loop_init = [l \in Lamp |-> n] /\ loop_cnt = loop_init
  /\ wait = [l \in Lamp |-> 0] /\ node = 0
  /\ shown = [l \in Lamp |-> 0]

-----------------------------------------------------------------------------
\* The services take the mutex: they run between two walks, or in a callback.
Free == node \in {-1, 0}

\* The fields that every service sets that gives l a new start.
Restart(l, mode, n) ==
  /\ light_arr' = [light_arr EXCEPT ![l] = mode]
  /\ loop_init' = [loop_init EXCEPT ![l] = n]
  /\ loop_cnt' = [loop_cnt EXCEPT ![l] = n]
  /\ arr_index' = [arr_index EXCEPT ![l] = 0]
  /\ wait' = [wait EXCEPT ![l] = 0]
  /\ shown' = [shown EXCEPT ![l] = 0]

agile_led_create(l, mode, n) ==
  /\ l \notin created
  /\ created' = created \cup {l}
  /\ Restart(l, mode, n)
  /\ UNCHANGED <<active, node>>

agile_led_delete(l) ==
  /\ Free /\ l \in created
  /\ created' = created \ {l}
  /\ active' = Unlink(active, l)
  /\ UNCHANGED <<lamp, node>>

\* agile_led_static_change_light_mode, and the dynamic one with a new array
agile_led_change_light_mode(l, mode, n) ==
  /\ Free /\ l \in created
  /\ Restart(l, mode, n)
  /\ UNCHANGED <<created, active, node>>

\* The dynamic one finds no memory for the new array: the old one is gone.
ChangeFails(l) ==
  /\ Free /\ l \in created
  /\ light_arr' = [light_arr EXCEPT ![l] = <<>>]
  /\ active' = Unlink(active, l)
  /\ UNCHANGED <<created, arr_index, loop_init, loop_cnt, wait, shown, node>>

\* Mutant: a start keeps what the last run left of the rounds.
StartKeepsCount(l) ==
  /\ Free /\ l \in created
  /\ l \notin Range(active) /\ light_arr[l] # <<>>
  /\ arr_index' = [arr_index EXCEPT ![l] = 0]
  /\ wait' = [wait EXCEPT ![l] = 0]
  /\ shown' = [shown EXCEPT ![l] = 0]
  /\ active' = Append(active, l)
  /\ UNCHANGED <<created, light_arr, loop_init, loop_cnt, node>>

agile_led_start(l) ==
  /\ Free /\ l \in created
  /\ l \notin Range(active) /\ light_arr[l] # <<>>
  /\ Restart(l, light_arr[l], loop_init[l])
  /\ active' = Append(active, l)
  /\ UNCHANGED <<created, node>>

agile_led_stop(l) ==
  /\ Free /\ l \in created
  /\ active' = Unlink(active, l)
  /\ UNCHANGED <<created, lamp, node>>

-----------------------------------------------------------------------------
First == IF active = <<>> THEN 0 ELSE 1
Following == IF node = Len(active) THEN 0 ELSE node + 1

WalkBegin ==
  /\ node = 0 /\ active # <<>>
  /\ node' = 1
  /\ UNCHANGED <<created, active, lamp>>

\* All rounds are over: the LED leaves the list and its callback is called.
Finish(l) ==
  /\ loop_cnt[l] = 0
  /\ active' = Unlink(active, l)
  /\ node' = -1
  /\ UNCHANGED <<created, lamp>>

CallbackEnd ==
  /\ node = -1
  /\ node' = First
  /\ UNCHANGED <<created, active, lamp>>

NotYet(l) ==
  /\ loop_cnt[l] # 0 /\ wait[l] > 0
  /\ node' = Following
  /\ UNCHANGED <<created, active, lamp>>

\* The entries from arr_index on that are not 0.
Ahead(l) == {i \in arr_index[l] + 1 .. Len(light_arr[l]) : light_arr[l][i] > 0}

ShowEntry(l) ==
  /\ loop_cnt[l] # 0 /\ wait[l] = 0
  /\ \E i \in Ahead(l) :
       /\ \A j \in Ahead(l) : i <= j
       /\ wait' = [wait EXCEPT ![l] = light_arr[l][i]]
       /\ arr_index' = [arr_index EXCEPT ![l] = i]
  /\ shown' = IF loop_cnt[l] > 0 THEN [shown EXCEPT ![l] = @ + 1] ELSE shown
  /\ node' = Following
  /\ UNCHANGED <<created, active, light_arr, loop_init, loop_cnt>>

EndOfRound(l) ==
  /\ loop_cnt[l] # 0 /\ wait[l] = 0 /\ Ahead(l) = {}
  /\ arr_index' = [arr_index EXCEPT ![l] = 0]
  /\ loop_cnt' = [loop_cnt EXCEPT ![l] = IF @ > 0 THEN @ - 1 ELSE @]
  /\ node' = Following
  /\ UNCHANGED <<created, active, light_arr, loop_init, wait, shown>>

\* agile_led_process, at the LED that the walk is at.
agile_led_process ==
  \/ WalkBegin
  \/ node > 0 /\ LET l == active[node] IN
                 Finish(l) \/ NotYet(l) \/ ShowEntry(l) \/ EndOfRound(l)
  \/ CallbackEnd

LedTick ==
  /\ \E l \in Lamp : wait[l] > 0
  /\ wait' = [l \in Lamp |-> IF wait[l] > 0 THEN wait[l] - 1 ELSE 0]
  /\ UNCHANGED <<created, active, light_arr, arr_index, loop_init, loop_cnt, node, shown>>

LedNext ==
  \/ agile_led_process
  \/ LedTick
  \/ \E l \in Lamp :
       \/ \E mode \in Modes \cup {<<>>}, n \in Loops :
            agile_led_create(l, mode, n) \/ agile_led_change_light_mode(l, mode, n)
       \/ agile_led_delete(l) \/ ChangeFails(l)
       \/ agile_led_start(l) \/ agile_led_stop(l)

LedSpec == LedInit /\ [][LedNext]_ledVars

-----------------------------------------------------------------------------
\* How many of the first n entries of an array are shown in a round.
Lit(arr, n) == Cardinality({i \in 1 .. n : arr[i] > 0})

\* The completion callback of an LED is called when it has shown its array as
\* often as it was asked to, no matter what was started, stopped or changed
\* before or by other callbacks, and it is not in the list any more then.
CallbackInTime ==
  node' = -1 /\ node > 0 =>
    LET l == active[node] IN
    /\ shown[l] = loop_init[l] * Lit(light_arr[l], Len(light_arr[l]))
    /\ l \notin Range(active')

RoundsShown == [][CallbackInTime]_ledVars
=============================================================================
