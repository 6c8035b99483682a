------------------------------- MODULE Button -------------------------------
(***************************************************************************)
(* One button of flexible_button.c.  Every step is one flex_button_scan,   *)
(* which BSP_Button_thread calls every 20 ms: it samples the pin and moves *)
(* the button between its three stages.  The thresholds are counts of      *)
(* scans.                                                                  *)
(***************************************************************************)
EXTENDS Integers

CONSTANTS Interval,   \* max_multiple_clicks_interval
          Short, Long, Hold,
          MaxScan,    \* the largest uint16_t, where scan_cnt goes back to Hold
          MaxClicks   \* bound: clicks in one go

\* As bsp_button.c configures them.
ASSUME ButtonAssumption ==
  /\ {Interval, Short, Long, Hold, MaxScan} \subseteq Nat
  /\ Interval + 1 < Short /\ Short < Long /\ Long < Hold /\ Hold < MaxScan
  /\ MaxClicks \in Nat \ {0}

VARIABLES status, event, scan_cnt, click_cnt,
          held,     \* history: the scans since the last press, up to MaxHeld
          late,     \* history: clicks were told while that press was held
          untold    \* history: finished presses that no event told yet

timing == <<held, late>>
buttonVars == <<status, event, scan_cnt, click_cnt, timing, untold>>

MaxHeld == MaxScan + Interval

\* What a button that was down for n scans did.
Grade(n) == IF n >= Hold THEN "hold" ELSE IF n >= Long THEN "long"
            ELSE IF n >= Short THEN "short" ELSE "click"

Clicks(n) == CASE n = 1 -> "single" [] n = 2 -> "double" [] n > 2 -> "repeat"

Events == ({"start", "up"} \X {"hold", "long", "short"})
          \cup ({"click"} \X {"single", "double", "repeat"})
          \cup {<<"press", "down">>, <<"press", "none">>}

ButtonTyped ==
  /\ status \in {"default", "down", "multiple"}
  /\ event \in Events
  /\ scan_cnt \in 0 .. MaxScan - 1 /\ click_cnt \in 0 .. MaxClicks
  /\ held \in 0 .. MaxHeld /\ late \in BOOLEAN /\ untold \in 0 .. MaxClicks

\* flex_button_register
ButtonInit ==
  /\ status = "default" /\ event = <<"press", "none">>
  /\ scan_cnt = 0 /\ click_cnt = 0
  /\ held = 0 /\ late = FALSE /\ untold = 0

-----------------------------------------------------------------------------
\* Mutant: after 2^16 scans the count starts again from nothing.
CountedAgain == IF scan_cnt + 1 >= MaxScan THEN 0 ELSE scan_cnt + 1

\* scan_cnt at the switch over the stages, in the two later ones.
Counted == IF scan_cnt + 1 >= MaxScan THEN Hold ELSE scan_cnt + 1

StillHeld == held' = (IF held < MaxHeld THEN held + 1 ELSE held)

Unpressed ==
  /\ status = "default"
  /\ event' = <<"press", "none">>
  /\ UNCHANGED <<status, scan_cnt, click_cnt, timing, untold>>

PressDown ==
  /\ status = "default"
  /\ status' = "down" /\ event' = <<"press", "down">>
  /\ scan_cnt' = 0 /\ click_cnt' = 0
  /\ held' = 0 /\ late' = FALSE
  /\ UNCHANGED untold

\* Still down after some clicks: their time is over, they are told.
ClicksBeforeHold ==
  /\ status = "down" /\ click_cnt > 0 /\ Counted > Interval
  /\ event' = <<"click", Clicks(click_cnt)>>
  /\ scan_cnt' = 0 /\ click_cnt' = 0
  /\ untold' = untold - click_cnt
  /\ StillHeld /\ late' = TRUE
  /\ UNCHANGED status

StayDown ==
  /\ status = "down" /\ ~ (click_cnt > 0 /\ Counted > Interval)
  /\ scan_cnt' = Counted
  /\ event' = IF click_cnt > 0 \/ Grade(Counted) = "click" THEN event
              ELSE <<"start", Grade(Counted)>>
  /\ StillHeld
  /\ UNCHANGED <<status, click_cnt, late, untold>>

ReleaseLong ==
  /\ status = "down" /\ Grade(Counted) # "click"
  /\ event' = <<"up", Grade(Counted)>> /\ status' = "default"
  /\ scan_cnt' = Counted
  /\ StillHeld
  /\ UNCHANGED <<click_cnt, late, untold>>

ReleaseClick ==
  /\ status = "down" /\ Grade(Counted) = "click"
  /\ status' = "multiple" /\ click_cnt' = click_cnt + 1
  /\ untold' = untold + 1
  /\ scan_cnt' = Counted
  /\ StillHeld
  /\ UNCHANGED <<event, late>>

PressAgain ==
  /\ status = "multiple" /\ click_cnt < MaxClicks
  /\ status' = "down" /\ scan_cnt' = 0
  /\ held' = 0 /\ late' = FALSE
  /\ UNCHANGED <<event, click_cnt, untold>>

StayUp ==
  /\ status = "multiple" /\ Counted <= Interval
  /\ scan_cnt' = Counted
  /\ UNCHANGED <<status, event, click_cnt, timing, untold>>

ClicksDone ==
  /\ status = "multiple" /\ Counted > Interval
  /\ event' = <<"click", Clicks(click_cnt)>> /\ status' = "default"
  /\ untold' = untold - click_cnt
  /\ scan_cnt' = Counted
  /\ UNCHANGED <<click_cnt, timing>>

ButtonNext == \/ Unpressed \/ PressDown
        \/ ClicksBeforeHold \/ StayDown \/ ReleaseLong \/ ReleaseClick
        \/ PressAgain \/ StayUp \/ ClicksDone

ButtonSpec == ButtonInit /\ [][ButtonNext]_buttonVars

-----------------------------------------------------------------------------
\* Every press is told once, as one of the clicks of a click event or by an up
\* event, and an up event names the grade of the time the button was really
\* down, however long that was; clicks that were told while it was down delay
\* that count by the time they waited for.
PressesTold ==
  /\ untold = IF status = "default" THEN 0 ELSE click_cnt
  /\ event[1] = "up" => event[2] = Grade(held - (IF late THEN Interval + 1 ELSE 0))
=============================================================================
