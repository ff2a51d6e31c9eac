-------------------------------- MODULE CommKey ---------------------------------
(***************************************************************************)
(* The push button of EF_Device_CommKey_t: the level sampled at each turn  *)
(* of CommTask becomes a gesture, a number of clicks or a long press.      *)
(*                                                                         *)
(* Touch and the GetState that follows it in Scan are one step: has_answer *)
(* is FALSE whenever Scan is entered, so output_lock, once set, is taken   *)
(* back in the same turn and no sample is ever refused.  Times are in      *)
(* units of the shortest turn and stop counting one past their threshold.  *)
(***************************************************************************)
EXTENDS Naturals

CONSTANTS
  WaitTime,   \* set_wait_time: a press must last longer (100 us)
  HoldTime,   \* set_hold_time: a longer press is a hold (0.5 s)
  MultiTime,  \* set_multi_time: a longer pause ends the clicks (0.3 s)
  HoldMark,   \* touch_time of a hold (0xFF)
  Deltas      \* delta_time: how long ago the last turn may have been

ASSUME KeyAssumption ==
  /\ WaitTime \in Nat /\ HoldTime \in Nat /\ MultiTime \in Nat
  /\ WaitTime <= HoldTime
  /\ HoldMark \in Nat \ {0}
  /\ Deltas \subseteq Nat \ {0}

VARIABLES
  status,                           \* "idle", "touch" or "idle_temp"
  wait_time, hold_time, touch_time,
  output                            \* what Scan got from GetState in this turn:
                                    \* "nothing", or "none", "times" and "hold"

keyVars == <<status, wait_time, hold_time, touch_time, output>>

KeyInit ==
  /\ status = "idle"
  /\ wait_time = 0 /\ hold_time = 0 /\ touch_time = 0
  /\ output = "nothing"

Later(time, dt, limit) == IF time + dt > limit THEN limit + 1 ELSE time + dt

(* GetState, on the fields as Touch left them. *)
GetState(hold, times) ==
  IF hold > HoldTime THEN "hold" ELSE IF times > 0 THEN "times" ELSE "none"

--------------------------------------------------------------------------------
(* Touch, by the state it finds. *)

Rest(pressed) ==
  /\ status = "idle" /\ ~pressed
  /\ UNCHANGED <<status, wait_time, hold_time, touch_time>>
  /\ output' = "nothing"

Begin(pressed) ==
  /\ status = "idle" /\ pressed
  /\ status' = "touch"
  /\ wait_time' = 0 /\ hold_time' = 0 /\ touch_time' = 0
  /\ output' = "nothing"

Press(pressed, dt) ==
  /\ status = "touch" /\ pressed
  /\ wait_time' = Later(wait_time, dt, WaitTime)
  /\ hold_time' = Later(hold_time, dt, HoldTime)
  /\ touch_time' = IF hold_time' > HoldTime THEN HoldMark ELSE touch_time
  /\ output' = "nothing"
  /\ UNCHANGED status

(* Slip: the noise keeps the clicks before it. *)
SlipNoiseKeepsCount(pressed) ==
  /\ status = "touch" /\ ~pressed /\ wait_time <= WaitTime
  /\ status' = IF touch_time = 0 THEN "idle" ELSE "idle_temp"
  /\ wait_time' = 0 /\ hold_time' = 0
  /\ output' = "nothing"
  /\ UNCHANGED touch_time

(* Let go too soon: noise, which forgets the clicks before it, too. *)
Noise(pressed) ==
  /\ status = "touch" /\ ~pressed /\ wait_time <= WaitTime
  /\ status' = "idle"
  /\ wait_time' = 0 /\ hold_time' = 0 /\ touch_time' = 0
  /\ output' = "nothing"

(* Slip: a release is a click, whatever touch_time is. *)
SlipMarkIgnored(pressed) ==
  /\ status = "touch" /\ ~pressed /\ wait_time > WaitTime
  /\ status' = "idle_temp"
  /\ touch_time' = touch_time + 1
  /\ wait_time' = 0 /\ hold_time' = 0
  /\ output' = "nothing"

Click(pressed) ==
  /\ status = "touch" /\ ~pressed /\ wait_time > WaitTime
  /\ touch_time # HoldMark
  /\ status' = "idle_temp"
  /\ touch_time' = touch_time + 1
  /\ wait_time' = 0 /\ hold_time' = 0
  /\ output' = "nothing"

(* Let go of a hold, or of the click after the HoldMark-th. *)
EndHold(pressed) ==
  /\ status = "touch" /\ ~pressed /\ wait_time > WaitTime
  /\ touch_time = HoldMark
  /\ status' = "idle"
  /\ output' = GetState(hold_time, touch_time)
  /\ UNCHANGED <<wait_time, hold_time, touch_time>>

Again(pressed) ==
  /\ status = "idle_temp" /\ pressed
  /\ status' = "touch"
  /\ wait_time' = 0 /\ hold_time' = 0
  /\ output' = "nothing"
  /\ UNCHANGED touch_time

Pause(pressed, dt) ==
  /\ status = "idle_temp" /\ ~pressed
  /\ wait_time' = Later(wait_time, dt, MultiTime)
  /\ IF wait_time' > MultiTime
     THEN status' = "idle" /\ output' = GetState(hold_time, touch_time)
     ELSE status' = status /\ output' = "nothing"
  /\ UNCHANGED <<hold_time, touch_time>>

Touch(pressed, dt) ==
  \/ Rest(pressed) \/ Begin(pressed)
  \/ Press(pressed, dt) \/ Noise(pressed) \/ Click(pressed) \/ EndHold(pressed)
  \/ Again(pressed) \/ Pause(pressed, dt)

KeyNext == \E pressed \in BOOLEAN, dt \in Deltas : Touch(pressed, dt)

KeySpec == KeyInit /\ [][KeyNext]_keyVars

--------------------------------------------------------------------------------
(* Each field keeps its range; in particular the uint8_t touch_time is never
   counted past the mark, and GetState never finds the lock set with nothing
   to report.                                                              *)
KeyTypeOK ==
  /\ status \in {"idle", "touch", "idle_temp"}
  /\ wait_time \in Nat /\ hold_time \in 0 .. HoldTime + 1
  /\ touch_time \in 0 .. HoldMark
  /\ output \in {"nothing", "times", "hold"}
================================================================================
