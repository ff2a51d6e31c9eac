---------------------------- MODULE KeySetting_proofs ---------------------------
(***************************************************************************)
(* The safety properties of KeySetting, and that it honours KeyIntent, for *)
(* all times, thresholds, limits and IDs; and, of the button alone, that   *)
(* it decodes the gestures KeyGesture defines.                             *)
(***************************************************************************)
EXTENDS KeySetting, KeyGesture, FiniteSetTheorems, TLAPS

(* A series is shown as it is counted, *)
LedCounts ==
  key_set_pending =>
    /\ lit = key_led_on /\ pulses = key_led_blink_count
    /\ key_set_touch_time > 0
    /\ IF key_led_on THEN key_led_blink_count < key_set_touch_time
                     ELSE key_led_blink_count <= key_set_touch_time
    /\ key_led_next_time > 0

(* the first series keeps to its time, *)
FirstSeriesOnTime ==
  key_set_pending /\ ~saving /\ ~told =>
    age + key_led_next_time <=
      IF key_led_on THEN SeriesTime(key_led_blink_count) + OnTime
                    ELSE SeriesTime(key_led_blink_count) - (MaxDelta - 1)

(* the timer counts from the last number, and a save has a number to save. *)
TimerCounts ==
  /\ key_set_pending /\ ~saving => key_set_timer + age = ConfirmTime /\ key_set_timer > 0
  /\ saving => key_set_pending /\ key_set_status # "idle"

ClicksCounted == status = "idle_temp" => touch_time > 0 /\ hold_time = 0

(* All there is to show of a turn beyond the button and the mode. *)
SettingTypeOK ==
  /\ key_set_status \in Modes
  /\ key_set_pending \in BOOLEAN /\ key_led_on \in BOOLEAN
  /\ lit \in BOOLEAN /\ saving \in BOOLEAN /\ told \in BOOLEAN
  /\ key_set_touch_time \in 0 .. MaxTimes - 1
  /\ key_set_timer \in 0 .. ConfirmTime
  /\ key_led_blink_count \in 0 .. MaxTimes - 1
  /\ key_led_next_time \in Nat
  /\ slave_id \in Nat /\ master_id \in Nat
  /\ age \in Nat /\ pulses \in 0 .. MaxTimes - 1

SettingInv ==
  /\ SettingTypeOK /\ LedCounts /\ FirstSeriesOnTime /\ TimerCounts
  /\ NumberIsTold /\ ConfirmedInTime

IInv == KeyTypeOK /\ km_status \in Modes /\ ClicksCounted /\ SettingInv

--------------------------------------------------------------------------------
(* The button. *)

LEMMA TouchKeeps ==
  ASSUME KeyTypeOK, ClicksCounted, NEW pressed \in BOOLEAN, NEW dt \in Nat,
         Touch(pressed, dt)
  PROVE  KeyTypeOK' /\ ClicksCounted' /\ (output' = "times" => touch_time' > 0)
<1> USE KeyAssumption DEF KeyTypeOK, ClicksCounted
<1>1. ASSUME Rest(pressed) \/ Begin(pressed) PROVE KeyTypeOK' /\ ClicksCounted' /\ output' = "nothing"
  BY <1>1 DEF Rest, Begin
<1>2. ASSUME Press(pressed, dt) PROVE KeyTypeOK' /\ ClicksCounted' /\ output' = "nothing"
  <2>1. wait_time' \in Nat /\ hold_time' \in 0 .. HoldTime + 1
    BY <1>2 DEF Press, Later
  <2>2. touch_time' \in 0 .. HoldMark /\ status' = "touch" /\ output' = "nothing"
    BY <1>2 DEF Press
  <2> QED BY <2>1, <2>2
<1>3. ASSUME Noise(pressed) \/ Click(pressed) \/ Again(pressed)
      PROVE KeyTypeOK' /\ ClicksCounted' /\ output' = "nothing"
  BY <1>3 DEF Noise, Click, Again
<1>4. ASSUME EndHold(pressed) PROVE KeyTypeOK' /\ ClicksCounted' /\ touch_time' > 0
  BY <1>4 DEF EndHold, GetState
<1>5. ASSUME Pause(pressed, dt) PROVE KeyTypeOK' /\ ClicksCounted' /\ touch_time' > 0
  <2>1. wait_time' \in Nat
    BY <1>5 DEF Pause, Later
  <2>2. /\ hold_time' = 0 /\ touch_time' = touch_time /\ touch_time > 0
        /\ status' \in {"idle", "idle_temp"}
    BY <1>5 DEF Pause
  <2>3. output' \in {"nothing", "times", "hold"}
    BY <1>5, <2>2 DEF Pause, GetState
  <2> QED BY <2>1, <2>2, <2>3
<1> QED BY <1>1, <1>2, <1>3, <1>4, <1>5 DEF Touch

--------------------------------------------------------------------------------
(* The LED. *)

LEMMA SeriesTimeFacts ==
  /\ \A n \in Nat : SeriesTime(n) \in Nat
  /\ \A n \in Nat : SeriesTime(n + 1) = SeriesTime(n) + OnTime + OffTime + 2 * (MaxDelta - 1)
  /\ SeriesTime(0) = 0
<1> DEFINE S == OnTime + OffTime + 2 * (MaxDelta - 1)
<1>1. S \in Nat
  BY SettingAssumption
<1>2. \A n : SeriesTime(n) = n * S
  BY DEF SeriesTime
<1>3. /\ \A n \in Nat : n * S \in Nat /\ (n + 1) * S = n * S + S
      /\ 0 * S = 0
  <2> HIDE DEF S
  <2> QED BY <1>1
<1>4. \A n \in Nat : SeriesTime(n) \in Nat /\ SeriesTime(n + 1) = SeriesTime(n) + S
  <2> HIDE DEF S
  <2> QED BY <1>2, <1>3
<1>5. \A n \in Nat : SeriesTime(n) + S = SeriesTime(n) + OnTime + OffTime + 2 * (MaxDelta - 1)
  BY <1>4, SettingAssumption
<1> QED BY <1>2, <1>3, <1>4, <1>5

LEMMA SeriesTimeMonotone ==
  ASSUME NEW m \in Nat, NEW n \in Nat, m <= n
  PROVE  SeriesTime(m) <= SeriesTime(n)
<1> DEFINE S == OnTime + OffTime + 2 * (MaxDelta - 1)
<1>1. S \in Nat
  BY SettingAssumption
<1>2. m * S <= n * S
  <2> HIDE DEF S
  <2> QED BY <1>1
<1> QED BY <1>2 DEF SeriesTime

LEMMA LedShowKeeps ==
  ASSUME SettingTypeOK, LedCounts, FirstSeriesOnTime, key_set_pending, ~saving,
         NEW dt \in Deltas, KeySetLedShow(dt),
         age' = age + dt, key_set_pending' = key_set_pending,
         key_set_touch_time' = key_set_touch_time
  PROVE  /\ key_led_on' \in BOOLEAN /\ lit' \in BOOLEAN /\ told' \in BOOLEAN
         /\ key_led_blink_count' \in 0 .. MaxTimes - 1 /\ key_led_next_time' \in Nat
         /\ pulses' \in 0 .. MaxTimes - 1
         /\ LedCounts' /\ FirstSeriesOnTime'
<1> USE SettingAssumption
<1>0. /\ dt \in 1 .. MaxDelta /\ age \in Nat /\ key_led_next_time \in Nat
      /\ key_set_touch_time \in 0 .. MaxTimes - 1
      /\ key_led_blink_count \in 0 .. MaxTimes - 1 /\ pulses \in 0 .. MaxTimes - 1
      /\ key_led_on \in BOOLEAN /\ lit \in BOOLEAN /\ told \in BOOLEAN
  BY DEF SettingTypeOK
<1>1. /\ lit = key_led_on /\ pulses = key_led_blink_count
      /\ key_set_touch_time > 0 /\ key_led_next_time > 0
      /\ key_led_on => key_led_blink_count < key_set_touch_time
      /\ key_led_blink_count <= key_set_touch_time
  BY <1>0 DEF LedCounts
<1>2. CASE LedWaits(dt)
  <2> USE <1>2 DEF LedWaits
  <2>1. key_led_next_time' \in Nat /\ key_led_next_time' > 0
        /\ age' + key_led_next_time' = age + key_led_next_time
    BY <1>0
  <2>2. LedCounts'
    BY <1>0, <1>1, <2>1 DEF LedCounts
  <2>3. FirstSeriesOnTime'
    BY <2>1 DEF FirstSeriesOnTime
  <2> QED BY <1>0, <2>1, <2>2, <2>3
<1>3. CASE LedOff(dt)
  <2> USE <1>3 DEF LedOff
  <2>1. /\ key_led_on /\ key_led_blink_count < key_set_touch_time
        /\ key_led_blink_count' = key_led_blink_count + 1
        /\ pulses' = pulses + 1
    BY <1>0, <1>1
  <2>2. LedCounts'
    <3>1. lit' = FALSE /\ key_led_on' = FALSE
      OBVIOUS
    <3>2. /\ pulses' = key_led_blink_count' /\ key_set_touch_time' > 0
          /\ key_led_blink_count' <= key_set_touch_time' /\ key_led_next_time' > 0
      BY <1>0, <1>1, <2>1
    <3> QED BY <3>1, <3>2 DEF LedCounts
  <2>3. ~told => age + key_led_next_time <= SeriesTime(key_led_blink_count) + OnTime
    BY <2>1 DEF FirstSeriesOnTime
  <2>4. ~told' => age' + key_led_next_time'
                    <= SeriesTime(key_led_blink_count') - (MaxDelta - 1)
    <3>1. /\ SeriesTime(key_led_blink_count) \in Nat
          /\ SeriesTime(key_led_blink_count')
               = SeriesTime(key_led_blink_count) + OnTime + OffTime + 2 * (MaxDelta - 1)
      BY <1>0, <2>1, SeriesTimeFacts
    <3>2. age' + key_led_next_time' <= age + key_led_next_time + (MaxDelta - 1) + OffTime
      BY <1>0, <1>1
    <3> QED BY <1>0, <2>3, <3>1, <3>2
  <2>5. FirstSeriesOnTime'
    BY <2>4 DEF FirstSeriesOnTime
  <2>6. key_led_on' \in BOOLEAN /\ lit' \in BOOLEAN /\ told' \in BOOLEAN
    BY <1>0
  <2>7. /\ key_led_blink_count' \in 0 .. MaxTimes - 1 /\ key_led_next_time' \in Nat
        /\ pulses' \in 0 .. MaxTimes - 1
    BY <1>0, <1>1, <2>1
  <2> QED BY <2>2, <2>5, <2>6, <2>7
<1>4. CASE LedPause(dt)
  <2> USE <1>4 DEF LedPause, SeriesDone
  <2>0. pulses = key_set_touch_time
    BY <1>0, <1>1
  <2>1. told'
    BY <2>0
  <2>2. LedCounts'
    <3>1. lit' = lit /\ key_led_on' = key_led_on /\ ~key_led_on
      OBVIOUS
    <3>2. /\ pulses' = key_led_blink_count' /\ key_set_touch_time' > 0
          /\ key_led_blink_count' <= key_set_touch_time' /\ key_led_next_time' > 0
      BY <1>0, <1>1
    <3> QED BY <1>1, <3>1, <3>2 DEF LedCounts
  <2> QED BY <1>0, <2>1, <2>2 DEF FirstSeriesOnTime
<1>5. CASE LedOn(dt)
  <2> USE <1>5 DEF LedOn, SeriesDone
  <2>1. LedCounts'
    BY <1>0, <1>1 DEF LedCounts
  <2>2. ~told => age + key_led_next_time <= SeriesTime(key_led_blink_count) - (MaxDelta - 1)
    BY DEF FirstSeriesOnTime
  <2>3. ~told' => age' + key_led_next_time' <= SeriesTime(key_led_blink_count') + OnTime
    <3>1. SeriesTime(key_led_blink_count) \in Nat
      BY <1>0, SeriesTimeFacts
    <3> QED BY <1>0, <1>1, <2>2, <3>1
  <2>4. FirstSeriesOnTime'
    BY <2>3 DEF FirstSeriesOnTime
  <2> QED BY <1>0, <2>1, <2>4
<1> QED BY <1>2, <1>3, <1>4, <1>5 DEF KeySetLedShow

--------------------------------------------------------------------------------
(* The alternatives of a turn. *)

LEMMA PendKeeps ==
  ASSUME SettingTypeOK, ~saving, NEW mode \in Modes, NEW n \in 1 .. MaxTimes - 1,
         Pend(mode, n), UNCHANGED idVars
  PROVE  SettingInv'
<1> USE SettingAssumption DEF Pend, KeySetLedStart, idVars
<1>1. key_set_status' \in Modes
  OBVIOUS
<1>2. /\ key_set_pending' = TRUE /\ key_led_on' = TRUE /\ lit' = TRUE
      /\ saving' = FALSE /\ told' = FALSE
  BY DEF SettingTypeOK
<1>3. /\ key_set_touch_time' \in 0 .. MaxTimes - 1 /\ key_set_touch_time' > 0
      /\ key_set_timer' = ConfirmTime /\ key_set_timer' \in 0 .. ConfirmTime
      /\ key_led_blink_count' = 0 /\ 0 \in 0 .. MaxTimes - 1
      /\ key_led_next_time' = OnTime
      /\ slave_id' \in Nat /\ master_id' \in Nat
      /\ age' = 0 /\ pulses' = 0
  BY DEF SettingTypeOK
<1>4. SettingTypeOK'
  <2>1. /\ key_set_pending' \in BOOLEAN /\ key_led_on' \in BOOLEAN
        /\ lit' \in BOOLEAN /\ saving' \in BOOLEAN /\ told' \in BOOLEAN
    BY <1>2
  <2>2. /\ key_set_touch_time' \in 0 .. MaxTimes - 1 /\ key_set_timer' \in 0 .. ConfirmTime
        /\ key_led_blink_count' \in 0 .. MaxTimes - 1 /\ key_led_next_time' \in Nat
        /\ slave_id' \in Nat /\ master_id' \in Nat
        /\ age' \in Nat /\ pulses' \in 0 .. MaxTimes - 1
    BY <1>3
  <2> QED BY <1>1, <2>1, <2>2 DEF SettingTypeOK
<1>5. LedCounts'
  BY <1>2, <1>3 DEF LedCounts
<1>6. FirstSeriesOnTime'
  BY <1>2, <1>3, SeriesTimeFacts DEF FirstSeriesOnTime
<1>7. TimerCounts' /\ ConfirmedInTime'
  BY <1>2, <1>3 DEF TimerCounts, ConfirmedInTime
<1>8. NumberIsTold'
  BY <1>2, <1>3 DEF NumberIsTold
<1> QED BY <1>4, <1>5, <1>6, <1>7, <1>8 DEF SettingInv

LEMMA EndShowKeeps ==
  ASSUME SettingInv, ~saving, NEW dt \in Deltas, EndShow(dt)
  PROVE  SettingInv'
<1> USE SettingAssumption DEF EndShow, StatusLed, idVars, SettingInv
<1>1. /\ key_set_pending' = FALSE /\ saving' = FALSE
      /\ key_led_on' \in BOOLEAN /\ lit' \in BOOLEAN /\ told' \in BOOLEAN
  BY DEF SettingTypeOK
<1>2. SettingTypeOK'
  <2>1. /\ key_set_touch_time' \in 0 .. MaxTimes - 1
        /\ key_set_timer' \in 0 .. ConfirmTime
        /\ key_led_blink_count' \in 0 .. MaxTimes - 1
        /\ key_led_next_time' \in Nat
        /\ slave_id' \in Nat /\ master_id' \in Nat
        /\ age' \in Nat /\ pulses' \in 0 .. MaxTimes - 1
    BY DEF SettingTypeOK
  <2>2. key_set_status' \in Modes
    BY DEF SettingTypeOK
  <2> QED BY <1>1, <2>1, <2>2 DEF SettingTypeOK
<1>3. LedCounts' /\ FirstSeriesOnTime'
  BY <1>1 DEF LedCounts, FirstSeriesOnTime
<1>4. TimerCounts' /\ ConfirmedInTime' /\ NumberIsTold'
  BY <1>1 DEF TimerCounts, ConfirmedInTime, NumberIsTold
<1> QED BY <1>2, <1>3, <1>4

LEMMA NothingPendingKeeps ==
  ASSUME SettingInv, ~saving, NothingPending
  PROVE  SettingInv'
<1> USE SettingAssumption DEF NothingPending, StatusLed, idVars, setVars, SettingInv
<1>1. /\ key_set_pending' = FALSE /\ saving' = FALSE
      /\ key_led_on' \in BOOLEAN /\ lit' \in BOOLEAN /\ told' \in BOOLEAN
  BY DEF SettingTypeOK
<1>2. SettingTypeOK'
  <2>1. /\ key_set_touch_time' \in 0 .. MaxTimes - 1
        /\ key_set_timer' \in 0 .. ConfirmTime
        /\ key_led_blink_count' \in 0 .. MaxTimes - 1
        /\ key_led_next_time' \in Nat
        /\ slave_id' \in Nat /\ master_id' \in Nat
        /\ age' \in Nat /\ pulses' \in 0 .. MaxTimes - 1
    BY DEF SettingTypeOK
  <2>2. key_set_status' \in Modes
    BY DEF SettingTypeOK
  <2> QED BY <1>1, <2>1, <2>2 DEF SettingTypeOK
<1>3. LedCounts' /\ FirstSeriesOnTime'
  BY <1>1 DEF LedCounts, FirstSeriesOnTime
<1>4. TimerCounts' /\ ConfirmedInTime' /\ NumberIsTold'
  BY <1>1 DEF TimerCounts, ConfirmedInTime, NumberIsTold
<1> QED BY <1>2, <1>3, <1>4

LEMMA PendingKeeps ==
  ASSUME SettingInv, ~saving, NEW dt \in Deltas, Pending(dt)
  PROVE  SettingInv'
<1> USE SettingAssumption DEF Pending, idVars, SettingInv
<1>0. /\ SettingTypeOK /\ LedCounts /\ FirstSeriesOnTime /\ key_set_pending
      /\ KeySetLedShow(dt) /\ age' = age + dt
      /\ key_set_pending' = key_set_pending /\ key_set_touch_time' = key_set_touch_time
  OBVIOUS
<1>1. /\ key_led_on' \in BOOLEAN /\ lit' \in BOOLEAN /\ told' \in BOOLEAN
      /\ key_led_blink_count' \in 0 .. MaxTimes - 1 /\ key_led_next_time' \in Nat
      /\ pulses' \in 0 .. MaxTimes - 1
      /\ LedCounts' /\ FirstSeriesOnTime'
  BY <1>0, LedShowKeeps
<1>2. /\ key_set_pending' = TRUE /\ key_set_status' \in Modes /\ saving' = FALSE
  BY DEF SettingTypeOK
<1>3. dt \in Nat /\ age \in Nat /\ key_set_timer \in 0 .. ConfirmTime
      /\ key_set_timer + age = ConfirmTime
  BY DEF SettingTypeOK, TimerCounts
<1>4. /\ key_set_timer' \in 0 .. ConfirmTime /\ key_set_timer' > 0
      /\ key_set_timer' + age' = ConfirmTime /\ age' \in Nat /\ age' < ConfirmTime
  BY <1>3
<1>5. /\ slave_id' \in Nat /\ master_id' \in Nat
      /\ key_set_touch_time' \in 0 .. MaxTimes - 1
  BY DEF SettingTypeOK
<1>6. SettingTypeOK'
  BY <1>1, <1>2, <1>4, <1>5 DEF SettingTypeOK
<1>7. TimerCounts' /\ ConfirmedInTime'
  BY <1>2, <1>4 DEF TimerCounts, ConfirmedInTime
<1>8. pulses' <= key_set_touch_time'
  BY <1>1, <1>2, <1>5 DEF LedCounts
<1>9. NumberIsTold'
  BY <1>2, <1>8 DEF NumberIsTold
<1> QED BY <1>1, <1>6, <1>7, <1>9

LEMMA SaveKeeps ==
  ASSUME SettingInv, ~saving, NEW dt \in Deltas, KeySetSave(dt)
  PROVE  SettingInv'
<1> USE SettingAssumption DEF KeySetSave, Due, ledVars, SettingInv
<1>1. /\ key_set_pending = TRUE /\ key_set_pending' = TRUE /\ saving' = TRUE
      /\ key_set_status' \in Modes /\ key_set_status' # "idle"
      /\ key_led_on' \in BOOLEAN /\ lit' \in BOOLEAN /\ told' \in BOOLEAN
  BY DEF SettingTypeOK
<1>2. /\ dt \in 1 .. MaxDelta /\ age \in Nat /\ key_set_timer \in Nat
      /\ key_set_timer + age = ConfirmTime /\ key_set_timer > 0 /\ key_set_timer <= dt
      /\ key_set_touch_time \in 0 .. MaxTimes - 1 /\ key_led_next_time \in Nat
      /\ key_led_blink_count \in 0 .. MaxTimes - 1 /\ pulses \in 0 .. MaxTimes - 1
  BY <1>1 DEF SettingTypeOK, TimerCounts
<1>3. /\ age' \in Nat /\ age' = age + dt
      /\ age' >= ConfirmTime /\ age' < ConfirmTime + MaxDelta
  BY <1>2
<1>4. slave_id' \in Nat /\ master_id' \in Nat
  BY <1>2 DEF SettingTypeOK
<1>5. SettingTypeOK'
  BY <1>1, <1>2, <1>3, <1>4 DEF SettingTypeOK
<1>6. LedCounts'
  BY DEF LedCounts
<1>7. FirstSeriesOnTime' /\ TimerCounts' /\ ConfirmedInTime'
  BY <1>1, <1>3 DEF FirstSeriesOnTime, TimerCounts, ConfirmedInTime
<1>8. SeriesTime(key_set_touch_time) < ConfirmTime => told
  <2> SUFFICES ASSUME SeriesTime(key_set_touch_time) < ConfirmTime, ~told PROVE FALSE
    OBVIOUS
  <2>1. /\ SeriesTime(key_led_blink_count) \in Nat /\ SeriesTime(key_set_touch_time) \in Nat
        /\ key_led_blink_count + 1 \in Nat /\ SeriesTime(key_led_blink_count + 1) \in Nat
        /\ SeriesTime(key_led_blink_count + 1)
             = SeriesTime(key_led_blink_count) + OnTime + OffTime + 2 * (MaxDelta - 1)
    BY <1>2, SeriesTimeFacts
  <2>2. CASE key_led_on
    <3>1. age + key_led_next_time <= SeriesTime(key_led_blink_count) + OnTime
      BY <1>1, <2>2 DEF FirstSeriesOnTime
    <3>2. key_led_blink_count + 1 <= key_set_touch_time /\ key_led_next_time > 0
      BY <1>1, <1>2, <2>2 DEF LedCounts
    <3>3. SeriesTime(key_led_blink_count + 1) <= SeriesTime(key_set_touch_time)
      BY <1>2, <2>1, <3>2, SeriesTimeMonotone
    <3> QED BY <1>2, <2>1, <3>1, <3>2, <3>3
  <2>3. CASE ~key_led_on
    <3>1. age + key_led_next_time <= SeriesTime(key_led_blink_count) - (MaxDelta - 1)
      BY <1>1, <2>3 DEF FirstSeriesOnTime
    <3>2. key_led_blink_count <= key_set_touch_time /\ key_led_next_time > 0
      BY <1>1, <2>3 DEF LedCounts
    <3>3. SeriesTime(key_led_blink_count) <= SeriesTime(key_set_touch_time)
      BY <1>2, <3>2, SeriesTimeMonotone
    <3> QED BY <1>2, <2>1, <3>1, <3>2, <3>3
  <2> QED BY <2>2, <2>3
<1>9. pulses' <= key_set_touch_time'
  BY <1>1 DEF NumberIsTold
<1>10. NumberIsTold'
  BY <1>1, <1>8, <1>9 DEF NumberIsTold, SeriesTime
<1> QED BY <1>5, <1>6, <1>7, <1>10

--------------------------------------------------------------------------------
(* The steps together. *)

LEMMA InitKeeps == Init => IInv
<1> SUFFICES ASSUME Init PROVE IInv
  OBVIOUS
<1> USE KeyAssumption, SettingAssumption DEF Init, KeyInit, Booted
<1>1. KeyTypeOK /\ km_status \in Modes /\ ClicksCounted
  BY DEF KeyTypeOK, ClicksCounted, Modes
<1>2. /\ key_set_status \in Modes
      /\ key_set_pending = FALSE /\ key_led_on = FALSE
      /\ lit = FALSE /\ saving = FALSE /\ told = FALSE
  BY DEF Modes
<1>3. /\ key_set_touch_time \in 0 .. MaxTimes - 1 /\ key_set_timer \in 0 .. ConfirmTime
      /\ key_led_blink_count \in 0 .. MaxTimes - 1 /\ key_led_next_time \in Nat
      /\ slave_id \in Nat /\ master_id \in Nat
      /\ age \in Nat /\ pulses \in 0 .. MaxTimes - 1
  OBVIOUS
<1>4. SettingTypeOK
  BY <1>2, <1>3 DEF SettingTypeOK
<1>5. /\ LedCounts /\ FirstSeriesOnTime /\ TimerCounts
      /\ NumberIsTold /\ ConfirmedInTime
  BY <1>2 DEF LedCounts, FirstSeriesOnTime, TimerCounts, NumberIsTold, ConfirmedInTime
<1> QED BY <1>1, <1>4, <1>5 DEF IInv, SettingInv

LEMMA ResetKeeps ==
  ASSUME IInv, Reset, slave_id' \in Nat, master_id' \in Nat
  PROVE  IInv'
<1> USE KeyAssumption, SettingAssumption DEF Reset
<1>1. KeyTypeOK' /\ km_status' \in Modes /\ ClicksCounted'
  BY DEF KeyTypeOK, ClicksCounted, Modes
<1>2. /\ key_set_status' \in Modes
      /\ key_set_pending' = FALSE /\ key_led_on' = FALSE
      /\ lit' = FALSE /\ saving' = FALSE /\ told' = FALSE
  BY DEF Modes
<1>3. /\ key_set_touch_time' \in 0 .. MaxTimes - 1 /\ key_set_timer' \in 0 .. ConfirmTime
      /\ key_led_blink_count' \in 0 .. MaxTimes - 1 /\ key_led_next_time' \in Nat
      /\ slave_id' \in Nat /\ master_id' \in Nat
      /\ age' \in Nat /\ pulses' \in 0 .. MaxTimes - 1
  BY DEF IInv, SettingInv, SettingTypeOK
<1>4. SettingTypeOK'
  BY <1>2, <1>3 DEF SettingTypeOK
<1>5. /\ LedCounts' /\ FirstSeriesOnTime' /\ TimerCounts'
      /\ NumberIsTold' /\ ConfirmedInTime'
  BY <1>2 DEF LedCounts, FirstSeriesOnTime, TimerCounts, NumberIsTold, ConfirmedInTime
<1> QED BY <1>1, <1>4, <1>5 DEF IInv, SettingInv

LEMMA ShownIdInRange == slave_id \in Nat => ShownId \in 1 .. MaxTimes - 1
<1> DEFINE offset == IF slave_id > DefaultSlave THEN slave_id - DefaultSlave ELSE 0
<1> SUFFICES ASSUME slave_id \in Nat PROVE ShownId \in 1 .. MaxTimes - 1
  OBVIOUS
<1>1. offset \in Nat
  BY SettingAssumption
<1>2. (IF offset = 0 \/ offset >= MaxTimes THEN 1 ELSE offset) \in 1 .. MaxTimes - 1
  <2> HIDE DEF offset
  <2> QED BY <1>1, SettingAssumption
<1> QED BY <1>2 DEF ShownId

LEMMA TurnKeeps ==
  ASSUME IInv, NEW pressed \in BOOLEAN, NEW dt \in Deltas, Turn(pressed, dt)
  PROVE  IInv'
<1> USE DEF Turn
<1>0. SettingTypeOK /\ SettingInv /\ km_status \in Modes
  BY DEF IInv, SettingInv
<1>1. KeyTypeOK' /\ ClicksCounted' /\ (output' = "times" => touch_time' > 0)
  BY TouchKeeps, KeyAssumption DEF IInv
<1>2. km_status' \in Modes
  BY <1>0 DEF Scan, Modes
<1>3. ASSUME KeyShowID PROVE SettingInv'
  <2>1. "idle" \in Modes /\ ShownId \in 1 .. MaxTimes - 1
    BY <1>0, ShownIdInRange DEF Modes, SettingTypeOK
  <2> QED BY <1>0, <1>3, <2>1, PendKeeps DEF KeyShowID
<1>4. ASSUME KeyNumber PROVE SettingInv'
  <2>1. touch_time' \in 1 .. MaxTimes - 1
    BY <1>1, <1>4, SettingAssumption, KeyAssumption DEF KeyNumber, Answer, Number, KeyTypeOK
  <2> QED BY <1>0, <1>4, <2>1, PendKeeps DEF KeyNumber
<1>5. SettingInv'
  BY <1>0, <1>3, <1>4, EndShowKeeps, SaveKeeps, PendingKeeps, NothingPendingKeeps
<1> QED BY <1>1, <1>2, <1>5 DEF IInv

LEMMA NextKeeps == IInv /\ [Next]_vars => IInv'
<1> SUFFICES ASSUME IInv, [Next]_vars PROVE IInv'
  OBVIOUS
<1>1. ASSUME CommTask PROVE IInv'
  BY <1>1, TurnKeeps DEF CommTask
<1>2. ASSUME Saved PROVE IInv'
  <2>1. Reset /\ slave_id' = slave_id /\ master_id' = master_id
    BY <1>2 DEF Saved
  <2>2. slave_id \in Nat /\ master_id \in Nat
    BY DEF IInv, SettingInv, SettingTypeOK
  <2> QED BY <2>1, <2>2, ResetKeeps
<1>3. ASSUME HostSave PROVE IInv'
  <2>1. Reset /\ slave_id' \in SlaveIds /\ master_id' \in MasterIds
    BY <1>3 DEF HostSave
  <2> QED BY <2>1, SettingAssumption, ResetKeeps
<1>4. ASSUME UNCHANGED vars PROVE IInv'
  BY <1>4 DEF vars, keyVars, setVars, ledVars, idVars, IInv, SettingInv, SettingTypeOK,
     KeyTypeOK, ClicksCounted, LedCounts, FirstSeriesOnTime, TimerCounts,
     NumberIsTold, ConfirmedInTime, SeriesTime
<1> QED BY <1>1, <1>2, <1>3, <1>4 DEF Next

--------------------------------------------------------------------------------

(* The inductive invariant. *)
THEOREM SettingInvariant == Spec => []IInv
<1> QED BY InitKeeps, NextKeeps, PTL DEF Spec

(* Every variable keeps its range: the uint8_t count of clicks does not go past
   the mark of a hold, and Scan is never told of a gesture without a click.   *)
THEOREM SettingTypeCorrect == Spec => []TypeOK
<1>1. IInv => TypeOK
  BY DEF IInv, SettingInv, SettingTypeOK, TypeOK
<1> QED BY <1>1, SettingInvariant, PTL

(* The LED never blinks too often, and has blinked a number in full before it
   is saved if ConfirmTime is long enough for that.                         *)
THEOREM SettingNumberIsTold == Spec => []NumberIsTold
<1>1. IInv => NumberIsTold
  BY DEF IInv, SettingInv
<1> QED BY <1>1, SettingInvariant, PTL

(* A number is saved in the first turn after it was left alone for ConfirmTime. *)
THEOREM SettingConfirmedInTime == Spec => []ConfirmedInTime
<1>1. IInv => ConfirmedInTime
  BY DEF IInv, SettingInv
<1> QED BY <1>1, SettingInvariant, PTL

--------------------------------------------------------------------------------
(* KeyIntent.  A turn may also change the mode; the choice moves on its own. *)

Choice == IF key_set_pending /\ ~saving /\ key_set_status # "idle"
          THEN <<key_set_status, key_set_touch_time>> ELSE <<"idle", 0>>

LEMMA ScanMoves ==
  ASSUME KeyTypeOK', km_status \in Modes, Scan
  PROVE  /\ Answer => km_status' = km_status
         /\ km_status' # km_status =>
              \/ km_status = "idle" /\ km_status' \in {"slave", "master"}
              \/ km_status # "idle" /\ km_status' = "idle"
BY DEF Scan, Answer, Hold, Number, Modes, KeyTypeOK

LEMMA IntentStep == IInv /\ IInv' /\ [Next]_vars => [Intent!Next]_Intent!vars
<1> SUFFICES ASSUME IInv, IInv', [Next]_vars PROVE [Intent!Next]_Intent!vars
  OBVIOUS
<1> USE DEF Intent!NoChoice
<1>0. /\ km_status \in Modes /\ key_set_status \in Modes /\ KeyTypeOK'
      /\ key_set_touch_time' \in 0 .. MaxTimes - 1
  BY DEF IInv, SettingInv, SettingTypeOK
<1>1. ASSUME NEW pressed \in BOOLEAN, NEW dt \in Deltas, Turn(pressed, dt)
      PROVE  [Intent!Next]_Intent!vars
  <2>0. /\ ~saving /\ Scan
        /\ Answer => km_status' = km_status
        /\ km_status' # km_status =>
             \/ km_status = "idle" /\ km_status' \in {"slave", "master"}
             \/ km_status # "idle" /\ km_status' = "idle"
    BY <1>0, <1>1, ScanMoves DEF Turn
  <2>1. ASSUME ~saving', Choice' = Choice, slave_id' = slave_id, master_id' = master_id
        PROVE  [Intent!Next]_Intent!vars
    BY <2>0, <2>1 DEF Choice, Intent!Next, Intent!vars, Intent!Enter, Intent!Leave
  <2>2. CASE KeyShowID
    BY <2>0, <2>2 DEF KeyShowID, Pend, idVars, Intent!Next, Intent!Show
  <2>3. CASE KeyNumber
    <3>1. /\ key_set_pending' = TRUE /\ saving' = saving /\ km_status # "idle"
          /\ key_set_status' = km_status /\ key_set_touch_time' = touch_time'
          /\ km_status' = km_status /\ slave_id' = slave_id /\ master_id' = master_id
      BY <2>0, <2>3 DEF KeyNumber, Pend, idVars
    <3>2. touch_time' \in 1 .. MaxTimes - 1
      BY <2>3, <1>1, TouchKeeps, KeyAssumption, SettingAssumption
         DEF KeyNumber, Answer, Number, KeyTypeOK, Turn, IInv
    <3> QED BY <2>0, <3>1, <3>2 DEF Intent!Next, Intent!Choose
  <2>4. CASE EndShow(dt)
    <3>1. Choice' = Choice /\ ~saving' /\ slave_id' = slave_id /\ master_id' = master_id
      BY <2>0, <2>4 DEF EndShow, idVars, Choice
    <3> QED BY <2>1, <3>1
  <2>5. CASE KeySetSave(dt)
    BY <2>0, <2>5 DEF KeySetSave, Due, Intent!Next, Intent!Save
  <2>6. CASE Pending(dt)
    <3>1. Choice' = Choice /\ ~saving' /\ slave_id' = slave_id /\ master_id' = master_id
      BY <2>0, <2>6 DEF Pending, idVars, Choice
    <3> QED BY <2>1, <3>1
  <2>7. CASE NothingPending
    <3>1. Choice' = Choice /\ ~saving' /\ slave_id' = slave_id /\ master_id' = master_id
      BY <2>0, <2>7 DEF NothingPending, setVars, idVars, Choice
    <3> QED BY <2>1, <3>1
  <2> QED BY <1>1, <2>2, <2>3, <2>4, <2>5, <2>6, <2>7 DEF Turn
<1>2. ASSUME Saved PROVE [Intent!Next]_Intent!vars
  BY <1>2 DEF Saved, Reset, Intent!vars
<1>3. ASSUME HostSave PROVE [Intent!Next]_Intent!vars
  BY <1>3 DEF HostSave, Reset, Intent!Next, Intent!HostSave
<1>4. ASSUME UNCHANGED vars PROVE [Intent!Next]_Intent!vars
  BY <1>4 DEF vars, setVars, idVars, Intent!vars
<1> QED BY <1>1, <1>2, <1>3, <1>4 DEF Next, CommTask

(* KeySetting implements KeyIntent: an ID changes only to the number last
   entered for it, whatever the key did since.                             *)
THEOREM SettingHonoursIntent == Spec => HonoursIntent
<1>1. Init => Intent!Init
  BY DEF Init, Booted, Intent!Init, Intent!NoChoice
<1> QED BY <1>1, IntentStep, SettingInvariant, PTL DEF Spec, HonoursIntent, Intent!Spec

--------------------------------------------------------------------------------
(* What the button makes of the samples (KeyGesture). *)

(* The last press. *)
IsLast(l) ==
  /\ l \in Presses
  /\ \A q \in Presses : q[1] <= l[1] /\ q[2] <= l[2]

(* The key is down and has been since sample a. *)
RunFrom(a) == a \in 1 .. Now /\ a .. Now \subseteq Down /\ a - 1 \notin Down

(* A press that begins with sample a comes soon enough for the series before it, *)
Soon(a) == \A l : IsLast(l) => a - l[2] - 2 <= MultiTime

(* and this is how many clicks it finds there. *)
Carried(a) == IF Soon(a) THEN Clicks ELSE 0

(* While the key is down the times count its run so far, and the count is of the
   clicks the run found. *)
RunTimed(a) ==
  /\ wait_time = IF Now - a > WaitTime THEN WaitTime + 1 ELSE Now - a
  /\ hold_time = IF Now - a > HoldTime THEN HoldTime + 1 ELSE Now - a
  /\ hold_time > HoldTime => touch_time = HoldMark
  /\ hold_time <= HoldTime /\ Carried(a) <= HoldMark => touch_time = Carried(a)

Touching == status = "touch" => \E a : RunFrom(a) /\ RunTimed(a)

(* While it is up between clicks the count is of the series, *)
Pausing == status = "idle_temp" =>
  /\ Now \notin Down
  /\ Clicks > 0 /\ (Clicks <= HoldMark => touch_time = Clicks)
  /\ \E l : IsLast(l) /\ wait_time = Now - l[2] - 1 /\ wait_time <= MultiTime

(* and while it rests a click now would begin a new series, unless too many have been counted. *)
Resting == status = "idle" =>
  /\ Now \notin Down
  /\ Soon(Now + 1) => Clicks = 0 \/ Clicks > HoldMark

(* Presses are over one after the other, and finitely many count. *)
PressesKnown ==
  /\ trace \in Seq(BOOLEAN)
  /\ Presses = {} \/ \E l : IsLast(l)
  /\ \A p, q \in Presses : p = q \/ p[2] < q[1] \/ q[2] < p[1]
  /\ IsFiniteSet(InSeries)

(* The inductive invariant. *)
Gestures ==
  /\ KeyTypeOK /\ ClicksCounted
  /\ PressesKnown /\ Touching /\ Pausing /\ Resting /\ DecodesGestures

(* What one more sample adds to those that found the key down. *)
LEMMA Sampled ==
  ASSUME trace \in Seq(BOOLEAN), NEW x \in BOOLEAN, trace' = Append(trace, x)
  PROVE  /\ trace' \in Seq(BOOLEAN) /\ Now \in Nat /\ Now' = Now + 1
         /\ Down \subseteq 1 .. Now
         /\ \A i : i # Now + 1 => (i \in Down' <=> i \in Down)
         /\ Now + 1 \in Down' <=> x
<1>1. trace' \in Seq(BOOLEAN) /\ Now \in Nat /\ Now' = Now + 1
  BY DEF Now
<1>2. \A i \in 1 .. Now : trace'[i] = trace[i]
  BY DEF Now
<1>3. trace'[Now + 1] = x
  BY DEF Now
<1>4. Down \subseteq 1 .. Now
  BY DEF Down
<1>5. ASSUME NEW i, i # Now + 1 PROVE i \in Down' <=> i \in Down
  <2>1. i \in 1 .. Now' <=> i \in 1 .. Now
    BY <1>1, <1>5
  <2> QED BY <1>2, <2>1, Zenon DEF Down
<1>6. Now + 1 \in Down' <=> x
  <2>1. Now + 1 \in 1 .. Now'
    BY <1>1
  <2> QED BY <1>3, <2>1, Zenon DEF Down
<1> QED BY <1>1, <1>4, <1>5, <1>6

(* Presses, before and after a turn, without the set they are drawn from. *)
LEMMA PressIs ==
  \A p : p \in Presses <=>
    /\ p = <<p[1], p[2]>> /\ p[1] \in 1 .. Now /\ p[2] \in 1 .. Now - 1
    /\ p[1] <= p[2] /\ p[1] .. p[2] \subseteq Down
    /\ p[1] - 1 \notin Down /\ p[2] + 1 \notin Down
BY DEF Presses

LEMMA PressWillBe ==
  \A p : p \in Presses' <=>
    /\ p = <<p[1], p[2]>> /\ p[1] \in 1 .. Now' /\ p[2] \in 1 .. Now' - 1
    /\ p[1] <= p[2] /\ p[1] .. p[2] \subseteq Down'
    /\ p[1] - 1 \notin Down' /\ p[2] + 1 \notin Down'
BY DEF Presses

(* A sample that lets go of nothing leaves the presses as they are. *)
LEMMA QuietSample ==
  ASSUME trace \in Seq(BOOLEAN), NEW x \in BOOLEAN, trace' = Append(trace, x),
         x \/ Now \notin Down
  PROVE  Presses' = Presses
<1>0. /\ Now \in Nat /\ Now' = Now + 1 /\ Down \subseteq 1 .. Now
      /\ \A i : i # Now + 1 => (i \in Down' <=> i \in Down)
      /\ Now + 1 \in Down' <=> x
  BY Sampled
<1>1. ASSUME NEW p \in Presses PROVE p \in Presses'
  <2>1. /\ p = <<p[1], p[2]>> /\ p[1] \in 1 .. Now /\ p[2] \in 1 .. Now - 1
        /\ p[1] <= p[2] /\ p[1] .. p[2] \subseteq Down
        /\ p[1] - 1 \notin Down /\ p[2] + 1 \notin Down
    BY PressIs
  <2>2. p[1] .. p[2] \subseteq Down' /\ p[1] - 1 \notin Down' /\ p[2] + 1 \notin Down'
    BY <1>0, <2>1
  <2>3. p[1] \in 1 .. Now' /\ p[2] \in 1 .. Now' - 1
    BY <1>0, <2>1
  <2> QED BY <2>1, <2>2, <2>3, PressWillBe, Zenon
<1>2. ASSUME NEW p \in Presses' PROVE p \in Presses
  <2>1. /\ p = <<p[1], p[2]>> /\ p[1] \in 1 .. Now + 1 /\ p[2] \in 1 .. Now
        /\ p[1] <= p[2] /\ p[1] .. p[2] \subseteq Down'
        /\ p[1] - 1 \notin Down' /\ p[2] + 1 \notin Down'
    BY <1>0, PressWillBe
  <2>2. p[2] # Now
    <3>1. p[2] \in Down' /\ p[2] + 1 \notin Down'
      BY <1>0, <2>1
    <3> QED BY <1>0, <3>1
  <2>3. p[1] .. p[2] \subseteq Down
    BY <1>0, <2>1, <2>2
  <2> QED BY <1>0, <2>1, <2>2, <2>3, PressIs, SMTT(20)
<1> QED BY <1>1, <1>2

(* One that lets go of the key ends a press, the last of all. *)
LEMMA ReleaseSample ==
  ASSUME trace \in Seq(BOOLEAN), trace' = Append(trace, FALSE), NEW a, RunFrom(a)
  PROVE  /\ Presses' = Presses \cup {<<a, Now>>}
         /\ \A p \in Presses : p[1] \in Nat /\ p[2] \in Nat /\ p[1] <= p[2] /\ p[2] < a
<1>0. /\ Now \in Nat /\ Now' = Now + 1 /\ Down \subseteq 1 .. Now /\ Down' = Down
  <2>1. /\ Now \in Nat /\ Now' = Now + 1 /\ Down \subseteq 1 .. Now
        /\ \A i : i # Now + 1 => (i \in Down' <=> i \in Down)
        /\ ~(Now + 1 \in Down')
    BY Sampled
  <2>2. Now + 1 \notin Down
    BY <2>1
  <2>3. \A i : i \in Down' <=> i \in Down
    BY <2>1, <2>2, Zenon
  <2> QED BY <2>1, <2>3
<1>1. a \in 1 .. Now /\ a .. Now \subseteq Down /\ a - 1 \notin Down
  BY DEF RunFrom
<1>2. ASSUME NEW p \in Presses
      PROVE  p \in Presses' /\ p[1] \in Nat /\ p[2] \in Nat /\ p[1] <= p[2] /\ p[2] < a
  <2>1. /\ p = <<p[1], p[2]>> /\ p[1] \in 1 .. Now /\ p[2] \in 1 .. Now - 1
        /\ p[1] <= p[2] /\ p[1] .. p[2] \subseteq Down
        /\ p[1] - 1 \notin Down /\ p[2] + 1 \notin Down
    BY PressIs
  <2>2. p \in Presses'
    BY <1>0, <2>1, PressWillBe, SMTT(20)
  <2>3. p[2] + 1 \notin a .. Now
    BY <1>1, <2>1
  <2> QED BY <1>0, <1>1, <2>1, <2>2, <2>3
<1>3. <<a, Now>> \in Presses'
  <2>1. a \in 1 .. Now' /\ Now \in 1 .. Now' - 1 /\ a <= Now /\ Now + 1 \notin Down'
    BY <1>0, <1>1
  <2> QED BY <1>0, <1>1, <2>1, PressWillBe
<1>4. ASSUME NEW p \in Presses', p \notin Presses PROVE p = <<a, Now>>
  <2>1. /\ p = <<p[1], p[2]>> /\ p[1] \in 1 .. Now + 1 /\ p[2] \in 1 .. Now
        /\ p[1] <= p[2] /\ p[1] .. p[2] \subseteq Down
        /\ p[1] - 1 \notin Down /\ p[2] + 1 \notin Down
    BY <1>0, PressWillBe
  <2>2. p[2] = Now
    <3>1. ~(p[1] \in 1 .. Now /\ p[2] \in 1 .. Now - 1)
      BY <1>4, <2>1, PressIs
    <3> QED BY <1>0, <2>1, <3>1
  <2>3. ~ p[1] < a
    <3> SUFFICES ASSUME p[1] < a PROVE FALSE
      OBVIOUS
    <3>1. a - 1 \in p[1] .. p[2]
      BY <1>0, <1>1, <2>1, <2>2
    <3> QED BY <1>1, <2>1, <3>1
  <2>4. ~ p[1] > a
    <3> SUFFICES ASSUME p[1] > a PROVE FALSE
      OBVIOUS
    <3>1. p[1] - 1 \in a .. Now
      BY <1>0, <1>1, <2>1, <2>2
    <3> QED BY <1>1, <2>1, <3>1
  <2> QED BY <1>0, <1>1, <2>1, <2>2, <2>3, <2>4
<1> QED BY <1>2, <1>3, <1>4

(* With the same presses there are the same series, *)
LEMMA QuietSeries ==
  ASSUME Presses' = Presses
  PROVE  /\ InSeries' = InSeries /\ Clicks' = Clicks /\ LastEnd' = LastEnd
         /\ \A l : IsLast(l)' <=> IsLast(l)
BY DEF InSeries, IsSeries, SeriesFrom, Follows, IsClick, Duration, Clicks, LastEnd, IsLast

(* and a press after all others joins the series if it is a click and soon enough,
   begins one if it is a click, and ends it if it is none.                     *)
LEMMA ReleaseSeries ==
  ASSUME NEW a \in Nat, NEW b \in Nat, a <= b, NEW r, r = <<a, b>>,
         Presses' = Presses \cup {r}, Presses = {} \/ \E l : IsLast(l),
         \A p \in Presses : p[1] \in Nat /\ p[2] \in Nat /\ p[1] <= p[2] /\ p[2] < a,
         \A p, q \in Presses : p = q \/ p[2] < q[1] \/ q[2] < p[1]
  PROVE  /\ InSeries' = IF IsClick(r) THEN IF Soon(a) THEN InSeries \cup {r} ELSE {r}
                                       ELSE {}
         /\ r \notin InSeries
<1>0. r[1] = a /\ r[2] = b /\ r \notin Presses /\ r \in Presses'
  OBVIOUS
<1>1. ASSUME NEW p \in Presses, NEW q \in Presses PROVE Follows(p, q)' <=> Follows(p, q)
  <2>1. ~(r[2] < q[1])
    BY <1>0
  <2> QED BY <2>1 DEF Follows
<1>2. ASSUME NEW q \in Presses' PROVE ~Follows(r, q)'
  BY <1>0 DEF Follows
<1>3. ASSUME NEW p \in Presses PROVE Follows(p, r)' <=> IsLast(p)
  <2>1. Follows(p, r)' <=> \A s \in Presses : ~(p[2] < s[1])
    BY <1>0 DEF Follows
  <2>2. ASSUME \A s \in Presses : ~(p[2] < s[1]) PROVE IsLast(p)
    <3>1. PICK l : IsLast(l)
      OBVIOUS
    <3>2. l = p
      BY <2>2, <3>1 DEF IsLast
    <3> QED BY <3>1, <3>2
  <2>3. ASSUME IsLast(p), NEW s \in Presses PROVE ~(p[2] < s[1])
    BY <2>3 DEF IsLast
  <2> QED BY <2>1, <2>2, <2>3
<1>4. ASSUME NEW p \in Presses PROVE SeriesFrom(p)' = SeriesFrom(p) \cup {r}
  BY <1>0 DEF SeriesFrom
<1>5. SeriesFrom(r)' = {r}
  BY <1>0 DEF SeriesFrom
<1>6. \A p : SeriesFrom(p) \subseteq Presses
  BY DEF SeriesFrom
<1>7. \A q : IsClick(q)' <=> IsClick(q)
  BY DEF IsClick, Duration
<1>8. \A p : p \in InSeries' <=>
        /\ p \in Presses' /\ \A q \in SeriesFrom(p)' : IsClick(q)
        /\ \A q, s \in SeriesFrom(p)' : Follows(q, s)' => s[1] - q[2] - 2 <= MultiTime
  BY <1>7 DEF InSeries, IsSeries
<1>9. \A p : p \in InSeries <=>
        /\ p \in Presses /\ \A q \in SeriesFrom(p) : IsClick(q)
        /\ \A q, s \in SeriesFrom(p) : Follows(q, s) => s[1] - q[2] - 2 <= MultiTime
  BY DEF InSeries, IsSeries
<1>10. r \notin InSeries /\ InSeries' \subseteq Presses \cup {r}
  BY <1>0, <1>8, <1>9
<1>11. r \in InSeries' <=> IsClick(r)
  BY <1>0, <1>2, <1>5, <1>8
<1>12. ASSUME NEW p \in Presses PROVE p \in InSeries' <=> p \in InSeries /\ IsClick(r) /\ Soon(a)
  <2>1. ASSUME p \in InSeries' PROVE p \in InSeries /\ IsClick(r) /\ Soon(a)
    <3>1. IsClick(r)
      BY <1>4, <1>8, <2>1
    <3>2. p \in InSeries
      BY <1>1, <1>4, <1>6, <1>8, <1>9, <2>1
    <3>3. ASSUME NEW l, IsLast(l) PROVE a - l[2] - 2 <= MultiTime
      <4>1. l \in Presses /\ l \in SeriesFrom(p)
        BY <3>3 DEF IsLast, SeriesFrom
      <4>2. l \in SeriesFrom(p)' /\ r \in SeriesFrom(p)' /\ Follows(l, r)'
        BY <1>3, <1>4, <3>3, <4>1
      <4> QED BY <1>0, <1>8, <2>1, <4>2
    <3> QED BY <3>1, <3>2, <3>3 DEF Soon
  <2>2. ASSUME p \in InSeries, IsClick(r), Soon(a) PROVE p \in InSeries'
    <3>1. \A q \in SeriesFrom(p)' : IsClick(q)
      BY <1>4, <1>9, <2>2
    <3>2. ASSUME NEW q \in SeriesFrom(p)', NEW s \in SeriesFrom(p)', Follows(q, s)'
          PROVE  s[1] - q[2] - 2 <= MultiTime
      <4>1. q # r
        BY <1>0, <1>2, <1>4, <1>6, <3>2
      <4>2. q \in SeriesFrom(p) /\ q \in Presses
        BY <1>4, <1>6, <4>1
      <4>3. CASE s = r
        BY <1>0, <1>3, <2>2, <3>2, <4>2, <4>3 DEF Soon
      <4>4. CASE s # r
        <5>1. s \in SeriesFrom(p) /\ s \in Presses
          BY <1>4, <1>6, <4>4
        <5> QED BY <1>1, <1>9, <2>2, <3>2, <4>2, <5>1
      <4> QED BY <4>3, <4>4
    <3> QED BY <1>8, <3>1, <3>2
  <2> QED BY <2>1, <2>2
<1>13. CASE ~IsClick(r)
  BY <1>10, <1>11, <1>12, <1>13
<1>14. CASE IsClick(r) /\ Soon(a)
  <2>1. InSeries \subseteq Presses
    BY <1>9
  <2> QED BY <1>10, <1>11, <1>12, <1>14, <2>1
<1>15. CASE IsClick(r) /\ ~Soon(a)
  BY <1>10, <1>11, <1>12, <1>15
<1> QED BY <1>10, <1>13, <1>14, <1>15

LEMMA LastEndIs ==
  ASSUME NEW l, IsLast(l)
  PROVE  LastEnd = {l[2]}
<1>1. \A p \in Presses : p[2] \in Int
  BY PressIs
<1>2. \A p \in Presses : (\A q \in Presses : q[2] <= p[2]) => p[2] = l[2]
  BY <1>1 DEF IsLast
<1> QED BY <1>2 DEF IsLast, LastEnd

LEMMA ClicksKnown ==
  ASSUME PressesKnown
  PROVE  Clicks \in Nat /\ (Presses = {} => Clicks = 0) /\ (InSeries = {} => Clicks = 0)
<1>1. Presses = {} => InSeries = {}
  BY DEF InSeries
<1>2. Cardinality({}) = 0
  BY FS_EmptySet
<1>3. Clicks \in Nat
  BY FS_CardinalityType DEF PressesKnown, Clicks
<1> QED BY <1>1, <1>2, <1>3 DEF Clicks

(* What a sample that lets go of nothing changes: the time. *)
LEMMA QuietCounts ==
  ASSUME PressesKnown, NEW x \in BOOLEAN, trace' = Append(trace, x), x \/ Now \notin Down
  PROVE  /\ PressesKnown' /\ Now \in Nat /\ Now' = Now + 1
         /\ Down \subseteq 1 .. Now /\ (Now' \in Down' <=> x)
         /\ \A i : i # Now + 1 => (i \in Down' <=> i \in Down)
         /\ Clicks' = Clicks /\ LastEnd' = LastEnd /\ ~HoldDue'
         /\ \A l : IsLast(l)' <=> IsLast(l)
<1>1. /\ trace' \in Seq(BOOLEAN) /\ Now \in Nat /\ Now' = Now + 1
      /\ Down \subseteq 1 .. Now
      /\ \A i : i # Now + 1 => (i \in Down' <=> i \in Down)
      /\ Now + 1 \in Down' <=> x
  BY Sampled DEF PressesKnown
<1>2. Presses' = Presses
  BY QuietSample DEF PressesKnown
<1>3. /\ InSeries' = InSeries /\ Clicks' = Clicks /\ LastEnd' = LastEnd
      /\ \A l : IsLast(l)' <=> IsLast(l)
  BY <1>2, QuietSeries
<1>4. PressesKnown'
  BY <1>1, <1>2, <1>3 DEF PressesKnown
<1>5. \A p \in Presses : p[2] \in 1 .. Now - 1
  BY PressIs
<1>6. ~HoldDue'
  BY <1>1, <1>2, <1>5 DEF HoldDue
<1> QED BY <1>1, <1>3, <1>4, <1>6

(* A quiet sample with the key up, and one with the key down. *)
LEMMA StillUp ==
  ASSUME PressesKnown, trace' = Append(trace, FALSE), Now \notin Down
  PROVE  /\ PressesKnown' /\ Now \in Nat /\ Now' = Now + 1 /\ Now' \notin Down'
         /\ Clicks' = Clicks /\ LastEnd' = LastEnd /\ ~HoldDue'
         /\ \A l : IsLast(l)' <=> IsLast(l)
<1>1. FALSE \in BOOLEAN
  OBVIOUS
<1> QED BY <1>1, QuietCounts, Zenon

LEMMA GoesDown ==
  ASSUME PressesKnown, trace' = Append(trace, TRUE)
  PROVE  /\ PressesKnown' /\ Now \in Nat /\ Now' = Now + 1
         /\ Down \subseteq 1 .. Now /\ Down' = Down \cup {Now + 1}
         /\ Clicks' = Clicks /\ LastEnd' = LastEnd /\ ~HoldDue'
         /\ \A l : IsLast(l)' <=> IsLast(l)
<1>1. TRUE \in BOOLEAN
  OBVIOUS
<1>2. /\ PressesKnown' /\ Now \in Nat /\ Now' = Now + 1
      /\ Down \subseteq 1 .. Now /\ Now' \in Down'
      /\ \A i : i # Now + 1 => (i \in Down' <=> i \in Down)
      /\ Clicks' = Clicks /\ LastEnd' = LastEnd /\ ~HoldDue'
      /\ \A l : IsLast(l)' <=> IsLast(l)
  BY <1>1, QuietCounts, Zenon
<1> QED BY <1>2

(* What one that ends a press does. *)
LEMMA ReleaseCounts ==
  ASSUME PressesKnown, trace' = Append(trace, FALSE), NEW a, RunFrom(a), NEW n, n = Now
  PROVE  /\ PressesKnown' /\ Now \in Nat /\ Now' = Now + 1 /\ Now' \notin Down'
         /\ Clicks' = IF Now - a > WaitTime /\ Now - a <= HoldTime THEN Carried(a) + 1 ELSE 0
         /\ IsLast(<<a, n>>)' /\ LastEnd' = {Now}
         /\ HoldDue' <=> Now - a > HoldTime
<1> DEFINE r == <<a, n>>
<1>1. /\ trace' \in Seq(BOOLEAN) /\ Now \in Nat /\ Now' = Now + 1
      /\ Now + 1 \notin Down' /\ a \in 1 .. Now
  BY Sampled DEF PressesKnown, RunFrom
<1>2. /\ Presses' = Presses \cup {r}
      /\ \A p \in Presses : p[1] \in Nat /\ p[2] \in Nat /\ p[1] <= p[2] /\ p[2] < a
  BY ReleaseSample DEF PressesKnown
<1>3. r[1] = a /\ r[2] = n /\ n = Now
  OBVIOUS
<1>4. /\ InSeries' = IF IsClick(r) THEN IF Soon(a) THEN InSeries \cup {r} ELSE {r} ELSE {}
      /\ r \notin InSeries
  <2>1. /\ a \in Nat /\ Now \in Nat /\ a <= Now /\ (Presses = {} \/ \E l : IsLast(l))
        /\ \A p, q \in Presses : p = q \/ p[2] < q[1] \/ q[2] < p[1]
    BY <1>1 DEF PressesKnown
  <2> QED BY <1>2, <2>1, ReleaseSeries
<1>5. IsLast(r)'
  <2>1. r \in Presses'
    BY <1>2
  <2>2. ASSUME NEW q \in Presses' PROVE q[1] <= r[1] /\ q[2] <= r[2]
    BY <1>1, <1>2, <1>3
  <2> QED BY <2>1, <2>2 DEF IsLast
<1>6. LastEnd' = {Now}
  <2>1. r \in Presses' /\ \A q \in Presses' : q[2] \in Int /\ q[2] <= Now
    BY <1>1, <1>2, <1>3
  <2>2. ASSUME NEW p \in Presses', \A q \in Presses' : q[2] <= p[2] PROVE p[2] = Now
    <3>1. Now <= p[2]
      BY <1>3, <2>1, <2>2
    <3> QED BY <1>1, <2>1, <3>1
  <2>3. \A q \in Presses' : q[2] <= r[2]
    BY <1>3, <2>1
  <2> HIDE DEF r
  <2>4. LastEnd' = {p[2] : p \in {q \in Presses' : \A s \in Presses' : s[2] <= q[2]}}
    BY DEF LastEnd
  <2> QED BY <1>3, <2>1, <2>2, <2>3, <2>4
<1>7. HoldDue' <=> Now - a > HoldTime
  <2>1. \A p \in Presses : p[2] # Now' - 1
    BY <1>1, <1>2
  <2>2. HoldDue' <=> \E p \in Presses' : p[2] = Now' - 1 /\ p[2] - p[1] > HoldTime
    BY DEF HoldDue, Duration
  <2>3. r[2] = Now' - 1 /\ r[2] - r[1] = Now - a
    BY <1>1, <1>3
  <2> HIDE DEF r
  <2> QED BY <1>2, <2>1, <2>2, <2>3
<1>8. IsFiniteSet(InSeries') /\ Clicks' = IF IsClick(r) THEN Carried(a) + 1 ELSE 0
  <2>1. /\ IsFiniteSet(InSeries) /\ IsFiniteSet({}) /\ Cardinality({}) = 0
    BY FS_EmptySet DEF PressesKnown
  <2>2. /\ IsFiniteSet(InSeries \cup {r}) /\ Cardinality(InSeries \cup {r}) = Cardinality(InSeries) + 1
    BY <1>4, <2>1, FS_AddElement
  <2>3. IsFiniteSet({r}) /\ Cardinality({r}) = 1
    <3>1. \A x : /\ IsFiniteSet({} \cup {x})
                /\ Cardinality({} \cup {x}) = IF x \in {} THEN Cardinality({}) ELSE Cardinality({}) + 1
      BY <2>1, FS_AddElement
    <3>2. \A x : {} \cup {x} = {x} /\ x \notin {}
      OBVIOUS
    <3>3. \A x : IsFiniteSet({x}) /\ Cardinality({x}) = Cardinality({}) + 1
      BY <3>1, <3>2, Zenon
    <3>4. Cardinality({}) + 1 = 1
      BY <2>1
    <3> QED BY <3>3, <3>4, Zenon
  <2> HIDE DEF r
  <2> QED BY <1>4, <2>1, <2>2, <2>3 DEF Clicks, Carried
<1>9. PressesKnown'
  <2>1. \A p, q \in Presses' : p = q \/ p[2] < q[1] \/ q[2] < p[1]
    <3> HIDE DEF r
    <3> QED BY <1>1, <1>2, <1>3 DEF PressesKnown
  <2> QED BY <1>1, <1>5, <1>8, <2>1 DEF PressesKnown
<1>10. IsClick(r) <=> Now - a > WaitTime /\ Now - a <= HoldTime
  BY DEF IsClick, Duration
<1> QED BY <1>1, <1>5, <1>6, <1>7, <1>8, <1>9, <1>10

--------------------------------------------------------------------------------
(* The turns of the button, a lemma for each action of CommKey. *)

LEMMA GesturesInit == GestureInit => Gestures
<1> SUFFICES ASSUME GestureInit PROVE Gestures
  OBVIOUS
<1>1. /\ trace = <<>> /\ status = "idle" /\ output = "nothing"
      /\ wait_time = 0 /\ hold_time = 0 /\ touch_time = 0
  BY DEF GestureInit, KeyInit
<1>2. Now = 0 /\ Presses = {} /\ Now \notin Down
  BY <1>1 DEF Now, Presses, Down
<1>3. InSeries = {} /\ LastEnd = {}
  BY <1>2 DEF InSeries, LastEnd
<1>4. PressesKnown
  BY <1>1, <1>2, <1>3, FS_EmptySet DEF PressesKnown
<1>5. KeyTypeOK /\ ClicksCounted /\ Touching /\ Pausing
  BY <1>1, KeyAssumption DEF KeyTypeOK, ClicksCounted, Touching, Pausing
<1>6. Resting
  BY <1>2, <1>4, ClicksKnown DEF Resting
<1>7. ~CountDue /\ ~HoldDue
  BY <1>2, <1>3 DEF CountDue, HoldDue
<1>8. DecodesGestures
  BY <1>1, <1>7 DEF DecodesGestures
<1> QED BY <1>4, <1>5, <1>6, <1>8 DEF Gestures

(* The time a field counts, one turn later. *)
LEMMA OneLaterTimed ==
  ASSUME NEW t \in Nat, NEW limit \in Nat, NEW time,
         time = IF t > limit THEN limit + 1 ELSE t
  PROVE  Later(time, 1, limit) = IF t + 1 > limit THEN limit + 1 ELSE t + 1
BY DEF Later

(* A turn that finds the key up, as the last one did. *)
LEMMA RestGestures ==
  ASSUME Gestures, Rest(FALSE), trace' = Append(trace, FALSE)
  PROVE  PressesKnown' /\ Touching' /\ Pausing' /\ Resting' /\ DecodesGestures'
<1>1. /\ status = "idle" /\ status' = "idle" /\ output' = "nothing" /\ Now \notin Down
  BY DEF Rest, Gestures, Resting
<1>2. /\ PressesKnown' /\ Now \in Nat /\ Now' = Now + 1 /\ Now' \notin Down'
      /\ Clicks' = Clicks /\ LastEnd' = LastEnd /\ ~HoldDue'
      /\ \A l : IsLast(l)' <=> IsLast(l)
  BY <1>1, StillUp DEF Gestures
<1>3. \A l : IsLast(l) => l[2] \in Nat
  BY PressIs DEF IsLast
<1>4. Touching' /\ Pausing'
  BY <1>1 DEF Touching, Pausing
<1>5. Soon(Now + 2) => Soon(Now + 1)
  BY <1>2, <1>3, KeyAssumption DEF Soon
<1>6. Soon(Now + 1)' <=> Soon(Now + 2)
  BY <1>2 DEF Soon
<1>7. Resting'
  BY <1>1, <1>2, <1>5, <1>6 DEF Gestures, Resting
<1>8. ~CountDue' \/ Clicks' > HoldMark
  <2> SUFFICES ASSUME CountDue' PROVE Clicks' > HoldMark
    OBVIOUS
  <2>1. Clicks > 0 /\ LastEnd = {Now - MultiTime - 1}
    BY <1>2, KeyAssumption DEF CountDue
  <2>2. \A l : IsLast(l) => l[2] = Now - MultiTime - 1
    BY <2>1, LastEndIs
  <2>3. Soon(Now + 1)
    BY <1>2, <2>2, KeyAssumption DEF Soon
  <2> QED BY <1>1, <1>2, <2>1, <2>3 DEF Gestures, Resting
<1> QED BY <1>1, <1>2, <1>4, <1>7, <1>8, KeyAssumption, ClicksKnown DEF DecodesGestures, Gestures

(* Nothing is due while the key is down. *)
LEMMA NothingDue ==
  ASSUME PressesKnown, trace' = Append(trace, TRUE), output' = "nothing"
  PROVE  DecodesGestures'
<1>1. ~HoldDue' /\ Now' \in Down'
  BY GoesDown
<1>2. ~CountDue'
  BY <1>1 DEF CountDue
<1> QED BY <1>1, <1>2 DEF DecodesGestures

LEMMA CarriedOn ==
  ASSUME Clicks' = Clicks, \A l : IsLast(l)' <=> IsLast(l), NEW a
  PROVE  Carried(a)' = Carried(a)
BY DEF Carried, Soon

(* The key goes down, in either state it may have been up in. *)
LEMMA PressBegins ==
  ASSUME PressesKnown, trace' = Append(trace, TRUE), Now \notin Down,
         status' = "touch", wait_time' = 0, hold_time' = 0,
         Carried(Now + 1) <= HoldMark => touch_time' = Carried(Now + 1)
  PROVE  Touching'
<1>1. PICK a : a = Now + 1
  OBVIOUS
<1>2. /\ Now \in Nat /\ Now' = Now + 1
      /\ Down \subseteq 1 .. Now /\ Down' = Down \cup {Now + 1}
      /\ Clicks' = Clicks /\ \A l : IsLast(l)' <=> IsLast(l)
  BY GoesDown
<1>3. RunFrom(a)'
  BY <1>1, <1>2 DEF RunFrom
<1>4. Carried(a)' = Carried(a)
  BY <1>2, CarriedOn
<1>5. Now' - a = 0 /\ ~(0 > WaitTime) /\ ~(0 > HoldTime)
  BY <1>1, <1>2, KeyAssumption
<1>6. Carried(a) <= HoldMark => touch_time' = Carried(a)
  BY <1>1
<1>7. RunTimed(a)'
  BY <1>4, <1>5, <1>6 DEF RunTimed
<1> QED BY <1>3, <1>7 DEF Touching

LEMMA BeginGestures ==
  ASSUME Gestures, Begin(TRUE), trace' = Append(trace, TRUE)
  PROVE  PressesKnown' /\ Touching' /\ Pausing' /\ Resting' /\ DecodesGestures'
<1>1. /\ status = "idle" /\ status' = "touch" /\ output' = "nothing" /\ Now \notin Down
      /\ wait_time' = 0 /\ hold_time' = 0 /\ touch_time' = 0 /\ PressesKnown
      /\ Soon(Now + 1) => Clicks = 0 \/ Clicks > HoldMark
  BY DEF Begin, Gestures, Resting
<1>2. Clicks \in Nat
  BY <1>1, ClicksKnown
<1>3. Carried(Now + 1) <= HoldMark => Carried(Now + 1) = 0
  BY <1>1, <1>2, KeyAssumption DEF Carried
<1>4. Touching'
  BY <1>1, <1>3, PressBegins
<1> QED BY <1>1, <1>4, GoesDown, NothingDue DEF Pausing, Resting

LEMMA AgainGestures ==
  ASSUME Gestures, Again(TRUE), trace' = Append(trace, TRUE)
  PROVE  PressesKnown' /\ Touching' /\ Pausing' /\ Resting' /\ DecodesGestures'
<1>1. /\ status = "idle_temp" /\ status' = "touch" /\ output' = "nothing" /\ Now \notin Down
      /\ wait_time' = 0 /\ hold_time' = 0 /\ touch_time' = touch_time /\ PressesKnown
      /\ Clicks <= HoldMark => touch_time = Clicks
  BY DEF Again, Gestures, Pausing
<1>2. PICK l : IsLast(l) /\ wait_time = Now - l[2] - 1 /\ wait_time <= MultiTime
  BY <1>1 DEF Gestures, Pausing
<1>3. /\ Now \in Nat /\ l[2] \in Nat
      /\ \A k : IsLast(k) => k[2] = l[2]
  BY <1>2, GoesDown, PressIs, LastEndIs, <1>1 DEF IsLast
<1>4. Soon(Now + 1)
  BY <1>2, <1>3, KeyAssumption DEF Soon
<1>5. Carried(Now + 1) = Clicks
  BY <1>4 DEF Carried
<1>6. Touching'
  BY <1>1, <1>5, PressBegins
<1> QED BY <1>1, <1>6, GoesDown, NothingDue DEF Pausing, Resting

LEMMA PressGestures ==
  ASSUME Gestures, Press(TRUE, 1), trace' = Append(trace, TRUE)
  PROVE  PressesKnown' /\ Touching' /\ Pausing' /\ Resting' /\ DecodesGestures'
<1>1. /\ status = "touch" /\ status' = "touch" /\ output' = "nothing" /\ PressesKnown
      /\ wait_time' = Later(wait_time, 1, WaitTime)
      /\ hold_time' = Later(hold_time, 1, HoldTime)
      /\ touch_time' = IF hold_time' > HoldTime THEN HoldMark ELSE touch_time
  BY DEF Press, Gestures
<1>2. PICK a : RunFrom(a) /\ RunTimed(a)
  BY <1>1 DEF Gestures, Touching
<1>3. /\ Now \in Nat /\ Now' = Now + 1 /\ PressesKnown'
      /\ Down \subseteq 1 .. Now /\ Down' = Down \cup {Now + 1}
      /\ Clicks' = Clicks /\ \A l : IsLast(l)' <=> IsLast(l)
  BY <1>1, GoesDown
<1>4. RunFrom(a)' /\ Now - a \in Nat
  BY <1>2, <1>3 DEF RunFrom
<1>5. Now' - a = Now - a + 1
  BY <1>2, <1>3 DEF RunFrom
<1>6. /\ wait_time' = IF Now' - a > WaitTime THEN WaitTime + 1 ELSE Now' - a
      /\ hold_time' = IF Now' - a > HoldTime THEN HoldTime + 1 ELSE Now' - a
  BY <1>1, <1>2, <1>4, <1>5, KeyAssumption, OneLaterTimed DEF RunTimed
<1>7. hold_time' <= HoldTime => hold_time <= HoldTime
  BY <1>2, <1>4, <1>5, <1>6, KeyAssumption DEF RunTimed
<1>8. ~(hold_time' > HoldTime /\ hold_time' <= HoldTime)
  BY <1>4, <1>5, <1>6, KeyAssumption
<1>9. Carried(a)' = Carried(a)
  BY <1>3, CarriedOn
<1>10. RunTimed(a)'
  BY <1>1, <1>2, <1>6, <1>7, <1>8, <1>9 DEF RunTimed
<1> QED BY <1>1, <1>3, <1>4, <1>10, NothingDue DEF Touching, Pausing, Resting

(* The key goes up: how long it was down, and what that makes of the series. *)
LEMMA GoesUp ==
  ASSUME Gestures, status = "touch", trace' = Append(trace, FALSE)
  PROVE  \E a, n :
           /\ n = Now /\ n \in Nat /\ a \in Nat /\ n - a \in Nat /\ Carried(a) \in Nat
           /\ RunTimed(a) /\ PressesKnown'
           /\ Now' = n + 1 /\ Now' \notin Down' /\ IsLast(<<a, n>>)' /\ ~CountDue'
           /\ Clicks' = IF n - a > WaitTime /\ n - a <= HoldTime THEN Carried(a) + 1 ELSE 0
           /\ HoldDue' <=> n - a > HoldTime
<1>1. PICK a : RunFrom(a) /\ RunTimed(a)
  BY DEF Gestures, Touching
<1>2. PICK n : n = Now
  OBVIOUS
<1>3. PressesKnown
  BY DEF Gestures
<1>4. /\ PressesKnown' /\ Now \in Nat /\ Now' = Now + 1 /\ Now' \notin Down'
      /\ Clicks' = IF Now - a > WaitTime /\ Now - a <= HoldTime THEN Carried(a) + 1 ELSE 0
      /\ IsLast(<<a, n>>)' /\ LastEnd' = {Now}
      /\ HoldDue' <=> Now - a > HoldTime
  BY <1>1, <1>2, <1>3, ReleaseCounts
<1>5. a \in Nat /\ n - a \in Nat
  BY <1>1, <1>2, <1>4 DEF RunFrom
<1>6. Carried(a) \in Nat
  BY <1>3, ClicksKnown DEF Carried
<1>7. ~CountDue'
  BY <1>4, KeyAssumption DEF CountDue
<1> QED BY <1>1, <1>2, <1>4, <1>5, <1>6, <1>7

(* A contact too short to be a click ends the series. *)
LEMMA NoiseGestures ==
  ASSUME Gestures, Noise(FALSE), trace' = Append(trace, FALSE)
  PROVE  PressesKnown' /\ Touching' /\ Pausing' /\ Resting' /\ DecodesGestures'
<1>1. status = "touch" /\ status' = "idle" /\ output' = "nothing" /\ wait_time <= WaitTime
  BY DEF Noise
<1>2. PICK a, n :
           /\ n = Now /\ n \in Nat /\ a \in Nat /\ n - a \in Nat
           /\ RunTimed(a) /\ PressesKnown' /\ Now' \notin Down' /\ ~CountDue'
           /\ Clicks' = IF n - a > WaitTime /\ n - a <= HoldTime THEN Carried(a) + 1 ELSE 0
           /\ HoldDue' <=> n - a > HoldTime
  BY <1>1, GoesUp
<1>3. ~(n - a > WaitTime) /\ ~(n - a > HoldTime)
  BY <1>1, <1>2, KeyAssumption DEF RunTimed
<1> QED BY <1>1, <1>2, <1>3 DEF Touching, Pausing, Resting, DecodesGestures

(* A click, a hold and a pause. *)
LEMMA ClickGestures ==
  ASSUME Gestures, Click(FALSE), trace' = Append(trace, FALSE)
  PROVE  PressesKnown' /\ Touching' /\ Pausing' /\ Resting' /\ DecodesGestures'
<1>1. /\ status = "touch" /\ status' = "idle_temp" /\ output' = "nothing" /\ wait_time > WaitTime
      /\ touch_time # HoldMark /\ touch_time' = touch_time + 1 /\ wait_time' = 0
  BY DEF Click
<1>2. PICK a, n :
           /\ n = Now /\ n \in Nat /\ a \in Nat /\ n - a \in Nat /\ Carried(a) \in Nat
           /\ RunTimed(a) /\ PressesKnown'
           /\ Now' = n + 1 /\ Now' \notin Down' /\ IsLast(<<a, n>>)' /\ ~CountDue'
           /\ Clicks' = IF n - a > WaitTime /\ n - a <= HoldTime THEN Carried(a) + 1 ELSE 0
           /\ HoldDue' <=> n - a > HoldTime
  BY <1>1, GoesUp
<1>3. n - a > WaitTime /\ n - a <= HoldTime /\ hold_time <= HoldTime
  BY <1>1, <1>2, KeyAssumption DEF RunTimed
<1>4. Clicks' = Carried(a) + 1 /\ ~HoldDue'
  BY <1>2, <1>3, KeyAssumption
<1>5. Clicks' > 0 /\ (Clicks' <= HoldMark => touch_time' = Clicks')
  BY <1>1, <1>2, <1>3, <1>4, KeyAssumption DEF RunTimed
<1>6. wait_time' = Now' - <<a, n>>[2] - 1 /\ wait_time' <= MultiTime
  BY <1>1, <1>2, KeyAssumption
<1>7. Pausing'
  BY <1>2, <1>5, <1>6 DEF Pausing
<1> QED BY <1>1, <1>2, <1>4, <1>7 DEF Touching, Resting, DecodesGestures

LEMMA EndHoldGestures ==
  ASSUME Gestures, EndHold(FALSE), trace' = Append(trace, FALSE)
  PROVE  PressesKnown' /\ Touching' /\ Pausing' /\ Resting' /\ DecodesGestures'
<1>1. /\ status = "touch" /\ status' = "idle" /\ wait_time > WaitTime
      /\ touch_time = HoldMark /\ output' = GetState(hold_time, touch_time)
  BY DEF EndHold
<1>2. PICK a, n :
           /\ n = Now /\ n \in Nat /\ a \in Nat /\ n - a \in Nat /\ Carried(a) \in Nat
           /\ RunTimed(a) /\ PressesKnown'
           /\ Now' = n + 1 /\ Now' \notin Down' /\ ~CountDue'
           /\ Clicks' = IF n - a > WaitTime /\ n - a <= HoldTime THEN Carried(a) + 1 ELSE 0
           /\ HoldDue' <=> n - a > HoldTime
  BY <1>1, GoesUp
<1>3. CASE n - a > HoldTime
  <2>1. output' = "hold" /\ HoldDue' /\ Clicks' = 0
    BY <1>1, <1>2, <1>3, KeyAssumption DEF RunTimed, GetState
  <2> QED BY <1>1, <1>2, <2>1 DEF Touching, Pausing, Resting, DecodesGestures
<1>4. CASE n - a <= HoldTime
  <2>1. n - a > WaitTime /\ hold_time <= HoldTime
    BY <1>1, <1>2, <1>4, KeyAssumption DEF RunTimed
  <2>2. Clicks' = Carried(a) + 1
    BY <1>2, <1>4, <2>1
  <2>3. Clicks' > HoldMark
    BY <1>1, <1>2, <2>1, <2>2, KeyAssumption DEF RunTimed
  <2>4. ~(Clicks' <= HoldMark)
    BY <1>2, <2>2, <2>3, KeyAssumption
  <2> QED BY <1>1, <1>2, <2>3, <2>4 DEF Touching, Pausing, Resting, DecodesGestures
<1> QED BY <1>2, <1>3, <1>4, KeyAssumption

LEMMA PauseGestures ==
  ASSUME Gestures, Pause(FALSE, 1), trace' = Append(trace, FALSE)
  PROVE  PressesKnown' /\ Touching' /\ Pausing' /\ Resting' /\ DecodesGestures'
<1>1. /\ status = "idle_temp" /\ PressesKnown /\ Now \notin Down
      /\ wait_time' = Later(wait_time, 1, MultiTime)
      /\ touch_time' = touch_time /\ touch_time > 0 /\ hold_time = 0
      /\ Clicks > 0 /\ (Clicks <= HoldMark => touch_time = Clicks)
  BY DEF Pause, Gestures, Pausing, ClicksCounted
<1>2. PICK l : IsLast(l) /\ wait_time = Now - l[2] - 1 /\ wait_time <= MultiTime
  BY <1>1 DEF Gestures, Pausing
<1>3. /\ PressesKnown' /\ Now \in Nat /\ Now' = Now + 1 /\ Now' \notin Down'
      /\ Clicks' = Clicks /\ LastEnd' = LastEnd /\ ~HoldDue'
      /\ \A k : IsLast(k)' <=> IsLast(k)
  BY <1>1, StillUp
<1>4. l[2] \in Nat /\ LastEnd = {l[2]} /\ IsLast(l)'
  BY <1>2, <1>3, PressIs, LastEndIs DEF IsLast
<1>5. CountDue' <=> wait_time + 1 > MultiTime
  <2>1. LastEnd' = {Now' - MultiTime - 2} <=> l[2] = Now + 1 - MultiTime - 2
    <3>1. LastEnd' = {l[2]}
      BY <1>3, <1>4, Zenon
    <3>2. Now \in Nat /\ Now' = Now + 1
      BY <1>3, Zenon
    <3>3. Now' - MultiTime - 2 = Now + 1 - MultiTime - 2
      BY <3>2, KeyAssumption
    <3>4. \A x, y : {x} = {y} <=> x = y
      OBVIOUS
    <3> QED BY <3>1, <3>3, <3>4, Zenon
  <2>2. CountDue' <=> LastEnd' = {Now' - MultiTime - 2}
    BY <1>1, <1>3 DEF CountDue
  <2>3. l[2] = Now + 1 - MultiTime - 2 <=> wait_time + 1 > MultiTime
    <3>1. Now \in Nat /\ l[2] \in Nat /\ wait_time = Now - l[2] - 1 /\ wait_time <= MultiTime
      BY <1>2, <1>3, <1>4, Zenon
    <3> QED BY <3>1, KeyAssumption
  <2> QED BY <2>1, <2>2, <2>3, Zenon
<1>6. CASE wait_time + 1 > MultiTime
  <2>1. status' = "idle" /\ output' = GetState(hold_time, touch_time)
    BY <1>2, <1>3, <1>4, <1>6, KeyAssumption DEF Pause, Later
  <2>2. output' = "times"
    BY <1>1, <2>1, KeyAssumption DEF GetState
  <2>3. ~Soon(Now + 1)'
    <3>1. PICK t : t = Now + 2
      OBVIOUS
    <3>2. ~(t - l[2] - 2 <= MultiTime)
      BY <1>2, <1>3, <1>4, <1>6, <3>1, KeyAssumption
    <3>3. Now' + 1 = t
      BY <1>3, <3>1
    <3>4. Soon(t)' => t - l[2] - 2 <= MultiTime
      BY <1>4 DEF Soon
    <3>5. Soon(Now + 1)' <=> Soon(t)'
      BY <3>3 DEF Soon
    <3> QED BY <3>2, <3>4, <3>5, Zenon
  <2> QED
    BY <1>1, <1>3, <1>5, <1>6, <2>1, <2>2, <2>3 DEF Touching, Pausing, Resting, DecodesGestures
<1>7. CASE wait_time + 1 <= MultiTime
  <2>1. status' = "idle_temp" /\ output' = "nothing" /\ wait_time' = wait_time + 1
    BY <1>1, <1>2, <1>3, <1>4, <1>7, KeyAssumption DEF Pause, Later
  <2>2. wait_time' = Now' - l[2] - 1 /\ wait_time' <= MultiTime
    BY <1>2, <1>3, <1>4, <1>7, <2>1
  <2>3. ~CountDue'
    BY <1>2, <1>3, <1>4, <1>5, <1>7, KeyAssumption
  <2> QED
    BY <1>1, <1>3, <1>4, <2>1, <2>2, <2>3 DEF Touching, Pausing, Resting, DecodesGestures
<1> QED BY <1>2, <1>3, <1>4, <1>6, <1>7, KeyAssumption

LEMMA GesturesNext == Gestures /\ [GestureNext]_<<keyVars, trace>> => Gestures'
<1> SUFFICES ASSUME Gestures, [GestureNext]_<<keyVars, trace>> PROVE Gestures'
  OBVIOUS
<1>1. CASE GestureNext
  <2>1. PICK pressed \in BOOLEAN : Touch(pressed, 1) /\ trace' = Append(trace, pressed)
    BY <1>1 DEF GestureNext, Sample
  <2>2. KeyTypeOK' /\ ClicksCounted'
    BY <2>1, TouchKeeps DEF Gestures
  <2>3. CASE pressed = TRUE
    <3>1. Begin(TRUE) \/ Press(TRUE, 1) \/ Again(TRUE)
      BY <2>1, <2>3 DEF Touch, Rest, Noise, Click, EndHold, Pause
    <3> QED
      BY <2>1, <2>2, <2>3, <3>1, BeginGestures, PressGestures, AgainGestures DEF Gestures
  <2>4. CASE pressed = FALSE
    <3>1. Rest(FALSE) \/ Noise(FALSE) \/ Click(FALSE) \/ EndHold(FALSE) \/ Pause(FALSE, 1)
      BY <2>1, <2>4 DEF Touch, Begin, Press, Again
    <3> QED
      BY <2>1, <2>2, <2>4, <3>1, RestGestures, NoiseGestures, ClickGestures, EndHoldGestures,
         PauseGestures DEF Gestures
  <2> QED BY <2>3, <2>4
<1>2. CASE UNCHANGED <<keyVars, trace>>
  <2>1. UNCHANGED <<status, wait_time, hold_time, touch_time, output, trace>>
    BY <1>2 DEF keyVars
  <2>2. /\ Presses' = Presses /\ Down' = Down /\ Now' = Now /\ LastEnd' = LastEnd
        /\ InSeries' = InSeries /\ Clicks' = Clicks /\ \A l : IsLast(l)' <=> IsLast(l)
    BY <2>1 DEF Presses, Down, Now, LastEnd, InSeries, IsSeries, SeriesFrom, Follows,
                IsClick, Duration, Clicks, IsLast
  <2>3. \A a : /\ Soon(a)' <=> Soon(a)
               /\ RunFrom(a)' <=> RunFrom(a)
    BY <2>2 DEF Soon, RunFrom
  <2>4. \A a : RunTimed(a)' <=> RunTimed(a)
    BY <2>1, <2>2, <2>3 DEF RunTimed, Carried
  <2>5. (CountDue' <=> CountDue) /\ (HoldDue' <=> HoldDue) /\ (Soon(Now + 1)' <=> Soon(Now + 1))
    BY <2>2 DEF CountDue, HoldDue, Duration, Soon
  <2>6. KeyTypeOK' /\ ClicksCounted' /\ PressesKnown'
    BY <2>1, <2>2 DEF Gestures, KeyTypeOK, ClicksCounted, PressesKnown
  <2>7. Touching' /\ Pausing' /\ Resting' /\ DecodesGestures'
    BY <2>1, <2>2, <2>3, <2>4, <2>5
       DEF Gestures, Touching, Pausing, Resting, DecodesGestures
  <2> QED BY <2>6, <2>7 DEF Gestures
<1> QED BY <1>1, <1>2

(* The button reports every click and hold once, when it is due, for any times and marks
   and however long the key is watched (comm_key.c). *)
THEOREM GesturesDecoded == GestureSpec => []DecodesGestures
<1>1. Gestures => DecodesGestures
  BY DEF Gestures
<1> QED BY <1>1, GesturesInit, GesturesNext, PTL DEF GestureSpec
================================================================================
