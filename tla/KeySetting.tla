------------------------------- MODULE KeySetting -------------------------------
(***************************************************************************)
(* Setting the IDs with one button and one LED: KeyManager turns gestures  *)
(* into modes and numbers, CommTask_KEY keeps the number until it has been *)
(* left alone for ConfirmTime, CommTask_LED blinks it meanwhile, and then  *)
(* it is saved and the module restarts.                                    *)
(*                                                                         *)
(* One action is one turn of CommTask.  Deadlines are kept as the time     *)
(* that is left; those of a setting no longer pending stand still, because *)
(* nothing reads them.  That the record survives is ParamStore's subject.  *)
(***************************************************************************)
EXTENDS CommKey

CONSTANTS
  MaxTimes,       \* numbers are below it (20)
  ConfirmTime,    \* KEY_SET_CONFIRM_TIME (5 s)
  OnTime, OffTime, PauseTime,   \* KEY_SET_LED_*_TIME (0.15, 0.15 and 1 s)
  DefaultSlave, DefaultMaster,  \* MOTOR_MODULE_DEFAULT_ID and ..._MASTER_ID
  SlaveIds, MasterIds,          \* IDs a record may come with
  MaxDelta        \* the longest time between two turns

ASSUME SettingAssumption ==
  /\ MaxTimes \in Nat /\ MaxTimes > 1 /\ MaxTimes <= HoldMark
  /\ ConfirmTime \in Nat \ {0}
  /\ OnTime \in Nat \ {0} /\ OffTime \in Nat \ {0} /\ PauseTime \in Nat \ {0}
  /\ DefaultSlave \in Nat /\ DefaultMaster \in Nat
  /\ SlaveIds \subseteq Nat /\ MasterIds \subseteq Nat
  /\ MaxDelta \in Nat \ {0} /\ Deltas \subseteq 1 .. MaxDelta

VARIABLES
  km_status,                      \* key_manager.status: "idle", "slave", "master"
  key_set_pending, key_set_status, key_set_touch_time,
  key_set_timer,                  \* time left to the confirmation
  key_led_on, key_led_blink_count,
  key_led_next_time,              \* time left to the next change of the LED
  lit,                            \* the LED itself
  slave_id, master_id,            \* stroage.storge
  saving,                         \* CommTask_KeySetSave is writing
  age,                            \* history: time since a number was taken
  pulses,                         \* history: times the LED went out in a series
  told                            \* history: a series gave the number in full

ledVars  == <<key_led_on, key_led_blink_count, key_led_next_time, lit, pulses, told>>
setVars  == <<key_set_pending, key_set_status, key_set_touch_time, key_set_timer, age>>
idVars   == <<slave_id, master_id, saving>>
vars     == <<keyVars, km_status, setVars, ledVars, idVars>>

Modes == {"idle", "slave", "master"}

Booted ==
  /\ km_status = "idle"
  /\ key_set_pending = FALSE /\ key_set_status = "idle"
  /\ key_set_touch_time = 0 /\ key_set_timer = 0
  /\ key_led_on = FALSE /\ key_led_blink_count = 0 /\ key_led_next_time = 0
  /\ lit = FALSE /\ saving = FALSE
  /\ age = 0 /\ pulses = 0 /\ told = FALSE

Init ==
  /\ KeyInit /\ Booted
  /\ slave_id \in SlaveIds /\ master_id \in MasterIds

--------------------------------------------------------------------------------
(* KeyManager: Scan and GetResult, on the gesture of this turn. *)

Hold   == output' = "hold"
Number == output' = "times"

(* Slip: any number is an answer, in every mode. *)
SlipAnyNumber == Number

Answer ==
  /\ Number
  /\ IF km_status = "idle" THEN touch_time' = 1 ELSE touch_time' < MaxTimes

Scan ==
  km_status' = IF km_status # "idle"
               THEN IF Hold THEN "idle" ELSE km_status
               ELSE IF Hold THEN "slave"
                    ELSE IF Number /\ touch_time' = 3 THEN "master" ELSE "idle"

--------------------------------------------------------------------------------
(* The LED while a setting is pending. *)

KeySetLedStart ==
  /\ key_led_on' = TRUE /\ key_led_blink_count' = 0 /\ key_led_next_time' = OnTime
  /\ lit' = TRUE
  /\ pulses' = 0 /\ told' = FALSE

LedWaits(dt) ==
  /\ key_led_next_time > dt
  /\ key_led_next_time' = key_led_next_time - dt
  /\ UNCHANGED <<key_led_on, key_led_blink_count, lit, pulses, told>>

LedOff(dt) ==
  /\ key_led_next_time <= dt /\ key_led_on
  /\ key_led_on' = FALSE /\ key_led_next_time' = OffTime
  /\ key_led_blink_count' = key_led_blink_count + 1
  /\ lit' = FALSE
  /\ pulses' = IF lit THEN pulses + 1 ELSE pulses
  /\ UNCHANGED told

(* Slip: one blink too many. *)
SlipOneBlinkMore == key_led_blink_count > key_set_touch_time

SeriesDone == key_led_blink_count >= key_set_touch_time

LedPause(dt) ==
  /\ key_led_next_time <= dt /\ ~key_led_on /\ SeriesDone
  /\ key_led_blink_count' = 0 /\ key_led_next_time' = PauseTime
  /\ told' = (told \/ pulses = key_set_touch_time)
  /\ pulses' = 0
  /\ UNCHANGED <<key_led_on, lit>>

LedOn(dt) ==
  /\ key_led_next_time <= dt /\ ~key_led_on /\ ~SeriesDone
  /\ key_led_on' = TRUE /\ key_led_next_time' = OnTime
  /\ lit' = TRUE
  /\ UNCHANGED <<key_led_blink_count, pulses, told>>

KeySetLedShow(dt) == LedWaits(dt) \/ LedOff(dt) \/ LedPause(dt) \/ LedOn(dt)

(* Otherwise the status LED blinks, but only outside the modes. *)
StatusLed ==
  /\ IF km_status' = "idle" THEN lit' \in BOOLEAN ELSE UNCHANGED lit
  /\ UNCHANGED <<key_led_on, key_led_blink_count, key_led_next_time, pulses, told>>

--------------------------------------------------------------------------------
(* CommTask_KEY and then CommTask_LED; LedStart leaves the LED nothing to do. *)

(* Slip: a correction does not put the confirmation off. *)
SlipTimerRuns(mode, number) ==
  /\ key_set_pending' = TRUE
  /\ key_set_status' = mode /\ key_set_touch_time' = number
  /\ key_set_timer' = IF key_set_pending /\ key_set_timer > 1
                      THEN key_set_timer - 1 ELSE ConfirmTime
  /\ age' = 0
  /\ KeySetLedStart

Pend(mode, number) ==
  /\ key_set_pending' = TRUE
  /\ key_set_status' = mode /\ key_set_touch_time' = number
  /\ key_set_timer' = ConfirmTime
  /\ age' = 0
  /\ KeySetLedStart

(* The number of blinks that show the slave ID; 1 stands for 0 and for more
   than can be shown, too.                                                 *)
ShownId ==
  LET offset == IF slave_id > DefaultSlave THEN slave_id - DefaultSlave ELSE 0
  IN  IF offset = 0 \/ offset >= MaxTimes THEN 1 ELSE offset

KeyShowID ==
  /\ Answer /\ km_status = "idle"
  /\ Pend("idle", ShownId)
  /\ UNCHANGED idVars

KeyNumber ==
  /\ Answer /\ km_status # "idle"
  /\ Pend(km_status, touch_time')
  /\ UNCHANGED idVars

(* No answer in this turn, and the setting has been pending for long enough. *)
Due(dt) == ~Answer /\ key_set_pending /\ key_set_timer <= dt

(* Slip: a display that is over is shown again. *)
SlipShowStays(dt) ==
  /\ Due(dt) /\ key_set_status = "idle"
  /\ key_set_timer' = 0 /\ age' = 0
  /\ StatusLed
  /\ UNCHANGED <<key_set_pending, key_set_status, key_set_touch_time, idVars>>

EndShow(dt) ==
  /\ Due(dt) /\ key_set_status = "idle"
  /\ key_set_pending' = FALSE
  /\ key_set_timer' = 0 /\ age' = 0
  /\ StatusLed
  /\ UNCHANGED <<key_set_status, key_set_touch_time, idVars>>

(* Slip: the number goes to the ID whose mode is on now. *)
SlipCurrentMode(dt) ==
  /\ Due(dt) /\ key_set_status # "idle"
  /\ slave_id' = IF km_status = "slave"
                 THEN DefaultSlave + key_set_touch_time ELSE slave_id
  /\ master_id' = IF km_status # "slave"
                  THEN DefaultMaster + key_set_touch_time ELSE master_id
  /\ saving' = TRUE
  /\ key_set_timer' = 0 /\ age' = age + dt
  /\ UNCHANGED <<key_set_pending, key_set_status, key_set_touch_time, ledVars>>

(* Write is retried until it succeeds: the task stays here. *)
KeySetSave(dt) ==
  /\ Due(dt) /\ key_set_status # "idle"
  /\ slave_id' = IF key_set_status = "slave"
                 THEN DefaultSlave + key_set_touch_time ELSE slave_id
  /\ master_id' = IF key_set_status = "master"
                  THEN DefaultMaster + key_set_touch_time ELSE master_id
  /\ saving' = TRUE
  /\ key_set_timer' = 0 /\ age' = age + dt
  /\ UNCHANGED <<key_set_pending, key_set_status, key_set_touch_time, ledVars>>

Pending(dt) ==
  /\ ~Answer /\ key_set_pending /\ key_set_timer > dt
  /\ key_set_timer' = key_set_timer - dt
  /\ age' = age + dt
  /\ KeySetLedShow(dt)
  /\ UNCHANGED <<key_set_pending, key_set_status, key_set_touch_time, idVars>>

NothingPending ==
  /\ ~Answer /\ ~key_set_pending
  /\ StatusLed
  /\ UNCHANGED <<setVars, idVars>>

Turn(pressed, dt) ==
  /\ ~saving
  /\ Touch(pressed, dt)
  /\ Scan
  /\ \/ KeyShowID \/ KeyNumber
     \/ EndShow(dt) \/ KeySetSave(dt)
     \/ Pending(dt) \/ NothingPending

CommTask == \E pressed \in BOOLEAN, dt \in Deltas : Turn(pressed, dt)

--------------------------------------------------------------------------------
(* NVIC_SystemReset: everything but the record is lost. *)
Reset ==
  /\ status' = "idle" /\ wait_time' = 0 /\ hold_time' = 0 /\ touch_time' = 0
  /\ output' = "nothing"
  /\ km_status' = "idle"
  /\ key_set_pending' = FALSE /\ key_set_status' = "idle"
  /\ key_set_touch_time' = 0 /\ key_set_timer' = 0
  /\ key_led_on' = FALSE /\ key_led_blink_count' = 0 /\ key_led_next_time' = 0
  /\ lit' = FALSE /\ saving' = FALSE
  /\ age' = 0 /\ pulses' = 0 /\ told' = FALSE

(* The Write of CommTask_KeySetSave succeeds at last. *)
Saved == saving /\ Reset /\ UNCHANGED <<slave_id, master_id>>

(* A record sent by UART is saved in the same way, in the turn it arrives. *)
HostSave == ~saving /\ Reset /\ slave_id' \in SlaveIds /\ master_id' \in MasterIds

Next == CommTask \/ Saved \/ HostSave

(* CommTask takes its turns, and the EEPROM answers in the end. *)
Spec == Init /\ [][Next]_vars /\ WF_vars(CommTask) /\ WF_vars(Saved)

--------------------------------------------------------------------------------
(* Each variable keeps its range. *)
TypeOK ==
  /\ KeyTypeOK
  /\ km_status \in Modes /\ key_set_status \in Modes
  /\ key_set_pending \in BOOLEAN /\ key_led_on \in BOOLEAN
  /\ lit \in BOOLEAN /\ saving \in BOOLEAN /\ told \in BOOLEAN
  /\ key_set_touch_time \in 0 .. MaxTimes - 1
  /\ key_set_timer \in 0 .. ConfirmTime
  /\ key_led_blink_count \in 0 .. MaxTimes - 1
  /\ key_led_next_time \in Nat
  /\ slave_id \in Nat /\ master_id \in Nat
  /\ age \in Nat /\ pulses \in 0 .. MaxTimes - 1

(* Time, at most, from KeySetLedStart to the end of a series of n. *)
SeriesTime(n) == n * (OnTime + OffTime + 2 * (MaxDelta - 1))

(* The LED never blinks more often than the number that is pending, and no
   number is saved before it has been blinked in full, unless ConfirmTime is
   too short for it (as it is for 17, 18 and 19).                          *)
NumberIsTold ==
  /\ key_set_pending => pulses <= key_set_touch_time
  /\ saving /\ SeriesTime(key_set_touch_time) < ConfirmTime => told

(* A number is saved when, and only when, no other was taken for ConfirmTime,
   in the first turn after that.                                            *)
ConfirmedInTime ==
  /\ saving => age >= ConfirmTime /\ age < ConfirmTime + MaxDelta
  /\ key_set_pending /\ ~saving => age < ConfirmTime

(* An ID changes only to the number last entered in its mode; see KeyIntent. *)
Intent == INSTANCE KeyIntent WITH
  mode   <- IF saving THEN "idle" ELSE km_status,
  choice <- IF key_set_pending /\ ~saving /\ key_set_status # "idle"
            THEN <<key_set_status, key_set_touch_time>> ELSE <<"idle", 0>>,
  slave  <- slave_id,
  master <- master_id

HonoursIntent == Intent!Spec

(* Once the key is left alone, the LED goes back to showing the link and every
   setting is over: saved, or shown.                                       *)
SettingEnds == <>[](status = "idle") => <>[](~key_set_pending)
================================================================================
