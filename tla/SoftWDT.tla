-------------------------------- MODULE SoftWDT --------------------------------
(***************************************************************************)
(* Is the master still there?  Every frame feeds the software watchdog     *)
(* comm_task_dwt; DetectTask counts it down and raises the alarm, CommTask *)
(* takes it back, and the LED tells the two apart by its frequency.        *)
(*                                                                         *)
(* The tasks keep the processor until they sleep, so they never interrupt  *)
(* each other; the CAN interrupt, which feeds too, falls anywhere. Check   *)
(* is cut where it shows: the read of cnt, the store of `--cnt', the store *)
(* of is_online, the callback.  The frames' commands are in MotorControl.  *)
(***************************************************************************)
EXTENDS Naturals

CONSTANTS
  Load,      \* checks a feed lasts for (50 in CommTask_Init)
  Period     \* ticks DetectTask sleeps between two checks (10)

ASSUME WDTAssumption ==
  /\ Load \in Nat \ {0}
  /\ Period \in Nat \ {0}

VARIABLES
  cnt, wdt_online,        \* comm_task_dwt.cnt, comm_task_dwt.is_online
  online_num,             \* wdt_group.online_num
  is_online,              \* comm_task.is_online
  led,                    \* frequency of the status LED: "slow" 5, "fast" 10
  showing,                \* key_set_pending: the LED is counting out the ID
  can_counter, comm_mode, \* frames counted so far; TRUE once CAN is in charge
  detect_pc, comm_pc,     \* where the two tasks stand
  reg,                    \* the cnt that Check has read
  delay,                  \* ticks until DetectTask wakes
  silent,                 \* history: checks begun since the last feed
  torn,                   \* history: that feed fell inside a check
  shown                   \* history: an ID was shown since the alarm

linkVars   == <<is_online, led, showing, shown>>
canVars    == <<can_counter, comm_mode>>
feedVars   == <<cnt, wdt_online, silent, torn>>
detectVars == <<detect_pc, reg, delay, online_num>>
vars == <<cnt, wdt_online, online_num, is_online, led, showing, can_counter,
          comm_mode, detect_pc, comm_pc, reg, delay, silent, torn, shown>>

Init ==
  /\ cnt = Load /\ wdt_online = TRUE /\ online_num = 0
  /\ is_online = TRUE /\ led = "slow" /\ showing = FALSE
  /\ can_counter = 0 /\ comm_mode = FALSE
  /\ detect_pc = "ready" /\ comm_pc = "ready"
  /\ reg = 0 /\ delay = 0
  /\ silent = 0 /\ torn = FALSE /\ shown = FALSE

--------------------------------------------------------------------------------
(* DetectTask. *)

DetectMayRun == comm_pc \in {"sleep", "ready"}
CommMayRun   == detect_pc \in {"sleep", "ready"}

(* IsOffline undoes a feed between its read of cnt and its last store. *)
Checking == detect_pc \in {"store", "offline"}

(* Feed *)
Feed ==
  /\ cnt' = Load
  /\ wdt_online' = TRUE
  /\ silent' = 0
  /\ torn' = Checking

CapSilent(n) == IF n > Load THEN n ELSE n + 1

(* Slip: the counter is decremented without a look at it. *)
SlipNoTest ==
  /\ detect_pc = "ready" /\ DetectMayRun
  /\ reg' = cnt
  /\ detect_pc' = "store"
  /\ silent' = CapSilent(silent)
  /\ UNCHANGED <<cnt, wdt_online, torn, online_num, delay, linkVars, canVars, comm_pc>>

(* Slip: the alarm is raised one check early. *)
SlipOneEarly ==
  /\ detect_pc = "ready" /\ DetectMayRun
  /\ reg' = cnt
  /\ detect_pc' = IF cnt <= 1 THEN "offline" ELSE "store"
  /\ silent' = CapSilent(silent)
  /\ UNCHANGED <<cnt, wdt_online, torn, online_num, delay, linkVars, canVars, comm_pc>>

(* Check calls IsOffline, which reads cnt. *)
ReadCnt ==
  /\ detect_pc = "ready" /\ DetectMayRun
  /\ reg' = cnt
  /\ detect_pc' = IF cnt = 0 THEN "offline" ELSE "store"
  /\ silent' = CapSilent(silent)
  /\ UNCHANGED <<cnt, wdt_online, torn, online_num, delay, linkVars, canVars, comm_pc>>

(* The end of Check: online_num, then vTaskDelay. *)
EndCheck(online) ==
  /\ online_num' = online
  /\ detect_pc' = "sleep" /\ delay' = Period
  /\ reg' = 0
  /\ UNCHANGED <<canVars, comm_pc, silent, torn>>

(* Slip: a store of the register where a decrement is meant. *)
SlipNoCount ==
  /\ detect_pc = "store"
  /\ cnt' = reg
  /\ UNCHANGED <<wdt_online, linkVars>>
  /\ EndCheck(1)

(* Not zero: --cnt. *)
CountDown ==
  /\ detect_pc = "store"
  /\ cnt' = reg - 1
  /\ UNCHANGED <<wdt_online, linkVars>>
  /\ EndCheck(1)

(* Zero: the watchdog is offline, *)
MarkOffline ==
  /\ detect_pc = "offline" /\ detect_pc' = "callback"
  /\ wdt_online' = FALSE
  /\ UNCHANGED <<cnt, silent, torn, reg, delay, online_num, linkVars, canVars, comm_pc>>

(* Slip: the LED is left to whoever raised the alarm before. *)
SlipNoBlink ==
  /\ detect_pc = "callback"
  /\ is_online' = FALSE
  /\ shown' = (shown /\ ~is_online)
  /\ UNCHANGED <<cnt, wdt_online, led, showing>>
  /\ EndCheck(0)

(* and CommTaskWDT_Callback tells CommTask and the LED, once. *)
CommTaskWDT_Callback ==
  /\ detect_pc = "callback"
  /\ led' = IF is_online THEN "fast" ELSE led
  /\ is_online' = FALSE
  /\ shown' = (shown /\ ~is_online)
  /\ UNCHANGED <<cnt, wdt_online, showing>>
  /\ EndCheck(0)

DetectTask == ReadCnt \/ CountDown \/ MarkOffline \/ CommTaskWDT_Callback

--------------------------------------------------------------------------------
(* The CAN interrupt: only from the fourth frame on does one feed. *)
CAN_Decode ==
  /\ can_counter' = IF can_counter < 3 THEN can_counter + 1 ELSE can_counter
  /\ comm_mode' = (comm_mode \/ can_counter = 3)
  /\ IF comm_mode' THEN Feed ELSE UNCHANGED feedVars
  /\ UNCHANGED <<linkVars, detectVars, comm_pc>>

--------------------------------------------------------------------------------
(* CommTask. *)

Turn(from, to) ==
  /\ CommMayRun
  /\ comm_pc = from /\ comm_pc' = to
  /\ UNCHANGED <<canVars, detectVars>>

(* A UART frame that decodes feeds, whichever slave it is for. *)
Uart_SetValue ==
  /\ Turn("ready", "key")
  /\ Feed \/ UNCHANGED feedVars
  /\ UNCHANGED linkVars

(* CommTask_KEY: nothing, a click has the ID shown, or the show is over. *)
KEY ==
  /\ Turn("key", "tail")
  /\ \/ UNCHANGED linkVars
     \/ showing' = TRUE /\ UNCHANGED <<is_online, led, shown>>
     \/ /\ showing /\ showing' = FALSE
        /\ led' = "slow" /\ shown' = TRUE
        /\ UNCHANGED is_online
  /\ UNCHANGED feedVars

(* Slip: the LED goes on blinking the alarm. *)
SlipKeepBlinking ==
  /\ Turn("tail", "sleep")
  /\ is_online' = (is_online \/ wdt_online)
  /\ shown' = (shown /\ ~is_online')
  /\ UNCHANGED <<led, showing, feedVars>>

(* Slip: the alarm is taken back without asking the watchdog. *)
SlipRestoreUnasked ==
  /\ Turn("tail", "sleep")
  /\ is_online' = TRUE
  /\ led' = IF is_online THEN led ELSE "slow"
  /\ shown' = (shown /\ is_online)
  /\ UNCHANGED <<showing, feedVars>>

(* The link is back: is_online and the LED are restored; vTaskDelay. *)
Restore ==
  /\ Turn("tail", "sleep")
  /\ LET back == ~is_online /\ wdt_online
     IN  /\ is_online' = (is_online \/ back)
         /\ led' = IF back THEN "slow" ELSE led
         /\ shown' = (shown /\ ~back)
  /\ UNCHANGED <<showing, feedVars>>

(* A setting is saved, by key or by UART, and the MCU reset. *)
Reset ==
  /\ comm_pc = "key"
  /\ cnt' = Load /\ wdt_online' = TRUE /\ online_num' = 0
  /\ is_online' = TRUE /\ led' = "slow" /\ showing' = FALSE
  /\ can_counter' = 0 /\ comm_mode' = FALSE
  /\ detect_pc' = "ready" /\ comm_pc' = "ready"
  /\ reg' = 0 /\ delay' = 0
  /\ silent' = 0 /\ torn' = FALSE /\ shown' = FALSE

CommTask == Uart_SetValue \/ KEY \/ Restore

(* The tick, when both tasks sleep: their work fits into one. *)
Tick ==
  /\ comm_pc = "sleep" /\ detect_pc = "sleep"
  /\ comm_pc' = "ready"
  /\ delay' = delay - 1
  /\ detect_pc' = IF delay' = 0 THEN "ready" ELSE "sleep"
  /\ UNCHANGED <<feedVars, linkVars, canVars, reg, online_num>>

Next == DetectTask \/ CAN_Decode \/ CommTask \/ Reset \/ Tick

(* Ticks and tasks go on; nothing obliges a frame, a click or a setting. *)
Spec ==
  /\ Init /\ [][Next]_vars
  /\ WF_vars(DetectTask) /\ WF_vars(CommTask) /\ WF_vars(Tick)

--------------------------------------------------------------------------------
(* Properties. *)

(* The variables keep their ranges: in particular the unsigned cnt is never
   decremented at zero, although a feed may come between its test and its store,
   and the processor is never in two tasks at once.                              *)
TypeOK ==
  /\ cnt \in 0 .. Load /\ wdt_online \in BOOLEAN /\ online_num \in 0 .. 1
  /\ is_online \in BOOLEAN /\ led \in {"slow", "fast"} /\ showing \in BOOLEAN
  /\ can_counter \in 0 .. 3 /\ comm_mode \in BOOLEAN
  /\ detect_pc \in {"sleep", "ready", "store", "offline", "callback"}
  /\ comm_pc \in {"sleep", "ready", "key", "tail"}
  /\ DetectMayRun \/ CommMayRun
  /\ reg \in 0 .. Load /\ delay \in 0 .. Period
  /\ silent \in 0 .. Load + 1 /\ torn \in BOOLEAN /\ shown \in BOOLEAN

(* The watchdog calls a master offline that was silent for more than Load checks,
   or one whose last frame came in the middle of a check, and no other.           *)
NoFalseAlarm == ~wdt_online => silent > Load \/ torn

(* A master silent for more than Load checks is called offline, although a frame in
   the middle of a check may leave any count behind.                               *)
AlarmInTime == silent > Load /\ CommMayRun => ~wdt_online

(* What CommTask believes and what the LED shows never outlive the watchdog's
   verdict: online is believed of no master the watchdog has given up, but inside
   the callback; a fast LED means offline; and offline means a fast LED, unless an
   ID has been shown since the alarm.                                             *)
LinkAgrees ==
  /\ is_online /\ detect_pc # "callback" => wdt_online
  /\ led = "fast" => ~is_online
  /\ ~is_online /\ ~shown => led = "fast"

(* A master that falls silent is noticed for good, whatever its last frame hit. *)
SilenceIsNoticed == <>[](silent > 0) => <>[](~is_online)

(* A master that keeps talking is noticed for good, unless its frames keep falling
   into the checks: no false alarm sticks.                                         *)
TalkIsNoticed == <>[](silent <= Load /\ ~torn) => <>[](is_online /\ led = "slow")
================================================================================
