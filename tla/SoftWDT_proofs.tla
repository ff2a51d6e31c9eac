----------------------------- MODULE SoftWDT_proofs ----------------------------
(***************************************************************************)
(* The safety properties of SoftWDT for every Load and Period: how cnt and *)
(* the number of silent checks bound each other through a check that a     *)
(* feed may interrupt.                                                     *)
(***************************************************************************)
EXTENDS SoftWDT, TLAPS

(* However a feed is torn, no count outlives the silence it stands for. *)
CountAtMost ==
  IF detect_pc = "store"
  THEN reg \in 1 .. Load /\ silent + reg <= Load + 1
  ELSE \/ silent <= Load /\ cnt + silent <= Load
       \/ silent = Load + 1 /\ cnt = 0

(* A feed that was not torn lasts for its Load checks. *)
CountAtLeast ==
  ~torn =>
    /\ detect_pc = "store" => silent + reg >= Load + 1
    /\ detect_pc = "offline" => silent > Load
    /\ detect_pc \notin {"store", "offline"} => cnt + silent >= Load

(* Too long a silence is only overlooked while a check is about to say so. *)
SilenceKnown == silent > Load /\ detect_pc # "offline" => ~wdt_online

(* DetectTask sleeps for a number of ticks. *)
Asleep == detect_pc = "sleep" => delay >= 1

IInv ==
  /\ TypeOK /\ CountAtMost /\ CountAtLeast /\ SilenceKnown /\ Asleep
  /\ NoFalseAlarm /\ LinkAgrees

--------------------------------------------------------------------------------

LEMMA InitIInv == Init => IInv
<1> SUFFICES ASSUME Init PROVE IInv
  OBVIOUS
<1> USE WDTAssumption DEF Init
<1>1. cnt \in 0 .. Load /\ reg \in 0 .. Load /\ delay \in 0 .. Period /\ silent \in 0 .. Load + 1
  OBVIOUS
<1>2. TypeOK
  <2>1. /\ wdt_online \in BOOLEAN /\ is_online \in BOOLEAN /\ showing \in BOOLEAN
        /\ comm_mode \in BOOLEAN /\ torn \in BOOLEAN /\ shown \in BOOLEAN
        /\ led \in {"slow", "fast"}
    OBVIOUS
  <2>2. online_num \in 0 .. 1 /\ can_counter \in 0 .. 3
    OBVIOUS
  <2> QED BY <1>1, <2>1, <2>2 DEF TypeOK, DetectMayRun, CommMayRun
<1>3. CountAtMost /\ CountAtLeast /\ SilenceKnown /\ Asleep
  BY DEF CountAtMost, CountAtLeast, SilenceKnown, Asleep
<1>4. NoFalseAlarm /\ LinkAgrees
  BY DEF NoFalseAlarm, LinkAgrees
<1> QED BY <1>2, <1>3, <1>4 DEF IInv

(* DetectTask, a step at a time. *)

LEMMA ReadCntIInv == IInv /\ ReadCnt => IInv'
<1> SUFFICES ASSUME IInv, ReadCnt PROVE IInv'
  OBVIOUS
<1> USE WDTAssumption DEF ReadCnt, linkVars, canVars, IInv, TypeOK
<1>0. silent \in 0 .. Load + 1 /\ silent' = IF silent > Load THEN silent ELSE silent + 1
  BY DEF CapSilent
<1>1. TypeOK'
  BY <1>0 DEF DetectMayRun, CommMayRun
<1>2. CountAtMost'
  BY <1>0 DEF CountAtMost
<1>3. CountAtLeast'
  BY <1>0 DEF CountAtLeast
<1>4. SilenceKnown' /\ NoFalseAlarm'
  BY <1>0 DEF SilenceKnown, NoFalseAlarm, CountAtMost
<1>5. Asleep' /\ LinkAgrees'
  BY DEF Asleep, LinkAgrees
<1> QED BY <1>1, <1>2, <1>3, <1>4, <1>5

LEMMA CountDownIInv == IInv /\ CountDown => IInv'
<1> SUFFICES ASSUME IInv, CountDown PROVE IInv'
  OBVIOUS
<1> USE WDTAssumption DEF CountDown, EndCheck, linkVars, canVars, IInv, TypeOK
<1>1. reg \in 1 .. Load /\ cnt' = reg - 1 /\ cnt' \in 0 .. Load
  BY DEF CountAtMost
<1>2. TypeOK'
  BY <1>1 DEF DetectMayRun, CommMayRun
<1>3. CountAtMost' /\ CountAtLeast'
  BY <1>1 DEF CountAtMost, CountAtLeast
<1>4. SilenceKnown' /\ NoFalseAlarm' /\ Asleep' /\ LinkAgrees'
  BY DEF SilenceKnown, NoFalseAlarm, Asleep, LinkAgrees
<1> QED BY <1>2, <1>3, <1>4

LEMMA MarkOfflineIInv == IInv /\ MarkOffline => IInv'
<1> SUFFICES ASSUME IInv, MarkOffline PROVE IInv'
  OBVIOUS
<1> USE WDTAssumption DEF MarkOffline, linkVars, canVars, IInv, TypeOK
<1>1. TypeOK'
  BY DEF DetectMayRun, CommMayRun
<1>2. CountAtMost' /\ CountAtLeast'
  BY DEF CountAtMost, CountAtLeast
<1>3. SilenceKnown' /\ NoFalseAlarm' /\ Asleep' /\ LinkAgrees'
  BY DEF SilenceKnown, NoFalseAlarm, CountAtLeast, Asleep, LinkAgrees
<1> QED BY <1>1, <1>2, <1>3

LEMMA CallbackIInv == IInv /\ CommTaskWDT_Callback => IInv'
<1> SUFFICES ASSUME IInv, CommTaskWDT_Callback PROVE IInv'
  OBVIOUS
<1> USE DEF CommTaskWDT_Callback, EndCheck, canVars, IInv
<1>1. reg' \in 0 .. Load /\ delay' \in 0 .. Period /\ online_num' \in 0 .. 1
  BY WDTAssumption
<1>2. shown' \in BOOLEAN /\ led' \in {"slow", "fast"}
  BY DEF TypeOK
<1>3. TypeOK'
  BY <1>1, <1>2 DEF TypeOK, DetectMayRun, CommMayRun
<1>4. CountAtMost' /\ CountAtLeast'
  BY DEF CountAtMost, CountAtLeast
<1>5. SilenceKnown' /\ NoFalseAlarm' /\ Asleep'
  BY WDTAssumption DEF SilenceKnown, NoFalseAlarm, Asleep
<1>6. LinkAgrees'
  BY DEF LinkAgrees, TypeOK
<1> QED BY <1>3, <1>4, <1>5, <1>6

(* A feed, wherever it falls. *)
LEMMA FeedKeeps ==
  ASSUME IInv, Feed, UNCHANGED <<linkVars, detectVars>>
  PROVE  /\ cnt' \in 0 .. Load /\ wdt_online' \in BOOLEAN
         /\ silent' \in 0 .. Load + 1 /\ torn' \in BOOLEAN
         /\ CountAtMost' /\ CountAtLeast' /\ SilenceKnown' /\ Asleep'
         /\ NoFalseAlarm' /\ LinkAgrees'
<1> USE WDTAssumption DEF Feed, linkVars, detectVars, IInv, TypeOK
<1>1. /\ cnt' \in 0 .. Load /\ wdt_online' \in BOOLEAN
      /\ silent' \in 0 .. Load + 1 /\ torn' \in BOOLEAN
  BY DEF Checking
<1>2. CountAtMost'
  BY DEF CountAtMost
<1>3. CountAtLeast'
  <2>1. ~torn' => detect_pc' \notin {"store", "offline"}
    BY DEF Checking
  <2>2. cnt' + silent' >= Load
    OBVIOUS
  <2> QED BY <2>1, <2>2 DEF CountAtLeast
<1>4. SilenceKnown' /\ Asleep' /\ NoFalseAlarm' /\ LinkAgrees'
  BY DEF SilenceKnown, Asleep, NoFalseAlarm, LinkAgrees
<1> QED BY <1>1, <1>2, <1>3, <1>4

LEMMA CANIInv == IInv /\ CAN_Decode => IInv'
<1> SUFFICES ASSUME IInv, CAN_Decode PROVE IInv'
  OBVIOUS
<1>1. can_counter' \in 0 .. 3 /\ comm_mode' \in BOOLEAN
  BY DEF IInv, TypeOK, CAN_Decode
<1>2. CASE Feed
  <2>1. UNCHANGED <<linkVars, detectVars>>
    BY DEF CAN_Decode
  <2>2. TypeOK'
    BY <1>1, <1>2, <2>1, FeedKeeps
       DEF IInv, TypeOK, CAN_Decode, linkVars, detectVars, DetectMayRun, CommMayRun
  <2> QED BY <1>2, <2>1, <2>2, FeedKeeps DEF IInv
<1>3. CASE UNCHANGED feedVars
  BY <1>1, <1>3 DEF CAN_Decode, feedVars, linkVars, detectVars, IInv, TypeOK, CountAtMost,
     CountAtLeast, SilenceKnown, Asleep, NoFalseAlarm, LinkAgrees, DetectMayRun, CommMayRun
<1> QED BY <1>2, <1>3 DEF CAN_Decode

(* CommTask. *)

LEMMA UartIInv == IInv /\ Uart_SetValue => IInv'
<1> SUFFICES ASSUME IInv, Uart_SetValue PROVE IInv'
  OBVIOUS
<1> USE DEF Uart_SetValue, Turn
<1>1. CASE Feed
  <2>1. TypeOK'
    BY <1>1, FeedKeeps DEF IInv, TypeOK, canVars, linkVars, detectVars, DetectMayRun, CommMayRun
  <2> QED BY <1>1, <2>1, FeedKeeps DEF IInv
<1>2. CASE UNCHANGED feedVars
  BY <1>2 DEF feedVars, canVars, linkVars, detectVars, IInv, TypeOK, CountAtMost,
     CountAtLeast, SilenceKnown, Asleep, NoFalseAlarm, LinkAgrees, DetectMayRun, CommMayRun
<1> QED BY <1>1, <1>2

(* The steps of CommTask that leave the watchdog alone. *)
LEMMA WatchdogAlone ==
  ASSUME IInv, UNCHANGED feedVars, UNCHANGED detectVars
  PROVE  CountAtMost' /\ CountAtLeast' /\ SilenceKnown' /\ Asleep' /\ NoFalseAlarm'
BY DEF feedVars, detectVars, IInv, CountAtMost, CountAtLeast, SilenceKnown, Asleep, NoFalseAlarm

LEMMA KEYIInv == IInv /\ KEY => IInv'
<1> SUFFICES ASSUME IInv, KEY PROVE IInv'
  OBVIOUS
<1> USE DEF KEY, Turn, linkVars, IInv
<1>1. is_online' \in BOOLEAN /\ led' \in {"slow", "fast"} /\ showing' \in BOOLEAN /\ shown' \in BOOLEAN
  BY DEF TypeOK
<1>2. TypeOK'
  BY <1>1 DEF TypeOK, feedVars, canVars, detectVars, DetectMayRun, CommMayRun
<1>3. LinkAgrees'
  BY DEF LinkAgrees, feedVars, detectVars
<1> QED BY <1>2, <1>3, WatchdogAlone

LEMMA RestoreIInv == IInv /\ Restore => IInv'
<1> SUFFICES ASSUME IInv, Restore PROVE IInv'
  OBVIOUS
<1>1. TypeOK' /\ LinkAgrees'
  BY DEF Restore, Turn, feedVars, canVars, detectVars, IInv, TypeOK, LinkAgrees,
     DetectMayRun, CommMayRun
<1> QED BY <1>1, WatchdogAlone DEF Restore, Turn, IInv

LEMMA TickIInv == IInv /\ Tick => IInv'
<1> SUFFICES ASSUME IInv, Tick PROVE IInv'
  OBVIOUS
<1> USE DEF Tick, feedVars, linkVars, canVars, IInv, TypeOK
<1>1. delay' \in 0 .. Period /\ Asleep'
  BY WDTAssumption DEF Asleep
<1>2. TypeOK'
  BY <1>1 DEF DetectMayRun, CommMayRun
<1>3. CountAtMost' /\ CountAtLeast' /\ SilenceKnown' /\ NoFalseAlarm' /\ LinkAgrees'
  BY DEF CountAtMost, CountAtLeast, SilenceKnown, NoFalseAlarm, LinkAgrees
<1> QED BY <1>1, <1>2, <1>3

LEMMA ResetIInv == Reset => IInv'
<1> SUFFICES ASSUME Reset PROVE IInv'
  OBVIOUS
<1> USE WDTAssumption DEF Reset
<1>1. cnt' \in 0 .. Load /\ reg' \in 0 .. Load /\ delay' \in 0 .. Period /\ silent' \in 0 .. Load + 1
  OBVIOUS
<1>2. TypeOK'
  <2>1. /\ wdt_online' \in BOOLEAN /\ is_online' \in BOOLEAN /\ showing' \in BOOLEAN
        /\ comm_mode' \in BOOLEAN /\ torn' \in BOOLEAN /\ shown' \in BOOLEAN
        /\ led' \in {"slow", "fast"}
    OBVIOUS
  <2>2. online_num' \in 0 .. 1 /\ can_counter' \in 0 .. 3
    OBVIOUS
  <2> QED BY <1>1, <2>1, <2>2 DEF TypeOK, DetectMayRun, CommMayRun
<1>3. CountAtMost' /\ CountAtLeast' /\ SilenceKnown' /\ Asleep'
  BY DEF CountAtMost, CountAtLeast, SilenceKnown, Asleep
<1>4. NoFalseAlarm' /\ LinkAgrees'
  BY DEF NoFalseAlarm, LinkAgrees
<1> QED BY <1>2, <1>3, <1>4 DEF IInv

LEMMA StutterIInv == IInv /\ UNCHANGED vars => IInv'
BY DEF vars, IInv, TypeOK, CountAtMost, CountAtLeast, SilenceKnown, Asleep, NoFalseAlarm,
   LinkAgrees, DetectMayRun, CommMayRun

LEMMA NextIInv == IInv /\ [Next]_vars => IInv'
<1> SUFFICES ASSUME IInv, [Next]_vars PROVE IInv'
  OBVIOUS
<1>1. CASE DetectTask
  BY <1>1, ReadCntIInv, CountDownIInv, MarkOfflineIInv, CallbackIInv DEF DetectTask
<1>2. CASE CAN_Decode
  BY <1>2, CANIInv
<1>3. CASE CommTask
  BY <1>3, UartIInv, KEYIInv, RestoreIInv DEF CommTask
<1>4. CASE Reset
  BY <1>4, ResetIInv
<1>5. CASE Tick
  BY <1>5, TickIInv
<1>6. CASE UNCHANGED vars
  BY <1>6, StutterIInv
<1> QED BY <1>1, <1>2, <1>3, <1>4, <1>5, <1>6 DEF Next

--------------------------------------------------------------------------------

(* The inductive invariant holds of every behaviour of the watchdog (detect_task.c). *)
THEOREM WatchdogInvariant == Spec => []IInv
BY InitIInv, NextIInv, PTL DEF Spec

(* Every variable keeps its range, the unsigned cnt above all (detect_task.c:116). *)
THEOREM WatchdogTypeCorrect == Spec => []TypeOK
<1>1. IInv => TypeOK
  BY DEF IInv
<1> QED BY <1>1, WatchdogInvariant, PTL

(* Only a silent master, or one whose frame hit a check, is called offline
   (detect_task.c:108-110).                                                *)
THEOREM WatchdogNoFalseAlarm == Spec => []NoFalseAlarm
<1>1. IInv => NoFalseAlarm
  BY DEF IInv
<1> QED BY <1>1, WatchdogInvariant, PTL

(* A master silent for more than Load checks is called offline (detect_task.c:102-120). *)
THEOREM WatchdogAlarmInTime == Spec => []AlarmInTime
<1>1. IInv => AlarmInTime
  BY DEF IInv, AlarmInTime, SilenceKnown, CommMayRun
<1> QED BY <1>1, WatchdogInvariant, PTL

(* CommTask's belief and the LED follow the watchdog's verdict (comm_task.c:79-83,
   674-680).                                                                       *)
THEOREM WatchdogLinkAgrees == Spec => []LinkAgrees
<1>1. IInv => LinkAgrees
  BY DEF IInv
<1> QED BY <1>1, WatchdogInvariant, PTL
================================================================================
