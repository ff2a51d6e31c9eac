--------------------------- MODULE ControlLoop_proofs --------------------------
(***************************************************************************)
(* The three properties of ControlLoop, for counters of any width, any     *)
(* rounding of the time line and any limits of the controller.  The        *)
(* invariant has a part for the time base, one for the encoder and one for *)
(* the time of the readings; none needs another.                           *)
(***************************************************************************)
EXTENDS ControlLoop, TLAPS

(* The wraps counted are the wraps there were, but for one that the counter shows;
   and a wrap within a call is one that the call will count.                      *)
ClockInv ==
  /\ laps <= MaxLaps
  /\ \/ CYCCNT_RountCount = laps /\ CYCCNT_LAST <= cnt
     \/ CYCCNT_RountCount + 1 = laps /\ cnt < CYCCNT_LAST
  /\ pc = "update" => \/ laps = cnt_laps
                      \/ laps = cnt_laps + 1 /\ CYCCNT_RountCount = cnt_laps

(* While the counter is about to be put back, all pulses since the reading are ones
   that it will not show; otherwise, it shows all but those.                       *)
EncoderInv ==
  /\ pc = "reset" => moved = slipped
  /\ pc # "reset" /\ known => ctr = Base - (moved - slipped)

LineInv ==
  /\ ~is_running => paused
  /\ ~paused => IF pc = "act" THEN dt = time_line - read_line
                              ELSE time_line = read_line

Inv == TypeOK /\ ClockInv /\ EncoderInv /\ LineInv

(* CNT_Update, within a call or not: every wrap is counted. *)
LEMMA UpdateCounts ==
  ASSUME TimeTypeOK, ClockInv, CNT_Update
  PROVE  /\ CYCCNT_RountCount' = laps /\ CYCCNT_LAST' = cnt
         /\ CYCCNT_RountCount' \in Nat /\ CYCCNT_LAST' \in 0 .. CountMax
  BY TimeAssumption DEF TimeTypeOK, ClockInv, CNT_Update

(* The counts of a behaviour are within the domain of Seconds. *)
LEMMA CountIsMoment ==
  ASSUME NEW rounds \in Nat, rounds <= MaxLaps, NEW now \in 0 .. CountMax
  PROVE  rounds * CountMax + now \in Moments
<1>1. rounds * CountMax \in Nat /\ MaxLaps * CountMax \in Nat
  BY TimeAssumption
<1>2. rounds * CountMax <= MaxLaps * CountMax
  BY TimeAssumption
<1>3. (MaxLaps + 1) * CountMax = MaxLaps * CountMax + CountMax
  BY TimeAssumption
<1> DEFINE part == rounds * CountMax
           all  == MaxLaps * CountMax
<1> HIDE DEF part, all
<1>4. part \in Nat /\ all \in Nat /\ part <= all
  BY <1>1, <1>2 DEF part, all
<1>5. part + now \in 0 .. all + CountMax
  BY <1>4, TimeAssumption
<1> QED
  BY <1>3, <1>5 DEF Moments, part, all

(* A value cut to a limit is within it. *)
LEMMA WithinLimit ==
  ASSUME NEW x \in Int, NEW limit \in Nat
  PROVE  Within(x, limit) \in -limit .. limit
  BY DEF Within

--------------------------------------------------------------------------------
LEMMA InitInv == Init => Inv
<1> SUFFICES ASSUME Init PROVE Inv
  OBVIOUS
<1> USE TimeAssumption, LoopAssumption DEF Init, TimeInit
<1>1. Seconds[0] \in Int
  <2>1. 0 * CountMax + 0 \in Moments
    <3>1. 0 \in Nat /\ 0 <= MaxLaps /\ 0 \in 0 .. CountMax
      OBVIOUS
    <3> QED
      BY ONLY <3>1, CountIsMoment
  <2>2. 0 * CountMax + 0 = 0
    OBVIOUS
  <2> QED
    BY <2>1, <2>2
<1>2. /\ is_running \in BOOLEAN /\ known \in BOOLEAN /\ paused \in BOOLEAN
      /\ first_flag \in BOOLEAN
  BY Zenon
<1>3. TypeOK
  BY <1>1, <1>2 DEF TypeOK, TimeTypeOK
<1>4. ClockInv /\ EncoderInv /\ LineInv
  BY DEF ClockInv, EncoderInv, LineInv
<1> QED
  BY <1>3, <1>4 DEF Inv

(* The counter of the time base goes on. *)
LEMMA TimePassesKeepsInv == Inv /\ TimePasses => Inv'
<1> SUFFICES ASSUME Inv, TimePasses PROVE Inv'
  OBVIOUS
<1> USE TimeAssumption DEF TimePasses, Count, roundVars, readVars, loopVars, qeiVars, pidVars
<1>1. TypeOK'
  BY DEF Inv, TypeOK, TimeTypeOK
<1>2. ClockInv'
  BY DEF Inv, TypeOK, TimeTypeOK, ClockInv
<1>3. EncoderInv' /\ LineInv'
  BY DEF Inv, EncoderInv, LineInv
<1> QED
  BY <1>1, <1>2, <1>3 DEF Inv

(* The encoder turns. *)
LEMMA PulseKeepsInv == \A step \in {-1, 1} : Inv /\ Pulse(step) => Inv'
<1> SUFFICES ASSUME NEW step \in {-1, 1}, Inv, Pulse(step) PROVE Inv'
  OBVIOUS
<1> USE TimeAssumption, LoopAssumption DEF Pulse, timeVars, loopVars, pidVars
<1>1. slipped' \in -Base .. Base
  BY DEF Inv, TypeOK, EncoderInv
<1>2. TypeOK'
  BY <1>1 DEF Inv, TypeOK, TimeTypeOK
<1>3. ClockInv' /\ LineInv'
  BY DEF Inv, ClockInv, LineInv
<1>4. EncoderInv'
  BY DEF Inv, TypeOK, EncoderInv
<1> QED
  BY <1>2, <1>3, <1>4 DEF Inv

(* The time is asked for: by another task, or at the start of a turn. *)
LEMMA OthersKeepInv == Inv /\ OthersUpdate => Inv'
<1> SUFFICES ASSUME Inv, OthersUpdate PROVE Inv'
  OBVIOUS
<1> USE DEF OthersUpdate, counterVars, readVars, loopVars, qeiVars, pidVars
<1>1. /\ CYCCNT_RountCount' = laps /\ CYCCNT_LAST' = cnt
      /\ CYCCNT_RountCount' \in Nat /\ CYCCNT_LAST' \in 0 .. CountMax
  BY UpdateCounts DEF Inv, TypeOK
<1>2. TypeOK'
  BY <1>1 DEF Inv, TypeOK, TimeTypeOK
<1>3. ClockInv'
  BY <1>1 DEF Inv, TypeOK, TimeTypeOK, ClockInv
<1>4. EncoderInv' /\ LineInv'
  BY DEF Inv, EncoderInv, LineInv
<1> QED
  BY <1>2, <1>3, <1>4 DEF Inv

LEMMA ReadTimeKeepsInv == Inv /\ ReadTime => Inv'
<1> SUFFICES ASSUME Inv, ReadTime PROVE Inv'
  OBVIOUS
<1> USE DEF ReadTime, ReadCount, counterVars, roundVars, loopVars, qeiVars, pidVars
<1>1. TypeOK'
  BY DEF Inv, TypeOK, TimeTypeOK
<1>2. ClockInv'
  BY DEF Inv, TypeOK, TimeTypeOK, ClockInv
<1>3. EncoderInv' /\ LineInv'
  BY DEF Inv, EncoderInv, LineInv
<1> QED
  BY <1>1, <1>2, <1>3 DEF Inv

LEMMA UpdateTimeKeepsInv == Inv /\ UpdateTime => Inv'
<1> SUFFICES ASSUME Inv, UpdateTime PROVE Inv'
  OBVIOUS
<1> USE DEF UpdateTime, counterVars, readVars, qeiVars, pidVars
<1>1. /\ CYCCNT_RountCount' = laps /\ CYCCNT_LAST' = cnt
      /\ CYCCNT_RountCount' \in Nat /\ CYCCNT_LAST' \in 0 .. CountMax
  BY UpdateCounts DEF Inv, TypeOK
<1>2. time_line' \in Int
  <2>1. CYCCNT_RountCount' <= MaxLaps /\ cnt_now \in 0 .. CountMax
    BY <1>1 DEF Inv, ClockInv, TypeOK, TimeTypeOK
  <2>2. Count64 \in Moments
    BY <1>1, <2>1, CountIsMoment DEF Count64
  <2> QED
    BY <2>2, LoopAssumption
<1>3. TypeOK'
  BY <1>1, <1>2 DEF Inv, TypeOK, TimeTypeOK
<1>4. ClockInv'
  BY <1>1 DEF Inv, TypeOK, TimeTypeOK, ClockInv
<1>5. EncoderInv'
  BY DEF Inv, EncoderInv
<1>6. LineInv'
  BY <1>2 DEF Inv, TypeOK, LineInv
<1> QED
  BY <1>3, <1>4, <1>5, <1>6 DEF Inv

(* The branches without the controller. *)
LEMMA BranchKeepsInv ==
  Inv /\ (Stop \/ Start \/ Break \/ NoTime \/ ReadPulses \/ ResetPulses) => Inv'
<1> SUFFICES ASSUME Inv, Stop \/ Start \/ Break \/ NoTime \/ ReadPulses \/ ResetPulses
             PROVE  Inv'
  OBVIOUS
<1> USE TimeAssumption, LoopAssumption DEF timeVars, loopVars, qeiVars, pidVars
<1>1. CASE Stop
  <2> USE <1>1 DEF Stop, ClearPID
  <2>1. is_running' \in BOOLEAN /\ paused' \in BOOLEAN /\ first_flag' \in BOOLEAN
    BY Zenon
  <2>2. TypeOK'
    BY <2>1 DEF Inv, TypeOK, TimeTypeOK
  <2>3. ClockInv' /\ EncoderInv' /\ LineInv'
    BY DEF Inv, ClockInv, EncoderInv, LineInv
  <2> QED
    BY <2>2, <2>3 DEF Inv
<1>2. CASE Start
  <2> USE <1>2 DEF Start
  <2>1. is_running' \in BOOLEAN /\ known' \in BOOLEAN
    BY DEF Inv, TypeOK
  <2>2. TypeOK'
    BY <2>1 DEF Inv, TypeOK, TimeTypeOK
  <2>3. ClockInv' /\ LineInv'
    BY DEF Inv, TypeOK, ClockInv, LineInv
  <2>4. EncoderInv'
    BY DEF Inv, EncoderInv
  <2> QED
    BY <2>2, <2>3, <2>4 DEF Inv
<1>3. CASE Break
  <2> USE <1>3 DEF Break, ClearPID
  <2>1. paused' \in BOOLEAN /\ first_flag' \in BOOLEAN
    BY Zenon
  <2>2. TypeOK'
    BY <2>1 DEF Inv, TypeOK, TimeTypeOK
  <2>3. ClockInv' /\ EncoderInv' /\ LineInv'
    BY DEF Inv, ClockInv, EncoderInv, LineInv
  <2> QED
    BY <2>2, <2>3 DEF Inv
<1>4. CASE NoTime
  <2> USE <1>4 DEF NoTime
  <2>1. TypeOK'
    BY DEF Inv, TypeOK, TimeTypeOK
  <2>2. ClockInv' /\ EncoderInv'
    BY DEF Inv, ClockInv, EncoderInv
  <2>3. LineInv'
    BY DEF Inv, TypeOK, LineInv
  <2> QED
    BY <2>1, <2>2, <2>3 DEF Inv
<1>5. CASE ReadPulses
  <2> USE <1>5 DEF ReadPulses
  <2>1. paused' \in BOOLEAN
    BY Zenon
  <2>2. TypeOK'
    BY <2>1 DEF Inv, TypeOK, TimeTypeOK
  <2>3. ClockInv' /\ EncoderInv' /\ LineInv'
    BY DEF Inv, ClockInv, EncoderInv, LineInv
  <2> QED
    BY <2>2, <2>3 DEF Inv
<1>6. CASE ResetPulses
  <2> USE <1>6 DEF ResetPulses
  <2>1. known' \in BOOLEAN
    BY Zenon
  <2>2. TypeOK'
    BY <2>1 DEF Inv, TypeOK, TimeTypeOK
  <2>3. ClockInv' /\ LineInv'
    BY DEF Inv, ClockInv, LineInv
  <2>4. EncoderInv'
    <3>1. moved = slipped /\ moved \in Int
      BY DEF Inv, TypeOK, EncoderInv
    <3>2. moved' = moved /\ slipped' = slipped /\ ctr' = Base /\ pc' = "pid"
      OBVIOUS
    <3>3. Base - (moved - slipped) = Base
      BY <3>1
    <3> QED
      BY ONLY <3>1, <3>2, <3>3 DEF EncoderInv
  <2> QED
    BY <2>2, <2>3, <2>4 DEF Inv
<1> QED
  BY <1>1, <1>2, <1>3, <1>4, <1>5, <1>6

(* The integral and the output stay within their limits. *)
LEMMA IntegralWithin ==
  ASSUME NEW push \in Int, NEW term \in Int, NEW err \in {-1, 1},
         Iout \in -IntegralLimit .. IntegralLimit
  PROVE  Integral(push, term, err) \in -IntegralLimit .. IntegralLimit
  BY WithinLimit, LoopAssumption DEF Integral

LEMMA OutputWithin ==
  ASSUME NEW push \in Int, NEW term \in Int, NEW err \in {-1, 1},
         Iout \in -IntegralLimit .. IntegralLimit, Output \in -MaxOut .. MaxOut,
         Calculate(push, term, err)
  PROVE  Output' \in -MaxOut .. MaxOut
<1>1. Iout' \in Int
  <2>1. Integral(push, term, err) \in -IntegralLimit .. IntegralLimit
    BY IntegralWithin
  <2>2. Iout' = Integral(push, term, err)
    BY DEF Calculate
  <2> QED
    BY <2>1, <2>2, LoopAssumption
<1>2. PICK filtered \in Between(push + Iout', Output) : Output' = Within(filtered, MaxOut)
  BY DEF Calculate
<1>3. filtered \in Int
  BY <1>1, <1>2, LoopAssumption DEF Between
<1> QED
  BY <1>2, <1>3, WithinLimit, LoopAssumption

LEMMA PIDKeepsInv == Inv /\ PIDCalculate => Inv'
<1> SUFFICES ASSUME Inv, PIDCalculate PROVE Inv'
  OBVIOUS
<1> USE DEF PIDCalculate, counterVars, readVars, loopVars, qeiVars
<1>1. /\ CYCCNT_RountCount' = laps /\ CYCCNT_LAST' = cnt
      /\ CYCCNT_RountCount' \in Nat /\ CYCCNT_LAST' \in 0 .. CountMax
  BY UpdateCounts DEF Inv, TypeOK
<1>2. Iout' \in -IntegralLimit .. IntegralLimit /\ Output' \in -MaxOut .. MaxOut
  <2>1. ASSUME NEW push \in Terms, NEW term \in Terms, NEW err \in {-1, 1},
               Calculate(push, term, err)
        PROVE  Iout' \in -IntegralLimit .. IntegralLimit /\ Output' \in -MaxOut .. MaxOut
    BY <2>1, IntegralWithin, OutputWithin, LoopAssumption DEF Calculate, Inv, TypeOK
  <2>2. ASSUME DeadBand
        PROVE  Iout' \in -IntegralLimit .. IntegralLimit /\ Output' \in -MaxOut .. MaxOut
    BY <2>2, LoopAssumption DEF DeadBand, Inv, TypeOK
  <2> QED
    BY <2>1, <2>2 DEF Inv, TypeOK
<1>3. first_flag' \in BOOLEAN
  BY Zenon
<1>4. TypeOK'
  BY <1>1, <1>2, <1>3 DEF Inv, TypeOK, TimeTypeOK
<1>5. ClockInv'
  BY <1>1 DEF Inv, TypeOK, TimeTypeOK, ClockInv
<1>6. EncoderInv' /\ LineInv'
  BY DEF Inv, EncoderInv, LineInv
<1> QED
  BY <1>4, <1>5, <1>6 DEF Inv

LEMMA StepKeepsInv == Inv /\ [Next]_vars => Inv'
<1> SUFFICES ASSUME Inv, [Next]_vars PROVE Inv'
  OBVIOUS
<1>1. CASE UNCHANGED vars
  BY <1>1 DEF Inv, TypeOK, TimeTypeOK, ClockInv, EncoderInv, LineInv, vars
<1>2. CASE Next
  BY <1>2, TimePassesKeepsInv, PulseKeepsInv, OthersKeepInv, ReadTimeKeepsInv,
     UpdateTimeKeepsInv, BranchKeepsInv, PIDKeepsInv
  DEF Next, MotorTask
<1> QED
  BY <1>1, <1>2

LEMMA SpecInv == Spec => []Inv
  BY InitInv, StepKeepsInv, PTL DEF Spec

--------------------------------------------------------------------------------
(* The integral and the output of the controller never leave their limits, and the
   other variables of the loop keep their ranges (pid.c:53, :96).                 *)
THEOREM TypeCorrect == Spec => []TypeOK
<1>1. Inv => TypeOK
  BY DEF Inv
<1> QED
  BY <1>1, SpecInv, PTL

(* The time line is the time counted, or one whole wrap ahead of it when the counter
   wrapped between the two reads of one call (bsp_mspm0g_tim_base.c:64).           *)
THEOREM TimeLineIsTrue == Spec => TimeIsTrue
<1>1. Inv /\ [Next]_vars =>
        [UpdateTime => \/ time_line' = Seconds[cnt_laps * CountMax + cnt_now]
                       \/ /\ laps = cnt_laps + 1
                          /\ time_line' = Seconds[(cnt_laps + 1) * CountMax + cnt_now]]_vars
  <2> SUFFICES ASSUME Inv, UpdateTime
               PROVE  \/ time_line' = Seconds[cnt_laps * CountMax + cnt_now]
                      \/ /\ laps = cnt_laps + 1
                         /\ time_line' = Seconds[(cnt_laps + 1) * CountMax + cnt_now]
    OBVIOUS
  <2>1. CYCCNT_RountCount' = laps
    BY UpdateCounts DEF Inv, TypeOK, UpdateTime
  <2>2. laps = cnt_laps \/ laps = cnt_laps + 1
    BY DEF Inv, ClockInv, UpdateTime
  <2>3. time_line' = Seconds[laps * CountMax + cnt_now]
    BY <2>1 DEF UpdateTime, Count64
  <2> QED
    BY <2>2, <2>3
<1> QED
  BY <1>1, SpecInv, PTL DEF Spec, TimeIsTrue

(* Between pauses a speed is the pulses since the last reading over the time since
   the last reading, whatever the time line is rounded to (bsp_time.c:462).       *)
THEOREM MeasuredSpeedIsTrue == Spec => SpeedIsTrue
<1>1. Inv /\ [Next]_vars =>
        [ReadPulses => /\ known => delta' = moved - slipped
                       /\ ~paused => dt = time_line - read_line]_vars
  <2> SUFFICES ASSUME Inv, ReadPulses
               PROVE  /\ known => delta' = moved - slipped
                      /\ ~paused => dt = time_line - read_line
    OBVIOUS
  <2>1. known => delta' = moved - slipped
    BY LoopAssumption DEF Inv, TypeOK, EncoderInv, ReadPulses
  <2>2. ~paused => dt = time_line - read_line
    BY DEF Inv, LineInv, ReadPulses
  <2> QED
    BY <2>1, <2>2
<1> QED
  BY <1>1, SpecInv, PTL DEF Spec, SpeedIsTrue
================================================================================
