-------------------------- MODULE MotorControl_proofs --------------------------
(* The motor state machine, for every reload value, MaxOut and set of speeds. *)
EXTENDS MotorControl, TLAPS

(* The controller is cleared while the motor is stopped, and a cleared one has
   an output of zero: what makes the first output after a start zero.          *)
ClearedWhenStopped ==
  /\ pwm_on = is_running
  /\ ~is_running => ~first_flag
  /\ ~first_flag => output = 0
  /\ drives = 0 <=> ~first_flag

(* One run of MotorTask after the status last changed, the motor is stopped or
   running as the status says: what makes the second run realise it.           *)
RunningAfterOne ==
  /\ status = "idle" /\ steady >= 1 => ~is_running
  /\ status \in {"run", "brake"} /\ steady >= 1 => is_running

(* A UART command in the writing still holds the speed that was told, or, when
   a CAN command fell into it, the one that will take the place of CAN's.      *)
PendingTold ==
  comm_pc = "speed" => pending.omega = IF torn THEN cut_omega ELSE told_omega

IInv ==
  /\ TypeOK
  /\ ClearedWhenStopped
  /\ RunningAfterOne
  /\ PendingTold
  /\ RealisedInTwoRuns
  /\ SoftStart
  /\ LastCommandGoverns

LEMMA ClampRange ==
  ASSUME NEW v \in Nat
  PROVE  Clamp(v) \in 0 .. Load
BY MotorAssumption DEF Clamp

LEMMA LegsRange ==
  ASSUME NEW out \in -MaxOut .. MaxOut
  PROVE  Legs(out) \in [{0, 1} -> 0 .. Load]
<1>1. CASE out >= 0
  <2>1. out \in Nat /\ Clamp(out) \in 0 .. Load
    BY <1>1, ClampRange, MotorAssumption
  <2> QED BY <1>1, <2>1, MotorAssumption DEF Legs
<1>2. CASE ~(out >= 0)
  <2>1. -out \in Nat /\ Clamp(-out) \in 0 .. Load
    BY <1>2, ClampRange, MotorAssumption
  <2> QED BY <1>2, <2>1, MotorAssumption DEF Legs
<1> QED BY <1>1, <1>2

LEMMA LegsOfZero == Legs(0) = Off
BY MotorAssumption DEF Legs, Off, Clamp

LEMMA InitIInv == Init => IInv
<1> SUFFICES ASSUME Init PROVE IInv
  OBVIOUS
<1> USE MotorAssumption DEF Init
<1>1. TypeOK
  <2>1. duty \in [{0, 1} -> 0 .. Load] /\ output \in -MaxOut .. MaxOut
    BY DEF Off
  <2>2. can_counter \in 0 .. 3 /\ steady \in 0 .. 2 /\ drives \in 0 .. 2
    OBVIOUS
  <2>3. pending \in Commands
    BY DEF NoCommand, Commands, Codes
  <2> QED BY <2>1, <2>2, <2>3 DEF TypeOK, Statuses, MotorMayRun, CommMayRun
<1>2. ClearedWhenStopped /\ RunningAfterOne /\ PendingTold
  BY DEF ClearedWhenStopped, RunningAfterOne, PendingTold
<1>3. RealisedInTwoRuns /\ SoftStart /\ LastCommandGoverns
  BY DEF RealisedInTwoRuns, SoftStart, LastCommandGoverns
<1> QED BY <1>1, <1>2, <1>3 DEF IInv

--------------------------------------------------------------------------------
(* One lemma per action. *)

LEMMA ReadStatusIInv == IInv /\ ReadStatus => IInv'
<1> SUFFICES ASSUME IInv, ReadStatus PROVE IInv'
  OBVIOUS
<1> USE DEF ReadStatus, commandVars, powerVars, modeVars
<1>1. TypeOK'
  BY DEF IInv, TypeOK, Statuses, MotorMayRun, CommMayRun
<1>2. (ClearedWhenStopped /\ RunningAfterOne /\ PendingTold)'
  BY DEF IInv, ClearedWhenStopped, RunningAfterOne, PendingTold
<1>3. (RealisedInTwoRuns /\ SoftStart /\ LastCommandGoverns)'
  BY DEF IInv, RealisedInTwoRuns, SoftStart, LastCommandGoverns, Legs, Clamp, Braked, Off
<1> QED BY <1>1, <1>2, <1>3 DEF IInv

(* What every end of MotorTask_Run leaves in order. *)
LEMMA EndRunKeeps ==
  ASSUME IInv, EndRun, motor_pc \in Statuses
  PROVE  /\ motor_pc' \in {"sleep", "ready"} \cup Statuses
         /\ (MotorMayRun \/ CommMayRun)'
         /\ steady' \in 0 .. 2
         /\ PendingTold' /\ LastCommandGoverns'
<1> USE DEF EndRun, commandVars, modeVars
<1>1. steady' \in 0 .. 2
  BY MotorAssumption DEF IInv, TypeOK, CapTwo
<1>2. PendingTold' /\ LastCommandGoverns'
  BY DEF IInv, PendingTold, LastCommandGoverns
<1> QED BY <1>1, <1>2 DEF MotorMayRun, CommMayRun

LEMMA StopIInv == IInv /\ Stop => IInv'
<1> SUFFICES ASSUME IInv, Stop PROVE IInv'
  OBVIOUS
<1>0. EndRun /\ motor_pc \in Statuses
  BY DEF Stop, Statuses
<1>1. TypeOK'
  <2>1. output' \in -MaxOut .. MaxOut /\ drives' \in 0 .. 2
    BY MotorAssumption DEF Stop, PIDClear
  <2> QED
    BY <1>0, <2>1, EndRunKeeps DEF IInv, TypeOK, Stop, PIDClear, EndRun, commandVars, modeVars
<1>2. (ClearedWhenStopped /\ RunningAfterOne)'
  <2>1. ClearedWhenStopped'
    BY DEF ClearedWhenStopped, Stop, PIDClear
  <2>2. RunningAfterOne'
    BY DEF RunningAfterOne, Stop, EndRun, commandVars
  <2> QED BY <2>1, <2>2
<1>3. (RealisedInTwoRuns /\ SoftStart)'
  BY DEF RealisedInTwoRuns, SoftStart, Stop, PIDClear, EndRun, commandVars
<1> QED BY <1>0, <1>1, <1>2, <1>3, EndRunKeeps DEF IInv

LEMMA StartIInv == IInv /\ Start => IInv'
<1> SUFFICES ASSUME IInv, Start PROVE IInv'
  OBVIOUS
<1>0. EndRun /\ motor_pc \in Statuses
  BY DEF Start, Statuses
<1>1. TypeOK'
  BY <1>0, EndRunKeeps DEF IInv, TypeOK, Start, EndRun, commandVars, modeVars
<1>2. (ClearedWhenStopped /\ RunningAfterOne)'
  BY DEF IInv, TypeOK, RunningAfterOne, ClearedWhenStopped, Start, EndRun, commandVars, Statuses
<1>3. RealisedInTwoRuns'
  <2>1. steady' <= 1
    BY DEF IInv, TypeOK, RunningAfterOne, Start, EndRun, CapTwo
  <2>2. status' = "idle" => steady' = 0
    BY DEF Start, EndRun, commandVars
  <2> QED BY <2>1, <2>2, <1>1 DEF RealisedInTwoRuns, TypeOK
<1>4. SoftStart'
  BY DEF IInv, SoftStart, Start, Off
<1> QED BY <1>0, <1>1, <1>2, <1>3, <1>4, EndRunKeeps DEF IInv

LEMMA DriveIInv == IInv /\ Drive => IInv'
<1> SUFFICES ASSUME IInv, Drive PROVE IInv'
  OBVIOUS
<1>0. EndRun /\ motor_pc \in Statuses
  BY DEF Drive, Statuses
<1>1. output' \in -MaxOut .. MaxOut
  BY DEF Drive, PIDOutputs, IInv, TypeOK
<1>2. duty' \in [{0, 1} -> 0 .. Load]
  BY <1>1, LegsRange DEF Drive
<1>3. drives' \in 1 .. 2
  BY DEF Drive, CapTwo, IInv, TypeOK
<1>4. TypeOK'
  BY <1>0, <1>1, <1>2, <1>3, EndRunKeeps DEF IInv, TypeOK, Drive, EndRun, commandVars, modeVars
<1>5. (ClearedWhenStopped /\ RunningAfterOne)'
  BY <1>3 DEF IInv, TypeOK, RunningAfterOne, ClearedWhenStopped, Drive, EndRun, commandVars, Statuses
<1>6. RealisedInTwoRuns'
  <2>1. status' # "run" => steady' = 0
    BY DEF Drive, EndRun, commandVars
  <2>2. pwm_on' /\ duty' = Legs(output)'
    BY DEF Drive, IInv, ClearedWhenStopped, Legs, Clamp
  <2> QED BY <2>1, <2>2 DEF RealisedInTwoRuns
<1>7. SoftStart'
  <2> SUFFICES ASSUME drives' = 1 PROVE duty' = Off
    BY DEF SoftStart, Off
  <2>1. ~first_flag /\ output = 0
    BY DEF Drive, CapTwo, IInv, TypeOK, ClearedWhenStopped
  <2>2. output' = 0
    BY <2>1 DEF Drive, PIDOutputs
  <2> QED BY <2>2, LegsOfZero DEF Drive
<1> QED BY <1>0, <1>4, <1>5, <1>6, <1>7, EndRunKeeps DEF IInv

LEMMA BreakIInv == IInv /\ Break => IInv'
<1> SUFFICES ASSUME IInv, Break PROVE IInv'
  OBVIOUS
<1>0. EndRun /\ motor_pc \in Statuses
  BY DEF Break, Statuses
<1>1. TypeOK'
  <2>1. output' \in -MaxOut .. MaxOut /\ drives' \in 0 .. 2
    BY MotorAssumption DEF Break, PIDClear
  <2>2. duty' \in [{0, 1} -> 0 .. Load]
    BY MotorAssumption DEF Break, Braked
  <2> QED
    BY <1>0, <2>1, <2>2, EndRunKeeps DEF IInv, TypeOK, Break, PIDClear, EndRun, commandVars, modeVars
<1>2. (ClearedWhenStopped /\ RunningAfterOne)'
  BY DEF IInv, TypeOK, RunningAfterOne, ClearedWhenStopped, Break, PIDClear, EndRun, commandVars, Statuses
<1>3. RealisedInTwoRuns'
  <2>1. status' # "brake" => steady' = 0
    BY DEF Break, EndRun, commandVars
  <2>2. pwm_on' /\ duty' = Braked'
    BY DEF Break, IInv, ClearedWhenStopped, Braked
  <2> QED BY <2>1, <2>2 DEF RealisedInTwoRuns
<1>4. SoftStart'
  BY DEF SoftStart, Break, PIDClear
<1> QED BY <1>0, <1>1, <1>2, <1>3, <1>4, EndRunKeeps DEF IInv

(* A command taken in whole or in part: only the command changes, and steady
   restarts whenever the status does.                                        *)
LEMMA TakeStatusKeeps ==
  ASSUME IInv, NEW code \in Codes, TakeStatus(code), UNCHANGED powerVars
  PROVE  /\ status' \in Statuses /\ told_status' = status' /\ steady' \in 0 .. 2
         /\ ClearedWhenStopped' /\ RunningAfterOne'
         /\ RealisedInTwoRuns' /\ SoftStart'
<1> USE DEF TakeStatus, powerVars
<1>1. status' \in Statuses /\ told_status' = status' /\ steady' \in 0 .. 2
  BY DEF IInv, TypeOK, Codes
<1>2. ClearedWhenStopped' /\ SoftStart'
  BY DEF IInv, ClearedWhenStopped, SoftStart, Off
<1>3. RunningAfterOne'
  BY DEF IInv, RunningAfterOne
<1>4. RealisedInTwoRuns'
  BY DEF IInv, RealisedInTwoRuns, Legs, Clamp, Braked
<1> QED BY <1>1, <1>2, <1>3, <1>4

(* Nothing happens to the command or to the power stage. *)
LEMMA CommandKept ==
  ASSUME IInv, UNCHANGED <<commandVars, powerVars, steady>>
  PROVE  /\ ClearedWhenStopped' /\ RunningAfterOne'
         /\ RealisedInTwoRuns' /\ SoftStart'
         /\ status' = told_status'
<1> USE DEF commandVars, powerVars
<1>1. ClearedWhenStopped' /\ SoftStart' /\ RunningAfterOne' /\ status' = told_status'
  BY DEF IInv, ClearedWhenStopped, SoftStart, Off, RunningAfterOne, LastCommandGoverns
<1>2. RealisedInTwoRuns'
  BY DEF IInv, RealisedInTwoRuns, Legs, Clamp, Braked
<1> QED BY <1>1, <1>2

LEMMA CANIInv ==
  ASSUME IInv, NEW c \in Commands, NEW three_bytes \in BOOLEAN, CAN_Decode(c, three_bytes)
  PROVE  IInv'
<1> USE DEF CAN_Decode
<1>1. can_counter' \in 0 .. 3 /\ comm_mode' \in BOOLEAN
  BY DEF IInv, TypeOK
<1>2. (MotorMayRun \/ CommMayRun)'
  BY DEF IInv, TypeOK, MotorMayRun, CommMayRun
<1>3. CASE comm_mode' /\ three_bytes
  <2>0. c.status \in Codes /\ c.omega \in Omegas
    BY DEF Commands
  <2>1. TakeStatus(c.status) /\ UNCHANGED powerVars
    BY <1>3
  <2>2. TypeOK'
    <3>1. torn' \in BOOLEAN
      BY <1>3, Zenon
    <3>2. cut_omega' \in Omegas
      BY <1>3 DEF IInv, TypeOK, Commands
    <3> QED
      BY <1>1, <1>2, <1>3, <2>0, <2>1, <3>1, <3>2, TakeStatusKeeps
      DEF IInv, TypeOK, powerVars, modeVars
  <2>3. PendingTold' /\ LastCommandGoverns'
    BY <1>3, <2>0, <2>1, TakeStatusKeeps DEF PendingTold, LastCommandGoverns
  <2> QED BY <2>0, <2>1, <2>2, <2>3, TakeStatusKeeps DEF IInv
<1>4. CASE ~(comm_mode' /\ three_bytes)
  <2>1. UNCHANGED <<commandVars, powerVars, steady>>
    BY <1>4
  <2>2. TypeOK'
    BY <1>1, <1>2, <2>1 DEF IInv, TypeOK, commandVars, powerVars
  <2>3. PendingTold' /\ LastCommandGoverns'
    BY <2>1 DEF IInv, PendingTold, LastCommandGoverns, commandVars
  <2> QED BY <2>1, <2>2, <2>3, CommandKept DEF IInv
<1> QED BY <1>3, <1>4

LEMMA SetSpeedIInv ==
  ASSUME IInv, NEW c \in Commands, Uart_SetSpeed(c)
  PROVE  IInv'
<1> USE DEF Uart_SetSpeed
<1>0. c.status \in Codes /\ c.omega \in Omegas
  BY DEF Commands
<1>1. (MotorMayRun \/ CommMayRun)'
  BY DEF CommMayRun
<1>2. CASE comm_pc = "ready"
  <2>1. TakeStatus(c.status) /\ UNCHANGED powerVars
    BY <1>2
  <2>2. TypeOK'
    BY <1>0, <1>1, <1>2, <2>1, TakeStatusKeeps DEF IInv, TypeOK, powerVars, modeVars
  <2>3. PendingTold' /\ LastCommandGoverns'
    BY <1>0, <1>2, <2>1, TakeStatusKeeps DEF PendingTold, LastCommandGoverns
  <2> QED BY <1>0, <2>1, <2>2, <2>3, TakeStatusKeeps DEF IInv
<1>3. CASE comm_pc = "speed"
  <2>1. TypeOK'
    <3>1. pending' \in Commands
      BY <1>3, MotorAssumption DEF NoCommand, Commands, Codes
    <3> QED BY <1>0, <1>1, <1>3, <3>1 DEF IInv, TypeOK, powerVars, modeVars
  <2>2. PendingTold' /\ LastCommandGoverns'
    <3>1. torn' = torn /\ told_omega' = told_omega /\ told_status' = told_status /\ status' = status
      BY <1>3
    <3>2. comm_pc' = "tail" /\ set_omega' = pending.omega
      BY <1>3
    <3> QED BY <1>3, <3>1, <3>2 DEF IInv, PendingTold, LastCommandGoverns
  <2>3. ClearedWhenStopped' /\ RunningAfterOne' /\ SoftStart'
    BY <1>3 DEF IInv, ClearedWhenStopped, RunningAfterOne, SoftStart, Off, powerVars
  <2>4. RealisedInTwoRuns'
    BY <1>3 DEF IInv, RealisedInTwoRuns, Legs, Clamp, Braked, powerVars
  <2> QED BY <2>1, <2>2, <2>3, <2>4 DEF IInv
<1> QED BY <1>2, <1>3

(* The steps of a turn of CommTask that leave the command alone. *)
LEMMA TurnIInv ==
  ASSUME IInv, NEW from, NEW to, Turn(from, to),
         set_value_mode' \in BOOLEAN,
         "speed" \notin from,
         to \subseteq {"sleep", "tail", "wait", "send", "save"}
  PROVE  IInv'
<1> USE DEF Turn
<1>1. UNCHANGED <<commandVars, powerVars, steady>>
  OBVIOUS
<1>2. TypeOK'
  <2>1. (MotorMayRun \/ CommMayRun)'
    BY DEF CommMayRun
  <2> QED BY <2>1, <1>1 DEF IInv, TypeOK, commandVars, powerVars
<1>3. PendingTold' /\ LastCommandGoverns'
  BY <1>1 DEF IInv, PendingTold, LastCommandGoverns, commandVars
<1> QED BY <1>1, <1>2, <1>3, CommandKept DEF IInv

LEMMA TickIInv == IInv /\ Tick => IInv'
<1> SUFFICES ASSUME IInv, Tick PROVE IInv'
  OBVIOUS
<1> USE DEF Tick
<1>1. UNCHANGED <<commandVars, powerVars, steady>>
  OBVIOUS
<1>2. TypeOK'
  <2>1. (MotorMayRun \/ CommMayRun)'
    BY DEF CommMayRun
  <2> QED BY <1>1, <2>1 DEF IInv, TypeOK, commandVars, powerVars, modeVars
<1>3. PendingTold' /\ LastCommandGoverns'
  BY <1>1 DEF IInv, PendingTold, LastCommandGoverns, commandVars, Busy
<1> QED BY <1>1, <1>2, <1>3, CommandKept DEF IInv

(* A reset is the initial state again. *)
LEMMA ResetIInv == Reset => IInv'
<1> SUFFICES ASSUME Reset PROVE IInv'
  OBVIOUS
<1> USE MotorAssumption DEF Reset
<1>1. TypeOK'
  <2>1. duty' \in [{0, 1} -> 0 .. Load] /\ output' \in -MaxOut .. MaxOut
    BY DEF Off
  <2>2. can_counter' \in 0 .. 3 /\ steady' \in 0 .. 2 /\ drives' \in 0 .. 2
    OBVIOUS
  <2>3. pending' \in Commands
    BY DEF NoCommand, Commands, Codes
  <2> QED BY <2>1, <2>2, <2>3 DEF TypeOK, Statuses, MotorMayRun, CommMayRun
<1>2. (ClearedWhenStopped /\ RunningAfterOne /\ PendingTold)'
  BY DEF ClearedWhenStopped, RunningAfterOne, PendingTold
<1>3. (RealisedInTwoRuns /\ SoftStart /\ LastCommandGoverns)'
  BY DEF RealisedInTwoRuns, SoftStart, LastCommandGoverns
<1> QED BY <1>1, <1>2, <1>3 DEF IInv

LEMMA StutterIInv == IInv /\ UNCHANGED vars => IInv'
<1> SUFFICES ASSUME IInv, UNCHANGED vars PROVE IInv'
  OBVIOUS
<1>1. UNCHANGED <<commandVars, powerVars, steady>>
  BY DEF vars, commandVars, powerVars
<1>2. TypeOK'
  BY DEF IInv, TypeOK, vars, MotorMayRun, CommMayRun
<1>3. PendingTold' /\ LastCommandGoverns'
  BY DEF IInv, PendingTold, LastCommandGoverns, vars
<1> QED BY <1>1, <1>2, <1>3, CommandKept DEF IInv

LEMMA NextIInv == IInv /\ [Next]_vars => IInv'
<1> SUFFICES ASSUME IInv, [Next]_vars PROVE IInv'
  OBVIOUS
<1>1. CASE MotorTask_Run
  BY <1>1, ReadStatusIInv, StopIInv, StartIInv, DriveIInv, BreakIInv DEF MotorTask_Run
<1>2. CASE CommTask
  <2>0. set_value_mode \in BOOLEAN
    BY DEF IInv, TypeOK
  <2>1. CASE NoFrame \/ Ack \/ WaitEnds \/ EndTurn \/ KeySetSave \/ Feedback
    BY <2>0, <2>1, TurnIInv DEF NoFrame, Ack, WaitEnds, EndTurn, KeySetSave, Feedback
  <2>2. CASE SetMode \/ TransmitBad \/ TransmitGood
    BY <2>0, <2>2, TurnIInv DEF SetMode, TransmitBad, TransmitGood
  <2>3. CASE \E c \in Commands : Uart_SetSpeed(c)
    BY <2>3, SetSpeedIInv
  <2> QED BY <1>2, <2>1, <2>2, <2>3 DEF CommTask
<1>3. CASE CANInterrupt
  BY <1>3, CANIInv DEF CANInterrupt
<1>4. CASE Tick
  BY <1>4, TickIInv
<1>5. CASE Reset
  BY <1>5, ResetIInv
<1>6. CASE UNCHANGED vars
  BY <1>6, StutterIInv
<1> QED BY <1>1, <1>2, <1>3, <1>4, <1>5, <1>6 DEF Next

--------------------------------------------------------------------------------
(* The invariant the theorems below are parts of. *)
THEOREM MotorInvariant == Spec => []IInv
<1>1. Init => IInv
  BY InitIInv
<1>2. IInv /\ [Next]_vars => IInv'
  BY NextIInv
<1> QED BY <1>1, <1>2, PTL DEF Spec

(* No interleaving of the two commanders, the motor task, ticks and resets takes
   a variable out of its range: the compare values stay within the reload value
   for every stored MaxOut.                                                      *)
THEOREM MotorTypeCorrect == Spec => []TypeOK
<1>1. IInv => TypeOK
  BY DEF IInv
<1> QED BY <1>1, MotorInvariant, PTL

(* Two runs of MotorTask realise any status, whenever it changed. *)
THEOREM MotorRealised == Spec => []RealisedInTwoRuns
<1>1. IInv => RealisedInTwoRuns
  BY DEF IInv
<1> QED BY <1>1, MotorInvariant, PTL

(* The first output after any stop, brake or reset is zero on both legs. *)
THEOREM MotorSoftStart == Spec => []SoftStart
<1>1. IInv => SoftStart
  BY DEF IInv
<1> QED BY <1>1, MotorInvariant, PTL

(* The last command to arrive decides the status, and its speed or, when it fell into
   a UART command, that command's decides the speed (comm_task.c:491).             *)
THEOREM MotorObeysLast == Spec => []LastCommandGoverns
<1>1. IInv => LastCommandGoverns
  BY DEF IInv
<1> QED BY <1>1, MotorInvariant, PTL
================================================================================
