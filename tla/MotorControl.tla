------------------------------ MODULE MotorControl -----------------------------
(***************************************************************************)
(* The motor state machine: who may command it (the CAN receive interrupt  *)
(* and CommTask), how MotorTask realises the command on the two PWM legs,  *)
(* and when MotorTask gets to run at all.                                  *)
(*                                                                         *)
(* All tasks have one priority and time slicing is off, so a task keeps    *)
(* the processor until it calls vTaskDelay, through its busy-waits too.    *)
(* Interrupts fall between any two steps.  MotorTask_Run is cut where one  *)
(* shows: the read of status, then the branch; Uart_SetSpeed is cut        *)
(* between its write of status and its write of set_omega.                 *)
(***************************************************************************)
EXTENDS Integers

CONSTANTS
  Load,     \* the reload value of the PWM timer, its full duty
  MaxOut,   \* the PID's MaxOut, a stored parameter that may exceed Load
  Omegas,   \* speeds a command may ask for
  Rest      \* the speed 0

ASSUME MotorAssumption ==
  /\ Load \in Nat
  /\ MaxOut \in Nat
  /\ Rest \in Omegas

VARIABLES
  status, set_omega,          \* motor_task: the command, written by two contexts
  is_running,                 \* motor_task.is_running
  pwm_on,                     \* the PWM and encoder counters are running
  duty,                       \* compare value of each leg, kept while stopped
  first_flag, output,         \* omega_pid: calculated before; Output
  comm_mode, can_counter,     \* comm_task: TRUE is CAN; frames counted so far
  set_value_mode,             \* comm_task.set_value_mode
  motor_pc, comm_pc,          \* where the two tasks stand
  pending,                    \* the UART drive command being written
  told_status, told_omega,    \* history: the last command that arrived
  torn,                       \* history: it arrived inside a UART command
  cut_omega,                  \* history: the speed of the UART command it fell into
  steady,                     \* history: runs of MotorTask since status changed
  drives                      \* history: PID outputs since the last stop or brake

commandVars == <<status, set_omega, told_status, told_omega, torn, cut_omega>>
powerVars   == <<is_running, pwm_on, duty, first_flag, output, drives>>
modeVars    == <<comm_mode, can_counter, set_value_mode>>
vars == <<status, set_omega, is_running, pwm_on, duty, first_flag, output,
          comm_mode, can_counter, set_value_mode, motor_pc, comm_pc, pending,
          told_status, told_omega, torn, cut_omega, steady, drives>>

Statuses == {"idle", "run", "brake"}
Codes    == Statuses \cup {"keep"}     \* 0b10 leaves the status alone
Commands == [status : Codes, omega : Omegas]

NoCommand == [status |-> "keep", omega |-> Rest]
Off       == [leg \in {0, 1} |-> 0]
Braked    == [leg \in {0, 1} |-> Load]

Init ==
  /\ status = "idle" /\ set_omega = Rest
  /\ is_running = FALSE /\ pwm_on = FALSE /\ duty = Off
  /\ first_flag = FALSE /\ output = 0
  /\ comm_mode = FALSE /\ can_counter = 0 /\ set_value_mode = FALSE
  /\ motor_pc = "ready" /\ comm_pc = "ready" /\ pending = NoCommand
  /\ told_status = "idle" /\ told_omega = Rest /\ torn = FALSE /\ cut_omega = Rest
  /\ steady = 0 /\ drives = 0

--------------------------------------------------------------------------------
(* MotorTask. *)

(* A task starts a step only while the other is not in the middle of its turn. *)
MotorMayRun == comm_pc \in {"sleep", "ready"}
CommMayRun  == motor_pc \in {"sleep", "ready"}

CapTwo(n) == IF n >= 2 THEN 2 ELSE n + 1

(* The end of MotorTask_Run: vTaskDelay(1). *)
EndRun ==
  /\ motor_pc' = "sleep"
  /\ steady' = IF motor_pc = status THEN CapTwo(steady) ELSE 0
  /\ UNCHANGED <<commandVars, modeVars, comm_pc, pending>>

(* switch (motor_task.status) *)
ReadStatus ==
  /\ motor_pc = "ready"
  /\ MotorMayRun
  /\ motor_pc' = status
  /\ UNCHANGED <<commandVars, powerVars, modeVars, comm_pc, pending, steady>>

(* PIDClear, as far as the output can tell. *)
PIDClear ==
  /\ first_flag' = FALSE
  /\ output' = 0
  /\ drives' = 0

(* Slip: stopping forgets to clear the controller. *)
SlipStopKeepsPID ==
  /\ motor_pc = "idle"
  /\ pwm_on' = FALSE
  /\ is_running' = FALSE
  /\ drives' = 0
  /\ UNCHANGED <<duty, first_flag, output>>
  /\ EndRun

(* MOTOR_IDLE: both counters stop, the compare values stay. *)
Stop ==
  /\ motor_pc = "idle"
  /\ pwm_on' = FALSE
  /\ is_running' = FALSE
  /\ PIDClear
  /\ UNCHANGED duty
  /\ EndRun

(* Slip: the start is not remembered. *)
SlipStartForgets ==
  /\ motor_pc \in {"run", "brake"}
  /\ ~is_running
  /\ pwm_on' = TRUE
  /\ UNCHANGED <<is_running, duty, first_flag, output, drives>>
  /\ EndRun

(* MOTOR_RUN or MOTOR_BREAK on a stopped motor: only the counters start, on
   whatever compare values the motor was stopped with.                       *)
Start ==
  /\ motor_pc \in {"run", "brake"}
  /\ ~is_running
  /\ pwm_on' = TRUE
  /\ is_running' = TRUE
  /\ UNCHANGED <<duty, first_flag, output, drives>>
  /\ EndRun

(* Slip: the compare value is written as it comes. *)
SlipNoClamp(v) == v

(* SetPWM clamps to the reload value. *)
Clamp(v) == IF v > Load THEN Load ELSE v

(* SetOutput: one leg per direction, the other one at zero. *)
Legs(out) == IF out >= 0 THEN [leg \in {0, 1} |-> IF leg = 0 THEN Clamp(out) ELSE 0]
                         ELSE [leg \in {0, 1} |-> IF leg = 0 THEN 0 ELSE Clamp(-out)]

(* PIDCalculate: the first call after a clear leaves Output as it is; any other
   yields a value limited to MaxOut.                                           *)
PIDOutputs == IF first_flag THEN -MaxOut .. MaxOut ELSE {output}

(* MOTOR_RUN on a running motor: Run. *)
Drive ==
  /\ motor_pc = "run"
  /\ is_running
  /\ output' \in PIDOutputs
  /\ first_flag' = TRUE
  /\ duty' = Legs(output')
  /\ drives' = CapTwo(drives)
  /\ UNCHANGED <<is_running, pwm_on>>
  /\ EndRun

(* MOTOR_BREAK on a running motor: Break, 0xFFFFFFFF clamped on both legs. *)
Break ==
  /\ motor_pc = "brake"
  /\ is_running
  /\ duty' = Braked
  /\ PIDClear
  /\ UNCHANGED <<is_running, pwm_on>>
  /\ EndRun

MotorTask_Run == ReadStatus \/ Stop \/ Start \/ Drive \/ Break

--------------------------------------------------------------------------------
(* Commands. *)

(* The status half of a command; 0b10 changes nothing. *)
TakeStatus(code) ==
  /\ status' = IF code = "keep" THEN status ELSE code
  /\ told_status' = status'
  /\ steady' = IF status' = status THEN steady ELSE 0

(* CommTask_CAN_Decode in the receive interrupt: three frames are counted, from
   the fourth on CAN is in charge, and three bytes make a command.             *)
CAN_Decode(c, three_bytes) ==
  /\ can_counter' = IF can_counter < 3 THEN can_counter + 1 ELSE can_counter
  /\ comm_mode' = (comm_mode \/ can_counter = 3)
  /\ IF comm_mode' /\ three_bytes
     THEN /\ TakeStatus(c.status)
          /\ set_omega' = c.omega
          /\ told_omega' = c.omega
          /\ torn' = (comm_pc = "speed")
          /\ cut_omega' = IF comm_pc = "speed" THEN pending.omega ELSE cut_omega
     ELSE UNCHANGED <<commandVars, steady>>
  /\ UNCHANGED <<powerVars, set_value_mode, motor_pc, comm_pc, pending>>

(* Slip: the speed is written first, the status after it. *)
SlipStatusLast(c) ==
  /\ CommMayRun
  /\ \/ /\ comm_pc = "ready" /\ comm_pc' = "speed"
        /\ pending' = c
        /\ set_omega' = c.omega
        /\ told_omega' = c.omega
        /\ told_status' = IF c.status = "keep" THEN status ELSE c.status
        /\ torn' = FALSE
        /\ UNCHANGED <<status, cut_omega, steady>>
     \/ /\ comm_pc = "speed" /\ comm_pc' = "tail"
        /\ c = pending
        /\ status' = IF c.status = "keep" THEN status ELSE c.status
        /\ steady' = IF status' = status THEN steady ELSE 0
        /\ pending' = NoCommand
        /\ UNCHANGED <<set_omega, told_status, told_omega, torn, cut_omega>>
  /\ UNCHANGED <<powerVars, modeVars, motor_pc>>

(* A DRIVE frame for this slave with three bytes: the status, then the speed. *)
Uart_SetSpeed(c) ==
  /\ CommMayRun
  /\ \/ /\ comm_pc = "ready" /\ comm_pc' = "speed"
        /\ pending' = c
        /\ TakeStatus(c.status)
        /\ told_omega' = c.omega
        /\ torn' = FALSE
        /\ UNCHANGED <<set_omega, cut_omega>>
     \/ /\ comm_pc = "speed" /\ comm_pc' = "tail"
        /\ c = pending
        /\ set_omega' = c.omega
        /\ pending' = NoCommand
        /\ UNCHANGED <<status, told_status, told_omega, torn, cut_omega, steady>>
  /\ UNCHANGED <<powerVars, modeVars, motor_pc>>

--------------------------------------------------------------------------------
(* The rest of a turn of CommTask. *)

Turn(from, to) ==
  /\ CommMayRun
  /\ comm_pc \in from /\ comm_pc' \in to
  /\ UNCHANGED <<commandVars, powerVars, comm_mode, can_counter, motor_pc,
                 pending, steady>>

(* No frame, or one that is not acted upon. *)
NoFrame == Turn({"ready"}, {"tail"}) /\ UNCHANGED set_value_mode

(* ACK: TransmitDMA waits, 5 ms at a time, for the transmission before it. *)
Ack == Turn({"ready"}, {"tail", "wait"}) /\ UNCHANGED set_value_mode

SetMode == Turn({"ready"}, {"tail"}) /\ set_value_mode' = TRUE

(* TRANSMIT in set mode: a bad CRC ends the mode and is answered, a good one is
   written to the EEPROM.                                                       *)
TransmitBad ==
  /\ set_value_mode
  /\ Turn({"ready"}, {"tail", "wait"})
  /\ set_value_mode' = FALSE

TransmitGood ==
  /\ set_value_mode
  /\ Turn({"ready"}, {"save"})
  /\ UNCHANGED set_value_mode

WaitEnds == Turn({"wait"}, {"tail"}) /\ UNCHANGED set_value_mode

(* The UART feedback may wait for the transmitter; CAN's does not. *)
Feedback ==
  /\ ~comm_mode
  /\ Turn({"tail"}, {"send"})
  /\ UNCHANGED set_value_mode

(* Slip: the turn ends without a vTaskDelay. *)
SlipNoDelay == Turn({"tail", "send"}, {"ready"}) /\ UNCHANGED set_value_mode

(* The end of the turn: vTaskDelay(1), or a confirmed key setting is saved. *)
EndTurn == Turn({"tail", "send"}, {"sleep"}) /\ UNCHANGED set_value_mode
KeySetSave == Turn({"tail", "send"}, {"save"}) /\ UNCHANGED set_value_mode

(* NVIC_SystemReset, which every save that ends ends in. *)
Reset ==
  /\ comm_pc = "save"
  /\ status' = "idle" /\ set_omega' = Rest
  /\ is_running' = FALSE /\ pwm_on' = FALSE /\ duty' = Off
  /\ first_flag' = FALSE /\ output' = 0
  /\ comm_mode' = FALSE /\ can_counter' = 0 /\ set_value_mode' = FALSE
  /\ motor_pc' = "ready" /\ comm_pc' = "ready" /\ pending' = NoCommand
  /\ told_status' = "idle" /\ told_omega' = Rest /\ torn' = FALSE
  /\ cut_omega' = Rest
  /\ steady' = 0 /\ drives' = 0

CommTask ==
  \/ NoFrame   \/ Ack          \/ SetMode
  \/ TransmitBad \/ TransmitGood
  \/ WaitEnds  \/ Feedback     \/ EndTurn
  \/ KeySetSave
  \/ \E c \in Commands : Uart_SetSpeed(c)

(* The busy-waits of CommTask, during which no other task runs. *)
Busy == {"wait", "send", "save"}

(* The 1 kHz tick wakes the tasks. Work that does not wait fits into a tick. *)
Tick ==
  /\ comm_pc \in Busy \/ (comm_pc = "sleep" /\ motor_pc = "sleep")
  /\ motor_pc' = "ready"
  /\ comm_pc' = IF comm_pc = "sleep" THEN "ready" ELSE comm_pc
  /\ UNCHANGED <<commandVars, powerVars, modeVars, pending, steady>>

CANInterrupt == \E c \in Commands, three_bytes \in BOOLEAN : CAN_Decode(c, three_bytes)

Next == MotorTask_Run \/ CommTask \/ CANInterrupt \/ Tick \/ Reset

(* Ticks and tasks go on, and the waits of TransmitDMA are bounded by ten rounds;
   nothing obliges a command to come or an EEPROM to answer.                     *)
Spec ==
  /\ Init /\ [][Next]_vars
  /\ WF_vars(MotorTask_Run) /\ WF_vars(CommTask) /\ WF_vars(Tick)

--------------------------------------------------------------------------------
(* Properties. *)

(* The variables keep their ranges: no compare value passes the reload value
   whatever MaxOut was stored, the output keeps to MaxOut, and the processor is
   never in two tasks at once.                                                  *)
TypeOK ==
  /\ status \in Statuses /\ set_omega \in Omegas
  /\ is_running \in BOOLEAN /\ pwm_on \in BOOLEAN
  /\ duty \in [{0, 1} -> 0 .. Load]
  /\ first_flag \in BOOLEAN /\ output \in -MaxOut .. MaxOut
  /\ comm_mode \in BOOLEAN /\ can_counter \in 0 .. 3 /\ set_value_mode \in BOOLEAN
  /\ motor_pc \in {"sleep", "ready"} \cup Statuses
  /\ comm_pc \in {"sleep", "ready", "speed", "tail", "wait", "send", "save"}
  /\ MotorMayRun \/ CommMayRun
  /\ pending \in Commands
  /\ told_status \in Statuses /\ told_omega \in Omegas
  /\ torn \in BOOLEAN /\ cut_omega \in Omegas
  /\ steady \in 0 .. 2 /\ drives \in 0 .. 2

(* Two runs of MotorTask after the status last changed the motor does what it
   says, whatever it was doing and whenever the change fell: off, driven by the
   controller's present output on one leg, or braked on both.                   *)
RealisedInTwoRuns ==
  /\ status = "idle" /\ steady >= 1 => ~pwm_on
  /\ status = "run" /\ steady >= 2 => pwm_on /\ duty = Legs(output)
  /\ status = "brake" /\ steady >= 2 => pwm_on /\ duty = Braked

(* However a stop, a brake or a reset interrupts it, the controller's first
   output after it is zero on both legs: nothing integrated before comes back
   as a kick.                                                                 *)
SoftStart == drives = 1 => duty = Off

(* The status is that of the command that arrived last, although a UART command
   is written in two parts and a CAN command may fall between them.  So is the
   speed, until the UART command it fell into goes on: from then to the next
   command the motor obeys the CAN command's status at the UART command's speed,
   and no other mixture of two commands ever governs it.                         *)
LastCommandGoverns ==
  /\ status = told_status
  /\ (torn <=> comm_pc = "speed") => set_omega = told_omega
  /\ torn /\ comm_pc # "speed" => set_omega = cut_omega

(* A command that stays is carried out for good, unless a save goes on for ever:
   the scheduling starves neither task.                                          *)
StatusRealised ==
  <>[](comm_pc # "save") =>
    /\ <>[](status = "idle")  => <>[](~pwm_on)
    /\ <>[](status = "run")   => <>[](pwm_on /\ duty = Legs(output))
    /\ <>[](status = "brake") => <>[](pwm_on /\ duty = Braked)
================================================================================
