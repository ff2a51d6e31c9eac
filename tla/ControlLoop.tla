------------------------------- MODULE ControlLoop -----------------------------
(***************************************************************************)
(* What MotorTask_Run computes in one turn: the time since the last turn,  *)
(* the speed from the pulses the encoder counted, and the controller's     *)
(* output.  When it drives, brakes or stops is MotorControl's subject;     *)
(* here the command is any.                                                *)
(*                                                                         *)
(* No other task runs within a turn, but the time and the encoder go on:   *)
(* a turn is cut at each read and write of a counter.  Numbers are in      *)
(* counts and pulses, gains are left open: the terms of the controller are *)
(* any of a set.                                                           *)
(***************************************************************************)
EXTENDS SysTime

CONSTANTS
  Seconds,        \* the float of a count: the count, rounded
  QeiLoad,        \* LOAD of the encoder's counter, which runs in 0 .. QeiLoad
  Base,           \* base_load, put there after each reading
  IntegralLimit, MaxOut,
  Terms           \* values of Pout + Dout, and of ITerm

Moments == 0 .. (MaxLaps + 1) * CountMax

ASSUME LoopAssumption ==
  /\ Seconds \in [Moments -> Int]
  /\ QeiLoad \in Nat /\ Base \in Nat /\ 0 < Base /\ 2 * Base <= QeiLoad
  /\ IntegralLimit \in Nat /\ MaxOut \in Nat
  /\ Terms \subseteq Int

VARIABLES
  pc,                      \* where MotorTask_Run stands
  time_line, dt,           \* of motor_task
  is_running,              \* motor_task.is_running: the encoder counts
  ctr,                     \* the encoder's counter
  delta,                   \* qei_encoder.delta, the last reading
  first_flag, Iout, Output,        \* of omega_pid
  moved,                   \* history: pulses since the last reading
  slipped,                 \* history: those of them before the counter was put back
  known,                   \* history: ctr has been at Base since it was enabled
  read_line,               \* history: the time line of the last reading
  paused                   \* history: the motor was braked or stopped since then

loopVars == <<time_line, dt, read_line>>
qeiVars  == <<ctr, delta, moved, slipped, known>>
pidVars  == <<first_flag, Iout, Output>>
vars == <<cnt, CYCCNT_LAST, CYCCNT_RountCount, cnt_now, laps, cnt_laps,
          pc, time_line, dt, is_running, ctr, delta, first_flag, Iout, Output,
          moved, slipped, known, read_line, paused>>

Init ==
  /\ TimeInit
  /\ pc = "sleep"
  /\ time_line = Seconds[0] /\ dt = 0
  /\ is_running = FALSE
  /\ ctr = 0 /\ delta = 0
  /\ first_flag = FALSE /\ Iout = 0 /\ Output = 0
  /\ moved = 0 /\ slipped = 0 /\ known = FALSE
  /\ read_line = Seconds[0] /\ paused = TRUE

--------------------------------------------------------------------------------
(* The hardware, and the other tasks. *)

TimePasses ==
  /\ Count
  /\ UNCHANGED <<roundVars, readVars, pc, loopVars, is_running, qeiVars, pidVars, paused>>

(* Base pulses at most come between two readings, and between one and the putting
   back of the counter by the one before.                                        *)
Pulse(step) ==
  /\ is_running
  /\ moved' = moved + step
  /\ slipped' = IF pc = "reset" THEN slipped + step ELSE slipped
  /\ moved' \in -Base .. Base /\ moved' - slipped' \in -Base .. Base
  /\ ctr' = LET next == ctr - step
            IN  IF next < 0 THEN QeiLoad ELSE IF next > QeiLoad THEN 0 ELSE next
  /\ UNCHANGED <<timeVars, pc, loopVars, is_running, delta, pidVars, known, paused>>

(* CommTask asks for the time, too. *)
OthersUpdate ==
  /\ pc = "sleep"
  /\ CNT_Update
  /\ UNCHANGED <<counterVars, readVars, pc, loopVars, is_running, qeiVars, pidVars, paused>>

--------------------------------------------------------------------------------
(* The time since the last turn. *)

ReadTime ==
  /\ pc = "sleep"
  /\ ReadCount
  /\ pc' = "update"
  /\ UNCHANGED <<counterVars, roundVars, loopVars, is_running, qeiVars, pidVars, paused>>

UpdateTime ==
  /\ pc = "update"
  /\ CNT_Update
  /\ time_line' = Seconds[Count64]
  /\ dt' = time_line' - time_line
  /\ pc' = "act"
  /\ UNCHANGED <<counterVars, readVars, read_line, is_running, qeiVars, pidVars, paused>>

--------------------------------------------------------------------------------
(* The branches of MotorTask_Run. *)

(* PIDClear *)
ClearPID == first_flag' = FALSE /\ Iout' = 0 /\ Output' = 0

Stop ==
  /\ pc = "act"
  /\ is_running' = FALSE
  /\ ClearPID
  /\ paused' = TRUE
  /\ pc' = "sleep"
  /\ UNCHANGED <<timeVars, loopVars, qeiVars>>

(* Enabling the counter keeps its value or loads it: the timer's CVAE setting is
   left to the driver library.                                                  *)
Start ==
  /\ pc = "act" /\ ~is_running
  /\ is_running' = TRUE
  /\ \/ UNCHANGED <<ctr, known>>
     \/ ctr' \in {0, QeiLoad} /\ known' = FALSE
  /\ pc' = "sleep"
  /\ UNCHANGED <<timeVars, loopVars, delta, moved, slipped, pidVars, paused>>

Break ==
  /\ pc = "act" /\ is_running
  /\ ClearPID
  /\ paused' = TRUE
  /\ pc' = "sleep"
  /\ UNCHANGED <<timeVars, loopVars, is_running, qeiVars>>

(* Slip: the pulses are taken, and dropped, before dt is looked at. *)
SlipReadAnyway ==
  /\ pc = "act" /\ is_running /\ dt = 0
  /\ ctr' = Base
  /\ pc' = "pid"
  /\ UNCHANGED <<timeVars, loopVars, is_running, delta, moved, slipped, known, pidVars,
                 paused>>

(* getSpeed with dt = 0 reads nothing; the speed of the last turn stands. *)
NoTime ==
  /\ pc = "act" /\ is_running /\ dt = 0
  /\ pc' = "pid"
  /\ UNCHANGED <<timeVars, loopVars, is_running, qeiVars, pidVars, paused>>

(* getDelta reads the counter ... *)
ReadPulses ==
  /\ pc = "act" /\ is_running /\ dt # 0
  /\ delta' = Base - ctr
  /\ moved' = 0 /\ slipped' = 0
  /\ read_line' = time_line
  /\ paused' = FALSE
  /\ pc' = "reset"
  /\ UNCHANGED <<timeVars, time_line, dt, is_running, ctr, known, pidVars>>

(* ... and puts it back to Base; a pulse in between is lost. *)
ResetPulses ==
  /\ pc = "reset"
  /\ ctr' = Base /\ known' = TRUE
  /\ pc' = "pid"
  /\ UNCHANGED <<timeVars, loopVars, is_running, delta, moved, slipped, pidVars, paused>>

--------------------------------------------------------------------------------
(* PIDCalculate, with PID_Integral_Limit and PID_OutputFilter. *)

Abs(x) == IF x < 0 THEN -x ELSE x

Within(x, limit) == IF x > limit THEN limit ELSE IF x < -limit THEN -limit ELSE x

(* Slip: the limit looks at the integral before the new term. *)
SlipLimitFirst(push, term, err) == Within(Iout, IntegralLimit) + term

(* f_Integral_Limit, then Iout += ITerm: no more of the same sign for an output
   beyond its limit, and never beyond a limit of its own.                      *)
Integral(push, term, err) ==
  LET sum == Iout + term
  IN  IF Abs(sum) <= IntegralLimit /\ Abs(push + Iout) > MaxOut /\ err * Iout > 0
      THEN Iout ELSE Within(sum, IntegralLimit)

Between(a, b) == IF a <= b THEN a .. b ELSE b .. a

Calculate(push, term, err) ==
  /\ Iout' = Integral(push, term, err)
  /\ \E filtered \in Between(push + Iout', Output) :
       Output' = Within(filtered, MaxOut)

(* Within the dead band the output is zero; the integral stays. *)
DeadBand == Output' = 0 /\ UNCHANGED Iout

(* The first call only takes the time. *)
PIDCalculate ==
  /\ pc = "pid"
  /\ CNT_Update
  /\ first_flag' = TRUE
  /\ IF ~first_flag THEN UNCHANGED <<Iout, Output>>
     ELSE \/ DeadBand
          \/ \E push, term \in Terms, err \in {-1, 1} : Calculate(push, term, err)
  /\ pc' = "sleep"
  /\ UNCHANGED <<counterVars, readVars, loopVars, is_running, qeiVars, paused>>

MotorTask ==
  ReadTime \/ UpdateTime \/ Stop \/ Start \/ Break
  \/ NoTime \/ ReadPulses \/ ResetPulses \/ PIDCalculate

Next == TimePasses \/ (\E step \in {-1, 1} : Pulse(step)) \/ OthersUpdate \/ MotorTask

Spec == Init /\ [][Next]_vars

--------------------------------------------------------------------------------
(* Properties. *)

(* The variables keep their ranges, which for the integral and the output of the
   controller are the limits they are configured with.                         *)
TypeOK ==
  /\ TimeTypeOK
  /\ pc \in {"sleep", "update", "act", "reset", "pid"}
  /\ time_line \in Int /\ dt \in Int /\ read_line \in Int
  /\ is_running \in BOOLEAN /\ known \in BOOLEAN /\ paused \in BOOLEAN
  /\ ctr \in 0 .. QeiLoad /\ delta \in -QeiLoad .. QeiLoad
  /\ moved \in -Base .. Base /\ slipped \in -Base .. Base
  /\ first_flag \in BOOLEAN
  /\ Iout \in -IntegralLimit .. IntegralLimit
  /\ Output \in -MaxOut .. MaxOut

(* The time line is the time counted, less one count a wrap (for which the source
   takes UINT32_MAX) -- or it is a whole wrap ahead, when the counter wrapped
   between the two reads of one call.                                            *)
TimeIsTrue ==
  [][UpdateTime => \/ time_line' = Seconds[cnt_laps * CountMax + cnt_now]
                   \/ /\ laps = cnt_laps + 1
                      /\ time_line' = Seconds[(cnt_laps + 1) * CountMax + cnt_now]]_vars

(* A reading of the encoder counts every pulse since the reading before it but for
   those that fell before that one put the counter back, and dt is the time
   between the two, turns with dt = 0 in between or not -- but the first pulses
   after the counter was enabled count from wherever it stood, and after a pause
   they are divided by the time of the last turn alone.                           *)
SpeedIsTrue ==
  [][ReadPulses => /\ known => delta' = moved - slipped
                   /\ ~paused => dt = time_line - read_line]_vars
================================================================================
