---------------------------------- MODULE CanRx --------------------------------
(***************************************************************************)
(* CAN reception: the controller stores a frame in receive FIFO 0 and      *)
(* raises RF0N; CANFD0_IRQHandler calls RX_Callback, which empties the     *)
(* FIFO, and clears the flag AFTERWARDS, whether or not another frame has  *)
(* raised it since.  A frame for this module counts towards the switch to  *)
(* CAN mode; what it commands is MotorControl's subject.                   *)
(***************************************************************************)
EXTENDS Naturals

CONSTANT CanFifo   \* frames that receive FIFO 0 holds

ASSUME CanAssumption == CanFifo \in Nat \ {0}

VARIABLES
  fifo,          \* fillLvl of receive FIFO 0
  rf0n,          \* the new-message flag, which requests the interrupt
  irq,           \* CANFD0_IRQHandler: "none", "drain" or "clear"
  can_counter,   \* comm_task.can_counter
  comm_mode,     \* comm_task.comm_mode: "uart" (0) or "can" (1)
  hit            \* history: frames whose flag was cleared unseen

canVars == <<fifo, rf0n, irq, can_counter, comm_mode, hit>>

CanInit ==
  /\ fifo = 0 /\ rf0n = FALSE /\ irq = "none"
  /\ can_counter = 0 /\ comm_mode = "uart"
  /\ hit = 0

(* The controller stores a frame.  One that finds the FIFO full is lost, and
   nothing is told of it: RF0L is not among the enabled interrupts, and RF0N is
   for frames that were stored.                                              *)
Arrive ==
  /\ fifo < CanFifo
  /\ fifo' = fifo + 1
  /\ rf0n' = TRUE
  /\ hit' = IF irq = "clear" THEN hit + 1 ELSE hit
  /\ UNCHANGED <<irq, can_counter, comm_mode>>

IrqEnter ==
  /\ irq = "none" /\ rf0n
  /\ irq' = "drain"
  /\ hit' = 0
  /\ UNCHANGED <<fifo, rf0n, can_counter, comm_mode>>

(* CommTask_CAN_Decode: the fourth frame makes it CAN mode, for good. *)
CanDecode ==
  IF can_counter < 3
  THEN can_counter' = can_counter + 1 /\ UNCHANGED comm_mode
  ELSE comm_mode' = "can" /\ UNCHANGED can_counter

(* One turn of the loop: DecodeData looks at the ID, the frame is acknowledged. *)
DrainOne(mine) ==
  /\ irq = "drain" /\ fifo > 0
  /\ IF mine THEN CanDecode ELSE UNCHANGED <<can_counter, comm_mode>>
  /\ fifo' = fifo - 1
  /\ UNCHANGED <<rf0n, irq, hit>>

(* Slip: one frame an interrupt. *)
SlipOneFrame ==
  /\ irq = "drain"
  /\ irq' = "clear"
  /\ UNCHANGED <<fifo, rf0n, can_counter, comm_mode, hit>>

(* The last look at fillLvl. *)
Drained ==
  /\ irq = "drain" /\ fifo = 0
  /\ irq' = "clear"
  /\ UNCHANGED <<fifo, rf0n, can_counter, comm_mode, hit>>

ClearFlag ==
  /\ irq = "clear"
  /\ rf0n' = FALSE
  /\ irq' = "none"
  /\ UNCHANGED <<fifo, can_counter, comm_mode, hit>>

CanReception == Arrive \/ IrqEnter \/ (\E mine \in BOOLEAN : DrainOne(mine))
                \/ Drained \/ ClearFlag

--------------------------------------------------------------------------------
CanTypeOK ==
  /\ fifo \in 0 .. CanFifo
  /\ rf0n \in BOOLEAN /\ hit \in 0 .. CanFifo
  /\ irq \in {"none", "drain", "clear"}
  /\ can_counter \in 0 .. 3
  /\ comm_mode \in {"uart", "can"}

(* The frames that wait in the FIFO with no interrupt asked for are exactly those
   that arrived between the last look at the FIFO and the clearing of the flag;
   they then wait for the next frame.  Any other frame is taken by an interrupt
   of its own or by the loop of an earlier one.                                 *)
NoFrameStrands == irq = "none" /\ ~rf0n => fifo = hit
================================================================================
