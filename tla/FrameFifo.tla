------------------------------- MODULE FrameFifo -------------------------------
(***************************************************************************)
(* What the UART receive queue promises the communication task: frames     *)
(* come out in the order they came in, each at most once, and one is lost  *)
(* only in the two ways the code decides to lose it:                       *)
(*   - a frame that arrives at a full queue is lost, and the oldest frame  *)
(*     is lost with it;                                                    *)
(*   - the frame behind one that does not decode is lost with it.          *)
(*                                                                         *)
(* The promise is void once the receive interrupt has landed inside the    *)
(* few instructions of a Drop that it is not protected against: `torn'     *)
(* then holds for ever and the rest may do anything.                       *)
(***************************************************************************)
EXTENDS Naturals, Sequences

CONSTANTS
  QueueSize,   \* capacity of the queue, in frames
  Frames,      \* the frames a master may send
  Malformed,   \* those of them that MotorUartSlave_Decode refuses
  NoFrame      \* no frame

VARIABLES
  fifo,    \* the frames received and not yet handed over, oldest first
  taken,   \* the frame the communication task is working on, or NoFrame
  torn     \* an interrupt has landed in an unprotected window

absVars == <<fifo, taken, torn>>

Init ==
  /\ fifo = <<>>
  /\ taken = NoFrame
  /\ torn = FALSE

(* A frame arrives: it is queued, or both it and the oldest are lost. *)
Arrive(f) ==
  /\ fifo' = IF Len(fifo) < QueueSize THEN Append(fifo, f) ELSE Tail(fifo)
  /\ UNCHANGED <<taken, torn>>

(* The task takes the oldest frame. *)
Take ==
  /\ taken = NoFrame
  /\ fifo # <<>>
  /\ taken' = Head(fifo)
  /\ fifo' = Tail(fifo)
  /\ UNCHANGED torn

(* The task is done with a frame that decoded. *)
Finish ==
  /\ taken \in Frames \ Malformed
  /\ taken' = NoFrame
  /\ UNCHANGED <<fifo, torn>>

(* A malformed frame takes the one behind it, if there is one, with it. *)
Discard ==
  /\ taken \in Malformed
  /\ taken' = NoFrame
  /\ fifo' = IF fifo = <<>> THEN fifo ELSE Tail(fifo)
  /\ UNCHANGED torn

(* The interrupt lands in an unprotected window. *)
Tear == torn' = TRUE

Next ==
  \/ ~torn /\ (\/ \E f \in Frames : Arrive(f)
               \/ Take
               \/ Finish
               \/ Discard)
  \/ Tear

Spec == Init /\ [][Next]_absVars
================================================================================
