------------------------------- MODULE FrameQueue ------------------------------
(***************************************************************************)
(* The UART receive path: CommTask_UartRXCallback (an interrupt) adds each *)
(* frame to an EF_Algorithm_Queue_t that CommTask_Uart_SetValue (a task)   *)
(* drains, with nothing masking the interrupt while the task is in Drop.   *)
(*                                                                         *)
(* An interrupt runs to completion between two steps of the task, so Add   *)
(* is one action.  The task's Drop is cut where the interrupt can tell:    *)
(* the copy of the frame, and the load and the store of `length--' and of  *)
(* `pointer_index++'.                                                      *)
(***************************************************************************)
EXTENDS Naturals, Sequences

CONSTANTS
  QueueSize,   \* capacity of the queue (4 in CommTask_Init)
  Frames,      \* the frames of nine bytes or more that may arrive
  Malformed,   \* those of them that MotorUartSlave_Decode refuses
  NoFrame,     \* the contents of a slot never written; no frame
  MaxU16,      \* the largest uint16_t, the type of the two indices (65535)
  MaxRx        \* bound: frames received in a behaviour

(* A queue of one could be emptied by the interrupt between the task's test of
   length and its copy; the indices are uint16_t.                             *)
ASSUME QueueAssumption ==
  /\ QueueSize \in Nat
  /\ MaxU16 \in Nat
  /\ 2 <= QueueSize /\ QueueSize <= MaxU16
  /\ Malformed \subseteq Frames
  /\ NoFrame \notin Frames
  /\ MaxRx \in Nat

VARIABLES
  length,         \* self->length
  header_index,   \* self->header_index, where the newest frame is
  pointer_index,  \* self->pointer_index, where the oldest frame is
  buffer,         \* self->buffer_ptr, one frame per slot
  pc,             \* where CommTask_Uart_SetValue stands
  purge,          \* the Drop in progress is the Drop(NULL) of a failed decode
  reg,            \* the register of the load/store in progress
  frame,          \* the local frame[] of CommTask_Uart_SetValue
  torn,           \* history: an interrupt has landed in an unprotected window
  rx              \* frames received so far

queueVars == <<length, header_index, pointer_index, buffer>>
taskVars  == <<pc, purge, reg, frame>>
vars      == <<length, header_index, pointer_index, buffer,
               pc, purge, reg, frame, torn, rx>>

Slots == 0 .. QueueSize - 1

(* `if (++i >= queue_size) i = 0' on a sum of at most 2 * QueueSize - 1. *)
Wrap(i) == IF i >= QueueSize THEN i - QueueSize ELSE i

(* header_index starts as (uint16_t)-1: incrementing it wraps to slot 0. *)
NextHeader ==
  LET next == IF header_index = MaxU16 THEN 0 ELSE header_index + 1
  IN  IF next >= QueueSize THEN 0 ELSE next

Init ==
  /\ length = 0
  /\ header_index = MaxU16
  /\ pointer_index = 0
  /\ buffer = [s \in Slots |-> NoFrame]
  /\ pc = "idle"
  /\ purge = FALSE
  /\ reg = 0
  /\ frame = NoFrame
  /\ torn = FALSE
  /\ rx = 0

--------------------------------------------------------------------------------
(* The interrupt. *)

(* Slip: the capacity test is one too late. *)
SlipFullTooLate == length > QueueSize

Full == length >= QueueSize

(* The three places of a Drop in which the interrupt's own change is undone
   or doubled: the frame just copied is dropped again, the store of length
   erases a change of it, the store of pointer_index erases one.            *)
Unprotected ==
  \/ pc = "load" /\ ~purge /\ Full
  \/ pc = "store"
  \/ pc = "ptr_store" /\ Full

(* Slip: the overflow adjusts the count and forgets the index. *)
SlipOverflowKeepsPointer ==
  /\ Full
  /\ length' = length - 1
  /\ UNCHANGED <<header_index, pointer_index, buffer>>

(* Add on a full queue: Drop(NULL), and the new frame is refused as well. *)
AddFull ==
  /\ Full
  /\ length' = length - 1
  /\ pointer_index' = Wrap(pointer_index + 1)
  /\ UNCHANGED <<header_index, buffer>>

(* Slip: the frame is written before the index moves (index++ for ++index). *)
SlipWriteThenAdvance(f) ==
  /\ ~Full
  /\ length' = length + 1
  /\ header_index' = NextHeader
  /\ buffer' = [buffer EXCEPT ![IF header_index \in Slots THEN header_index ELSE 0] = f]
  /\ UNCHANGED pointer_index

(* Add with room. *)
AddRoom(f) ==
  /\ ~Full
  /\ length' = length + 1
  /\ header_index' = NextHeader
  /\ buffer' = [buffer EXCEPT ![NextHeader] = f]
  /\ UNCHANGED pointer_index

(* The receive interrupt for one frame of legal length. *)
UartRXCallback(f) ==
  /\ rx < MaxRx
  /\ rx' = rx + 1
  /\ AddFull \/ AddRoom(f)
  /\ torn' = (torn \/ Unprotected)
  /\ UNCHANGED taskVars

--------------------------------------------------------------------------------
(* The task. *)

Go(from, to) == pc = from /\ pc' = to

(* Slip: the last frame is left in the queue. *)
SlipLeaveOne ==
  /\ Go("idle", "copy")
  /\ length > 1
  /\ UNCHANGED <<queueVars, purge, reg, frame, torn, rx>>

(* CommTask_Uart_SetValue finds `length > 0' and calls Drop(frame). *)
Begin ==
  /\ Go("idle", "copy")
  /\ length > 0
  /\ UNCHANGED <<queueVars, purge, reg, frame, torn, rx>>

(* Drop: memcpy of the oldest frame. *)
Copy ==
  /\ Go("copy", "load")
  /\ frame' = buffer[pointer_index]
  /\ UNCHANGED <<queueVars, purge, reg, torn, rx>>

(* Drop: self->length-- *)
LoadLength ==
  /\ Go("load", "store")
  /\ reg' = length
  /\ UNCHANGED <<queueVars, purge, frame, torn, rx>>

StoreLength ==
  /\ Go("store", "ptr_load")
  /\ length' = reg - 1
  /\ UNCHANGED <<header_index, pointer_index, buffer, purge, reg, frame, torn, rx>>

(* Drop: self->pointer_index++ and its wrap. *)
LoadPointer ==
  /\ Go("ptr_load", "ptr_store")
  /\ reg' = pointer_index
  /\ UNCHANGED <<queueVars, purge, frame, torn, rx>>

StorePointer ==
  /\ pc = "ptr_store"
  /\ pointer_index' = Wrap(reg + 1)
  /\ pc' = IF purge THEN "idle" ELSE "decode"
  /\ purge' = FALSE
  /\ frame' = IF purge THEN NoFrame ELSE frame
  /\ reg' = 0
  /\ UNCHANGED <<length, header_index, buffer, torn, rx>>

(* A slot never written holds no header, so it does not decode either. *)
Decodes(f) == f \in Frames \ Malformed

(* The frame decodes and is acted upon (elsewhere). *)
DecodeGood ==
  /\ Go("decode", "idle")
  /\ Decodes(frame)
  /\ frame' = NoFrame
  /\ UNCHANGED <<queueVars, purge, reg, torn, rx>>

(* It does not: Drop(NULL), which gives up at once on an empty queue. *)
DecodeBad ==
  /\ pc = "decode"
  /\ ~Decodes(frame)
  /\ pc' = IF length = 0 THEN "idle" ELSE "load"
  /\ purge' = (length # 0)
  /\ frame' = IF length = 0 THEN NoFrame ELSE frame
  /\ UNCHANGED <<queueVars, reg, torn, rx>>

CommTask ==
  \/ Begin       \/ Copy
  \/ LoadLength  \/ StoreLength
  \/ LoadPointer \/ StorePointer
  \/ DecodeGood  \/ DecodeBad

Next ==
  \/ \E f \in Frames : UartRXCallback(f)
  \/ CommTask

(* The task is scheduled every tick; nothing obliges a frame to arrive. *)
Spec == Init /\ [][Next]_vars /\ WF_vars(CommTask)

--------------------------------------------------------------------------------
(* Properties. *)

(* The variables keep their ranges, however interrupts and task interleave: in
   particular length, of which two contexts do unprotected read-modify-writes,
   never goes negative or past the capacity, so Drop never reads and Add never
   writes outside the buffer.                                                  *)
TypeOK ==
  /\ length \in 0 .. QueueSize
  /\ header_index \in Slots \cup {MaxU16}
  /\ pointer_index \in Slots
  /\ buffer \in [Slots -> Frames \cup {NoFrame}]
  /\ pc \in {"idle", "copy", "load", "store", "ptr_load", "ptr_store", "decode"}
  /\ purge \in BOOLEAN
  /\ reg \in 0 .. QueueSize
  /\ frame \in Frames \cup {NoFrame}
  /\ torn \in BOOLEAN
  /\ rx \in 0 .. MaxRx

(* The slot after the newest frame is `length' slots on from the oldest: the
   index the interrupt owns, the index the task owns and the counter they share
   say the same thing.                                                         *)
RingConsistent ==
  NextHeader = Wrap((IF pc \in {"ptr_load", "ptr_store"}
                     THEN Wrap(pointer_index + 1)
                     ELSE pointer_index) + length)

(* Unless an interrupt has landed in one of the three unprotected windows, the
   ring is consistent at every step of either context.                         *)
RingExactUnlessTorn == ~torn => RingConsistent

(* The frames not yet handed over: what the promise calls fifo. A Drop with a
   destination takes effect at its copy, one without at its store of length.   *)
HandedOver == pc \in {"load", "store"} /\ ~purge

Pending ==
  LET oldest == IF HandedOver \/ pc \in {"ptr_load", "ptr_store"}
                THEN pointer_index + 1 ELSE pointer_index
  IN  [i \in 1 .. (IF HandedOver THEN length - 1 ELSE length) |->
         buffer[(oldest + i - 1) % QueueSize]]

(* The queue keeps the promise of FrameFifo: order, no duplicates, no loss but
   the two the code intends, as long as no window has been hit.                *)
Fifo == INSTANCE FrameFifo WITH
          fifo  <- Pending,
          taken <- IF purge /\ pc \in {"ptr_load", "ptr_store"}
                   THEN NoFrame ELSE frame
KeepsFifoPromise == Fifo!Spec

(* When the master stops sending, the task drains the queue and rests: no
   interleaving leaves a count that is never worked off.                       *)
Drained == <>[](length = 0 /\ pc = "idle")
================================================================================
