-------------------------------- MODULE CommLink -------------------------------
(***************************************************************************)
(* One turn of CommTask as the host sees it: a request is taken from the   *)
(* UART queue and answered, feedback goes out by CAN or by UART when the   *)
(* counter comes round, and every answer is encoded in the one buffer that *)
(* the DMA may still be sending from.  The CAN interrupt (CanRx) falls     *)
(* between any two steps, and may switch the mode there.                   *)
(*                                                                         *)
(* What a request does to the motor is MotorControl's subject, how a       *)
(* record reaches the EEPROM is ParamStore's.                              *)
(***************************************************************************)
EXTENDS CanRx

CONSTANTS
  Reload,   \* comm_task.reload_counter, COUNTER_RELOAD[freq]
  Tries     \* how often an ACK that TransmitDMA gave up is tried again: 10

ASSUME ReloadAssumption == Reload \in Nat /\ Tries \in Nat

VARIABLES
  pc,               \* where CommTask stands in its turn
  request,          \* the request taken in this turn
  set_value_mode,   \* comm_task.set_value_mode
  counter,          \* comm_task.counter
  word,             \* the frame in uart_message.buffer
  line,             \* "dma" is reading the buffer, "fifo" is emptying, or "idle"
  sent,             \* the frame the DMA was last started on
  stalled,          \* the line stands still
  tries,            \* try_time of ACK
  whole,            \* history: the buffer was left alone until it was read
  lost,             \* history: TransmitDMA gave up the frame it was last called for
  fed,              \* history: feedback frames given to CAN or to TransmitDMA in
                    \* this turn
  gap,              \* history: turns since the last one with feedback
  late              \* history: feedback frames sent by UART in CAN mode

lineVars == <<word, line, sent, whole, stalled, lost>>
uartVars == <<lineVars, tries>>
paceVars == <<counter, fed, gap, late>>
vars == <<fifo, rf0n, irq, can_counter, comm_mode, hit, pc, request, set_value_mode,
          counter, word, line, sent, whole, stalled, lost, tries, fed, gap, late>>

(* A TRANSMIT carries a record whose CRC is good, or not. *)
Commands == {"set", "drive", "good", "junk", "ack"}
Requests == [cmd : Commands, own : BOOLEAN]
NoRequest == [cmd |-> "none", own |-> FALSE]
Words    == {"none", "ack", "fail", "feedback"}

Booted ==
  /\ pc = "sleep" /\ request = NoRequest
  /\ set_value_mode = FALSE
  /\ counter = 0
  /\ word = "none" /\ line = "idle" /\ sent = "none" /\ whole = TRUE
  /\ stalled = FALSE /\ lost = FALSE /\ tries = 0
  /\ fed = 0 /\ gap = 0 /\ late = 0

Init == CanInit /\ Booted

--------------------------------------------------------------------------------
(* The transmitter. *)

(* Encode writes to the buffer, whoever is reading it. *)
Encode(frame) ==
  /\ word' = frame
  /\ whole' = (whole /\ line # "dma")
  /\ UNCHANGED <<line, sent, stalled, lost, tries>>

Send ==
  /\ line = "idle"
  /\ line' = "dma" /\ sent' = word /\ whole' = TRUE
  /\ lost' = FALSE
  /\ UNCHANGED <<word, stalled>>

(* Ten looks in 50 ms, in which a line that moves sends a frame several times over. *)
GiveUp ==
  /\ stalled
  /\ lost' = TRUE
  /\ UNCHANGED <<word, line, sent, whole, stalled>>

TransmitDMA == Send \/ GiveUp

(* The DMA has moved the last byte; the FIFO has sent it. *)
LineStep ==
  /\ ~stalled
  /\ \/ line = "dma" /\ line' = "fifo"
     \/ line = "fifo" /\ line' = "idle"
  /\ UNCHANGED <<canVars, pc, request, set_value_mode, paceVars, word, sent, whole,
                 stalled, lost, tries>>

(* A line that is sending stands still, or goes on. *)
Stall ==
  /\ line # "idle"
  /\ stalled' = ~stalled
  /\ UNCHANGED <<canVars, pc, request, set_value_mode, paceVars, word, line, sent, whole,
                 lost, tries>>

--------------------------------------------------------------------------------
(* CommTask_Uart_SetValue. *)

At(here) == irq = "none" /\ pc = here

BeginTurn ==
  /\ At("sleep")
  /\ fed' = 0
  /\ gap' = IF fed > 0 THEN 1 ELSE gap + 1
  /\ UNCHANGED <<canVars, counter, late>>

NoNews ==
  /\ BeginTurn
  /\ pc' = "test"
  /\ UNCHANGED <<request, set_value_mode, uartVars>>

(* SET, from whatever ID. *)
TakeSet ==
  /\ BeginTurn
  /\ request' \in Requests /\ request'.cmd = "set"
  /\ set_value_mode' = TRUE
  /\ pc' = "test"
  /\ UNCHANGED uartVars

(* DRIVE, or a TRANSMIT out of place: nothing here. *)
TakeNothing ==
  /\ BeginTurn
  /\ request' \in Requests
  /\ request'.cmd = "drive" \/ (request'.cmd \in {"good", "junk"} /\ ~set_value_mode)
  /\ pc' = "test"
  /\ UNCHANGED <<set_value_mode, uartVars>>

(* A record that checks out: ACK is encoded, and Write called. *)
TakeRecord ==
  /\ BeginTurn
  /\ request' \in Requests /\ request'.cmd = "good" /\ set_value_mode
  /\ Encode("ack")
  /\ pc' = "save"
  /\ UNCHANGED set_value_mode

TakeJunk ==
  /\ BeginTurn
  /\ request' \in Requests /\ request'.cmd = "junk" /\ set_value_mode
  /\ Encode("fail")
  /\ pc' = "refuse"
  /\ UNCHANGED set_value_mode

TakePing ==
  /\ BeginTurn
  /\ request' \in Requests /\ request'.cmd = "ack"
  /\ Encode("ack")
  /\ pc' = "answer"
  /\ UNCHANGED set_value_mode

(* The FAIL of a refused record goes out. *)
Refuse ==
  /\ At("refuse")
  /\ TransmitDMA
  /\ set_value_mode' = FALSE
  /\ pc' = "fall"
  /\ UNCHANGED <<canVars, request, paceVars, tries>>

(* There is no break: the code of ACK follows. *)
FallThrough ==
  /\ At("fall")
  /\ Encode("ack")
  /\ pc' = "answer"
  /\ UNCHANGED <<canVars, request, set_value_mode, paceVars>>

(* Slip: the ACK is encoded and then forgotten. *)
SlipNoAnswer ==
  /\ At("answer")
  /\ pc' = "test"
  /\ UNCHANGED <<canVars, request, set_value_mode, paceVars, uartVars>>

(* The ACK goes out, or is tried again as long as the tries last. *)
Answer ==
  /\ At("answer")
  /\ TransmitDMA
  /\ IF lost' /\ tries < Tries THEN tries' = tries + 1 /\ UNCHANGED pc
     ELSE tries' = 0 /\ pc' = "test"
  /\ UNCHANGED <<canVars, request, set_value_mode, paceVars>>

(* Write succeeds, and the MCU is reset; or it does not, and FAIL is encoded. *)
Saved ==
  /\ At("save")
  /\ pc' = "reset"
  /\ UNCHANGED <<canVars, request, set_value_mode, paceVars, uartVars>>

SaveFails ==
  /\ At("save")
  /\ Encode("fail")
  /\ pc' = "failed"
  /\ UNCHANGED <<canVars, request, set_value_mode, paceVars>>

(* FAIL goes out, as far as the line and the reset let it. *)
TellFailure ==
  /\ At("failed")
  /\ TransmitDMA
  /\ set_value_mode' = FALSE
  /\ pc' = "reset"
  /\ UNCHANGED <<canVars, request, paceVars, tries>>

(* NVIC_SystemReset, with a frame on the line or not. *)
Reset ==
  /\ At("reset")
  /\ fifo' = 0 /\ rf0n' = FALSE /\ irq' = "none" /\ hit' = 0
  /\ can_counter' = 0 /\ comm_mode' = "uart"
  /\ pc' = "sleep" /\ request' = NoRequest /\ set_value_mode' = FALSE
  /\ counter' = 0 /\ fed' = 0 /\ gap' = 0 /\ late' = 0
  /\ word' = "none" /\ line' = "idle" /\ sent' = "none" /\ whole' = TRUE
  /\ stalled' = FALSE /\ lost' = FALSE /\ tries' = 0

--------------------------------------------------------------------------------
(* Feedback: comm_mode is looked at once a turn, the counter in either branch. *)

FeedbackDue == counter = Reload

NoFeedback ==
  /\ At("test") /\ ~FeedbackDue
  /\ pc' = "reload"
  /\ UNCHANGED <<canVars, request, set_value_mode, paceVars, uartVars>>

CanTransmit ==
  /\ At("test") /\ FeedbackDue /\ comm_mode = "can"
  /\ fed' = fed + 1
  /\ pc' = "reload"
  /\ UNCHANGED <<canVars, request, set_value_mode, counter, gap, late, uartVars>>

(* Slip: the mode is not looked at. *)
SlipUartAlways ==
  /\ At("test") /\ FeedbackDue
  /\ Encode("feedback")
  /\ pc' = "feedback"
  /\ UNCHANGED <<canVars, request, set_value_mode, paceVars>>

UartEncode ==
  /\ At("test") /\ FeedbackDue /\ comm_mode = "uart"
  /\ Encode("feedback")
  /\ pc' = "feedback"
  /\ UNCHANGED <<canVars, request, set_value_mode, paceVars>>

(* Slip: once the mode is CAN the frame is given to CAN too. *)
SlipBothWays ==
  /\ At("feedback")
  /\ TransmitDMA
  /\ fed' = IF comm_mode = "can" THEN fed + 2 ELSE fed + 1
  /\ late' = IF comm_mode = "can" /\ ~lost' THEN late + 1 ELSE late
  /\ pc' = "reload"
  /\ UNCHANGED <<canVars, request, set_value_mode, counter, gap, tries>>

(* The frame goes out by UART even if the mode has become CAN meanwhile; one that
   is given up is not tried again.                                              *)
UartTransmit ==
  /\ At("feedback")
  /\ TransmitDMA
  /\ fed' = fed + 1
  /\ late' = IF comm_mode = "can" /\ ~lost' THEN late + 1 ELSE late
  /\ pc' = "reload"
  /\ UNCHANGED <<canVars, request, set_value_mode, counter, gap, tries>>

(* Slip: the counter is let past its limit. *)
SlipReloadPast ==
  /\ At("reload")
  /\ counter' = IF counter > Reload THEN 0 ELSE counter + 1
  /\ pc' = "sleep" /\ request' = NoRequest
  /\ UNCHANGED <<canVars, set_value_mode, fed, gap, late, uartVars>>

(* CommTask_ReloadCounter; then the key, the LED and vTaskDelay(1). *)
ReloadCounter ==
  /\ At("reload")
  /\ counter' = IF counter = Reload THEN 0 ELSE counter + 1
  /\ pc' = "sleep" /\ request' = NoRequest
  /\ UNCHANGED <<canVars, set_value_mode, fed, gap, late, uartVars>>

UartSetValue ==
  \/ NoNews \/ TakeSet \/ TakeNothing \/ TakeRecord \/ TakeJunk \/ TakePing
  \/ Refuse \/ FallThrough \/ Answer
  \/ Saved \/ SaveFails \/ TellFailure \/ Reset

Feedback == NoFeedback \/ CanTransmit \/ UartEncode \/ UartTransmit

CommTask == UartSetValue \/ Feedback \/ ReloadCounter

CanRxStep ==
  /\ CanReception
  /\ UNCHANGED <<pc, request, set_value_mode, paceVars, uartVars>>

Next == CommTask \/ LineStep \/ Stall \/ CanRxStep

(* Whoever has the processor goes on, and so does a line that has not stalled. *)
Spec == /\ Init /\ [][Next]_vars
        /\ WF_vars(CommTask) /\ WF_vars(LineStep)
        /\ WF_vars(irq # "none" /\ CanRxStep)

--------------------------------------------------------------------------------
(* Properties. *)

TurnPoints == {"sleep", "refuse", "fall", "answer", "save", "failed", "reset",
               "test", "feedback", "reload"}

(* The variables keep their ranges. *)
TypeOK ==
  /\ CanTypeOK
  /\ pc \in TurnPoints
  /\ request \in Requests \cup {NoRequest}
  /\ set_value_mode \in BOOLEAN
  /\ counter \in 0 .. Reload
  /\ word \in Words /\ sent \in Words
  /\ line \in {"idle", "dma", "fifo"} /\ whole \in BOOLEAN
  /\ stalled \in BOOLEAN /\ lost \in BOOLEAN /\ tries \in 0 .. Tries
  /\ fed \in 0 .. 1 /\ gap \in 0 .. Reload + 1 /\ late \in Nat

(* Whatever requests are served, wherever the CAN interrupt switches the mode and
   however long the line stands still, feedback is sent off in one turn of
   Reload + 1, in no other, and once: by CAN or by UART, never by both or by
   neither.                                                                      *)
FeedbackOnTime ==
  pc = "sleep" /\ gap > 0 => fed = IF gap = Reload + 1 THEN 1 ELSE 0

(* Each turn ends with the last frame encoded in it, or before, on the line or
   heard, with no byte of it overwritten: a turn that encodes several in the one
   buffer damages the earlier ones at most.  The exception is a frame given up
   because the line stood still -- an ACK, Tries + 1 times in its turn.           *)
LastWordIsWhole == pc = "sleep" => lost \/ (sent = word /\ whole)

(* The switch to CAN may overtake a feedback frame that is waiting for the line;
   after that one the host hears feedback by CAN alone, until a reset, even when
   the line stood still meanwhile.                                               *)
OneLateFeedback == late <= 1

(* comm_task.c:387: "a reply; sent when a setting of the motor succeeded, and also
   when the host tests whether the slave is on line".                            *)
AckMeansSet ==
  [][line = "idle" /\ line' = "dma" /\ sent' = "ack" => request.cmd # "junk"]_vars

(* comm_task.c:299: "only handles the frames whose slave ID matches this module". *)
OnlyOwnFrames ==
  [][pc = "sleep" /\ request' \in Requests /\ ~request'.own
       => UNCHANGED <<set_value_mode, word>>]_vars
================================================================================
