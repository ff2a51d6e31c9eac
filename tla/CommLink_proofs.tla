----------------------------- MODULE CommLink_proofs ---------------------------
(***************************************************************************)
(* The five properties of CommLink, for every depth of the CAN FIFO and    *)
(* every feedback period.  The invariant is the conjunction of four parts  *)
(* that do not depend on each other but for the ranges of the variables:   *)
(* where a frame may wait (CanInv), how the counter and its history go     *)
(* together (PaceInv), what is on the line (WordInv) and what the switch   *)
(* of the mode may overtake (LateInv).                                     *)
(***************************************************************************)
EXTENDS CommLink, TLAPS

(* Between the last look at the FIFO and the clearing of the flag the frames in
   the FIFO are those whose flag will be cleared unseen.                       *)
CanInv ==
  /\ irq = "none" /\ ~rf0n => fifo = hit
  /\ irq = "clear" => fifo = hit
  /\ irq = "drain" => hit = 0

(* gap runs one ahead of the counter during a turn. *)
PaceInv ==
  /\ pc = "sleep" => \/ fed = 0 /\ gap = counter
                     \/ fed = 1 /\ counter = 0 /\ gap = Reload + 1
  /\ pc # "sleep" => gap = counter + 1
  /\ pc \notin {"sleep", "reload"} => fed = 0
  /\ pc = "reload" => fed = IF counter = Reload THEN 1 ELSE 0
  /\ pc = "feedback" => counter = Reload

WordInv == pc \in {"sleep", "test", "reload"} => lost \/ (sent = word /\ whole)

LateInv ==
  /\ late <= 1
  /\ late > 0 => comm_mode = "can" /\ pc # "feedback"

Inv == TypeOK /\ CanInv /\ PaceInv /\ WordInv /\ LateInv

--------------------------------------------------------------------------------
LEMMA InitInv == Init => Inv
<1> SUFFICES ASSUME Init PROVE Inv
  OBVIOUS
<1> USE CanAssumption, ReloadAssumption DEF Init, CanInit, Booted
<1>1. TypeOK
  <2>1. /\ rf0n \in BOOLEAN /\ set_value_mode \in BOOLEAN
        /\ whole \in BOOLEAN /\ stalled \in BOOLEAN /\ lost \in BOOLEAN
    BY Zenon
  <2>2. request \in Requests \cup {NoRequest}
    OBVIOUS
  <2>3. /\ fifo \in 0 .. CanFifo /\ hit \in 0 .. CanFifo /\ can_counter \in 0 .. 3
        /\ counter \in 0 .. Reload /\ tries \in 0 .. Tries
        /\ fed \in 0 .. 1 /\ gap \in 0 .. Reload + 1 /\ late \in Nat
    OBVIOUS
  <2> QED
    BY <2>1, <2>2, <2>3, Zenon DEF TypeOK, CanTypeOK, TurnPoints, Words
<1>2. CanInv
  BY DEF CanInv
<1>3. PaceInv /\ WordInv /\ LateInv
  BY DEF PaceInv, WordInv, LateInv
<1> QED
  BY <1>1, <1>2, <1>3 DEF Inv

(* The CAN interrupt and the line, which leave the turn of the task alone. *)
LEMMA CanRxKeepsInv == Inv /\ CanRxStep => Inv'
<1> SUFFICES ASSUME Inv, CanRxStep PROVE Inv'
  OBVIOUS
<1> USE CanAssumption, ReloadAssumption
    DEF Inv, CanRxStep, TypeOK, CanTypeOK, CanInv, PaceInv, WordInv, LateInv,
        paceVars, lineVars, uartVars
<1>1. CASE Arrive
  <2>1. CanInv'
    BY <1>1 DEF Arrive
  <2>2. TypeOK' /\ PaceInv' /\ WordInv' /\ LateInv'
    BY <1>1 DEF Arrive
  <2> QED
    BY <2>1, <2>2
<1>2. CASE IrqEnter
  <2>1. hit' = 0 /\ irq' = "drain"
    BY <1>2 DEF IrqEnter
  <2>2. CanInv'
    BY ONLY <2>1 DEF CanInv
  <2>3. TypeOK' /\ PaceInv' /\ WordInv' /\ LateInv'
    BY <1>2 DEF IrqEnter
  <2> QED
    BY <2>2, <2>3
<1>3. ASSUME NEW mine \in BOOLEAN, DrainOne(mine) PROVE Inv'
  BY <1>3 DEF DrainOne, CanDecode
<1>4. CASE Drained
  BY <1>4 DEF Drained
<1>5. CASE ClearFlag
  <2>1. CanInv'
    <3>1. fifo = hit
      BY <1>5 DEF ClearFlag
    <3>2. irq' = "none" /\ fifo' = fifo /\ hit' = hit
      BY <1>5 DEF ClearFlag
    <3> QED
      BY ONLY <3>1, <3>2 DEF CanInv
  <2>2. rf0n' \in BOOLEAN
    BY <1>5 DEF ClearFlag
  <2>3. TypeOK' /\ PaceInv' /\ WordInv' /\ LateInv'
    BY <1>5, <2>2 DEF ClearFlag
  <2> QED
    BY <2>1, <2>3
<1> QED
  BY <1>1, <1>2, <1>3, <1>4, <1>5 DEF CanReception

LEMMA LineKeepsInv == Inv /\ (LineStep \/ Stall) => Inv'
<1> SUFFICES ASSUME Inv, LineStep \/ Stall PROVE Inv'
  OBVIOUS
<1> USE DEF Inv, TypeOK, CanTypeOK, canVars, paceVars
<1>1. line' \in {"idle", "dma", "fifo"} /\ stalled' \in BOOLEAN
  <2>1. CASE LineStep
    BY <2>1 DEF LineStep
  <2>2. CASE Stall
    BY <2>2 DEF Stall
  <2> QED
    BY <2>1, <2>2
<1>2. /\ UNCHANGED <<canVars, pc, request, set_value_mode, paceVars>>
      /\ UNCHANGED <<word, sent, whole, lost, tries>>
  BY DEF LineStep, Stall
<1>3. TypeOK'
  BY <1>1, <1>2
<1>4. CanInv' /\ PaceInv' /\ WordInv' /\ LateInv'
  BY <1>2 DEF CanInv, PaceInv, WordInv, LateInv
<1> QED
  BY <1>3, <1>4

(* A frame is on its way undamaged, or given up. *)
LEMMA TransmitKeeps ==
  ASSUME Inv, TransmitDMA
  PROVE  /\ word' \in Words /\ sent' \in Words /\ line' \in {"idle", "dma", "fifo"}
         /\ whole' \in BOOLEAN /\ stalled' \in BOOLEAN /\ lost' \in BOOLEAN
         /\ lost' \/ (sent' = word' /\ whole')
<1>1. CASE Send
  <2>1. whole' \in BOOLEAN /\ lost' \in BOOLEAN
    BY <1>1, Zenon DEF Send
  <2> QED
    BY <1>1, <2>1 DEF Send, Inv, TypeOK
<1>2. CASE GiveUp
  <2>1. lost' \in BOOLEAN
    BY <1>2, Zenon DEF GiveUp
  <2> QED
    BY <1>2, <2>1 DEF GiveUp, Inv, TypeOK
<1> QED
  BY <1>1, <1>2 DEF TransmitDMA

(* Taking a request and answering it. *)
LEMMA UartSetValueKeepsInv == Inv /\ UartSetValue => Inv'
<1> SUFFICES ASSUME Inv, UartSetValue PROVE Inv'
  OBVIOUS
<1> USE CanAssumption, ReloadAssumption
    DEF Inv, TypeOK, CanTypeOK, CanInv, PaceInv, WordInv, LateInv,
        At, TurnPoints, Words, canVars, paceVars, lineVars, uartVars
<1>1. CASE NoNews
  BY <1>1 DEF NoNews, BeginTurn
<1>2. CASE TakeSet
  BY <1>2 DEF TakeSet, BeginTurn
<1>3. CASE TakeNothing
  BY <1>3 DEF TakeNothing, BeginTurn
<1>4. CASE TakeRecord
  BY <1>4 DEF TakeRecord, BeginTurn, Encode
<1>5. CASE TakeJunk
  BY <1>5 DEF TakeJunk, BeginTurn, Encode
<1>6. CASE TakePing
  BY <1>6 DEF TakePing, BeginTurn, Encode
<1>7. CASE Refuse
  <2>1. /\ word' \in Words /\ sent' \in Words /\ line' \in {"idle", "dma", "fifo"}
        /\ whole' \in BOOLEAN /\ stalled' \in BOOLEAN /\ lost' \in BOOLEAN
    BY <1>7, TransmitKeeps DEF Refuse
  <2> QED
    BY <1>7, <2>1 DEF Refuse
<1>8. CASE FallThrough
  BY <1>8 DEF FallThrough, Encode
<1>9. CASE Answer
  <2>1. /\ word' \in Words /\ sent' \in Words /\ line' \in {"idle", "dma", "fifo"}
        /\ whole' \in BOOLEAN /\ stalled' \in BOOLEAN /\ lost' \in BOOLEAN
        /\ lost' \/ (sent' = word' /\ whole')
    BY <1>9, TransmitKeeps DEF Answer
  <2>2. tries' \in 0 .. Tries /\ pc' \in {"answer", "test"}
    BY <1>9 DEF Answer
  <2> QED
    BY <1>9, <2>1, <2>2 DEF Answer
<1>10. CASE Saved
  BY <1>10 DEF Saved
<1>11. CASE SaveFails
  BY <1>11 DEF SaveFails, Encode
<1>12. CASE TellFailure
  <2>1. /\ word' \in Words /\ sent' \in Words /\ line' \in {"idle", "dma", "fifo"}
        /\ whole' \in BOOLEAN /\ stalled' \in BOOLEAN /\ lost' \in BOOLEAN
    BY <1>12, TransmitKeeps DEF TellFailure
  <2> QED
    BY <1>12, <2>1 DEF TellFailure
<1>13. CASE Reset
  <2>1. CanInv'
    <3>1. fifo' = 0 /\ hit' = 0 /\ irq' = "none"
      BY <1>13 DEF Reset
    <3> QED
      BY ONLY <3>1 DEF CanInv
  <2>2. TypeOK'
    <3>1. /\ rf0n' \in BOOLEAN /\ set_value_mode' \in BOOLEAN
          /\ whole' \in BOOLEAN /\ stalled' \in BOOLEAN /\ lost' \in BOOLEAN
      BY <1>13, Zenon DEF Reset
    <3>2. request' \in Requests \cup {NoRequest}
      BY <1>13 DEF Reset
    <3>3. /\ fifo' \in 0 .. CanFifo /\ hit' \in 0 .. CanFifo /\ can_counter' \in 0 .. 3
          /\ counter' \in 0 .. Reload /\ tries' \in 0 .. Tries
          /\ fed' \in 0 .. 1 /\ gap' \in 0 .. Reload + 1 /\ late' \in Nat
      BY <1>13 DEF Reset
    <3> QED
      BY <1>13, <3>1, <3>2, <3>3, Zenon DEF Reset
  <2>3. PaceInv' /\ WordInv' /\ LateInv'
    BY <1>13 DEF Reset
  <2> QED
    BY <2>1, <2>2, <2>3
<1> QED
  BY <1>1, <1>2, <1>3, <1>4, <1>5, <1>6, <1>7, <1>8, <1>9, <1>10, <1>11, <1>12,
     <1>13 DEF UartSetValue

(* Feedback, and the end of the turn. *)
LEMMA FeedbackKeepsInv == Inv /\ (Feedback \/ ReloadCounter) => Inv'
<1> SUFFICES ASSUME Inv, Feedback \/ ReloadCounter PROVE Inv'
  OBVIOUS
<1> USE CanAssumption, ReloadAssumption
    DEF Inv, TypeOK, CanTypeOK, CanInv, PaceInv, WordInv, LateInv,
        At, FeedbackDue, TurnPoints, Words, canVars, paceVars, lineVars, uartVars
<1>1. CASE NoFeedback
  BY <1>1 DEF NoFeedback
<1>2. CASE CanTransmit
  BY <1>2 DEF CanTransmit
<1>3. CASE UartEncode
  BY <1>3 DEF UartEncode, Encode
<1>4. CASE UartTransmit
  <2>1. /\ word' \in Words /\ sent' \in Words /\ line' \in {"idle", "dma", "fifo"}
        /\ whole' \in BOOLEAN /\ stalled' \in BOOLEAN /\ lost' \in BOOLEAN
        /\ lost' \/ (sent' = word' /\ whole')
    BY <1>4, TransmitKeeps DEF UartTransmit
  <2>2. /\ late' \in Nat /\ late' <= 1
        /\ late' > 0 => comm_mode' = "can" /\ pc' # "feedback"
    BY <1>4 DEF UartTransmit
  <2> QED
    BY <1>4, <2>1, <2>2 DEF UartTransmit
<1>5. CASE ReloadCounter
  BY <1>5 DEF ReloadCounter
<1> QED
  BY <1>1, <1>2, <1>3, <1>4, <1>5 DEF Feedback

LEMMA StepKeepsInv == Inv /\ [Next]_vars => Inv'
<1> SUFFICES ASSUME Inv, [Next]_vars PROVE Inv'
  OBVIOUS
<1>1. CASE UNCHANGED vars
  BY <1>1 DEF Inv, TypeOK, CanTypeOK, CanInv, PaceInv, WordInv, LateInv, vars
<1>2. CASE Next
  BY <1>2, CanRxKeepsInv, LineKeepsInv, UartSetValueKeepsInv, FeedbackKeepsInv
  DEF Next, CommTask
<1> QED
  BY <1>1, <1>2

LEMMA SpecInv == Spec => []Inv
  BY InitInv, StepKeepsInv, PTL DEF Spec

--------------------------------------------------------------------------------
(* Each variable of the link keeps its range. *)
THEOREM TypeCorrect == Spec => []TypeOK
<1>1. Inv => TypeOK
  BY DEF Inv
<1> QED
  BY <1>1, SpecInv, PTL

(* Feedback goes out once in every Reload + 1 turns, by CAN or by UART, whenever
   the mode is switched and whatever requests are answered (comm_task.c:236, :288). *)
THEOREM FeedbackComesOnTime == Spec => []FeedbackOnTime
<1>1. Inv => FeedbackOnTime
  BY ReloadAssumption DEF Inv, TypeOK, PaceInv, FeedbackOnTime
<1> QED
  BY <1>1, SpecInv, PTL

(* The last frame encoded before the task sleeps is sent undamaged (comm_task.c:267). *)
THEOREM LastWordHeardWhole == Spec => []LastWordIsWhole
<1>1. Inv => LastWordIsWhole
  BY DEF Inv, WordInv, LastWordIsWhole
<1> QED
  BY <1>1, SpecInv, PTL

(* Only the window between the last look and the clearing of the flag can leave a
   frame in the FIFO (bsp_mspm0g_it.c:181), whatever the depth of the FIFO.       *)
THEOREM NoFrameLeftBehind == Spec => []NoFrameStrands
<1>1. Inv => NoFrameStrands
  BY DEF Inv, CanInv, NoFrameStrands
<1> QED
  BY <1>1, SpecInv, PTL

(* The switch to CAN overtakes one UART feedback at most (comm_task.c:70). *)
THEOREM AtMostOneLateFeedback == Spec => []OneLateFeedback
<1>1. Inv => OneLateFeedback
  BY DEF Inv, LateInv, OneLateFeedback
<1> QED
  BY <1>1, SpecInv, PTL
================================================================================
