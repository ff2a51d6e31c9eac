--------------------------------- MODULE SysTime -------------------------------
(***************************************************************************)
(* The time base: TIMG12 counts from 0 to CountMax and starts over, and    *)
(* whoever asks for the time extends the count by software.  A wrap is     *)
(* noticed because the counter is behind its last value, which takes a     *)
(* call at least once a wrap.                                              *)
(*                                                                         *)
(* EasyFrameSysTimeUpdate reads the counter, and then CNT_Update reads it  *)
(* again: the two reads are two actions.                                   *)
(***************************************************************************)
EXTENDS Integers

CONSTANTS
  CountMax,   \* UINT32_MAX
  MaxLaps     \* bound: wraps in a behaviour

ASSUME TimeAssumption == CountMax \in Nat \ {0} /\ MaxLaps \in Nat

VARIABLES
  cnt,                \* TIMG12->COUNTERREGS.CTR
  CYCCNT_LAST, CYCCNT_RountCount,
  cnt_now,            \* the local of EasyFrameSysTimeUpdate
  laps,               \* history: wraps so far
  cnt_laps            \* history: wraps when cnt_now was read

counterVars == <<cnt, laps>>
roundVars   == <<CYCCNT_LAST, CYCCNT_RountCount>>
readVars    == <<cnt_now, cnt_laps>>
timeVars    == <<cnt, CYCCNT_LAST, CYCCNT_RountCount, cnt_now, laps, cnt_laps>>

TimeInit ==
  /\ cnt = 0 /\ laps = 0
  /\ CYCCNT_LAST = 0 /\ CYCCNT_RountCount = 0
  /\ cnt_now = 0 /\ cnt_laps = 0

(* bsp_mspm0g_tim_base.c:109: "less than one overflow between two calls". *)
Count ==
  /\ IF cnt < CountMax THEN cnt' = cnt + 1 /\ UNCHANGED laps
     ELSE /\ laps < MaxLaps
          /\ cnt' = 0 /\ laps' = laps + 1
  /\ laps' = CYCCNT_RountCount \/ cnt' < CYCCNT_LAST

(* Slip: a counter that has not moved counts as wrapped. *)
SlipNotAhead ==
  /\ CYCCNT_RountCount' = IF cnt <= CYCCNT_LAST
                          THEN CYCCNT_RountCount + 1 ELSE CYCCNT_RountCount
  /\ CYCCNT_LAST' = cnt

CNT_Update ==
  /\ CYCCNT_RountCount' = IF cnt < CYCCNT_LAST
                          THEN CYCCNT_RountCount + 1 ELSE CYCCNT_RountCount
  /\ CYCCNT_LAST' = cnt

(* The first read, and the count of which the second makes the time. *)
ReadCount == cnt_now' = cnt /\ cnt_laps' = laps

Count64 == CYCCNT_RountCount' * CountMax + cnt_now

--------------------------------------------------------------------------------
TimeTypeOK ==
  /\ cnt \in 0 .. CountMax /\ CYCCNT_LAST \in 0 .. CountMax /\ cnt_now \in 0 .. CountMax
  /\ laps \in Nat /\ CYCCNT_RountCount \in Nat /\ cnt_laps \in Nat
================================================================================
