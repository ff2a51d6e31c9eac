------------------------------- MODULE ParamStore ------------------------------
(***************************************************************************)
(* The stored parameters: MotorManager_t writes its record to the EEPROM   *)
(* byte by byte with the CRC last, boot reads it back and checks the CRC,  *)
(* and power may fail, the bus hang or a transfer fail in between.         *)
(*                                                                         *)
(* A cell stands for some of the record's bytes; cell 1 holds the IDs.  A  *)
(* CRC is represented by the record it was computed over, so two records   *)
(* never share one; NoCrc is a CRC field that matches no record (those of  *)
(* an erased EEPROM and of a cleared buffer do not, and a half-written one *)
(* is taken not to).                                                       *)
(***************************************************************************)
EXTENDS Naturals

CONSTANTS
  N,           \* cells before the CRC
  Values,      \* contents of a cell
  Zero,        \* what memset leaves in it
  DefaultId,   \* MOTOR_MODULE_DEFAULT_ID, _DEFAULT_MASTER_ID
  NoCrc,       \* a CRC field that matches no record
  NoRecord,    \* no record
  MaxFaults    \* bound: power losses, hung buses and failed transfers

Cells   == 1 .. N
Records == [Cells -> Values]

ASSUME StoreAssumption ==
  /\ N \in Nat \ {0}
  /\ Zero \in Values /\ DefaultId \in Values
  /\ NoCrc \notin Records /\ NoRecord \notin Records
  /\ MaxFaults \in Nat

VARIABLES
  eeprom, eeprom_crc,   \* the record in the EEPROM and its CRC
  storage, crc,         \* manager.stroage, the record in memory, and its CRC
  pc,                   \* boot is reading, the program runs, Write is writing
  cell,                 \* the cell Write comes to next, N + 1 for the CRC
  times,                \* attempts of Read or of Write used up
  asker,                \* who called Write: a UART TRANSMIT or a key setting
  applied,              \* what CommTask_Init configured the module from
  can_id,               \* can_message.slave_id, master_id
  bus,                  \* "stuck": the slave holds the lines down
  faults,               \* faults so far
  boot_faults,          \* history: faults this boot had to read through
  good,                 \* history: the record of the last Write that returned true
  tried                 \* history: records of the Writes begun since

romVars  == <<eeprom, eeprom_crc>>
ramVars  == <<storage, crc>>
histVars == <<good, tried>>
vars == <<eeprom, eeprom_crc, storage, crc, pc, cell, times, asker, applied,
          can_id, bus, faults, boot_faults, good, tried>>

(* Slip: the check is left out. *)
SlipNoCheck(data, sum) == TRUE

(* Verify_CRC16_Check_Sum *)
Valid(data, sum) == sum = data

Cleared == [c \in Cells |-> Zero]

(* The EEPROM starts with a whole record, or never written. *)
Init ==
  /\ eeprom \in Records
  /\ \/ eeprom_crc = eeprom /\ good = eeprom
     \/ eeprom_crc = NoCrc /\ good = NoRecord
  /\ storage = Cleared /\ crc = NoCrc
  /\ pc = "read" /\ cell = 1 /\ times = 0
  /\ asker = "none" /\ applied = "none" /\ can_id = Zero
  /\ bus = "ok" /\ faults = 0 /\ boot_faults = 0
  /\ tried = {}

(* memset in CommTask_Init and MotorManager_Init, after either kind of restart;
   a bus that is stuck is stuck for this boot.                                 *)
Restart ==
  /\ storage' = Cleared /\ crc' = NoCrc
  /\ pc' = "read" /\ cell' = 1 /\ times' = 0
  /\ asker' = "none" /\ applied' = "none" /\ can_id' = Zero
  /\ boot_faults' = IF bus' = "stuck" THEN 1 ELSE 0

Count ==
  /\ faults < MaxFaults
  /\ faults' = faults + 1

BootFault == boot_faults' = IF pc = "read" THEN boot_faults + 1 ELSE boot_faults

--------------------------------------------------------------------------------
(* Boot: manager.Read(3). *)

(* The record checks out: the module is configured from it. *)
Accept ==
  /\ Valid(storage', crc')
  /\ pc' = "run"
  /\ applied' = "eeprom"
  /\ can_id' = storage'[1]
  /\ UNCHANGED <<bus, times>>

(* Slip: a failed attempt does not reset the bus. *)
SlipNoBusReset ==
  /\ ~Valid(storage', crc')
  /\ times' = times + 1
  /\ IF times' = 3
     THEN pc' = "run" /\ applied' = "default" /\ can_id' = DefaultId
     ELSE UNCHANGED <<pc, applied, can_id>>
  /\ UNCHANGED bus

(* Slip: the attempts are counted after the test. *)
SlipFourReads ==
  /\ ~Valid(storage', crc')
  /\ bus' = "ok"
  /\ times' = times + 1
  /\ IF times = 3
     THEN pc' = "run" /\ applied' = "default" /\ can_id' = DefaultId
     ELSE UNCHANGED <<pc, applied, can_id>>

(* It does not: the bus is reset, and after three attempts the default IDs are
   given to the CAN codec; the buffer stays as it is.                          *)
Refuse ==
  /\ ~Valid(storage', crc')
  /\ bus' = "ok"
  /\ times' = times + 1
  /\ IF times' = 3
     THEN pc' = "run" /\ applied' = "default" /\ can_id' = DefaultId
     ELSE UNCHANGED <<pc, applied, can_id>>

(* ReadData reads everything. *)
ReadWhole ==
  /\ pc = "read" /\ bus = "ok"
  /\ storage' = eeprom /\ crc' = eeprom_crc
  /\ Accept \/ Refuse
  /\ UNCHANGED <<romVars, cell, asker, faults, boot_faults, histVars>>

(* ReadData gives up after n cells, because a transfer fails or, at once, because
   the bus is stuck; Read looks at the CRC all the same.                          *)
ReadPart(n) ==
  /\ pc = "read"
  /\ storage' = [c \in Cells |-> IF c <= n THEN eeprom[c] ELSE storage[c]]
  /\ UNCHANGED crc
  /\ IF bus = "stuck" THEN n = 0 /\ UNCHANGED <<faults, boot_faults>>
                      ELSE Count /\ BootFault
  /\ Accept \/ Refuse
  /\ UNCHANGED <<romVars, cell, asker, histVars>>

--------------------------------------------------------------------------------
(* The two ways to a new record. *)

(* Write: Append_CRC16_Check_Sum, then the first of three attempts. *)
BeginWrite(record, who) ==
  /\ storage' = record /\ crc' = record
  /\ pc' = "write" /\ cell' = 1 /\ times' = 0
  /\ asker' = who
  /\ tried' = tried \cup {record}
  /\ UNCHANGED <<romVars, applied, can_id, bus, faults, boot_faults, good>>

(* A TRANSMIT with a whole record and a good CRC, in set mode. *)
Transmit(record) == pc = "run" /\ BeginWrite(record, "uart")

(* A confirmed key setting changes an ID in whatever record memory holds. *)
KeySetSave(id) == pc = "run" /\ BeginWrite([storage EXCEPT ![1] = id], "key")

--------------------------------------------------------------------------------
(* Write. *)

(* WriteByte succeeds on a cell of the record. *)
WriteCell ==
  /\ pc = "write" /\ bus = "ok" /\ cell <= N
  /\ eeprom' = [eeprom EXCEPT ![cell] = storage[cell]]
  /\ cell' = cell + 1
  /\ UNCHANGED <<eeprom_crc, ramVars, pc, times, asker, applied, can_id, bus,
                 faults, boot_faults, histVars>>

(* It succeeds on the CRC: Write returns true, and both callers reset the MCU. *)
WriteCrc ==
  /\ pc = "write" /\ bus = "ok" /\ cell = N + 1
  /\ eeprom_crc' = crc
  /\ good' = storage /\ tried' = {}
  /\ UNCHANGED <<eeprom, bus, faults>>
  /\ Restart

(* A failed transfer: the byte may have reached the EEPROM all the same. *)
ByteFails ==
  \/ /\ bus = "stuck"
     /\ UNCHANGED <<romVars, faults>>
  \/ /\ bus = "ok"
     /\ Count
     /\ \/ UNCHANGED romVars
        \/ /\ cell <= N
           /\ eeprom' = [eeprom EXCEPT ![cell] = storage[cell]]
           /\ UNCHANGED eeprom_crc
        \/ /\ cell = N + 1
           /\ eeprom_crc' \in {crc, NoCrc}
           /\ UNCHANGED eeprom

(* Slip: the next attempt goes on where the last one failed, skipping the byte. *)
SlipResume ==
  /\ pc = "write" /\ times < 2
  /\ ByteFails
  /\ cell' = IF cell <= N THEN cell + 1 ELSE cell
  /\ times' = times + 1
  /\ UNCHANGED <<ramVars, pc, asker, applied, can_id, bus, boot_faults, histVars>>

(* One of the first two attempts fails: the next one starts over. *)
WriteAgain ==
  /\ pc = "write" /\ times < 2
  /\ ByteFails
  /\ cell' = 1
  /\ times' = times + 1
  /\ UNCHANGED <<ramVars, pc, asker, applied, can_id, bus, boot_faults, histVars>>

(* The third fails, for a TRANSMIT: FAIL is sent and the MCU reset. *)
TransmitFails ==
  /\ pc = "write" /\ times = 2 /\ asker = "uart"
  /\ ByteFails
  /\ UNCHANGED <<bus, histVars>>
  /\ Restart

(* Slip: the loop of KeySetSave does not reset the bus. *)
SlipKeyNoBusReset ==
  /\ pc = "write" /\ times = 2 /\ asker = "key"
  /\ ByteFails
  /\ cell' = 1 /\ times' = 0
  /\ UNCHANGED <<ramVars, pc, asker, applied, can_id, bus, boot_faults, histVars>>

(* The third fails, for a key setting: the bus is reset and Write called again. *)
KeySaveRepeats ==
  /\ pc = "write" /\ times = 2 /\ asker = "key"
  /\ ByteFails
  /\ bus' = "ok"
  /\ cell' = 1 /\ times' = 0
  /\ UNCHANGED <<ramVars, pc, asker, applied, can_id, boot_faults, histVars>>

--------------------------------------------------------------------------------
(* The environment. *)

(* The supply fails between two bytes: those of the CRC, perhaps. *)
PowerLoss ==
  /\ Count
  /\ bus' = "ok"
  /\ Restart
  /\ eeprom_crc' = eeprom_crc \/ (pc = "write" /\ cell = N + 1 /\ eeprom_crc' = NoCrc)
  /\ UNCHANGED <<eeprom, histVars>>

(* The EEPROM hangs on to the lines until nine clocks are sent. *)
BusSticks ==
  /\ Count
  /\ bus = "ok" /\ bus' = "stuck"
  /\ BootFault
  /\ UNCHANGED <<romVars, ramVars, pc, cell, times, asker, applied, can_id, histVars>>

Boot == ReadWhole \/ \E n \in 0 .. N : ReadPart(n)

Save == WriteCell \/ WriteCrc \/ WriteAgain \/ TransmitFails \/ KeySaveRepeats

Next ==
  \/ Boot
  \/ Save
  \/ \E r \in Records : Transmit(r)
  \/ \E id \in Values : KeySetSave(id)
  \/ PowerLoss
  \/ BusSticks

(* The program goes on; nothing obliges a setting, or a fault. *)
Spec == Init /\ [][Next]_vars /\ WF_vars(Boot) /\ WF_vars(Save)

--------------------------------------------------------------------------------
(* Properties. *)

(* The variables keep their ranges. *)
TypeOK ==
  /\ eeprom \in Records /\ eeprom_crc \in Records \cup {NoCrc}
  /\ storage \in Records /\ crc \in Records \cup {NoCrc}
  /\ pc \in {"read", "run", "write"}
  /\ cell \in 1 .. N + 1 /\ times \in 0 .. 3
  /\ asker \in {"none", "uart", "key"}
  /\ applied \in {"none", "eeprom", "default"}
  /\ can_id \in Values
  /\ bus \in {"ok", "stuck"}
  /\ faults \in 0 .. MaxFaults /\ boot_faults \in 0 .. MaxFaults + 1
  /\ good \in Records \cup {NoRecord}
  /\ tried \subseteq Records

(* Whatever power losses and failed transfers cut a save into, a boot that takes
   its configuration from the EEPROM takes the last record saved or one whose
   save was begun since, whole: never parts of two.  It follows from ImplementsAtomicStore, too.         *)
NeverAMix ==
  pc = "run" /\ applied = "eeprom" => storage \in tried \cup {good}

(* A record whose Write returned true is there until the next Write, through any
   number of restarts and read errors.                                           *)
SavedIsDurable ==
  good # NoRecord /\ tried = {} => eeprom = good /\ eeprom_crc = good

(* Boot gives up a good record only after three separate faults: a bus left stuck
   by the restart costs one attempt, not the configuration.                       *)
DefaultsOnlyIfNeeded ==
  pc = "run" /\ applied = "default" =>
    ~Valid(eeprom, eeprom_crc) \/ boot_faults >= 3

(* What a boot with a working bus would find. *)
Content == IF eeprom_crc = eeprom THEN eeprom ELSE NoRecord

(* The record the module was configured from, or the one it is saving. *)
Held ==
  IF pc = "write" \/ (pc = "run" /\ applied = "eeprom") THEN storage ELSE NoRecord

(* Byte-wise writes, three attempts, bus resets and restarts come to the store of
   AtomicStore: what a boot takes is what is there, what is there changes only while
   a save goes on, and then only into a record some save is still to answer for.    *)
Atomic == INSTANCE AtomicStore WITH
  content  <- Content,
  possible <- tried \cup {good},
  phase    <- pc,
  held     <- Held

ImplementsAtomicStore == Atomic!Spec

(* A save that has begun comes to an end, and the module runs again, once the
   faults stop: the retry loop of the key setting is not for ever.               *)
SaveEnds == pc = "write" ~> pc = "run"

(* comm_task.c:98: "if the read fails, the default IDs are used": the ID in memory,
   that UART frames are matched with and sent under, is the default one too.       *)
DefaultsAfterFailedRead ==
  pc = "run" /\ applied = "default" => storage[1] = DefaultId /\ can_id = DefaultId
================================================================================
