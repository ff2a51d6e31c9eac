--------------------------- MODULE ParamStore_proofs ---------------------------
(* The stored parameters, for records of any length over any values and for any
   number of faults.                                                            *)
EXTENDS ParamStore, TLAPS

Known == tried \cup {good}

(* The EEPROM's CRC field is that of a record saved or tried, or of none: what it
   authenticates is never a mix.                                                  *)
CrcKnown == eeprom_crc \in Known \cup {NoCrc}

(* While boot reads, memory holds no CRC but the EEPROM's. *)
Reading == pc = "read" =>
  /\ crc \in {eeprom_crc, NoCrc}
  /\ times <= 2

(* While Write writes, memory holds a whole record tried, and the cells passed in
   this attempt are in the EEPROM.                                               *)
Writing == pc = "write" =>
  /\ storage \in tried /\ crc = storage
  /\ times <= 2
  /\ \A c \in Cells : c < cell => eeprom[c] = storage[c]

(* A failed attempt at reading a good record is paid for with a fault. *)
AttemptsPaid ==
  /\ boot_faults <= faults + 1
  /\ pc = "read" /\ Valid(eeprom, eeprom_crc) =>
       boot_faults >= times + (IF bus = "stuck" THEN 1 ELSE 0)

IInv ==
  /\ TypeOK /\ CrcKnown /\ Reading /\ Writing /\ AttemptsPaid
  /\ NeverAMix /\ SavedIsDurable /\ DefaultsOnlyIfNeeded

LEMMA ClearedIsRecord == Cleared \in Records
BY StoreAssumption DEF Cleared, Records

LEMMA InitIInv == Init => IInv
<1> SUFFICES ASSUME Init PROVE IInv
  OBVIOUS
<1> USE DEF Init
<1>1. TypeOK
  <2>1. cell \in 1 .. N + 1 /\ times \in 0 .. 3 /\ faults \in 0 .. MaxFaults
        /\ boot_faults \in 0 .. MaxFaults + 1
    BY StoreAssumption
  <2> QED BY <2>1, ClearedIsRecord, StoreAssumption DEF TypeOK
<1>2. CrcKnown /\ Reading /\ Writing /\ NeverAMix /\ SavedIsDurable /\ DefaultsOnlyIfNeeded
  BY DEF CrcKnown, Known, Reading, Writing, NeverAMix, SavedIsDurable, DefaultsOnlyIfNeeded
<1>3. AttemptsPaid
  BY DEF AttemptsPaid
<1> QED BY <1>1, <1>2, <1>3 DEF IInv

(* A restart, whatever else the step does to the EEPROM and the histories. *)
LEMMA RestartKeeps ==
  ASSUME faults' \in Nat, bus' \in {"ok", "stuck"}, Restart
  PROVE  /\ storage' \in Records /\ crc' = NoCrc
         /\ cell' \in 1 .. N + 1 /\ times' \in 0 .. 3
         /\ can_id' \in Values
         /\ boot_faults' \in 0 .. MaxFaults + 1
         /\ Reading' /\ Writing' /\ AttemptsPaid' /\ NeverAMix' /\ DefaultsOnlyIfNeeded'
<1> USE DEF Restart
<1>1. cell' \in 1 .. N + 1 /\ times' \in 0 .. 3 /\ boot_faults' \in 0 .. MaxFaults + 1
  BY StoreAssumption
<1>2. storage' \in Records /\ crc' = NoCrc /\ can_id' \in Values
  BY ClearedIsRecord, StoreAssumption
<1>3. Reading' /\ Writing' /\ NeverAMix' /\ DefaultsOnlyIfNeeded'
  BY DEF Reading, Writing, NeverAMix, DefaultsOnlyIfNeeded
<1>4. AttemptsPaid'
  <2>1. /\ boot_faults' = (IF bus' = "stuck" THEN 1 ELSE 0)
        /\ times' = 0 /\ faults' \in Nat
    OBVIOUS
  <2> HIDE DEF Restart
  <2>2. \A f \in Nat, b \in 0 .. 1 : b <= f + 1
    OBVIOUS
  <2>3. boot_faults' \in 0 .. 1
    BY <2>1
  <2>4. boot_faults' <= faults' + 1
    BY <2>1, <2>2, <2>3
  <2>5. boot_faults' >= times' + (IF bus' = "stuck" THEN 1 ELSE 0)
    <3>1. CASE bus' = "stuck"
      BY <2>1, <3>1
    <3>2. CASE bus' = "ok"
      BY <2>1, <3>2
    <3> QED BY <3>1, <3>2
  <2> QED BY <2>4, <2>5 DEF AttemptsPaid
<1> QED BY <1>1, <1>2, <1>3, <1>4

--------------------------------------------------------------------------------
(* Boot. *)

LEMMA ReadWholeIInv == IInv /\ ReadWhole => IInv'
<1> SUFFICES ASSUME IInv, ReadWhole PROVE IInv'
  OBVIOUS
<1> USE DEF ReadWhole, romVars, histVars
<1>0. /\ pc = "read" /\ bus = "ok" /\ times \in 0 .. 2
      /\ storage' = eeprom /\ crc' = eeprom_crc
      /\ UNCHANGED <<eeprom, eeprom_crc, cell, asker, faults, boot_faults, good, tried>>
  BY DEF IInv, TypeOK, Reading
<1>1. CASE Accept
  <2> USE <1>1 DEF Accept
  <2>1. TypeOK'
    BY <1>0, StoreAssumption DEF IInv, TypeOK, Records, Cells
  <2>2. CrcKnown' /\ Reading' /\ Writing' /\ SavedIsDurable' /\ DefaultsOnlyIfNeeded'
    BY <1>0 DEF IInv, CrcKnown, Known, Reading, Writing, SavedIsDurable, DefaultsOnlyIfNeeded
  <2>3. NeverAMix'
    BY <1>0, StoreAssumption DEF IInv, TypeOK, CrcKnown, Known, NeverAMix, Valid
  <2>4. AttemptsPaid'
    BY <1>0 DEF IInv, AttemptsPaid
  <2> QED BY <2>1, <2>2, <2>3, <2>4 DEF IInv
<1>2. CASE Refuse
  <2> USE <1>2 DEF Refuse
  <2>0. ~Valid(eeprom, eeprom_crc) /\ times' \in 1 .. 3
    BY <1>0
  <2>1. TypeOK'
    BY <1>0, <2>0, StoreAssumption DEF IInv, TypeOK
  <2>2. CrcKnown' /\ SavedIsDurable'
    BY <1>0 DEF IInv, CrcKnown, Known, SavedIsDurable
  <2>3. Reading' /\ Writing'
    BY <1>0, <2>0 DEF IInv, Reading, Writing
  <2>4. NeverAMix'
    BY <1>0 DEF IInv, NeverAMix
  <2>5. DefaultsOnlyIfNeeded' /\ AttemptsPaid'
    BY <1>0, <2>0 DEF IInv, DefaultsOnlyIfNeeded, AttemptsPaid, Valid
  <2> QED BY <2>1, <2>2, <2>3, <2>4, <2>5 DEF IInv
<1> QED BY <1>1, <1>2

LEMMA ReadPartIInv ==
  ASSUME IInv, NEW n \in 0 .. N, ReadPart(n)
  PROVE  IInv'
<1> USE DEF ReadPart, romVars, histVars
<1>0. /\ pc = "read" /\ times \in 0 .. 2 /\ crc \in {eeprom_crc, NoCrc}
      /\ UNCHANGED <<eeprom, eeprom_crc, crc, cell, asker, good, tried>>
  BY DEF IInv, TypeOK, Reading
<1>1. storage' \in Records
  BY DEF IInv, TypeOK, Records
<1>2. /\ faults' \in 0 .. MaxFaults /\ boot_faults' \in 0 .. MaxFaults + 1
      /\ boot_faults' <= faults' + 1
      /\ Valid(eeprom, eeprom_crc) => boot_faults' >= times + 1
  BY <1>0, StoreAssumption DEF IInv, TypeOK, AttemptsPaid, Count, BootFault
<1>3. CASE Accept
  <2> USE <1>3 DEF Accept
  <2>1. TypeOK'
    BY <1>0, <1>1, <1>2, StoreAssumption DEF IInv, TypeOK, Records, Cells
  <2>2. CrcKnown' /\ Reading' /\ Writing' /\ SavedIsDurable' /\ DefaultsOnlyIfNeeded'
    BY <1>0 DEF IInv, CrcKnown, Known, Reading, Writing, SavedIsDurable, DefaultsOnlyIfNeeded
  <2>3. NeverAMix'
    BY <1>0, <1>1, StoreAssumption DEF IInv, TypeOK, CrcKnown, Known, NeverAMix, Valid
  <2>4. AttemptsPaid'
    BY <1>2 DEF AttemptsPaid
  <2> QED BY <2>1, <2>2, <2>3, <2>4 DEF IInv
<1>4. CASE Refuse
  <2> USE <1>4 DEF Refuse
  <2>0. times' \in 1 .. 3 /\ times' = times + 1
    BY <1>0
  <2>1. TypeOK'
    BY <1>0, <1>1, <1>2, <2>0, StoreAssumption DEF IInv, TypeOK
  <2>2. CrcKnown' /\ SavedIsDurable'
    BY <1>0 DEF IInv, CrcKnown, Known, SavedIsDurable
  <2>3. Reading' /\ Writing'
    BY <1>0, <2>0 DEF IInv, Reading, Writing
  <2>4. NeverAMix'
    BY <1>0 DEF IInv, NeverAMix
  <2>5. DefaultsOnlyIfNeeded' /\ AttemptsPaid'
    <3>1. Valid(eeprom, eeprom_crc)' => Valid(eeprom, eeprom_crc)
      BY <1>0 DEF Valid
    <3> QED BY <1>0, <1>2, <2>0, <3>1 DEF DefaultsOnlyIfNeeded, AttemptsPaid, IInv, TypeOK
  <2> QED BY <2>1, <2>2, <2>3, <2>4, <2>5 DEF IInv
<1> QED BY <1>3, <1>4

--------------------------------------------------------------------------------
(* Saving. *)

LEMMA BeginWriteIInv ==
  ASSUME IInv, NEW record \in Records, NEW who \in {"uart", "key"},
         pc = "run", BeginWrite(record, who)
  PROVE  IInv'
<1> USE DEF BeginWrite, romVars
<1>1. TypeOK'
  <2>1. cell' \in 1 .. N + 1 /\ times' \in 0 .. 3 /\ boot_faults' \in 0 .. MaxFaults + 1
        /\ faults' \in 0 .. MaxFaults
    BY StoreAssumption DEF IInv, TypeOK
  <2> QED BY <2>1 DEF IInv, TypeOK
<1>2. CrcKnown' /\ Reading' /\ NeverAMix' /\ DefaultsOnlyIfNeeded'
  BY DEF IInv, CrcKnown, Known, Reading, NeverAMix, DefaultsOnlyIfNeeded
<1>3. Writing'
  BY DEF Writing, Cells
<1>4. SavedIsDurable'
  BY DEF SavedIsDurable
<1>5. AttemptsPaid'
  BY DEF IInv, AttemptsPaid
<1> QED BY <1>1, <1>2, <1>3, <1>4, <1>5 DEF IInv

LEMMA WriteCellIInv == IInv /\ WriteCell => IInv'
<1> SUFFICES ASSUME IInv, WriteCell PROVE IInv'
  OBVIOUS
<1> USE DEF WriteCell, ramVars, histVars
<1>1. TypeOK'
  <2>1. cell' \in 1 .. N + 1 /\ cell \in Cells
    BY StoreAssumption DEF IInv, TypeOK, Cells
  <2>2. eeprom' \in Records
    BY <2>1 DEF IInv, TypeOK, Records
  <2> QED BY <2>1, <2>2 DEF IInv, TypeOK
<1>2. CrcKnown' /\ Reading' /\ NeverAMix' /\ DefaultsOnlyIfNeeded'
  BY DEF IInv, CrcKnown, Known, Reading, NeverAMix, DefaultsOnlyIfNeeded
<1>3. Writing'
  <2> SUFFICES ASSUME NEW c \in Cells, c < cell + 1
               PROVE  eeprom'[c] = storage[c]
    BY DEF IInv, Writing
  <2>1. CASE c = cell
    BY <2>1 DEF IInv, TypeOK, Records
  <2>2. CASE c # cell
    <3>1. c < cell
      BY <2>2 DEF Cells, IInv, TypeOK
    <3> QED BY <2>2, <3>1 DEF IInv, TypeOK, Records, Writing
  <2> QED BY <2>1, <2>2
<1>4. SavedIsDurable' /\ AttemptsPaid'
  BY DEF IInv, SavedIsDurable, Writing, AttemptsPaid
<1> QED BY <1>1, <1>2, <1>3, <1>4 DEF IInv

LEMMA WriteCrcIInv == IInv /\ WriteCrc => IInv'
<1> SUFFICES ASSUME IInv, WriteCrc PROVE IInv'
  OBVIOUS
<1>0. /\ bus' \in {"ok", "stuck"} /\ faults' \in Nat /\ Restart
      /\ eeprom' = eeprom /\ eeprom_crc' = storage /\ good' = storage /\ tried' = {}
      /\ faults' \in 0 .. MaxFaults
  BY StoreAssumption DEF WriteCrc, IInv, TypeOK, Writing
<1>1. eeprom = storage
  <2>1. \A c \in Cells : eeprom[c] = storage[c]
    BY StoreAssumption DEF WriteCrc, IInv, Writing, Cells
  <2> QED BY <2>1 DEF IInv, TypeOK, Records
<1>2. TypeOK'
  BY <1>0, RestartKeeps DEF IInv, TypeOK, Restart
<1>3. CrcKnown' /\ SavedIsDurable'
  BY <1>0, <1>1 DEF CrcKnown, Known, SavedIsDurable
<1> QED BY <1>0, <1>2, <1>3, RestartKeeps DEF IInv

(* What a failed transfer during Write can do to the EEPROM. *)
LEMMA ByteFailsKeeps ==
  ASSUME IInv, pc = "write", ByteFails, UNCHANGED histVars
  PROVE  /\ eeprom' \in Records /\ eeprom_crc' \in Records \cup {NoCrc}
         /\ faults' \in 0 .. MaxFaults /\ faults <= faults'
         /\ tried # {} /\ CrcKnown' /\ SavedIsDurable'
<1>1. eeprom' \in Records
  BY DEF ByteFails, romVars, IInv, TypeOK, Records, Cells
<1>2. eeprom_crc' \in {eeprom_crc, crc, NoCrc} /\ crc \in tried
  BY DEF ByteFails, romVars, IInv, Writing
<1>3. faults' \in 0 .. MaxFaults /\ faults <= faults'
  BY StoreAssumption DEF ByteFails, Count, IInv, TypeOK
<1>4. CrcKnown'
  BY <1>2 DEF CrcKnown, Known, histVars, IInv
<1>5. tried # {} /\ SavedIsDurable'
  BY <1>2 DEF SavedIsDurable, histVars
<1> QED BY <1>1, <1>2, <1>3, <1>4, <1>5 DEF IInv, TypeOK

(* An attempt that fails and is followed by another. *)
LEMMA RetryIInv ==
  ASSUME IInv, pc = "write", ByteFails, cell' = 1, times' \in 0 .. 2,
         bus' \in {"ok", "stuck"},
         UNCHANGED <<ramVars, pc, asker, applied, can_id, boot_faults, histVars>>
  PROVE  IInv'
<1> USE DEF ramVars, histVars
<1>1. TypeOK'
  <2>1. cell' \in 1 .. N + 1 /\ times' \in 0 .. 3
    BY StoreAssumption
  <2> QED BY <2>1, ByteFailsKeeps DEF IInv, TypeOK
<1>2. Reading' /\ NeverAMix' /\ DefaultsOnlyIfNeeded'
  BY DEF Reading, NeverAMix, DefaultsOnlyIfNeeded
<1>3. Writing'
  BY DEF IInv, Writing, Cells
<1>4. AttemptsPaid'
  BY ByteFailsKeeps DEF IInv, AttemptsPaid, TypeOK
<1> QED BY <1>1, <1>2, <1>3, <1>4, ByteFailsKeeps DEF IInv

LEMMA SaveIInv == IInv /\ Save => IInv'
<1> SUFFICES ASSUME IInv, Save PROVE IInv'
  OBVIOUS
<1>1. CASE WriteAgain
  <2>1. times' \in 0 .. 2 /\ bus' \in {"ok", "stuck"}
    BY <1>1 DEF WriteAgain, IInv, TypeOK
  <2> QED BY <1>1, <2>1, RetryIInv DEF WriteAgain
<1>2. CASE KeySaveRepeats
  <2>1. times' \in 0 .. 2 /\ bus' \in {"ok", "stuck"}
    BY <1>2 DEF KeySaveRepeats
  <2> QED BY <1>2, <2>1, RetryIInv DEF KeySaveRepeats
<1>3. CASE TransmitFails
  <2>1. /\ pc = "write" /\ ByteFails /\ Restart /\ UNCHANGED histVars
        /\ bus' \in {"ok", "stuck"}
    BY <1>3 DEF TransmitFails, histVars, IInv, TypeOK
  <2>2. faults' \in Nat
    BY <2>1, ByteFailsKeeps, StoreAssumption
  <2>3. TypeOK'
    BY <2>1, <2>2, ByteFailsKeeps, RestartKeeps DEF IInv, TypeOK, Restart, histVars
  <2> QED BY <2>1, <2>2, <2>3, ByteFailsKeeps, RestartKeeps DEF IInv
<1> QED BY <1>1, <1>2, <1>3, WriteCellIInv, WriteCrcIInv DEF Save

--------------------------------------------------------------------------------
(* The environment, and the theorems. *)

LEMMA PowerLossIInv == IInv /\ PowerLoss => IInv'
<1> SUFFICES ASSUME IInv, PowerLoss PROVE IInv'
  OBVIOUS
<1>0. /\ bus' \in {"ok", "stuck"} /\ Restart
      /\ faults' \in 0 .. MaxFaults /\ faults' \in Nat
      /\ eeprom' = eeprom /\ good' = good /\ tried' = tried
      /\ eeprom_crc' = eeprom_crc \/ (pc = "write" /\ eeprom_crc' = NoCrc)
  BY StoreAssumption DEF PowerLoss, Count, histVars, IInv, TypeOK
<1>1. TypeOK'
  BY <1>0, RestartKeeps DEF IInv, TypeOK, Restart
<1>2. CrcKnown' /\ SavedIsDurable'
  BY <1>0 DEF IInv, CrcKnown, Known, SavedIsDurable, Writing
<1> QED BY <1>0, <1>1, <1>2, RestartKeeps DEF IInv

LEMMA BusSticksIInv == IInv /\ BusSticks => IInv'
<1> SUFFICES ASSUME IInv, BusSticks PROVE IInv'
  OBVIOUS
<1> USE DEF BusSticks, romVars, ramVars, histVars
<1>1. faults' \in 0 .. MaxFaults /\ boot_faults' \in 0 .. MaxFaults + 1
      /\ boot_faults' <= faults' + 1
  BY StoreAssumption DEF Count, BootFault, IInv, TypeOK, AttemptsPaid
<1>2. TypeOK'
  BY <1>1 DEF IInv, TypeOK
<1>3. CrcKnown' /\ Reading' /\ Writing' /\ NeverAMix' /\ SavedIsDurable'
  BY DEF IInv, CrcKnown, Known, Reading, Writing, NeverAMix, SavedIsDurable
<1>4. AttemptsPaid'
  <2>1. pc = "read" /\ Valid(eeprom, eeprom_crc) => boot_faults' >= times + 1
    BY DEF IInv, TypeOK, AttemptsPaid, BootFault
  <2> QED BY <1>1, <2>1 DEF AttemptsPaid, Valid
<1>5. DefaultsOnlyIfNeeded'
  BY DEF IInv, DefaultsOnlyIfNeeded, BootFault, Valid
<1> QED BY <1>2, <1>3, <1>4, <1>5 DEF IInv

LEMMA NextIInv == IInv /\ [Next]_vars => IInv'
<1> SUFFICES ASSUME IInv, [Next]_vars PROVE IInv'
  OBVIOUS
<1>1. CASE Boot
  BY <1>1, ReadWholeIInv, ReadPartIInv DEF Boot
<1>2. CASE Save
  BY <1>2, SaveIInv
<1>3. CASE \E r \in Records : Transmit(r)
  BY <1>3, BeginWriteIInv DEF Transmit
<1>4. CASE \E id \in Values : KeySetSave(id)
  <2>1. PICK id \in Values : KeySetSave(id)
    BY <1>4
  <2>2. [storage EXCEPT ![1] = id] \in Records
    BY DEF IInv, TypeOK, Records
  <2> QED BY <2>1, <2>2, BeginWriteIInv DEF KeySetSave
<1>5. CASE PowerLoss
  BY <1>5, PowerLossIInv
<1>6. CASE BusSticks
  BY <1>6, BusSticksIInv
<1>7. CASE UNCHANGED vars
  <2>1. TypeOK' /\ CrcKnown' /\ Reading' /\ SavedIsDurable'
    BY <1>7 DEF vars, IInv, TypeOK, CrcKnown, Known, Reading, SavedIsDurable
  <2>2. Writing' /\ AttemptsPaid' /\ NeverAMix' /\ DefaultsOnlyIfNeeded'
    BY <1>7 DEF vars, IInv, Writing, AttemptsPaid, Valid, NeverAMix, DefaultsOnlyIfNeeded
  <2> QED BY <2>1, <2>2 DEF IInv
<1> QED BY <1>1, <1>2, <1>3, <1>4, <1>5, <1>6, <1>7 DEF Next

(* The invariant the theorems below are parts of. *)
THEOREM StoreInvariant == Spec => []IInv
<1>1. Init => IInv
  BY InitIInv
<1>2. IInv /\ [Next]_vars => IInv'
  BY NextIInv
<1> QED BY <1>1, <1>2, PTL DEF Spec

(* The variables of the store keep their ranges. *)
THEOREM StoreTypeCorrect == Spec => []TypeOK
<1>1. IInv => TypeOK
  BY DEF IInv
<1> QED BY <1>1, StoreInvariant, PTL

(* Boot never configures the module from parts of two records, for records of any
   length and faults in any number and place.                                     *)
THEOREM StoreNeverMixes == Spec => []NeverAMix
<1>1. IInv => NeverAMix
  BY DEF IInv
<1> QED BY <1>1, StoreInvariant, PTL

(* A record reported saved stays until the next Write begins. *)
THEOREM StoreDurable == Spec => []SavedIsDurable
<1>1. IInv => SavedIsDurable
  BY DEF IInv
<1> QED BY <1>1, StoreInvariant, PTL

(* A good record is given up only after three faults in one boot. *)
THEOREM StoreDefaultsLast == Spec => []DefaultsOnlyIfNeeded
<1>1. IInv => DefaultsOnlyIfNeeded
  BY DEF IInv
<1> QED BY <1>1, StoreInvariant, PTL
--------------------------------------------------------------------------------
(* AtomicStore.  One more fact about boot is needed: a CRC in memory came with   *)
(* the record, so that no attempt accepts but what the EEPROM holds.             *)

ReadTogether == pc = "read" /\ crc # NoCrc => storage = eeprom /\ crc = eeprom_crc

AInv == IInv /\ ReadTogether

LEMMA InitAInv == Init => AInv /\ Atomic!Init
<1> SUFFICES ASSUME Init PROVE AInv /\ Atomic!Init
  OBVIOUS
<1>1. ReadTogether
  BY DEF Init, ReadTogether
<1>2. Content = good /\ Content \in Records \cup {NoRecord}
  BY StoreAssumption DEF Init, Content
<1>3. tried \cup {good} = {good} /\ pc = "read" /\ Held = NoRecord
  BY DEF Init, Held
<1> QED BY <1>1, <1>2, <1>3, InitIInv DEF AInv, Atomic!Init

LEMMA NextAInv == AInv /\ [Next]_vars => AInv'
<1> SUFFICES ASSUME AInv, [Next]_vars PROVE ReadTogether'
  BY NextIInv DEF AInv
<1> USE DEF AInv, ReadTogether
<1>1. CASE ReadWhole
  BY <1>1 DEF ReadWhole, romVars
<1>2. ASSUME NEW n \in 0 .. N, ReadPart(n) PROVE ReadTogether'
  <2>1. ASSUME storage = eeprom PROVE storage' = eeprom
    <3>1. storage' = [c \in Cells |-> eeprom[c]]
      BY <1>2, <2>1 DEF ReadPart
    <3> QED BY <3>1 DEF IInv, TypeOK, Records
  <2> QED BY <1>2, <2>1 DEF ReadPart, romVars
<1>3. CASE Save
  <2>1. pc' = "write" \/ Restart
    BY <1>3 DEF Save, WriteCell, WriteCrc, WriteAgain, TransmitFails, KeySaveRepeats
  <2> QED BY <2>1 DEF Restart
<1>4. CASE \E r \in Records : Transmit(r)
  BY <1>4 DEF Transmit, BeginWrite
<1>5. CASE \E id \in Values : KeySetSave(id)
  BY <1>5 DEF KeySetSave, BeginWrite
<1>6. CASE PowerLoss
  BY <1>6 DEF PowerLoss, Restart
<1>7. CASE BusSticks
  BY <1>7 DEF BusSticks, romVars, ramVars
<1>8. CASE UNCHANGED vars
  BY <1>8 DEF vars
<1> QED BY <1>1, <1>2, <1>3, <1>4, <1>5, <1>6, <1>7, <1>8 DEF Next, Boot

(* What is there is a record some save is to answer for, or none. *)
LEMMA ContentPossible ==
  ASSUME TypeOK', CrcKnown'
  PROVE  Content' \in (tried' \cup {good'}) \cup {NoRecord}
BY StoreAssumption DEF TypeOK, CrcKnown, Known, Content

(* An attempt of Read: boot is done with it, or nothing seen from outside happens. *)
LEMMA ReadIsBoot ==
  ASSUME AInv, pc = "read", UNCHANGED <<romVars, tried, good>>, Accept \/ Refuse,
         storage' \in Records, crc' = storage' => storage' = eeprom /\ crc' = eeprom_crc
  PROVE  Atomic!Boot \/ UNCHANGED <<Content, tried \cup {good}, pc, Held>>
<1>1. Content' = Content /\ tried' = tried /\ good' = good
  BY DEF romVars, Content
<1>2. CASE Accept
  <2>1. pc' = "run" /\ Held' = storage'
    BY <1>2 DEF Accept, Held
  <2>2. storage' = Content
    BY <1>2 DEF Accept, Valid, Content
  <2> QED BY <1>1, <2>1, <2>2 DEF Atomic!Boot
<1>3. CASE Refuse
  <2>1. Held = NoRecord
    BY DEF Held
  <2>2. CASE times' = 3
    BY <1>1, <1>3, <2>2 DEF Refuse, Held, Atomic!Boot
  <2>3. CASE times' # 3
    BY <1>1, <1>3, <2>1, <2>3 DEF Refuse, Held
  <2> QED BY <2>2, <2>3
<1> QED BY <1>2, <1>3

(* A Write begins. *)
LEMMA WriteIsBegin ==
  ASSUME NEW record \in Records, NEW who, pc = "run", BeginWrite(record, who)
  PROVE  Atomic!Begin(record)
<1>1. Content' = Content /\ tried' \cup {good'} = (tried \cup {good}) \cup {record}
  BY DEF BeginWrite, romVars, Content
<1>2. pc' = "write" /\ Held' = record
  BY DEF BeginWrite, Held
<1> QED BY <1>1, <1>2 DEF Atomic!Begin

(* A step inside a Write. *)
LEMMA StepIsContinue ==
  ASSUME TypeOK', CrcKnown', pc = "write", UNCHANGED <<storage, pc, tried, good>>
  PROVE  Atomic!Continue
<1>1. Content' \in (tried \cup {good}) \cup {NoRecord}
  BY ContentPossible
<1>2. Held' = Held
  BY DEF Held
<1> QED BY <1>1, <1>2 DEF Atomic!Continue, Atomic!Unsettled

(* A restart that does not end a Write that succeeded. *)
LEMMA RestartIsRestart ==
  ASSUME TypeOK', CrcKnown', Restart, UNCHANGED <<tried, good>>,
         pc = "write" \/ UNCHANGED romVars
  PROVE  Atomic!Restart
<1>1. Content' \in (tried \cup {good}) \cup {NoRecord}
  BY ContentPossible
<1>2. pc = "write" \/ Content' = Content
  BY DEF romVars, Content
<1>3. pc' = "read" /\ Held' = NoRecord
  BY DEF Restart, Held
<1> QED BY <1>1, <1>2, <1>3 DEF Atomic!Restart, Atomic!Unsettled

(* The CRC is written: by then the cells are, all of them. *)
LEMMA CrcIsFinish == AInv /\ WriteCrc => Atomic!Finish
<1> SUFFICES ASSUME AInv, WriteCrc PROVE Atomic!Finish
  OBVIOUS
<1>1. /\ pc = "write" /\ storage \in Records /\ crc = storage
      /\ eeprom' = eeprom /\ eeprom_crc' = storage
      /\ good' = storage /\ tried' = {} /\ pc' = "read"
  BY DEF AInv, IInv, TypeOK, Writing, WriteCrc, Restart
<1>2. eeprom = storage
  <2>1. \A c \in Cells : eeprom[c] = storage[c]
    BY StoreAssumption DEF WriteCrc, AInv, IInv, Writing, Cells
  <2> QED BY <2>1 DEF AInv, IInv, TypeOK, Records
<1>3. Held = storage /\ Held' = NoRecord /\ Content' = storage
  BY <1>1, <1>2 DEF Held, Content
<1>4. tried' \cup {good'} = {Held}
  BY <1>1, <1>3
<1> QED BY <1>1, <1>3, <1>4 DEF Atomic!Finish

LEMMA AtomicStep == AInv /\ [Next]_vars => [Atomic!Next]_(Atomic!vars)
<1> SUFFICES ASSUME AInv, [Next]_vars
             PROVE  Atomic!Next \/ UNCHANGED <<Content, tried \cup {good}, pc, Held>>
  BY DEF Atomic!vars
<1>0. TypeOK' /\ CrcKnown'
  BY NextIInv DEF AInv, IInv
<1>1. CASE ReadWhole
  <2>1. /\ pc = "read" /\ UNCHANGED <<romVars, tried, good>> /\ (Accept \/ Refuse)
        /\ storage' \in Records /\ storage' = eeprom /\ crc' = eeprom_crc
    BY <1>1 DEF ReadWhole, histVars, AInv, IInv, TypeOK
  <2> QED BY <2>1, ReadIsBoot DEF Atomic!Next
<1>2. ASSUME NEW n \in 0 .. N, ReadPart(n)
      PROVE  Atomic!Next \/ UNCHANGED <<Content, tried \cup {good}, pc, Held>>
  <2>1. /\ pc = "read" /\ UNCHANGED <<romVars, tried, good>> /\ (Accept \/ Refuse)
        /\ storage' = [c \in Cells |-> IF c <= n THEN eeprom[c] ELSE storage[c]]
        /\ crc' = crc
    BY <1>2 DEF ReadPart, histVars
  <2>2. storage' \in Records
    BY <2>1 DEF AInv, IInv, TypeOK, Records
  <2>3. ASSUME crc' = storage' PROVE storage' = eeprom /\ crc' = eeprom_crc
    <3>1. storage = eeprom /\ crc = eeprom_crc
      BY <2>1, <2>2, <2>3, StoreAssumption DEF AInv, ReadTogether
    <3>2. storage' = [c \in Cells |-> eeprom[c]]
      BY <2>1, <3>1
    <3> QED BY <2>1, <3>1, <3>2 DEF AInv, IInv, TypeOK, Records
  <2> QED BY <2>1, <2>2, <2>3, ReadIsBoot DEF Atomic!Next
<1>3. CASE WriteCell \/ WriteAgain \/ KeySaveRepeats
  <2>1. pc = "write" /\ UNCHANGED <<storage, pc, tried, good>>
    BY <1>3 DEF WriteCell, WriteAgain, KeySaveRepeats, ramVars, histVars
  <2> QED BY <1>0, <2>1, StepIsContinue DEF Atomic!Next
<1>4. CASE WriteCrc
  BY <1>4, CrcIsFinish DEF Atomic!Next
<1>5. CASE TransmitFails
  BY <1>0, <1>5, RestartIsRestart DEF TransmitFails, histVars, Atomic!Next
<1>6. CASE \E r \in Records : Transmit(r)
  BY <1>6, WriteIsBegin DEF Transmit, Atomic!Next
<1>7. CASE \E id \in Values : KeySetSave(id)
  <2>1. PICK id \in Values : KeySetSave(id)
    BY <1>7
  <2>2. [storage EXCEPT ![1] = id] \in Records
    BY DEF AInv, IInv, TypeOK, Records
  <2> QED BY <2>1, <2>2, WriteIsBegin DEF KeySetSave, Atomic!Next
<1>8. CASE PowerLoss
  <2>1. Restart /\ UNCHANGED <<tried, good>> /\ (pc = "write" \/ UNCHANGED romVars)
    BY <1>8 DEF PowerLoss, histVars, romVars
  <2> QED BY <1>0, <2>1, RestartIsRestart DEF Atomic!Next
<1>9. CASE BusSticks \/ UNCHANGED vars
  BY <1>9 DEF BusSticks, vars, romVars, ramVars, histVars, Content, Held
<1> QED
  BY <1>1, <1>2, <1>3, <1>4, <1>5, <1>6, <1>7, <1>8, <1>9 DEF Next, Boot, Save

(* ParamStore implements AtomicStore: through failed transfers, hung buses, retries
   and restarts anywhere, the EEPROM's bytes behave as one record written at once or
   not at all, and what a boot takes is what the next one would find.               *)
THEOREM StoreIsAtomic == Spec => ImplementsAtomicStore
<1>1. Init => AInv /\ Atomic!Init
  BY InitAInv
<1>2. AInv /\ [Next]_vars => AInv' /\ [Atomic!Next]_(Atomic!vars)
  BY NextAInv, AtomicStep
<1> QED BY <1>1, <1>2, PTL DEF Spec, ImplementsAtomicStore, Atomic!Spec
================================================================================
