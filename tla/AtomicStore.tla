------------------------------ MODULE AtomicStore ------------------------------
(***************************************************************************)
(* What the stored parameters promise: the store holds one whole record or *)
(* none.  While a save goes on, and wherever it is cut off, that may be the *)
(* record saved, an earlier one no save has replaced yet, or none; a save  *)
(* that is reported done leaves its record and no doubt.  At any other time *)
(* the store does not change, so every boot finds what the last one found.  *)
(***************************************************************************)
EXTENDS Naturals

CONSTANTS
  Records,    \* whole records
  NoRecord    \* no record

VARIABLES
  content,    \* the record in the store, NoRecord if none is to be found there
  possible,   \* what it may be: the record last saved, and those begun since
  phase,      \* "read" the store at boot, "run" with a configuration, "write" it
  held        \* the record the module runs with or saves; NoRecord: the defaults

vars == <<content, possible, phase, held>>

Init ==
  /\ content \in Records \cup {NoRecord}
  /\ possible = {content}
  /\ phase = "read" /\ held = NoRecord

Unsettled == content' \in possible \cup {NoRecord}

(* Boot takes the record that is there, or does without. *)
Boot ==
  /\ phase = "read" /\ phase' = "run"
  /\ held' \in {content, NoRecord}
  /\ UNCHANGED <<content, possible>>

Begin(record) ==
  /\ phase = "run" /\ phase' = "write"
  /\ held' = record
  /\ possible' = possible \cup {record}
  /\ UNCHANGED content

Continue ==
  /\ phase = "write"
  /\ Unsettled
  /\ UNCHANGED <<possible, phase, held>>

(* The save is reported done; the module starts again. *)
Finish ==
  /\ phase = "write" /\ phase' = "read"
  /\ content' = held
  /\ possible' = {held}
  /\ held' = NoRecord

(* The module starts again for another reason, in the middle of a save perhaps. *)
Restart ==
  /\ IF phase = "write" THEN Unsettled ELSE UNCHANGED content
  /\ phase' = "read" /\ held' = NoRecord
  /\ UNCHANGED possible

Next ==
  \/ Boot
  \/ \E record \in Records : Begin(record)
  \/ Continue
  \/ Finish
  \/ Restart

Spec == Init /\ [][Next]_vars
================================================================================
