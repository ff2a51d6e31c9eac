------------------------------- MODULE KeyIntent --------------------------------
(***************************************************************************)
(* What setting an ID by key promises: a number is entered for the ID whose *)
(* mode is on, the latest number stands, and an ID changes only to it.     *)
(***************************************************************************)
EXTENDS Naturals

CONSTANTS
  MaxTimes,       \* a number is below it
  DefaultSlave, DefaultMaster,
  SlaveIds, MasterIds  \* IDs a record may come with

VARIABLES
  mode,           \* "idle", or the ID being set, "slave" or "master"
  choice,         \* the ID and the number to be saved, or NoChoice
  slave, master   \* the IDs

vars == <<mode, choice, slave, master>>

NoChoice == <<"idle", 0>>

Init ==
  /\ mode = "idle" /\ choice = NoChoice
  /\ slave \in SlaveIds /\ master \in MasterIds

Enter ==
  /\ mode = "idle" /\ mode' \in {"slave", "master"}
  /\ UNCHANGED <<choice, slave, master>>

(* Leaving the mode does not take the number back. *)
Leave ==
  /\ mode # "idle" /\ mode' = "idle"
  /\ UNCHANGED <<choice, slave, master>>

Choose ==
  /\ mode # "idle"
  /\ \E n \in 1 .. MaxTimes - 1 : choice' = <<mode, n>>
  /\ UNCHANGED <<mode, slave, master>>

(* A click outside the modes shows the ID, and does take the number back. *)
Show ==
  /\ mode = "idle"
  /\ choice' = NoChoice
  /\ UNCHANGED <<mode, slave, master>>

Save ==
  /\ choice # NoChoice
  /\ slave'  = IF choice[1] = "slave"  THEN DefaultSlave + choice[2]  ELSE slave
  /\ master' = IF choice[1] = "master" THEN DefaultMaster + choice[2] ELSE master
  /\ mode' = "idle" /\ choice' = NoChoice

(* The master sends a record of its own. *)
HostSave ==
  /\ slave' \in SlaveIds /\ master' \in MasterIds
  /\ mode' = "idle" /\ choice' = NoChoice

Next == Enter \/ Leave \/ Choose \/ Show \/ Save \/ HostSave

Spec == Init /\ [][Next]_vars
================================================================================
