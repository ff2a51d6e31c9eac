------------------------------- MODULE MCScheduler -------------------------------
(* Scheduler with the firmware's three tasks and a tick count that wraps soon. *)
EXTENDS Scheduler

CONSTANTS motor, comm, detect

MCApps == <<motor, comm, detect>>

(* Two tasks that sleep for one tick, and one that sleeps for several. *)
MCDelayOf == [t \in {motor, comm, detect} |-> IF t = detect THEN 2 ELSE 1]
================================================================================
