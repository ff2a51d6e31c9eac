----------------------------- MODULE MCMotorControl ----------------------------
(* MotorControl with two speeds and a MaxOut beyond the reload value. *)
EXTENDS MotorControl

CONSTANTS rest, fast

MCOmegas == {rest, fast}
================================================================================
