------------------------------- MODULE MCCommKey --------------------------------
(* KeyGesture, whose levels are one unit of time apart. *)
EXTENDS KeyGesture

MCDeltas == {1}
================================================================================
