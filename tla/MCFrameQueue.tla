------------------------------ MODULE MCFrameQueue -----------------------------
(* FrameQueue on a small ring with one malformed frame among two. *)
EXTENDS FrameQueue

CONSTANTS good, bad

MCFrames    == {good, bad}
MCMalformed == {bad}
================================================================================
