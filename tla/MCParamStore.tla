------------------------------ MODULE MCParamStore -----------------------------
(* ParamStore with a record of two cells and the CRC. *)
EXTENDS ParamStore

CONSTANTS zero, id

MCValues == {zero, id}
================================================================================
