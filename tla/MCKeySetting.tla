------------------------------ MODULE MCKeySetting ------------------------------
(* KeySetting with numbers up to 2, and turns that may come late. *)
EXTENDS KeySetting

MCDeltas == {1, 2}

(* Below the default, the default, and too far above it to be shown. *)
MCSlaveIds == {0, 1, 4}

MCMasterIds == {2, 9}
================================================================================
