----------------------------- MODULE MCControlLoop -----------------------------
(* ControlLoop on counters of three and five values, with a float that drops the
   last bit of a count.                                                          *)
EXTENDS ControlLoop

MCSeconds == [t \in Moments |-> 2 * (t \div 2)]
MCTerms == {-2, 0, 2}
================================================================================
