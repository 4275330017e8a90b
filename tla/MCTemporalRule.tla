--------------------------- MODULE MCTemporalRule ---------------------------
(* TemporalRule on five scheduled steps, with values whose sums of three     *)
(* reach, miss and cross zero.                                               *)
EXTENDS TemporalRule

FiveSteps   == {0, 2, 4, 6, 8}
SmallValues == -2..3
=============================================================================
