------------------------------- MODULE MCArmRun -------------------------------
(* ArmRun on plans scaled down from 25 + 250 updates: blocks of two updates. *)
EXTENDS ArmRun

\* The arm that may switch, beside one whose selection is never measured.
TwoArms == {"switch", "sr"}

\* -1, 1, -1 has a negative sum.
TwoContrasts == {-1, 1}
=============================================================================
