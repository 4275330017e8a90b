-------------------------- MODULE MCSelectionResume --------------------------
(* An instance of SelectionResume for TLC.                                  *)
EXTENDS SelectionResume

TwoOutcomes == {1, 2}
=============================================================================
