-------------------------- MODULE MCInformationQueue --------------------------
(* InformationQueue on one host with two overlapping allocations.             *)
EXTENDS InformationQueue

CONSTANTS l1, l2

TwoLaunchers == {l1, l2}
Overlapping == l1 :> <<1, 2>> @@ l2 :> <<2, 1>>
=============================================================================
