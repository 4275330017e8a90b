--------------------------- MODULE MCResearchQueue ---------------------------
(* ResearchQueue on two nodes; the carrier publishes at 0 and 1 updates. *)
EXTENDS ResearchQueue

CONSTANTS n1, n2

TwoNodes == {n1, n2}
TwoStages == <<0, 1>>
=============================================================================
