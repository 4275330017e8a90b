------------------------------- MODULE MCFleet -------------------------------
(* Fleet on two workers and two plans.                                       *)
EXTENDS Fleet, TLC

CONSTANTS w1, w2

TwoWorkers == {w1, w2}
Symmetry == Permutations(TwoWorkers)
=============================================================================
