----------------------------- MODULE MCTaskQueue -----------------------------
(* TaskQueue on small instances: two workers, one seed, one arm.             *)
EXTENDS TaskQueue, TLC

CONSTANTS w1, w2

TwoWorkers == {w1, w2}
OneSeed    == {1}
OneArm     == {"sr"}

\* Workers are interchangeable: no action or property names one of them.
Symmetry == Permutations(TwoWorkers)
=============================================================================
