---------------------------- MODULE MCCacheHandoff ----------------------------
(* CacheHandoff on small instances: two ranks, three candidates.             *)
EXTENDS CacheHandoff, TLC

CONSTANTS w1, w2

TwoWorkers == {w1, w2}

\* Workers are interchangeable.
Symmetry == Permutations(TwoWorkers)
=============================================================================
