-------------------------- MODULE MCCheckpointBackup --------------------------
(* CheckpointBackup: two nodes with the same time, three checkpoints.         *)
EXTENDS CheckpointBackup

CONSTANTS b1, b2, c1, c2, c3

TwoWatchers == {b1, b2}
ThreeCheckpoints == {c1, c2, c3}
SameTime == [w \in TwoWatchers |-> 0]
=============================================================================
