------------------------ MODULE MCReplicaPublication ------------------------
(* Small publication directories for TLC.                                   *)
EXTENDS ReplicaPublication, TLC

CONSTANTS o1, o2, x, y, z, c1, c2

MCProcess == {o1, o2}
MCPath == {x, y, z}
MCContent == {c1, c2}
MCRetentions == {2}
MCSymmetry == Permutations(MCProcess) \cup Permutations(MCPath) \cup Permutations(MCContent)
=============================================================================
