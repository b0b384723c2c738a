------------------------- MODULE MCReplicaFollower --------------------------
(* One publisher and two followers for TLC.                                  *)
EXTENDS ReplicaFollower, TLC

CONSTANTS o1, x, y, z, c1, c2, f1, f2

MCProcess == {o1}
MCPath == {x, y}
MCContent == {c1, c2}
MCRetentions == {2}
\* The replica that holds c1 takes c2 no more, but goes the other way.
MCRefusing == {<<c1, c2>>}
MCFollower == {f1, f2}

MCSymmetry == Permutations(MCPath) \cup Permutations(MCFollower)
=============================================================================
