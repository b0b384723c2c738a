---------------------------- MODULE MCConnector ----------------------------
(***************************************************************************)
(* Two processes over one replica, whose checkpoints are of two sources.   *)
(***************************************************************************)
EXTENDS Connector

CONSTANTS c1, c2, f1, f2

MCService == {c1, c2}
MCTwoSources == <<f1, f2>>

MCAll == {"list", "query", "refused", "draft", "ownerDraft", "preview"}

MCSymmetry == {[s \in MCService |-> s], [s \in MCService |-> IF s = c1 THEN c2 ELSE c1]}
=============================================================================
