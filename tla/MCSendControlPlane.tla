------------------------- MODULE MCSendControlPlane -------------------------
(* Small control planes for TLC.                                            *)
EXTENDS SendControlPlane, TLC

CONSTANTS k1, k2, k3, k4, a1, a2, p1, p2, b1, b2

MCKey == {k1, k2, k3, k4}
MCApproval == {a1, a2}
MCStaging == Process \X Key
MCProcess == {p1, p2}
ProcessSymmetry == Permutations(Process)
FirstKey == {k1}
LastKey == {k4}
LookAlike == {b1}

\* The first two keys have one approval and one text, the others another.
RetriedApproval == (k1 :> a1) @@ (k2 :> a1) @@ (k3 :> a2) @@ (k4 :> a2)
MCBody == (k1 :> b1) @@ (k2 :> b1) @@ (k3 :> b2) @@ (k4 :> b2)

\* An operator reconciles keys that an earlier command reserved.
KnownKeys ==
  \A p \in Process :
    proc[p] = Idle /\ proc'[p].cmd = "reconcile" => proc'[p].key \in outbox.keys
=============================================================================
