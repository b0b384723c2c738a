---------------------------- MODULE MCSendOutbox ----------------------------
(* A small outbox for TLC: two keys of one approval and one of another.     *)
EXTENDS SendOutbox, TLC

CONSTANTS k1, k2, k3, a1, a2

MCKey == {k1, k2, k3}
MCApproval == {a1, a2}
MCApprovalOf == (k1 :> a1) @@ (k2 :> a1) @@ (k3 :> a2)
MCStaging == {}
MCClock == 0 .. 2
MCMaxima == {1, 2}
=============================================================================
