-------------------------- MODULE MCAcquisitionChain --------------------------
(* One database of two pages that the client works on, one that changes less. *)
EXTENDS AcquisitionChain

CONSTANTS p1, p2

MCSource == {1, 2}
MCPage == {p1, p2}
MCMaxChanges == 1 :> 5 @@ 2 :> 1
MCMaxCommits == 1 :> 2 @@ 2 :> 0
Symmetric == Permutations(MCPage)
=============================================================================
