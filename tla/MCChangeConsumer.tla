-------------------------- MODULE MCChangeConsumer --------------------------
(* Three messages of two conversations, in two databases, for TLC.           *)
EXTENDS ChangeConsumer, TLC

CONSTANTS a, b, d1, d2, t1, t2, n1, n2, s1, s2

MCConversation == {a, b}
MCMessage == {1, 2, 3}
MCHome == (1 :> a) @@ (2 :> a) @@ (3 :> b)
MCDatabase == {d1, d2}
MCShardOf == (1 :> d1) @@ (2 :> d2) @@ (3 :> d1)
MCText == {t1, t2}
MCName == {n1, n2}
MCSyncer == {s1, s2}
MCSymmetry == Permutations(MCSyncer)
MCAuthorized == {a}

\* Message 3 is there whenever its database is, and changes with message 1;
\* message 2 does not change; two archives lack a database that could not be
\* read, and one a database that is gone and names a conversation otherwise.
Texts(S, t) == [m \in S |-> IF m = 2 THEN t1 ELSE t]

Restoration(included, name, texts) ==
  [inventory |-> MCDatabase, included |-> included,
   names |-> (a :> name) @@ (b :> n1), texts |-> texts]

MCRestored ==
  {Restoration({d1, d2}, n1, Texts(S, t1)) : S \in {{1, 3}, {2, 3}, {1, 2, 3}}}
  \cup {Restoration({d1, d2}, n1, Texts(MCMessage, t2)),
        Restoration({d1}, n1, Texts({1, 3}, t1)),
        Restoration({d2}, n1, Texts({2}, t1)),
        [Restoration({d1}, n2, Texts({1, 3}, t1)) EXCEPT !.inventory = {d1}]}
=============================================================================
