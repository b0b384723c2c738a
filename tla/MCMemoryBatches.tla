-------------------------- MODULE MCMemoryBatches --------------------------
(* Two units of two conversations: three messages, of which the account     *)
(* holder wrote the first.  One scope means everything, one begins in the   *)
(* middle of the first unit, one has what the account holder wrote and      *)
(* nothing of the second unit.  The page of the first conversation is a     *)
(* target of the first unit only.                                           *)
EXTENDS MemoryBatches

Message(alias, sender, at) == [alias |-> alias, sender |-> sender, at |-> at, bytes |-> 1]

Unit(conversation, messages) ==
  [conversation |-> conversation, kinds |-> {"direct"}, people |-> {"P1"},
   messages |-> messages]

MCUnits == <<Unit("C1", <<Message("E1", "self", 1), Message("E2", "P1", 2)>>),
             Unit("C2", <<Message("E3", "P1", 3)>>)>>

Everything ==
  [conversations |-> {}, kinds |-> {}, senders |-> {}, notBefore |-> {},
   notAfter |-> {}, subject |-> "accountHolder"]

MCScopes == {Everything, [Everything EXCEPT !.notBefore = {2}],
             [Everything EXCEPT !.senders = {"self"}]}

Me == <<"me">>
Chat == <<"conversation", "C1">>

MCPages == {Me, Chat}
MCContents ==
  [p \in MCPages |->
     CASE p = Me -> {{}, {{"E1"}}, {{"E2"}}, {{"E1", "E3"}}}
       [] p = Chat -> {{{"E2"}}}]
MCFirstWikis == {<<>>, [p \in {Me} |-> {{"E1"}}]}
=============================================================================
