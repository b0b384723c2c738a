---------------------------- MODULE MCMemoryCorpus ----------------------------
(***************************************************************************)
(* A direct chat, a group and an official account over two months: the     *)
(* account holder writes three of the messages of the group and one of the *)
(* direct chat.                                                            *)
(***************************************************************************)
EXTENDS MemoryCorpus

Row(number, conversation, at, sender, bytes, decodes) ==
  [number |-> number, conversation |-> conversation, at |-> at, sender |-> sender,
   bytes |-> bytes, decodes |-> decodes]

MCKind == <<"official", "direct", "group">>

MCMessages == {
  Row(1, 2, 1, {2}, 1, TRUE), Row(2, 2, 2, {0}, 1, TRUE), Row(3, 2, 3, {2}, 1, TRUE),
  Row(4, 2, 4, {2}, 1, FALSE),
  Row(5, 3, 2, {0}, 2, TRUE), Row(6, 3, 12, {0}, 1, TRUE), Row(7, 3, 13, {0}, 1, TRUE),
  Row(8, 1, 99, {}, 1, TRUE), Row(9, 3, 11, {2}, 1, TRUE)}

MCInitialLive == {m \in MCMessages : m.number \notin {4, 8}}

NoContext == [gap |-> 1, before |-> 0, after |-> 0]

All(order) ==
  [mode |-> "allMessages", notBefore |-> {}, notAfter |-> {},
   include |-> {"direct", "group", "official"}, minimumSelf |-> 1, lookback |-> 0,
   minimumActiveMonths |-> 0, direct |-> NoContext, group |-> NoContext,
   maximumMessages |-> IF order = "relevance" THEN 1 ELSE 2, maximumBytes |-> 2, order |-> order]

\* The account holder's episodes: one message of context after each of theirs,
\* in a group one before
Episodic ==
  [All("chronological") EXCEPT !.mode = "accountHolderActiveEpisodes", !.notAfter = {13},
     !.include = {"direct", "group"}, !.lookback = 1, !.minimumActiveMonths = 1,
     !.direct.after = 1, !.group.before = 1]

\* Refused: a policy of all messages that leaves a kind of conversation out
Filtered == [All("chronological") EXCEPT !.include = {"direct"}]

MCPolicies == {All("chronological"), All("relevance"), Episodic, Filtered}
=============================================================================
