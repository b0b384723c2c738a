----------------------------- MODULE MCLiveQuery -----------------------------
EXTENDS LiveQuery

\* Rows are numbered by conversation, and in the index over all.
Row(entry, shard, row, conversation, sort, time, readable, matches) ==
    [entry |-> entry, shard |-> shard, row |-> row, conversation |-> conversation,
     sort |-> sort, time |-> time, readable |-> readable, matches |-> matches]

MCMessages ==
    {Row(1, 1, 1, 1, 1, 1, TRUE, TRUE), Row(2, 1, 2, 1, 2, 2, TRUE, FALSE),
     Row(3, 2, 1, 1, 2, 2, TRUE, FALSE), Row(4, 2, 2, 1, 3, 2, FALSE, FALSE),
     Row(5, 1, 1, 2, 3, 3, TRUE, TRUE), Row(6, 2, 1, 3, 1, 1, TRUE, TRUE)}

MCConversations == 1..3
MCShards == 1..2

MCInitialMessages ==
    {MCMessages, {m \in MCMessages : m.readable}, {m \in MCMessages : m.shard = 1},
     {m \in MCMessages : m.conversation # 2}, {}}

Request(kind, conversation, notBefore, notAfter, limit) ==
    [kind |-> kind, conversation |-> conversation, notBefore |-> notBefore,
     notAfter |-> notAfter, limit |-> limit]

MCRequests ==
    {Request("conversations", 0, 0, 9, 1), Request("messages", 1, 0, 9, 1),
     Request("messages", 1, 2, 2, 2), Request("search", 0, 0, 9, 1),
     Request("search", 0, 0, 9, 2), Request("search", 1, 0, 2, 1)}
=============================================================================
