------------------------------ MODULE LiveQuery ------------------------------
(***************************************************************************)
(* One client pages through a query of live_query.rs while the databases   *)
(* it reads go on changing: conversations, the messages of a conversation, *)
(* a search over the native index and the search that decodes messages     *)
(* where there is no index.                                                *)
(*                                                                         *)
(* Each page is a request of its own and holds no lock between two pages;  *)
(* within a page every shard is read by a statement of its own.  A cursor  *)
(* names the last record returned, and the next page continues strictly    *)
(* after it.  Identifiers, times and sequences are numbers; a message is a *)
(* record whose server identifier is assigned later (server), which moves  *)
(* its key.                                                                *)
(***************************************************************************)
EXTENDS Integers, Sequences, FiniteSets

CONSTANTS
    Messages,            \* [shard, row, entry, conversation, sort, time, readable, matches]
    Conversations,       \* their identifiers, positive and ordered
    Shards,              \* the numbered message databases
    Requests,            \* [kind, conversation, notBefore, notAfter, limit]
    InitialMessages,     \* the sets of messages that may be there at first
    PageLimit,           \* MAX_PAGE_LIMIT
    ScanBudget,          \* MAX_FALLBACK_SEARCH_MESSAGES_PER_PAGE
    ConversationBudget,  \* MAX_FALLBACK_SEARCH_CONVERSATIONS_PER_PAGE
    MaxChanges,          \* changes of the databases
    MaxTroubles          \* shards, rows, requests and replies that fail

Kinds == {"conversations", "messages", "search"}

ASSUME QueryAssumption ==
    /\ IsFiniteSet(Conversations) /\ Conversations \subseteq Nat \ {0}
    /\ IsFiniteSet(Shards) /\ Shards \subseteq Nat
    /\ IsFiniteSet(Messages)
    /\ \A m \in Messages :
         /\ m.conversation \in Conversations /\ m.shard \in Shards
         /\ {m.row, m.entry, m.sort, m.time} \subseteq Nat
         /\ {m.readable, m.matches} \subseteq BOOLEAN
    \* A row of a conversation's table, and one of the index, is one message.
    /\ \A m, n \in Messages :
         /\ m.conversation = n.conversation /\ m.shard = n.shard /\ m.row = n.row => m = n
         /\ m.entry = n.entry => m = n
    /\ \A r \in Requests :
         /\ r.kind \in Kinds /\ r.conversation \in Conversations \union {0}
         /\ r.kind = "messages" => r.conversation # 0
         /\ r.limit \in Nat \ {0} /\ r.notBefore <= r.notAfter
    /\ \A M \in InitialMessages : M \subseteq Messages
    /\ {PageLimit, ScanBudget, ConversationBudget} \subseteq Nat \ {0}
    /\ {MaxChanges, MaxTroubles} \subseteq Nat

VARIABLES
    messages,   \* the messages in the shards
    server,     \* the server identifier of each, zero until it is known
    sessions,   \* SessionTable: the timestamp of each conversation, zero if none
    request,    \* what the client asks
    cursor,     \* where its next page begins
    answer,     \* what it has: got, covered, done
    page,       \* the page being assembled
    untouched,  \* history: what no change touched since the first page
    changes, troubles

databases == <<messages, server, sessions, changes, untouched>>
vars == <<databases, request, cursor, answer, page, troubles>>

-----------------------------------------------------------------------------
(* Keys, order and pages. *)

\* A key before another: the comparison of SQLite's row values.
Less(a, b) ==
    \E i \in DOMAIN a : a[i] < b[i] /\ \A j \in 1..(i - 1) : a[j] = b[j]

\* MessageKey, SearchKey and the order of list_conversations, all descending.
MessageKey(m) == <<m.sort, m.time, server[m], m.shard, m.row>>
SearchKey(m) == <<m.time, m.sort, m.row, m.entry>>
ConversationKey(c) == <<sessions[c], -c>>

\* mutant: the cursor's own record is returned again.
OlderOrSame(key, position) == position = <<>> \/ ~Less(position, key)

\* The empty key stands for no cursor.
Older(key, position) == position = <<>> \/ Less(key, position)

\* The first n of a set of items, newest first.
Newest(items, n) ==
    {x \in items : Cardinality({y \in items : Less(x.key, y.key)}) < n}

Descending(items) ==
    [i \in 1..Cardinality(items) |->
        CHOOSE x \in items : Cardinality({y \in items : Less(x.key, y.key)}) = i - 1]

FirstOf(s, n) == SubSeq(s, 1, IF Len(s) < n THEN Len(s) ELSE n)

Item(what, conversation, key) == [what |-> what, conversation |-> conversation, key |-> key]

InRange(m) == request.notBefore <= m.time /\ m.time <= request.notAfter

NoCursor == [kind |-> "none", conversation |-> 0, key |-> <<>>]
NoPage == [at |-> "none", ids |-> <<>>, later |-> 0, key |-> <<>>, open |-> {}, todo |-> {},
           fetched |-> {}, items |-> <<>>, scanned |-> 0, warned |-> FALSE]

-----------------------------------------------------------------------------
Init ==
    /\ messages \in InitialMessages
    /\ server = [m \in Messages |-> 0]
    /\ sessions = [c \in Conversations |->
                     IF \E m \in messages : m.conversation = c THEN 1 ELSE 0]
    /\ request \in Requests
    /\ cursor = NoCursor
    /\ answer = [got |-> <<>>, covered |-> TRUE, done |-> FALSE]
    /\ page = NoPage
    /\ untouched = [messages |-> messages,
                    sessions |-> {c \in Conversations : sessions[c] # 0},
                    listed |-> {c \in Conversations : sessions[c] # 0}]
    /\ changes = 0 /\ troubles = 0

(* The messenger's client: it writes its databases whenever it likes. *)

\* The present, later than the timestamp of any conversation
Present == changes + 2

\* A message arrives, or an older one is filled in; its conversation moves up.
Arrive(m) ==
    /\ m \in Messages \ messages
    /\ messages' = messages \union {m}
    /\ sessions' = [sessions EXCEPT ![m.conversation] = Present]
    /\ untouched' = [untouched EXCEPT !.sessions = @ \ {m.conversation}]
    /\ UNCHANGED server

Delete(m) ==
    /\ m \in messages
    /\ messages' = messages \ {m}
    /\ untouched' = [untouched EXCEPT !.messages = @ \ {m}]
    /\ UNCHANGED <<server, sessions>>

\* The server confirms a message that was sent from this device.
Confirm(m) ==
    /\ m \in messages /\ server[m] = 0
    /\ server' = [server EXCEPT ![m] = 1]
    /\ untouched' = [untouched EXCEPT !.messages = @ \ {m}]
    /\ UNCHANGED <<messages, sessions>>

\* A conversation is removed from the list; its messages stay.
Hide(c) ==
    /\ sessions[c] # 0
    /\ sessions' = [sessions EXCEPT ![c] = 0]
    /\ untouched' = [untouched EXCEPT !.sessions = @ \ {c}, !.listed = @ \ {c}]
    /\ UNCHANGED <<messages, server>>

Change ==
    /\ ~answer.done /\ changes < MaxChanges
    /\ changes' = changes + 1
    /\ \/ \E m \in Messages : Arrive(m) \/ Delete(m) \/ Confirm(m)
       \/ \E c \in Conversations : Hide(c)
    /\ UNCHANGED <<request, cursor, answer, page, troubles>>

-----------------------------------------------------------------------------
(* Delivering a page. *)

\* The envelope: the items, whether there is more, and the cursor if there is.
Deliver(items, more, next, warned) ==
    /\ answer' = [got |-> answer.got \o items,
                  covered |-> answer.covered /\ ~warned,
                  done |-> ~more]
    /\ cursor' = IF more THEN next ELSE [cursor EXCEPT !.kind = next.kind]
    /\ page' = NoPage
    /\ UNCHANGED <<databases, request, troubles>>

\* mutant: the record beyond the limit is not read.
FetchLimitExact(limit) == limit

\* A page of one statement: one more than the limit is read to know of more.
FetchLimit(limit) == limit + 1

Cut(items, limit) == FirstOf(Descending(Newest(items, FetchLimit(limit))), limit)
HasMore(items, limit) == Cardinality(Newest(items, FetchLimit(limit))) > limit

KeysetPage(items) ==
    LET older == {x \in items : Older(x.key, cursor.key)}
        returned == Cut(older, request.limit)
        more == HasMore(older, request.limit)
        next == [kind |-> "keyset", conversation |-> 0,
                 key |-> IF more THEN returned[Len(returned)].key ELSE <<>>]
    IN  Deliver(returned, more, next, FALSE)

Ready == page = NoPage /\ ~answer.done

ListConversations ==
    /\ Ready /\ request.kind = "conversations"
    /\ KeysetPage({Item(c, 0, ConversationKey(c)) : c \in {d \in Conversations : sessions[d] # 0}})

\* The native index: one statement over all its tables, never after a fallback.
InScope(m) == request.conversation \in {0, m.conversation}

NativeSearch ==
    /\ Ready /\ request.kind = "search" /\ cursor.kind # "fallback"
    /\ KeysetPage({Item(m, 0, SearchKey(m)) :
                     m \in {n \in messages : n.matches /\ InScope(n) /\ InRange(n)}})

-----------------------------------------------------------------------------
(* Pages over the message shards. *)

\* The conversations of a page of the fallback, and the first one beyond it.
Ascending(C) == [i \in 1..Cardinality(C) |->
                    CHOOSE c \in C : Cardinality({d \in C : d < c}) = i - 1]

Candidates ==
    LET listed == {c \in Conversations : sessions[c] # 0}
    IN  IF request.conversation # 0 THEN <<request.conversation>>
        ELSE IF cursor.kind = "none"
        THEN FirstOf(Ascending(listed), ConversationBudget + 1)
        ELSE <<cursor.conversation>> \o
             FirstOf(Ascending({c \in listed : c > cursor.conversation}), ConversationBudget)

Within(ids) == FirstOf(ids, ConversationBudget)
Beyond(ids) == IF Len(ids) > ConversationBudget THEN ids[ConversationBudget + 1] ELSE 0

BeginPage(ids) ==
    page' = [NoPage EXCEPT !.at = "open", !.ids = Within(ids), !.later = Beyond(ids),
                           !.key = cursor.key]

ListMessages ==
    /\ Ready /\ request.kind = "messages"
    /\ BeginPage(<<request.conversation>>)
    /\ UNCHANGED <<databases, request, cursor, answer, troubles>>

FallbackSearch ==
    /\ Ready /\ request.kind = "search" /\ cursor.kind # "keyset"
    /\ IF Candidates = <<>>
       THEN Deliver(<<>>, FALSE, [NoCursor EXCEPT !.kind = "fallback"], FALSE)
       ELSE /\ BeginPage(Candidates)
            /\ UNCHANGED <<databases, request, cursor, answer, troubles>>

\* Shards that cannot be opened are left out with a warning; without any the
\* request fails (Abandon).
OpenShards(opened) ==
    /\ page.at = "open" /\ opened # {}
    /\ troubles' = IF opened = Shards THEN troubles ELSE troubles + 1
    /\ troubles' <= MaxTroubles
    /\ page' = [page EXCEPT !.at = "read", !.open = opened, !.todo = opened,
                            !.warned = opened # Shards]
    /\ UNCHANGED <<databases, request, cursor, answer>>

\* How many messages of the current conversation this page may still return.
ListLimit ==
    IF request.kind = "messages" THEN request.limit
    ELSE LET remaining == ScanBudget - page.scanned
         IN  IF remaining < PageLimit THEN remaining ELSE PageLimit

\* The rows a shard's statement yields: its oldest may stay unread (failed), and
\* those that cannot be decoded count towards the limit but are dropped.
ShardRows(shard) ==
    Newest({Item(m, page.ids[1], MessageKey(m)) :
              m \in {n \in messages : /\ n.shard = shard /\ n.conversation = page.ids[1]
                                      /\ InRange(n) /\ Older(MessageKey(n), page.key)}},
           FetchLimit(ListLimit))

ReadShard(failed) ==
    /\ page.at = "read" /\ page.todo # {}
    /\ LET shard == CHOOSE s \in page.todo : \A t \in page.todo : s <= t
           rows == ShardRows(shard)
       IN  \E n \in 0..Cardinality(rows) :
             /\ IF failed THEN n < Cardinality(rows) ELSE n = Cardinality(rows)
             /\ LET read == Newest(rows, n)
                IN  page' = [page EXCEPT
                      !.todo = @ \ {shard},
                      !.fetched = @ \union {x \in read : x.what.readable},
                      !.warned = @ \/ failed \/ \E x \in read : ~x.what.readable]
    /\ troubles' = IF failed THEN troubles + 1 ELSE troubles
    /\ troubles' <= MaxTroubles
    /\ UNCHANGED <<databases, request, cursor, answer>>

\* What list_messages returns once every open shard is read.
Merged == FirstOf(Descending(page.fetched), ListLimit)
MergedMore == Cardinality(page.fetched) > ListLimit

AllRead == page.at = "read" /\ page.todo = {}

ReturnMessages ==
    /\ AllRead /\ request.kind = "messages"
    /\ LET next == [kind |-> "keyset", conversation |-> 0,
                    key |-> IF MergedMore THEN Merged[Len(Merged)].key ELSE <<>>]
       IN  Deliver([i \in DOMAIN Merged |-> [Merged[i] EXCEPT !.conversation = 0]],
                   MergedMore, next, page.warned)

(* The fallback scans the merged page of one conversation after the other. *)

Hits(k) ==
    LET merged == Merged
    IN  {h \in 1..k : merged[h].what.matches}
Matching(k) ==
    LET merged == Merged
        hits == Ascending(Hits(k))
    IN  [i \in DOMAIN hits |-> merged[hits[i]]]

\* How far the scan goes: to the match that fills the page, or to the end.
Filling == {k \in DOMAIN Merged :
              Len(page.items) + Cardinality(Hits(k)) = request.limit}
Scanned == IF Filling = {} THEN Len(Merged) ELSE CHOOSE k \in Filling : \A j \in Filling : k <= j

NextConversation == IF Len(page.ids) > 1 THEN page.ids[2] ELSE page.later

\* mutant: the next page begins where this one began.
ContinuationAtStart(k) == [kind |-> "fallback", conversation |-> page.ids[1], key |-> page.key]

\* Where the next page goes on within this conversation.
Continuation(k) ==
    [kind |-> "fallback", conversation |-> page.ids[1], key |-> Merged[k].key]
AtConversation(c) == [kind |-> "fallback", conversation |-> c, key |-> <<>>]

Found == page.items \o Matching(Scanned)

ScanFills ==
    /\ Filling # {}
    /\ Deliver(Found,
               Scanned < Len(Merged) \/ MergedMore \/ NextConversation # 0,
               Continuation(Scanned), page.warned)

ScanLeavesRest ==
    /\ Filling = {} /\ MergedMore
    /\ Deliver(Found, TRUE, Continuation(Len(Merged)), page.warned)

\* The conversation is exhausted: the page goes on, or ends at its bounds.
SpendsPage == page.scanned + Scanned >= ScanBudget \/ Len(page.ids) = 1

ScanEndsPage ==
    /\ Filling = {} /\ ~MergedMore /\ SpendsPage
    /\ Deliver(Found, NextConversation # 0, AtConversation(NextConversation), page.warned)

ScanGoesOn ==
    /\ Filling = {} /\ ~MergedMore /\ ~SpendsPage
    /\ page' = [page EXCEPT !.ids = Tail(@), !.key = <<>>, !.todo = page.open, !.fetched = {},
                            !.items = Found, !.scanned = @ + Scanned]
    /\ UNCHANGED <<databases, request, cursor, answer, troubles>>

Scan ==
    /\ AllRead /\ request.kind = "search"
    /\ ScanFills \/ ScanLeavesRest \/ ScanEndsPage \/ ScanGoesOn

\* An error, a stop or a lost reply: the client asks with the same cursor again.
Abandon ==
    /\ page # NoPage /\ troubles < MaxTroubles
    /\ troubles' = troubles + 1
    /\ page' = NoPage
    /\ UNCHANGED <<databases, request, cursor, answer>>

Page ==
    \/ ListConversations \/ NativeSearch \/ ListMessages \/ FallbackSearch
    \/ \E opened \in SUBSET Shards : OpenShards(opened)
    \/ \E failed \in BOOLEAN : ReadShard(failed)
    \/ ReturnMessages \/ Scan

Next == Change \/ Page \/ Abandon

\* The client asks for pages until there is no more, and a statement ends.
Fairness == WF_vars(Page)

Spec == Init /\ [][Next]_vars /\ Fairness

-----------------------------------------------------------------------------
(* Properties. *)

\* What a query promises to return: what it asks for, as far as it was there,
\* unmoved, from the first page to the last.
Wanted ==
    IF request.kind = "conversations" THEN untouched.sessions
    ELSE {m \in untouched.messages :
            /\ InScope(m) /\ InRange(m)
            /\ request.kind = "search" => m.matches
            /\ cursor.kind = "fallback" /\ request.conversation = 0 =>
                 m.conversation \in untouched.listed}

Returned == {answer.got[i].what : i \in DOMAIN answer.got}

\* Paging to the end returns every record that stayed, whatever else changed
\* between and within the pages, unless a page warned that it lacks something
\* (list_messages_in_time_range_with_open_shards, list_conversations, both searches).
NothingMissed == answer.done /\ answer.covered => Wanted \subseteq Returned

\* No record is returned twice, also when its key moved, when a page was asked
\* for again or a search re-reads the conversation its cursor names.
ReturnedOnce == Cardinality(Returned) = Len(answer.got)

\* Paging comes to an end once the databases stay as they are: no page sends
\* the client back to where it was, however small the budget of a scan.
PagesEnd == <>(answer.done)

=============================================================================
