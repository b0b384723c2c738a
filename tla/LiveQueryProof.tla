---------------------------- MODULE LiveQueryProof ----------------------------
(***************************************************************************)
(* That paging returns no record twice and misses none, for any databases, *)
(* any queries and limits, and whatever changes between two pages and      *)
(* between the shards of one.  A cursor is a key, and keys move: the       *)
(* invariant compares it with the keys that records have now, which only   *)
(* grow, and with those they had when they were read.                      *)
(***************************************************************************)
EXTENDS LiveQuery, FiniteSetTheorems, SequenceTheorems, TLAPS

\* Keys of n numbers
Key(n) == [1..n -> Int]

AnyItem == [what : Messages \union Conversations, conversation : Nat, key : Seq(Int)]

LiveTypeOK ==
    /\ messages \subseteq Messages
    /\ server \in [Messages -> 0..1]
    /\ sessions \in [Conversations -> Nat]
    /\ request \in Requests
    /\ cursor \in [kind : {"none", "keyset", "fallback"}, conversation : Nat, key : Seq(Int)]
    /\ answer \in [got : Seq(AnyItem), covered : BOOLEAN, done : BOOLEAN]
    /\ page \in [at : {"none", "open", "read"}, ids : Seq(Nat), later : Nat, key : Seq(Int),
                 open : SUBSET Shards, todo : SUBSET Shards, fetched : SUBSET AnyItem,
                 items : Seq(AnyItem), scanned : Nat, warned : BOOLEAN]
    /\ untouched \in [messages : SUBSET Messages, sessions : SUBSET Conversations,
                      listed : SUBSET Conversations]
    /\ changes \in Nat /\ troubles \in Nat

Whats(s) == {s[i].what : i \in DOMAIN s}
Distinct(s) == \A i, j \in DOMAIN s : s[i].what = s[j].what => i = j

(* What is untouched is there, and no timestamp is of the future.            *)
DataSound ==
    /\ untouched.messages \subseteq messages
    /\ \A c \in untouched.sessions \union untouched.listed : sessions[c] # 0
    /\ \A c \in Conversations : sessions[c] < Present

\* The kind of record that was asked for
Asked == IF request.kind = "conversations" THEN Conversations ELSE Messages

(* The records returned are of that kind, each one once.                     *)
AnswerSound ==
    /\ Distinct(answer.got)
    /\ Returned \subseteq Asked
    /\ answer.done => page = NoPage
    /\ cursor.kind = "none" => cursor = NoCursor /\ answer.got = <<>>
    /\ cursor.kind = "fallback" => request.kind = "search"

\* The key a statement without shards would order a record by now
NowKey(w) ==
    IF request.kind = "conversations" THEN ConversationKey(w)
    ELSE IF request.kind = "messages" THEN MessageKey(w) ELSE SearchKey(w)
Width ==
    IF request.kind = "conversations" THEN 2 ELSE IF request.kind = "messages" THEN 5 ELSE 4
There(w) == request.kind = "conversations" => sessions[w] # 0

(* Where one key orders the whole query: what was returned is not older than *)
(* the cursor, and what is still to come is.                                 *)
KeysetSound ==
    cursor.kind # "fallback" /\ ~answer.done =>
      /\ cursor.key = <<>> => answer.got = <<>>
      /\ cursor.key # <<>> =>
           /\ cursor.key \in Key(Width)
           /\ \A w \in Returned : There(w) => ~Less(NowKey(w), cursor.key)
           /\ request.kind = "conversations" => cursor.key[1] < Present
      /\ answer.covered => \A w \in Wanted : w \in Returned \/ Older(NowKey(w), cursor.key)

\* What a search without the index promises
Sought ==
    {m \in untouched.messages :
       /\ InScope(m) /\ InRange(m)
       /\ request.kind = "search" =>
            m.matches /\ (request.conversation = 0 => m.conversation \in untouched.listed)}

(* A search that goes from conversation to conversation: the cursor is one   *)
(* of them, and a key of it.                                                 *)
FallbackSound ==
    cursor.kind = "fallback" /\ ~answer.done =>
      /\ cursor.conversation \in Conversations
      /\ request.conversation \in {0, cursor.conversation}
      /\ cursor.key = <<>> \/ cursor.key \in Key(5)
      /\ \A w \in Returned :
           \/ w.conversation < cursor.conversation
           \/ /\ w.conversation = cursor.conversation /\ cursor.key # <<>>
              /\ ~Less(MessageKey(w), cursor.key)
      /\ answer.covered => \A w \in Sought :
           \/ w \in Returned
           \/ cursor.conversation < w.conversation
           \/ cursor.conversation = w.conversation /\ Older(MessageKey(w), cursor.key)

(* The conversations of a page, from where the cursor is.                    *)
PageSound ==
    page.at # "none" =>
      /\ \/ request.kind = "messages"
         \/ request.kind = "search" /\ cursor.kind # "keyset"
      /\ page.ids # <<>>
      /\ \A i \in DOMAIN page.ids :
           /\ page.ids[i] \in Conversations
           /\ page.later # 0 => page.ids[i] < page.later
           /\ \A j \in DOMAIN page.ids : i < j => page.ids[i] < page.ids[j]
      /\ page.later # 0 => page.later \in Conversations
      /\ request.conversation # 0 => page.ids = <<request.conversation>> /\ page.later = 0
      /\ page.key = <<>> \/ page.key \in Key(5)
      /\ IF cursor.kind = "fallback"
         THEN \/ page.ids[1] = cursor.conversation /\ page.key = cursor.key
              \/ cursor.conversation < page.ids[1] /\ page.key = <<>>
         ELSE page.key = cursor.key
      /\ request.kind = "messages" => page.items = <<>>
      /\ page.scanned < ScanBudget
      /\ page.todo \subseteq page.open
      /\ page.at = "open" => page.fetched = {} /\ page.items = <<>> /\ ~page.warned

(* What was fetched for the current conversation: from shards that were      *)
(* read, each message once, with a key that may have grown since.            *)
FetchedSound ==
    page.at # "none" =>
      /\ IsFiniteSet(page.fetched)
      /\ \A x \in page.fetched :
           /\ x.what \in Messages \ Returned
           /\ x.what.conversation = page.ids[1] /\ x.what.shard \in page.open \ page.todo
           /\ \E v \in 0..server[x.what] :
                x.key = <<x.what.sort, x.what.time, v, x.what.shard, x.what.row>>
           /\ x.what \in untouched.messages => x.key = MessageKey(x.what)
           /\ Older(x.key, page.key)
           /\ \A y \in page.fetched : x.what = y.what => x = y

(* What the page found in the conversations before.                          *)
ItemsSound ==
    page.at # "none" =>
      /\ Distinct(page.items)
      /\ \A w \in Whats(page.items) :
           w \in Messages \ Returned /\ w.conversation < page.ids[1]

\* More was fetched than the page returns, all of it newer.
Behind(w) == Cardinality({x \in page.fetched : Less(MessageKey(w), x.key)}) > ListLimit

(* What the page promises is found, fetched, or still ahead.                 *)
Ahead(w) ==
    \/ /\ w.conversation = page.ids[1] /\ Older(MessageKey(w), page.key)
       /\ page.at = "read" /\ w.shard \notin page.todo =>
            (\E x \in page.fetched : x.what = w) \/ Behind(w)
    \/ \E i \in 2..Len(page.ids) : page.ids[i] = w.conversation
    \/ page.later # 0 /\ page.later <= w.conversation

CoverSound ==
    page.at # "none" /\ answer.covered /\ ~page.warned =>
      /\ page.at = "read" => page.open = Shards
      /\ \A w \in Sought : w \in Returned \union Whats(page.items) \/ Ahead(w)

LiveInv ==
    /\ LiveTypeOK
    /\ DataSound
    /\ AnswerSound
    /\ KeysetSound
    /\ FallbackSound
    /\ PageSound
    /\ FetchedSound
    /\ ItemsSound
    /\ CoverSound
    /\ NothingMissed
-----------------------------------------------------------------------------
(* Keys of one width are ordered.                                            *)
LEMMA LessIrreflexive ==
  ASSUME NEW n \in Nat, NEW a \in Key(n)
  PROVE  ~Less(a, a)
  BY DEF Key, Less

LEMMA LessTransitive ==
  ASSUME NEW n \in Nat, NEW a \in Key(n), NEW b \in Key(n), NEW c \in Key(n),
         Less(a, b), Less(b, c)
  PROVE  Less(a, c)
  <1>1. PICK i \in 1..n : a[i] < b[i] /\ \A k \in 1..(i - 1) : a[k] = b[k]
    BY DEF Key, Less
  <1>2. PICK j \in 1..n : b[j] < c[j] /\ \A k \in 1..(j - 1) : b[k] = c[k]
    BY DEF Key, Less
  <1>3. CASE i <= j
    <2>1. a[i] < c[i]
      <3>1. a[i] \in Int /\ b[i] \in Int /\ c[i] \in Int /\ b[i] <= c[i]
        <4>1. i = j \/ i \in 1..(j - 1)
          BY <1>3
        <4>2. a[i] \in Int /\ b[i] \in Int /\ c[i] \in Int
          BY DEF Key
        <4>3. QED
          BY <1>2, <4>1, <4>2
      <3>2. QED
        BY <1>1, <3>1
    <2>2. \A k \in 1..(i - 1) : a[k] = c[k]
      <3> TAKE k \in 1..(i - 1)
      <3>1. k \in 1..(j - 1)
        BY <1>3
      <3>2. QED
        BY <1>1, <1>2, <3>1
    <2>3. QED
      BY <2>1, <2>2 DEF Key, Less
  <1>4. CASE j < i
    <2>1. a[j] < c[j]
      <3>1. j \in 1..(i - 1)
        BY <1>4
      <3>2. QED
        BY <1>1, <1>2, <3>1
    <2>2. \A k \in 1..(j - 1) : a[k] = c[k]
      <3> TAKE k \in 1..(j - 1)
      <3>1. k \in 1..(i - 1)
        BY <1>4
      <3>2. QED
        BY <1>1, <1>2, <3>1
    <2>3. QED
      BY <2>1, <2>2 DEF Key, Less
  <1>5. QED
    BY <1>3, <1>4

-----------------------------------------------------------------------------
(* What an order lists: Ascending and Descending are two of it.  The rank of *)
(* a member is the number of those before it: it is injective, and so it     *)
(* takes all values below the cardinality.                                   *)
Orders(R, S) ==
    /\ \A x \in S : <<x, x>> \notin R
    /\ \A x, y, z \in S : <<x, y>> \in R /\ <<y, z>> \in R => <<x, z>> \in R
    /\ \A x, y \in S : x # y => <<x, y>> \in R \/ <<y, x>> \in R

Rank(R, S, x) == Cardinality({y \in S : <<y, x>> \in R})
Listing(R, S) == [i \in 1..Cardinality(S) |-> CHOOSE x \in S : Rank(R, S, x) = i - 1]

LEMMA RankGrows ==
  ASSUME NEW R, NEW S, IsFiniteSet(S), Orders(R, S)
  PROVE  /\ Cardinality(S) \in Nat
         /\ \A x \in S : Rank(R, S, x) \in 0..(Cardinality(S) - 1)
         /\ \A x, y \in S : <<x, y>> \in R => Rank(R, S, x) < Rank(R, S, y)
  <1>1. Cardinality(S) \in Nat
    BY FS_CardinalityType
  <1>2. ASSUME NEW x \in S
        PROVE  /\ IsFiniteSet({y \in S : <<y, x>> \in R}) /\ Rank(R, S, x) \in Nat
               /\ Rank(R, S, x) <= Cardinality(S) - 1
    <2>1. {y \in S : <<y, x>> \in R} \in SUBSET S /\ x \notin {y \in S : <<y, x>> \in R}
      BY DEF Orders
    <2>2. /\ IsFiniteSet({y \in S : <<y, x>> \in R})
          /\ Cardinality({y \in S : <<y, x>> \in R}) \in Nat
          /\ Cardinality({y \in S : <<y, x>> \in R}) <= Cardinality(S)
          /\ Cardinality({y \in S : <<y, x>> \in R}) # Cardinality(S)
      BY <2>1, FS_Subset, FS_CardinalityType
    <2>3. QED
      BY <1>1, <2>2 DEF Rank
  <1>3. ASSUME NEW x \in S PROVE Rank(R, S, x) \in 0..(Cardinality(S) - 1)
    <2>1. Rank(R, S, x) \in Nat /\ Rank(R, S, x) <= Cardinality(S) - 1
      BY <1>2
    <2>2. QED
      BY <1>1, <2>1
  <1>4. ASSUME NEW x \in S, NEW y \in S, <<x, y>> \in R
        PROVE  Rank(R, S, x) < Rank(R, S, y)
    <2>1. /\ {z \in S : <<z, x>> \in R} \in SUBSET {z \in S : <<z, y>> \in R}
          /\ x \in {z \in S : <<z, y>> \in R} /\ x \notin {z \in S : <<z, x>> \in R}
      BY <1>4 DEF Orders
    <2>2. IsFiniteSet({z \in S : <<z, y>> \in R})
      BY <1>2
    <2>3. /\ Cardinality({z \in S : <<z, x>> \in R}) <= Cardinality({z \in S : <<z, y>> \in R})
          /\ Cardinality({z \in S : <<z, x>> \in R}) # Cardinality({z \in S : <<z, y>> \in R})
      BY <2>1, <2>2, FS_Subset
    <2>4. QED
      BY <1>2, <2>3 DEF Rank
  <1>5. QED
    BY <1>1, <1>3, <1>4

LEMMA RankTaken ==
  ASSUME NEW R, NEW S, IsFiniteSet(S), Orders(R, S), NEW r \in 0..(Cardinality(S) - 1)
  PROVE  \E x \in S : Rank(R, S, x) = r
  <1> DEFINE f == [x \in S |-> Rank(R, S, x)]
             T == 0..(Cardinality(S) - 1)
  <1>1. Cardinality(S) \in Nat
    BY RankGrows
  <1>2. IsFiniteSet(T) /\ Cardinality(T) = Cardinality(S)
    BY <1>1, FS_Interval
  <1>3. f \in Injection(S, T)
    <2>1. f \in [S -> T]
      BY RankGrows
    <2>2. \A x, y \in S : f[x] = f[y] => x = y
      <3>1. ASSUME NEW x \in S, NEW y \in S, f[x] = f[y] PROVE x = y
        <4>1. Rank(R, S, x) = Rank(R, S, y) /\ Rank(R, S, x) \in Nat
          BY <1>1, <3>1, RankGrows
        <4>2. <<x, y>> \notin R /\ <<y, x>> \notin R
          BY <4>1, RankGrows
        <4>3. QED
          BY <4>2 DEF Orders
      <3>2. QED
        BY <3>1
    <2>3. QED
      BY <2>1, <2>2 DEF Injection, IsInjective
  <1>4. f \in Surjection(S, T)
    <2> HIDE DEF f, T
    <2> QED
      BY <1>2, <1>3, FS_Injection
  <1>5. QED
    BY <1>4 DEF Surjection

LEMMA ListingFacts ==
  ASSUME NEW R, NEW S, IsFiniteSet(S), Orders(R, S)
  PROVE  /\ Cardinality(S) \in Nat
         /\ Listing(R, S) \in [1..Cardinality(S) -> S]
         /\ \A x \in S : \E i \in 1..Cardinality(S) : Listing(R, S)[i] = x
         /\ \A i, j \in 1..Cardinality(S) : i < j => <<Listing(R, S)[i], Listing(R, S)[j]>> \in R
  <1> DEFINE L == Listing(R, S)
  <1>1. Cardinality(S) \in Nat
    BY RankGrows
  <1>2. ASSUME NEW i \in 1..Cardinality(S)
        PROVE  L[i] \in S /\ Rank(R, S, L[i]) = i - 1
    <2>1. \E x \in S : Rank(R, S, x) = i - 1
      <3>1. i - 1 \in 0..(Cardinality(S) - 1)
        BY <1>1
      <3>2. QED
        BY <3>1, RankTaken
    <2>2. L[i] = CHOOSE x \in S : Rank(R, S, x) = i - 1
      BY DEF Listing
    <2>3. QED
      BY <2>1, <2>2
  <1>3. L \in [1..Cardinality(S) -> S]
    BY <1>2 DEF Listing
  <1> HIDE DEF L
  <1>4. ASSUME NEW x \in S PROVE \E i \in 1..Cardinality(S) : L[i] = x
    <2>1. Rank(R, S, x) \in 0..(Cardinality(S) - 1)
      BY RankGrows
    <2> DEFINE i == Rank(R, S, x) + 1
    <2>2. i \in 1..Cardinality(S) /\ i - 1 = Rank(R, S, x)
      BY <1>1, <2>1
    <2>3. L[i] \in S /\ Rank(R, S, L[i]) = Rank(R, S, x)
      BY <1>2, <2>2
    <2> HIDE DEF i
    <2>4. <<L[i], x>> \notin R /\ <<x, L[i]>> \notin R
      <3>1. Rank(R, S, x) \in Nat
        BY <1>1, <2>1
      <3>2. QED
        BY <2>3, <3>1, RankGrows
    <2>5. L[i] = x
      BY <2>3, <2>4 DEF Orders
    <2>6. QED
      BY <2>2, <2>5
  <1>5. ASSUME NEW i \in 1..Cardinality(S), NEW j \in 1..Cardinality(S), i < j
        PROVE  <<L[i], L[j]>> \in R
    <2>1. /\ L[i] \in S /\ Rank(R, S, L[i]) = i - 1
          /\ L[j] \in S /\ Rank(R, S, L[j]) = j - 1
      BY <1>2
    <2>2. L[i] # L[j]
      BY <1>5, <2>1
    <2>3. <<L[j], L[i]>> \notin R
      <3>1. <<L[j], L[i]>> \in R => j - 1 < i - 1
        BY <2>1, RankGrows
      <3>2. QED
        BY <1>5, <3>1
    <2>4. QED
      BY <2>1, <2>2, <2>3 DEF Orders
  <1>6. QED
    BY <1>1, <1>3, <1>4, <1>5 DEF L

LEMMA AscendingFacts ==
  ASSUME NEW S \in SUBSET Nat, IsFiniteSet(S)
  PROVE  /\ Cardinality(S) \in Nat
         /\ Ascending(S) \in [1..Cardinality(S) -> S]
         /\ \A x \in S : \E i \in 1..Cardinality(S) : Ascending(S)[i] = x
         /\ \A i, j \in 1..Cardinality(S) : i < j => Ascending(S)[i] < Ascending(S)[j]
  <1> DEFINE R == {p \in S \X S : p[1] < p[2]}
  <1>1. Orders(R, S)
    BY DEF Orders
  <1>2. \A x \in S : {y \in S : <<y, x>> \in R} = {y \in S : y < x}
    OBVIOUS
  <1>3. Listing(R, S) = Ascending(S)
    <2> HIDE DEF R
    <2>1. ASSUME NEW i \in 1..Cardinality(S) PROVE Listing(R, S)[i] = Ascending(S)[i]
      <3>1. Listing(R, S)[i] = CHOOSE x \in S : Rank(R, S, x) = i - 1
        BY DEF Listing
      <3>2. Ascending(S)[i] = CHOOSE x \in S : Cardinality({y \in S : y < x}) = i - 1
        BY DEF Ascending
      <3>3. \A x \in S : Rank(R, S, x) = Cardinality({y \in S : y < x})
        BY <1>2 DEF Rank
      <3>4. QED
        BY <3>1, <3>2, <3>3
    <2>2. QED
      BY <2>1 DEF Listing, Ascending
  <1>4. \A x, y \in S : <<x, y>> \in R => x < y
    OBVIOUS
  <1> HIDE DEF R
  <1>5. /\ Cardinality(S) \in Nat
        /\ Ascending(S) \in [1..Cardinality(S) -> S]
        /\ \A x \in S : \E i \in 1..Cardinality(S) : Ascending(S)[i] = x
        /\ \A i, j \in 1..Cardinality(S) : i < j => <<Ascending(S)[i], Ascending(S)[j]>> \in R
    BY <1>1, <1>3, ListingFacts
  <1>6. QED
    BY <1>4, <1>5

LEMMA LeastMember ==
  ASSUME NEW S \in SUBSET Nat, IsFiniteSet(S), S # {}
  PROVE  \E m \in S : \A k \in S : m <= k
  <1>1. Cardinality(S) \in Nat /\ Cardinality(S) # 0
    BY FS_CardinalityType, FS_EmptySet
  <1>2. 1 \in 1..Cardinality(S)
    BY <1>1
  <1>3. Ascending(S)[1] \in S
    BY <1>2, AscendingFacts
  <1>4. \A k \in S : Ascending(S)[1] <= k
    <2>1. ASSUME NEW k \in S PROVE Ascending(S)[1] <= k
      <3>1. PICK i \in 1..Cardinality(S) : Ascending(S)[i] = k
        BY AscendingFacts
      <3>2. 1 < i => Ascending(S)[1] < Ascending(S)[i]
        BY <1>2, AscendingFacts
      <3>3. i = 1 \/ 1 < i
        BY <1>1
      <3>4. Ascending(S)[1] \in Nat /\ k \in Nat
        BY <1>3
      <3>5. QED
        BY <3>1, <3>2, <3>3, <3>4
    <2>2. QED
      BY <2>1
  <1>5. QED
    BY <1>3, <1>4

LEMMA LessTotal ==
  ASSUME NEW n \in Nat, NEW a \in Key(n), NEW b \in Key(n), a # b
  PROVE  Less(a, b) \/ Less(b, a)
  <1> DEFINE D == {i \in 1..n : a[i] # b[i]}
  <1>1. D \in SUBSET Nat /\ IsFiniteSet(D) /\ D # {}
    <2>1. IsFiniteSet(1..n) /\ D \in SUBSET (1..n)
      BY FS_Interval
    <2>2. D # {}
      BY DEF Key
    <2>3. QED
      BY <2>1, <2>2, FS_Subset
  <1>2. PICK i \in D : \A k \in D : i <= k
    <2> HIDE DEF D
    <2> QED
      BY <1>1, LeastMember
  <1>3. \A k \in 1..(i - 1) : a[k] = b[k] /\ b[k] = a[k]
    <2> TAKE k \in 1..(i - 1)
    <2>1. k \in 1..n /\ ~(i <= k)
      OBVIOUS
    <2>2. QED
      BY <1>2, <2>1
  <1>4. i \in 1..n /\ a[i] \in Int /\ b[i] \in Int /\ a[i] # b[i]
    BY DEF Key
  <1>5. DOMAIN a = 1..n /\ DOMAIN b = 1..n
    BY DEF Key
  <1>6. CASE a[i] < b[i]
    BY <1>3, <1>4, <1>5, <1>6 DEF Less
  <1>7. CASE b[i] < a[i]
    BY <1>3, <1>4, <1>5, <1>7 DEF Less
  <1>8. QED
    BY <1>4, <1>6, <1>7

-----------------------------------------------------------------------------
(* Pages of records that have different keys.                                *)
Keyed(S, n) ==
    /\ IsFiniteSet(S)
    /\ \A x \in S : x.key \in Key(n)
    /\ \A x, y \in S : x.key = y.key => x = y

Newer(S) == {p \in S \X S : Less(p[2].key, p[1].key)}

LEMMA NewerOrders ==
  ASSUME NEW n \in Nat, NEW S, Keyed(S, n)
  PROVE  /\ Orders(Newer(S), S)
         /\ \A x, y \in S : <<x, y>> \in Newer(S) <=> Less(y.key, x.key)
         /\ \A x \in S : Rank(Newer(S), S, x) = Cardinality({y \in S : Less(x.key, y.key)})
  <1>1. \A x, y \in S : <<x, y>> \in Newer(S) <=> Less(y.key, x.key)
    BY DEF Newer
  <1>2. \A x \in S : <<x, x>> \notin Newer(S)
    BY <1>1, LessIrreflexive DEF Keyed
  <1>3. ASSUME NEW x \in S, NEW y \in S, NEW z \in S,
               <<x, y>> \in Newer(S), <<y, z>> \in Newer(S)
        PROVE  <<x, z>> \in Newer(S)
    <2>1. Less(y.key, x.key) /\ Less(z.key, y.key)
      BY <1>1, <1>3
    <2>2. x.key \in Key(n) /\ y.key \in Key(n) /\ z.key \in Key(n)
      BY DEF Keyed
    <2>3. Less(z.key, x.key)
      BY <2>1, <2>2, LessTransitive
    <2>4. QED
      BY <1>1, <2>3
  <1>4. ASSUME NEW x \in S, NEW y \in S, x # y
        PROVE  <<x, y>> \in Newer(S) \/ <<y, x>> \in Newer(S)
    <2>1. x.key \in Key(n) /\ y.key \in Key(n) /\ x.key # y.key
      BY <1>4 DEF Keyed
    <2>2. QED
      BY <1>1, <2>1, LessTotal
  <1>5. Orders(Newer(S), S)
    BY <1>2, <1>3, <1>4 DEF Orders
  <1>6. ASSUME NEW x \in S
        PROVE  Rank(Newer(S), S, x) = Cardinality({y \in S : Less(x.key, y.key)})
    <2>1. {y \in S : <<y, x>> \in Newer(S)} = {y \in S : Less(x.key, y.key)}
      BY <1>1
    <2>2. QED
      BY <2>1 DEF Rank
  <1>7. QED
    BY <1>1, <1>5, <1>6

LEMMA DescendingFacts ==
  ASSUME NEW n \in Nat, NEW S, Keyed(S, n)
  PROVE  /\ Cardinality(S) \in Nat
         /\ Descending(S) \in [1..Cardinality(S) -> S]
         /\ \A x \in S : \E i \in 1..Cardinality(S) : Descending(S)[i] = x
         /\ \A i, j \in 1..Cardinality(S) :
              i < j => Less(Descending(S)[j].key, Descending(S)[i].key)
  <1>1. IsFiniteSet(S)
    BY DEF Keyed
  <1>2. Listing(Newer(S), S) = Descending(S)
    <2>1. ASSUME NEW i \in 1..Cardinality(S)
          PROVE  Listing(Newer(S), S)[i] = Descending(S)[i]
      <3>1. Listing(Newer(S), S)[i] = CHOOSE x \in S : Rank(Newer(S), S, x) = i - 1
        BY DEF Listing
      <3>2. Descending(S)[i]
              = CHOOSE x \in S : Cardinality({y \in S : Less(x.key, y.key)}) = i - 1
        BY DEF Descending
      <3>3. \A x \in S : Rank(Newer(S), S, x) = Cardinality({y \in S : Less(x.key, y.key)})
        BY NewerOrders
      <3>4. QED
        BY <3>1, <3>2, <3>3
    <2>2. QED
      BY <2>1 DEF Listing, Descending
  <1>3. /\ Cardinality(S) \in Nat
        /\ Descending(S) \in [1..Cardinality(S) -> S]
        /\ \A x \in S : \E i \in 1..Cardinality(S) : Descending(S)[i] = x
        /\ \A i, j \in 1..Cardinality(S) :
             i < j => <<Descending(S)[i], Descending(S)[j]>> \in Newer(S)
    BY <1>1, <1>2, NewerOrders, ListingFacts
  <1>4. ASSUME NEW i \in 1..Cardinality(S), NEW j \in 1..Cardinality(S), i < j
        PROVE  Less(Descending(S)[j].key, Descending(S)[i].key)
    <2>1. Descending(S)[i] \in S /\ Descending(S)[j] \in S
      BY <1>3
    <2>2. QED
      BY <1>3, <1>4, <2>1, NewerOrders
  <1>5. QED
    BY <1>3, <1>4

LEMMA NewestFacts ==
  ASSUME NEW n \in Nat, NEW S, Keyed(S, n), NEW k \in Nat
  PROVE  /\ Newest(S, k) \in SUBSET S /\ Keyed(Newest(S, k), n)
         /\ Cardinality(Newest(S, k)) \in Nat /\ Cardinality(Newest(S, k)) <= k
         /\ Newest(S, k) # S => Cardinality(Newest(S, k)) = k
         /\ \A x \in Newest(S, k), y \in S \ Newest(S, k) : Less(y.key, x.key)
  <1> DEFINE R == Newer(S)
             N == Newest(S, k)
             T == 0..(k - 1)
             f == [x \in N |-> Rank(R, S, x)]
  <1>1. N = {x \in S : Rank(R, S, x) < k}
    BY NewerOrders DEF Newest
  <1>2. IsFiniteSet(S) /\ IsFiniteSet(N) /\ N \in SUBSET S
    BY <1>1, FS_Subset DEF Keyed
  <1>3. Cardinality(S) \in Nat /\ Cardinality(N) \in Nat /\ IsFiniteSet(T) /\ Cardinality(T) = k
    <2>1. Cardinality(S) \in Nat /\ Cardinality(N) \in Nat
      BY <1>2, FS_CardinalityType
    <2>2. IsFiniteSet(T) /\ Cardinality(T) = IF 0 > k - 1 THEN 0 ELSE (k - 1) - 0 + 1
      BY FS_Interval
    <2>3. QED
      BY <2>1, <2>2
  <1>4. \A x \in S : Rank(R, S, x) \in 0..(Cardinality(S) - 1)
    BY <1>2, NewerOrders, RankGrows
  <1>5. Cardinality(N) <= k
    <2>1. f \in [N -> T]
      BY <1>1, <1>3, <1>4
    <2>2. ASSUME NEW x \in N, NEW y \in N, f[x] = f[y] PROVE x = y
      <3>1. x \in S /\ y \in S /\ Rank(R, S, x) = Rank(R, S, y) /\ Rank(R, S, x) \in Nat
        BY <1>1, <1>3, <1>4, <2>2
      <3>2. <<x, y>> \notin R /\ <<y, x>> \notin R
        BY <1>2, <3>1, NewerOrders, RankGrows
      <3>3. QED
        BY <3>1, <3>2, NewerOrders DEF Orders
    <2>3. f \in Injection(N, T)
      BY <2>1, <2>2 DEF Injection, IsInjective
    <2> HIDE DEF f, T, N
    <2>4. QED
      BY <1>3, <2>3, FS_Injection
  <1>6. ASSUME N # S PROVE Cardinality(N) = k
    <2>1. PICK z \in S : ~(Rank(R, S, z) < k)
      BY <1>1, <1>6
    <2>2. k <= Cardinality(S) - 1
      BY <1>3, <1>4, <2>1
    <2>3. ASSUME NEW r \in T PROVE \E x \in N : f[x] = r
      <3>1. r \in 0..(Cardinality(S) - 1)
        BY <1>3, <2>2
      <3>2. PICK x \in S : Rank(R, S, x) = r
        BY <1>2, <3>1, NewerOrders, RankTaken
      <3>3. QED
        BY <1>1, <3>2
    <2>4. f \in Surjection(N, T)
      <3>1. f \in [N -> T]
        BY <1>1, <1>3, <1>4
      <3>2. QED
        BY <2>3, <3>1 DEF Surjection
    <2> HIDE DEF f, T, N
    <2>5. Cardinality(T) <= Cardinality(N)
      BY <1>2, <2>4, FS_Surjection
    <2>6. QED
      BY <1>3, <1>5, <2>5
  <1>7. ASSUME NEW x \in N, NEW y \in S \ N PROVE Less(y.key, x.key)
    <2>1. x \in S /\ Rank(R, S, x) < k /\ ~(Rank(R, S, y) < k) /\ x # y
      BY <1>1
    <2>2. Rank(R, S, x) \in Nat /\ Rank(R, S, y) \in Nat
      BY <1>3, <1>4, <2>1
    <2>3. <<y, x>> \notin R
      <3>1. <<y, x>> \in R => Rank(R, S, y) < Rank(R, S, x)
        BY <1>2, <2>1, NewerOrders, RankGrows
      <3>2. QED
        BY <2>1, <2>2, <3>1
    <2>4. <<x, y>> \in R
      BY <2>1, <2>3, NewerOrders DEF Orders
    <2>5. QED
      BY <2>1, <2>4, NewerOrders
  <1>8. Keyed(N, n)
    BY <1>2 DEF Keyed
  <1>9. QED
    BY <1>2, <1>3, <1>5, <1>6, <1>7, <1>8

LEMMA SeqOfSubset ==
  ASSUME NEW S, NEW T \in SUBSET S, NEW f \in Seq(T)
  PROVE  f \in Seq(S)
  <1>1. PICK n \in Nat : f \in [1..n -> T]
    BY SeqDef
  <1>2. f \in [1..n -> S]
    BY <1>1
  <1>3. QED
    BY <1>2, SeqDef

\* Of a set f lists the newest, L of them if there are more and all if not.
Lists(f, S, L, more) ==
    /\ f \in Seq(S) /\ Len(f) \in Nat /\ Len(f) <= L /\ DOMAIN f = 1..Len(f)
    /\ \A i, j \in DOMAIN f : i < j => Less(f[j].key, f[i].key)
    /\ ~more => \A x \in S : \E i \in DOMAIN f : f[i] = x
    /\ more =>
         /\ Len(f) = L
         /\ \A x \in S : (\E i \in DOMAIN f : f[i] = x) \/ Less(x.key, f[L].key)

LEMMA FirstFacts ==
  ASSUME NEW n \in Nat, NEW S, Keyed(S, n), NEW L \in Nat \ {0},
         NEW more \in BOOLEAN, more <=> Cardinality(S) > L
  PROVE  Lists(FirstOf(Descending(S), L), S, L, more)
  <1> DEFINE D == Descending(S)
             c == Cardinality(S)
             m == IF c < L THEN c ELSE L
             f == FirstOf(D, L)
  <1>1. /\ c \in Nat /\ D \in [1..c -> S]
        /\ \A x \in S : \E i \in 1..c : D[i] = x
        /\ \A i, j \in 1..c : i < j => Less(D[j].key, D[i].key)
    BY DescendingFacts
  <1> HIDE DEF D, c
  <1>2. D \in Seq(S) /\ Len(D) = c
    <2>1. D \in Seq(S)
      BY <1>1, SeqDef
    <2>2. QED
      BY <1>1, <2>1
  <1>3. m \in Nat /\ m <= L /\ m <= c
    BY <1>1
  <1>4. f = SubSeq(D, 1, m)
    BY <1>2 DEF FirstOf
  <1>5. f \in Seq(S) /\ Len(f) = m /\ \A i \in 1..m : f[i] = D[i]
    <2> HIDE DEF f, m
    <2>1. SubSeq(D, 1, m) \in Seq(S) /\ Len(SubSeq(D, 1, m)) = m
      BY <1>1, <1>2, <1>3
    <2>2. \A i \in 1..m : SubSeq(D, 1, m)[i] = D[i]
      BY <1>1, <1>2, <1>3
    <2>3. QED
      BY <1>4, <2>1, <2>2
  <1>6. DOMAIN f = 1..m
    BY <1>5
  <1>7. ASSUME NEW i \in DOMAIN f, NEW j \in DOMAIN f, i < j PROVE Less(f[j].key, f[i].key)
    <2> HIDE DEF f, m
    <2>1. i \in 1..c /\ j \in 1..c /\ f[i] = D[i] /\ f[j] = D[j]
      BY <1>1, <1>3, <1>5, <1>6
    <2>2. QED
      BY <1>1, <1>7, <2>1
  <1>8. ASSUME c <= L PROVE \A x \in S : \E i \in DOMAIN f : f[i] = x
    <2>1. m = c
      BY <1>1, <1>8
    <2> HIDE DEF f, m
    <2>2. QED
      BY <1>1, <1>5, <1>6, <2>1
  <1>9. ASSUME c > L
        PROVE  /\ Len(f) = L
               /\ \A x \in S : (\E i \in DOMAIN f : f[i] = x) \/ Less(x.key, f[L].key)
    <2>1. m = L
      BY <1>1, <1>9
    <2> HIDE DEF f, m
    <2>2. ASSUME NEW x \in S PROVE (\E i \in DOMAIN f : f[i] = x) \/ Less(x.key, f[L].key)
      <3>1. PICK i \in 1..c : D[i] = x
        BY <1>1
      <3>2. L \in 1..c /\ L \in 1..m /\ f[L] = D[L]
        BY <1>1, <1>5, <1>9, <2>1
      <3>3. CASE i <= L
        <4>1. i \in 1..m
          BY <2>1, <3>3
        <4>2. QED
          BY <1>5, <1>6, <3>1, <4>1
      <3>4. CASE L < i
        BY <1>1, <3>1, <3>2, <3>4
      <3>5. QED
        BY <3>3, <3>4
    <2>3. QED
      BY <1>5, <2>1, <2>2
  <1> HIDE DEF f, m
  <1>10. (~more => c <= L) /\ (more => c > L)
    BY <1>1 DEF c
  <1>11. Lists(f, S, L, more)
    BY <1>1, <1>3, <1>5, <1>6, <1>7, <1>8, <1>9, <1>10 DEF Lists
  <1>12. QED
    BY <1>11 DEF f, D, c

\* A page of one statement is the newest of what there is.
LEMMA CutFacts ==
  ASSUME NEW n \in Nat, NEW S, Keyed(S, n), NEW L \in Nat \ {0}
  PROVE  HasMore(S, L) \in BOOLEAN /\ Lists(Cut(S, L), S, L, HasMore(S, L))
  <1> DEFINE N == Newest(S, L + 1)
             f == FirstOf(Descending(N), L)
             more == HasMore(S, L)
  <1>1. Cut(S, L) = f /\ more \in BOOLEAN /\ (more <=> Cardinality(N) > L)
    BY DEF Cut, HasMore, FetchLimit
  <1>2. /\ N \in SUBSET S /\ Keyed(N, n) /\ Cardinality(N) \in Nat
        /\ N # S => Cardinality(N) = L + 1
        /\ \A x \in N, y \in S \ N : Less(y.key, x.key)
    <2> DEFINE k == L + 1
    <2>1. k \in Nat
      OBVIOUS
    <2> HIDE DEF k
    <2>2. /\ Newest(S, k) \in SUBSET S /\ Keyed(Newest(S, k), n)
          /\ Cardinality(Newest(S, k)) \in Nat
          /\ Newest(S, k) # S => Cardinality(Newest(S, k)) = k
          /\ \A x \in Newest(S, k), y \in S \ Newest(S, k) : Less(y.key, x.key)
      BY <2>1, NewestFacts
    <2>3. QED
      BY <2>2 DEF k
  <1> HIDE DEF N, more
  <1>3. Lists(f, N, L, more)
    BY <1>1, <1>2, FirstFacts
  <1> HIDE DEF f
  <1>4. f \in Seq(S)
    BY <1>2, <1>3, SeqOfSubset DEF Lists
  <1>5. ASSUME ~more PROVE \A x \in S : \E i \in DOMAIN f : f[i] = x
    <2>1. N = S /\ Cardinality(N) <= L
      BY <1>1, <1>2, <1>5
    <2>2. QED
      BY <1>3, <1>5, <2>1 DEF Lists
  <1>6. ASSUME more, NEW x \in S
        PROVE  (\E i \in DOMAIN f : f[i] = x) \/ Less(x.key, f[L].key)
    <2>1. CASE x \in N
      BY <1>3, <1>6, <2>1 DEF Lists
    <2>2. CASE x \notin N
      <3>1. L \in 1..Len(f) /\ f[L] \in N
        BY <1>3, <1>6 DEF Lists
      <3>2. QED
        BY <1>2, <2>2, <3>1
    <2>3. QED
      BY <2>1, <2>2
  <1>7. QED
    BY <1>1, <1>3, <1>4, <1>5, <1>6 DEF Lists, more

-----------------------------------------------------------------------------
(* Keys of records.                                                          *)
LEMMA MessageFacts ==
  ASSUME NEW m \in Messages
  PROVE  /\ m.conversation \in Conversations /\ m.conversation \in Nat \ {0}
         /\ m.shard \in Shards /\ m.shard \in Nat
         /\ m.row \in Nat /\ m.entry \in Nat /\ m.sort \in Nat /\ m.time \in Nat
         /\ m.readable \in BOOLEAN /\ m.matches \in BOOLEAN
  BY QueryAssumption

LEMMA RequestFacts ==
  ASSUME LiveTypeOK
  PROVE  /\ request.kind \in Kinds /\ request.conversation \in Conversations \union {0}
         /\ request.conversation \in Nat
         /\ request.kind = "messages" => request.conversation # 0
         /\ request.limit \in Nat \ {0}
  <1>1. request \in Requests
    BY DEF LiveTypeOK
  <1>2. /\ request.kind \in Kinds /\ request.conversation \in Conversations \union {0}
        /\ request.kind = "messages" => request.conversation # 0
        /\ request.limit \in Nat \ {0}
    <2>1. \A r \in Requests :
            /\ r.kind \in Kinds /\ r.conversation \in Conversations \union {0}
            /\ r.kind = "messages" => r.conversation # 0
            /\ r.limit \in Nat \ {0}
      BY QueryAssumption
    <2>2. QED
      BY <1>1, <2>1
  <1>3. request.conversation \in Nat
    <2>1. Conversations \subseteq Nat
      BY QueryAssumption
    <2>2. CASE request.conversation \in Conversations
      BY <2>1, <2>2
    <2>3. CASE request.conversation = 0
      BY <2>3
    <2>4. QED
      BY <1>2, <2>2, <2>3
  <1>4. QED
    BY <1>2, <1>3

LEMMA KeyFacts ==
  ASSUME LiveTypeOK
  PROVE  /\ \A m \in Messages :
              /\ MessageKey(m) \in Key(5) /\ MessageKey(m) \in Seq(Int)
              /\ SearchKey(m) \in Key(4) /\ SearchKey(m) \in Seq(Int)
         /\ \A c \in Conversations :
              ConversationKey(c) \in Key(2) /\ ConversationKey(c) \in Seq(Int)
         /\ \A w \in Asked : NowKey(w) \in Key(Width) /\ NowKey(w) \in Seq(Int)
         /\ Width \in Nat
  <1>1. ASSUME NEW m \in Messages
        PROVE  /\ MessageKey(m) \in Key(5) /\ MessageKey(m) \in Seq(Int)
               /\ SearchKey(m) \in Key(4) /\ SearchKey(m) \in Seq(Int)
    <2>1. server[m] \in Int
      BY DEF LiveTypeOK
    <2>2. /\ m.sort \in Int /\ m.time \in Int /\ m.shard \in Int /\ m.row \in Int
          /\ m.entry \in Int
      BY MessageFacts
    <2>3. QED
      BY <2>1, <2>2 DEF MessageKey, SearchKey, Key
  <1>2. ASSUME NEW c \in Conversations
        PROVE  ConversationKey(c) \in Key(2) /\ ConversationKey(c) \in Seq(Int)
    <2>1. sessions[c] \in Int /\ -c \in Int
      BY QueryAssumption DEF LiveTypeOK
    <2>2. QED
      BY <2>1 DEF ConversationKey, Key
  <1>3. ASSUME NEW w \in Asked
        PROVE  NowKey(w) \in Key(Width) /\ NowKey(w) \in Seq(Int)
    <2>1. CASE request.kind = "conversations"
      BY <1>2, <1>3, <2>1 DEF Asked, NowKey, Width
    <2>2. CASE request.kind = "messages"
      BY <1>1, <1>3, <2>2 DEF Asked, NowKey, Width
    <2>3. CASE request.kind \notin {"conversations", "messages"}
      BY <1>1, <1>3, <2>3 DEF Asked, NowKey, Width
    <2>4. QED
      BY <2>1, <2>2, <2>3
  <1>4. QED
    BY <1>1, <1>2, <1>3 DEF Width

\* Records have different keys.
LEMMA KeysDiffer ==
  ASSUME LiveTypeOK
  PROVE  /\ \A m, n \in Messages :
              /\ SearchKey(m) = SearchKey(n) => m = n
              /\ m.conversation = n.conversation /\ MessageKey(m) = MessageKey(n) => m = n
         /\ \A c, d \in Conversations : ConversationKey(c) = ConversationKey(d) => c = d
  <1>1. ASSUME NEW m \in Messages, NEW n \in Messages, SearchKey(m) = SearchKey(n)
        PROVE  m = n
    <2>1. m.entry = n.entry
      BY <1>1 DEF SearchKey
    <2>2. QED
      BY <2>1, QueryAssumption
  <1>2. ASSUME NEW m \in Messages, NEW n \in Messages, m.conversation = n.conversation,
               MessageKey(m) = MessageKey(n)
        PROVE  m = n
    <2>1. m.shard = n.shard /\ m.row = n.row
      BY <1>2 DEF MessageKey
    <2>2. QED
      BY <1>2, <2>1, QueryAssumption
  <1>3. ASSUME NEW c \in Conversations, NEW d \in Conversations,
               ConversationKey(c) = ConversationKey(d)
        PROVE  c = d
    <2>1. c \in Nat /\ d \in Nat
      BY QueryAssumption
    <2>2. -c = -d
      BY <1>3 DEF ConversationKey
    <2>3. QED
      BY <2>1, <2>2
  <1>4. QED
    BY <1>1, <1>2, <1>3

\* A key that grew is not before what it was not before.
LEMMA GrownNotLess ==
  ASSUME NEW n \in Nat, NEW a \in Key(n), NEW b \in Key(n), NEW k \in Key(n),
         a = b \/ Less(a, b), ~Less(a, k)
  PROVE  ~Less(b, k)
  BY LessTransitive

LEMMA EmptyKey ==
  ASSUME NEW n \in Nat \ {0}, NEW k \in Key(n)
  PROVE  k # <<>>
  BY DEF Key

-----------------------------------------------------------------------------
(* Sequences of items.                                                       *)
LEMMA JoinedFacts ==
  ASSUME NEW S, NEW s \in Seq(S), NEW t \in Seq(S),
         Distinct(s), Distinct(t), Whats(s) \cap Whats(t) = {}
  PROVE  /\ s \o t \in Seq(S) /\ Distinct(s \o t)
         /\ Whats(s \o t) = Whats(s) \union Whats(t)
  <1> DEFINE u == s \o t
  <1>1. /\ Len(s) \in Nat /\ Len(t) \in Nat /\ DOMAIN s = 1..Len(s) /\ DOMAIN t = 1..Len(t)
        /\ u \in Seq(S) /\ DOMAIN u = 1..(Len(s) + Len(t))
        /\ \A i \in 1..Len(s) : u[i] = s[i]
        /\ \A i \in 1..Len(t) : u[Len(s) + i] = t[i]
    OBVIOUS
  <1>2. \A i \in DOMAIN u :
          \/ i \in DOMAIN s /\ u[i] = s[i]
          \/ i - Len(s) \in DOMAIN t /\ u[i] = t[i - Len(s)]
    <2> TAKE i \in DOMAIN u
    <2>1. CASE i <= Len(s)
      BY <1>1, <2>1
    <2>2. CASE i > Len(s)
      <3>1. i - Len(s) \in 1..Len(t) /\ Len(s) + (i - Len(s)) = i
        BY <1>1, <2>2
      <3>2. QED
        BY <1>1, <3>1
    <2>3. QED
      BY <1>1, <2>1, <2>2
  <1>3. \A i \in DOMAIN s : i \in DOMAIN u /\ u[i] = s[i]
    BY <1>1
  <1>4. \A i \in DOMAIN t : Len(s) + i \in DOMAIN u /\ u[Len(s) + i] = t[i]
    <2> HIDE DEF u
    <2> TAKE i \in DOMAIN t
    <2>1. i \in 1..Len(t)
      BY <1>1
    <2>2. Len(s) + i \in 1..(Len(s) + Len(t))
      BY <1>1, <2>1
    <2>3. QED
      BY <1>1, <2>1, <2>2
  <1> HIDE DEF u
  <1>5. Whats(u) = Whats(s) \union Whats(t)
    BY <1>2, <1>3, <1>4 DEF Whats
  <1>6. ASSUME NEW i \in DOMAIN u, NEW j \in DOMAIN u, u[i].what = u[j].what PROVE i = j
    <2>1. CASE i \in DOMAIN s /\ u[i] = s[i] /\ j \in DOMAIN s /\ u[j] = s[j]
      BY <1>6, <2>1 DEF Distinct
    <2>2. CASE /\ i - Len(s) \in DOMAIN t /\ u[i] = t[i - Len(s)]
               /\ j - Len(s) \in DOMAIN t /\ u[j] = t[j - Len(s)]
      <3>1. i - Len(s) = j - Len(s)
        BY <1>6, <2>2 DEF Distinct
      <3>2. QED
        BY <1>1, <3>1
    <2>3. CASE /\ i \in DOMAIN s /\ u[i] = s[i]
               /\ j - Len(s) \in DOMAIN t /\ u[j] = t[j - Len(s)]
      BY <1>6, <2>3 DEF Whats
    <2>4. CASE /\ j \in DOMAIN s /\ u[j] = s[j]
               /\ i - Len(s) \in DOMAIN t /\ u[i] = t[i - Len(s)]
      BY <1>6, <2>4 DEF Whats
    <2>5. QED
      BY <1>2, <2>1, <2>2, <2>3, <2>4
  <1>7. QED
    BY <1>1, <1>5, <1>6 DEF u, Distinct

\* Of records that are listed once, the list has each once.
LEMMA ListedOnce ==
  ASSUME NEW n \in Nat, NEW S, NEW f, NEW L, NEW more \in BOOLEAN, Keyed(S, n),
         Lists(f, S, L, more), \A x, y \in S : x.what = y.what => x = y
  PROVE  /\ Distinct(f) /\ Whats(f) = {f[i].what : i \in DOMAIN f}
         /\ \A i \in DOMAIN f : f[i] \in S
         /\ \A i \in DOMAIN f : i # Len(f) => Less(f[Len(f)].key, f[i].key)
  <1>1. \A i \in DOMAIN f : f[i] \in S
    BY DEF Lists
  <1>2. ASSUME NEW i \in DOMAIN f, NEW j \in DOMAIN f, f[i].what = f[j].what PROVE i = j
    <2>1. f[i] = f[j]
      BY <1>1, <1>2
    <2>2. f[i].key \in Key(n) /\ ~Less(f[i].key, f[j].key) /\ ~Less(f[j].key, f[i].key)
      BY <1>1, <2>1, LessIrreflexive DEF Keyed
    <2>3. ~(i < j) /\ ~(j < i) /\ i \in Int /\ j \in Int
      BY <2>2 DEF Lists
    <2>4. QED
      BY <2>3
  <1>3. ASSUME NEW i \in DOMAIN f, i # Len(f) PROVE Less(f[Len(f)].key, f[i].key)
    <2>1. Len(f) \in DOMAIN f /\ i < Len(f)
      BY <1>3 DEF Lists
    <2>2. QED
      BY <2>1 DEF Lists
  <1>4. QED
    BY <1>1, <1>2, <1>3 DEF Distinct, Whats

LEMMA ImageFinite ==
  ASSUME NEW S, IsFiniteSet(S), NEW f
  PROVE  /\ IsFiniteSet({f[x] : x \in S})
         /\ Cardinality({f[x] : x \in S}) \in Nat /\ Cardinality(S) \in Nat
         /\ Cardinality({f[x] : x \in S}) <= Cardinality(S)
  <1> DEFINE T == {f[x] : x \in S}
             g == [x \in S |-> f[x]]
  <1>1. g \in Surjection(S, T)
    BY DEF Surjection
  <1> HIDE DEF g, T
  <1>2. IsFiniteSet(T) /\ Cardinality(T) <= Cardinality(S)
    BY <1>1, FS_Surjection
  <1>3. QED
    BY <1>2, FS_CardinalityType DEF T

\* The items of records whose keys differ
Items(W, c, k) == {Item(w, c, k[w]) : w \in W}

LEMMA ItemsOf ==
  ASSUME NEW n \in Nat, NEW W, IsFiniteSet(W), NEW c, NEW k,
         \A w \in W : k[w] \in Key(n), \A v, w \in W : k[v] = k[w] => v = w
  PROVE  LET S == Items(W, c, k)
         IN  /\ Keyed(S, n)
             /\ \A x, y \in S : x.what = y.what => x = y
             /\ \A x \in S : /\ x.what \in W /\ x.key = k[x.what] /\ x.conversation = c
                             /\ x = Item(x.what, c, k[x.what])
             /\ \A w \in W : Item(w, c, k[w]) \in S
  <1> DEFINE S == Items(W, c, k)
             f == [w \in W |-> Item(w, c, k[w])]
  <1>1. S = {f[w] : w \in W}
    BY DEF Items
  <1>2. IsFiniteSet(S)
    <2> HIDE DEF f
    <2> QED
      BY <1>1, ImageFinite
  <1>3. \A x \in S : /\ x.what \in W /\ x.key = k[x.what] /\ x.conversation = c
                     /\ x = Item(x.what, c, k[x.what])
    BY DEF Item, Items
  <1> HIDE DEF S
  <1>4. \A x, y \in S : x.what = y.what => x = y
    BY <1>3
  <1>5. \A x, y \in S : x.key = y.key => x = y
    <2> TAKE x \in S, y \in S
    <2> HAVE x.key = y.key
    <2>1. x.what = y.what
      BY <1>3
    <2>2. QED
      BY <1>4, <2>1
  <1>6. \A x \in S : x.key \in Key(n)
    BY <1>3
  <1>7. \A w \in W : Item(w, c, k[w]) \in S
    BY DEF S, Items
  <1>8. Keyed(S, n)
    BY <1>2, <1>5, <1>6 DEF Keyed
  <1>9. QED
    BY <1>3, <1>4, <1>7, <1>8 DEF S

-----------------------------------------------------------------------------
(* A page that is delivered.                                                 *)
LEMMA Delivered ==
  ASSUME LiveTypeOK, DataSound, AnswerSound, NEW more, NEW warned,
         NEW items \in Seq(AnyItem), Distinct(items),
         Whats(items) \subseteq Asked, Whats(items) \cap Returned = {},
         NEW next \in [kind : {"keyset", "fallback"}, conversation : Nat, key : Seq(Int)],
         next.kind = "fallback" => request.kind = "search",
         Deliver(items, more, next, warned)
  PROVE  /\ LiveTypeOK' /\ DataSound' /\ AnswerSound'
         /\ PageSound' /\ FetchedSound' /\ ItemsSound' /\ CoverSound'
         /\ Returned' = Returned \union Whats(items)
         /\ answer'.covered => answer.covered /\ ~warned
         /\ answer'.done <=> ~more
         /\ cursor'.kind = next.kind /\ (more => cursor' = next)
         /\ UNCHANGED <<databases, request, troubles>>
  <1> DEFINE got == answer.got \o items
  <1>1. /\ answer' = [got |-> got, covered |-> answer.covered /\ ~warned, done |-> ~more]
        /\ cursor' = IF more THEN next ELSE [cursor EXCEPT !.kind = next.kind]
        /\ page' = NoPage
        /\ UNCHANGED <<databases, request, troubles>>
    BY DEF Deliver
  <1>2. /\ answer.got \in Seq(AnyItem) /\ Distinct(answer.got)
        /\ Whats(answer.got) = Returned
    BY DEF LiveTypeOK, AnswerSound, Whats, Returned
  <1>3. got \in Seq(AnyItem) /\ Distinct(got) /\ Whats(got) = Returned \union Whats(items)
    BY <1>2, JoinedFacts
  <1> HIDE DEF got
  <1>4. /\ cursor' \in [kind : {"none", "keyset", "fallback"}, conversation : Nat, key : Seq(Int)]
        /\ cursor'.kind = next.kind /\ (more => cursor' = next)
    <2>1. CASE more
      BY <1>1, <2>1
    <2>2. CASE ~more
      <3>1. cursor \in [kind : {"none", "keyset", "fallback"}, conversation : Nat, key : Seq(Int)]
        BY DEF LiveTypeOK
      <3>2. cursor' = [cursor EXCEPT !.kind = next.kind]
        BY <1>1, <2>2
      <3>3. QED
        BY <2>2, <3>1, <3>2
    <2>3. QED
      BY <2>1, <2>2
  <1>5. /\ answer' \in [got : Seq(AnyItem), covered : BOOLEAN, done : BOOLEAN]
        /\ answer'.got = got
        /\ answer'.covered => answer.covered /\ ~warned
        /\ answer'.done <=> ~more
    <2>1. (answer.covered /\ ~warned) \in BOOLEAN /\ (~more) \in BOOLEAN
      OBVIOUS
    <2>2. QED
      BY <1>1, <1>3, <2>1
  <1>6. page' \in [at : {"none", "open", "read"}, ids : Seq(Nat), later : Nat, key : Seq(Int),
                   open : SUBSET Shards, todo : SUBSET Shards, fetched : SUBSET AnyItem,
                   items : Seq(AnyItem), scanned : Nat, warned : BOOLEAN]
        /\ page'.at = "none"
    BY <1>1 DEF NoPage
  <1>7. LiveTypeOK'
    <2>1. /\ messages \subseteq Messages
          /\ server \in [Messages -> 0..1]
          /\ sessions \in [Conversations -> Nat]
          /\ request \in Requests
          /\ untouched \in [messages : SUBSET Messages, sessions : SUBSET Conversations,
                            listed : SUBSET Conversations]
          /\ changes \in Nat /\ troubles \in Nat
      BY DEF LiveTypeOK
    <2>2. QED
      BY <1>1, <1>4, <1>5, <1>6, <2>1 DEF LiveTypeOK, databases, AnyItem
  <1>8. DataSound'
    BY <1>1 DEF DataSound, databases, Present
  <1>9. Returned' = Returned \union Whats(items)
    <2>1. Returned' = Whats(got)
      BY <1>5 DEF Returned, Whats
    <2>2. QED
      BY <1>3, <2>1
  <1>10. AnswerSound'
    <2>1. Asked' = Asked
      BY <1>1 DEF Asked
    <2>2. Returned' \subseteq Asked'
      BY <1>9, <2>1 DEF AnswerSound
    <2>3. Distinct(answer'.got)
      BY <1>3, <1>5
    <2>4. cursor'.kind # "none" /\ (cursor'.kind = "fallback" => request'.kind = "search")
      BY <1>1, <1>4
    <2>5. QED
      BY <1>1, <2>2, <2>3, <2>4 DEF AnswerSound, Distinct
  <1>11. PageSound' /\ FetchedSound' /\ ItemsSound' /\ CoverSound'
    BY <1>6 DEF PageSound, FetchedSound, ItemsSound, CoverSound
  <1>12. QED
    BY <1>1, <1>4, <1>5, <1>7, <1>8, <1>9, <1>10, <1>11

(* A page of one statement: it takes up after the cursor's key.              *)
LEMMA KeysetStep ==
  ASSUME LiveInv, Ready, cursor.kind # "fallback",
         NEW W \in SUBSET Asked, IsFiniteSet(W), NEW k,
         \A w \in W : There(w) /\ k[w] = NowKey(w),
         \A v, w \in W : NowKey(v) = NowKey(w) => v = w,
         request.kind = "conversations" => \A w \in W : NowKey(w)[1] < Present,
         Wanted \subseteq W, KeysetPage(Items(W, 0, k))
  PROVE  LiveInv'
  <1> DEFINE I == Items(W, 0, k)
             older == {x \in I : Older(x.key, cursor.key)}
             f == Cut(older, request.limit)
             more == HasMore(older, request.limit)
             next == [kind |-> "keyset", conversation |-> 0,
                      key |-> IF more THEN f[Len(f)].key ELSE <<>>]
  <1>1. /\ LiveTypeOK /\ DataSound /\ AnswerSound /\ KeysetSound
        /\ ~answer.done /\ request.limit \in Nat \ {0}
    BY RequestFacts DEF LiveInv, Ready
  <1>2. \A w \in W : NowKey(w) \in Key(Width) /\ NowKey(w) \in Seq(Int)
    BY <1>1, KeyFacts
  <1>3. Width \in Nat \ {0}
    BY DEF Width
  <1>4. /\ Keyed(I, Width)
        /\ \A x, y \in I : x.what = y.what => x = y
        /\ \A x \in I : /\ x.what \in W /\ x.key = k[x.what] /\ x.conversation = 0
                        /\ x = Item(x.what, 0, k[x.what])
        /\ \A w \in W : Item(w, 0, k[w]) \in I
    <2>1. \A w \in W : k[w] \in Key(Width)
      BY <1>2
    <2>2. \A v, w \in W : k[v] = k[w] => v = w
      OBVIOUS
    <2>3. Width \in Nat
      BY <1>3
    <2>4. QED
      BY <2>1, <2>2, <2>3, ItemsOf
  <1> HIDE DEF I
  <1>5. Keyed(older, Width)
    <2>1. older \in SUBSET I
      OBVIOUS
    <2>2. QED
      BY <1>4, <2>1, FS_Subset DEF Keyed
  <1>6. \A x \in older : /\ x \in I /\ x.what \in W /\ x.what \in Asked /\ x.key = NowKey(x.what)
                         /\ Older(x.key, cursor.key) /\ x \in AnyItem
                         /\ x.key \in Key(Width) /\ x.key \in Seq(Int)
    <2> SUFFICES ASSUME NEW x \in older
                 PROVE  /\ x \in I /\ x.what \in W /\ x.what \in Asked /\ x.key = NowKey(x.what)
                        /\ Older(x.key, cursor.key) /\ x \in AnyItem
                        /\ x.key \in Key(Width) /\ x.key \in Seq(Int)
      OBVIOUS
    <2>1. x \in I /\ Older(x.key, cursor.key)
      OBVIOUS
    <2>2. x.what \in W /\ x.key = NowKey(x.what) /\ x = Item(x.what, 0, k[x.what])
      BY <1>4, <2>1
    <2>3. x.what \in Asked /\ x.key \in Key(Width) /\ x.key \in Seq(Int)
      BY <1>2, <2>2
    <2>4. Asked \subseteq Messages \union Conversations
      BY DEF Asked
    <2>5. Item(x.what, 0, k[x.what]) \in AnyItem
      BY <2>2, <2>3, <2>4 DEF Item, AnyItem
    <2>6. QED
      BY <2>1, <2>2, <2>3, <2>5
  <1> HIDE DEF older
  <1>7. more \in BOOLEAN /\ Lists(f, older, request.limit, more)
    BY <1>1, <1>3, <1>5, CutFacts
  <1>8. Deliver(f, more, next, FALSE)
    BY DEF KeysetPage, older, I
  <1> HIDE DEF f, more
  <1>9. /\ Distinct(f) /\ Whats(f) = {f[i].what : i \in DOMAIN f}
        /\ \A i \in DOMAIN f : f[i] \in older
        /\ \A i \in DOMAIN f : i # Len(f) => Less(f[Len(f)].key, f[i].key)
    <2>1. \A x, y \in older : x.what = y.what => x = y
      BY <1>4, <1>6
    <2>2. Width \in Nat
      BY <1>3
    <2>3. QED
      BY <1>5, <1>7, <2>1, <2>2, ListedOnce
  <1>10. f \in Seq(AnyItem)
    <2>1. older \in SUBSET AnyItem
      BY <1>6
    <2>2. QED
      BY <1>7, <2>1, SeqOfSubset DEF Lists
  <1>11. Whats(f) \subseteq W
    BY <1>6, <1>9
  <1>12. Whats(f) \cap Returned = {}
    <2> SUFFICES ASSUME NEW i \in DOMAIN f, f[i].what \in Returned PROVE FALSE
      BY <1>9
    <2>1. f[i].key = NowKey(f[i].what) /\ Older(f[i].key, cursor.key) /\ There(f[i].what)
      BY <1>6, <1>9
    <2>2. answer.got # <<>>
      BY DEF Returned
    <2>3. cursor.key # <<>> /\ ~Less(NowKey(f[i].what), cursor.key)
      BY <1>1, <2>1, <2>2 DEF KeysetSound
    <2>4. QED
      BY <2>1, <2>3 DEF Older
  <1>13. more => /\ Len(f) \in DOMAIN f /\ f[Len(f)] \in older /\ next.key = f[Len(f)].key
                 /\ Len(f) = request.limit
    BY <1>1, <1>7, <1>9 DEF Lists
  <1>14. next \in [kind : {"keyset", "fallback"}, conversation : Nat, key : Seq(Int)]
    <2>1. next.key \in Seq(Int)
      <3>1. CASE more
        BY <1>6, <1>13, <3>1
      <3>2. CASE ~more
        BY <3>2
      <3>3. QED
        BY <3>1, <3>2
    <2>2. QED
      BY <2>1
  <1>15. next.kind = "keyset"
    OBVIOUS
  <1> HIDE DEF next
  <1>16. /\ LiveTypeOK' /\ DataSound' /\ AnswerSound'
         /\ PageSound' /\ FetchedSound' /\ ItemsSound' /\ CoverSound'
         /\ Returned' = Returned \union Whats(f)
         /\ answer'.covered => answer.covered
         /\ answer'.done <=> ~more
         /\ cursor'.kind = "keyset" /\ (more => cursor' = next)
         /\ UNCHANGED <<databases, request>>
    <2>1. Whats(f) \subseteq Asked
      BY <1>11
    <2>2. next.kind = "fallback" => request.kind = "search"
      BY <1>15
    <2>3. /\ LiveTypeOK' /\ DataSound' /\ AnswerSound'
          /\ PageSound' /\ FetchedSound' /\ ItemsSound' /\ CoverSound'
          /\ Returned' = Returned \union Whats(f)
          /\ answer'.covered => answer.covered /\ ~FALSE
          /\ answer'.done <=> ~more
          /\ cursor'.kind = next.kind /\ (more => cursor' = next)
          /\ UNCHANGED <<databases, request, troubles>>
      BY <1>1, <1>8, <1>9, <1>10, <1>12, <1>14, <2>1, <2>2, Delivered
    <2>4. QED
      BY <1>15, <2>3
  <1>17. /\ Wanted' = Wanted
         /\ \A w : NowKey(w)' = NowKey(w) /\ There(w)' = There(w)
         /\ Width' = Width /\ Present' = Present
    BY <1>16 DEF Wanted, NowKey, There, Width, Present, databases, InScope, InRange, MessageKey,
                 SearchKey, ConversationKey
  <1>18. ASSUME answer.covered, NEW w \in Wanted
         PROVE  \/ w \in Returned'
                \/ more /\ Less(NowKey(w), next.key)
    <2>1. CASE w \in Returned
      BY <1>16, <2>1
    <2>2. CASE w \notin Returned
      <3>1. w \in W /\ Older(NowKey(w), cursor.key)
        BY <1>1, <1>18, <2>2 DEF KeysetSound
      <3>2. PICK x \in older : x.what = w
        <4>1. Item(w, 0, k[w]) \in I /\ Item(w, 0, k[w]).key = k[w] /\ Item(w, 0, k[w]).what = w
          BY <1>4, <3>1 DEF Item
        <4>2. Item(w, 0, k[w]) \in older
          BY <3>1, <4>1 DEF older
        <4>3. QED
          BY <4>1, <4>2
      <3>3. CASE \E i \in DOMAIN f : f[i] = x
        BY <1>9, <1>16, <3>2, <3>3
      <3>4. CASE ~(\E i \in DOMAIN f : f[i] = x)
        <4>1. more /\ Less(x.key, f[Len(f)].key)
          BY <1>7, <3>4 DEF Lists
        <4>2. QED
          BY <1>6, <1>13, <3>2, <4>1
      <3>5. QED
        BY <3>3, <3>4
    <2>3. QED
      BY <2>1, <2>2
  <1>19. ASSUME more, NEW w \in Returned', There(w)
         PROVE  ~Less(NowKey(w), next.key)
    <2>1. /\ next.key \in Key(Width) /\ Older(next.key, cursor.key)
      BY <1>6, <1>13, <1>19
    <2>2. CASE w \in Returned
      <3>1. w \in Asked /\ NowKey(w) \in Key(Width)
        BY <1>1, <2>2, KeyFacts DEF AnswerSound
      <3>2. answer.got # <<>>
        BY <2>2 DEF Returned
      <3>3. cursor.key # <<>> /\ cursor.key \in Key(Width) /\ ~Less(NowKey(w), cursor.key)
        BY <1>1, <1>19, <2>2, <3>2 DEF KeysetSound
      <3>4. Less(next.key, cursor.key)
        BY <2>1, <3>3 DEF Older
      <3>5. Width \in Nat
        BY <1>3
      <3>6. QED
        BY <2>1, <3>1, <3>3, <3>4, <3>5, LessTransitive
    <2>3. CASE w \in Whats(f)
      <3>1. PICK i \in DOMAIN f : f[i].what = w
        BY <1>9, <2>3
      <3>2. f[i].key = NowKey(w) /\ f[i].key \in Key(Width)
        BY <1>6, <1>9, <3>1
      <3>3. i = Len(f) \/ Less(next.key, f[i].key)
        BY <1>9, <1>13, <1>19
      <3>4. Width \in Nat /\ (i = Len(f) => f[i].key = next.key)
        BY <1>3, <1>13, <1>19
      <3>5. QED
        BY <2>1, <3>2, <3>3, <3>4, LessTransitive, LessIrreflexive
    <2>4. QED
      BY <1>16, <1>19, <2>2, <2>3
  <1>20. KeysetSound'
    <2> SUFFICES ASSUME ~answer'.done PROVE KeysetSound'
      BY DEF KeysetSound
    <2>1. more /\ cursor' = next
      BY <1>16
    <2>2. next.key \in Key(Width) /\ next.key # <<>>
      BY <1>3, <1>6, <1>13, <2>1, EmptyKey
    <2>3. request.kind = "conversations" => next.key[1] < Present
      BY <1>6, <1>13, <2>1
    <2>4. \A w \in Returned' : There(w) => ~Less(NowKey(w), next.key)
      BY <1>19, <2>1
    <2>5. answer'.covered => \A w \in Wanted : w \in Returned' \/ Older(NowKey(w), next.key)
      BY <1>16, <1>18 DEF Older
    <2>6. QED
      BY <1>16, <1>17, <2>1, <2>2, <2>3, <2>4, <2>5 DEF KeysetSound, Older
  <1>21. NothingMissed'
    BY <1>16, <1>17, <1>18 DEF NothingMissed
  <1>22. FallbackSound'
    BY <1>16 DEF FallbackSound
  <1>23. QED
    BY <1>16, <1>20, <1>21, <1>22 DEF LiveInv

LEMMA ConversationsStep ==
  ASSUME LiveInv, ListConversations
  PROVE  LiveInv'
  <1> DEFINE W == {d \in Conversations : sessions[d] # 0}
             k == [c \in Conversations |-> ConversationKey(c)]
             I == Items(W, 0, k)
  <1>1. /\ Ready /\ request.kind = "conversations" /\ LiveTypeOK /\ DataSound /\ AnswerSound
        /\ cursor.kind # "fallback"
    BY DEF ListConversations, LiveInv, AnswerSound
  <1>2. I = {Item(c, 0, ConversationKey(c)) : c \in W}
    BY DEF Items
  <1>3. KeysetPage(I)
    BY <1>2 DEF ListConversations
  <1>4. W \in SUBSET Asked /\ IsFiniteSet(W)
    BY <1>1, QueryAssumption, FS_Subset DEF Asked
  <1>5. \A w \in W : There(w) /\ k[w] = NowKey(w)
    BY <1>1 DEF There, NowKey
  <1>6. \A v, w \in W : NowKey(v) = NowKey(w) => v = w
    BY <1>1, KeysDiffer DEF NowKey
  <1>7. \A w \in W : NowKey(w)[1] < Present
    BY <1>1 DEF NowKey, ConversationKey, DataSound
  <1>8. Wanted \subseteq W
    BY <1>1 DEF Wanted, DataSound, LiveTypeOK
  <1> HIDE DEF W, k
  <1>9. QED
    BY <1>1, <1>3, <1>4, <1>5, <1>6, <1>7, <1>8, KeysetStep

LEMMA NativeSearchStep ==
  ASSUME LiveInv, NativeSearch
  PROVE  LiveInv'
  <1> DEFINE W == {n \in messages : n.matches /\ InScope(n) /\ InRange(n)}
             k == [m \in Messages |-> SearchKey(m)]
             I == Items(W, 0, k)
  <1>1. /\ Ready /\ request.kind = "search" /\ LiveTypeOK /\ DataSound
        /\ cursor.kind # "fallback" /\ messages \subseteq Messages
    BY DEF NativeSearch, LiveInv, LiveTypeOK
  <1>2. I = {Item(m, 0, SearchKey(m)) : m \in W}
    BY <1>1 DEF Items
  <1>3. KeysetPage(I)
    BY <1>2 DEF NativeSearch
  <1>4. W \in SUBSET Asked /\ IsFiniteSet(W)
    <2>1. W \in SUBSET Messages
      BY <1>1
    <2>2. QED
      BY <1>1, <2>1, QueryAssumption, FS_Subset DEF Asked
  <1>5. \A w \in W : There(w) /\ k[w] = NowKey(w)
    BY <1>1 DEF There, NowKey
  <1>6. \A v, w \in W : NowKey(v) = NowKey(w) => v = w
    BY <1>1, KeysDiffer DEF NowKey
  <1>7. Wanted \subseteq W
    BY <1>1 DEF Wanted, DataSound, LiveTypeOK
  <1>8. request.kind # "conversations"
    BY <1>1
  <1> HIDE DEF W, k
  <1>9. QED
    BY <1>1, <1>3, <1>4, <1>5, <1>6, <1>7, <1>8, KeysetStep

-----------------------------------------------------------------------------
(* A change of the databases: keys only grow, a conversation appears at the  *)
(* top, and what stays untouched keeps its key.                              *)
Moves ==
    /\ LiveTypeOK' /\ DataSound'
    /\ changes' = changes + 1 /\ ~answer.done
    /\ \A m \in Messages : server[m] <= server'[m]
    /\ \A c \in Conversations : sessions'[c] \in {sessions[c], 0, Present}
    /\ untouched'.messages \subseteq untouched.messages
    /\ untouched'.sessions \subseteq untouched.sessions
    /\ untouched'.listed \subseteq untouched.listed
    /\ \A m \in untouched'.messages : server'[m] = server[m]
    /\ \A c \in untouched'.sessions : sessions'[c] = sessions[c]
    /\ UNCHANGED <<request, cursor, answer, page, troubles>>

LEMMA ChangeMoves ==
  ASSUME LiveInv, Change
  PROVE  Moves
  <1>1. LiveTypeOK /\ DataSound
    BY DEF LiveInv
  <1>2. /\ changes' = changes + 1 /\ ~answer.done
        /\ UNCHANGED <<request, cursor, answer, page, troubles>>
    BY DEF Change
  <1>3. /\ Present \in Nat /\ Present # 0 /\ Present' = Present + 1
        /\ \A c \in Conversations : sessions[c] \in Nat /\ sessions[c] < Present
    BY <1>1, <1>2 DEF LiveTypeOK, DataSound, Present
  <1>4. /\ messages \subseteq Messages /\ server \in [Messages -> 0..1]
        /\ sessions \in [Conversations -> Nat]
        /\ untouched \in [messages : SUBSET Messages, sessions : SUBSET Conversations,
                          listed : SUBSET Conversations]
        /\ untouched.messages \subseteq messages
        /\ \A c \in untouched.sessions \union untouched.listed : sessions[c] # 0
    BY <1>1 DEF LiveTypeOK, DataSound
  <1> DEFINE Sound ==
        /\ messages' \subseteq Messages /\ server' \in [Messages -> 0..1]
        /\ sessions' \in [Conversations -> Nat]
        /\ untouched' \in [messages : SUBSET Messages, sessions : SUBSET Conversations,
                           listed : SUBSET Conversations]
        /\ untouched'.messages \subseteq messages'
        /\ \A c \in untouched'.sessions \union untouched'.listed : sessions'[c] # 0
        /\ \A m \in Messages : server[m] <= server'[m]
        /\ \A c \in Conversations : sessions'[c] \in {sessions[c], 0, Present}
        /\ untouched'.messages \subseteq untouched.messages
        /\ untouched'.sessions \subseteq untouched.sessions
        /\ untouched'.listed \subseteq untouched.listed
        /\ \A m \in untouched'.messages : server'[m] = server[m]
        /\ \A c \in untouched'.sessions : sessions'[c] = sessions[c]
  <1>5. \A m \in Messages : server[m] \in Nat
    BY <1>4
  <1>6. ASSUME NEW m \in Messages, Arrive(m) PROVE Sound
    <2>1. /\ messages' = messages \union {m} /\ UNCHANGED server
          /\ sessions' = [sessions EXCEPT ![m.conversation] = Present]
          /\ untouched' = [untouched EXCEPT !.sessions = @ \ {m.conversation}]
      BY <1>6 DEF Arrive
    <2>2. /\ untouched'.messages = untouched.messages
          /\ untouched'.sessions = untouched.sessions \ {m.conversation}
          /\ untouched'.listed = untouched.listed
          /\ untouched' \in [messages : SUBSET Messages, sessions : SUBSET Conversations,
                             listed : SUBSET Conversations]
      BY <1>4, <2>1
    <2>3. /\ sessions' \in [Conversations -> Nat]
          /\ \A c \in Conversations :
               sessions'[c] = IF c = m.conversation THEN Present ELSE sessions[c]
      BY <1>3, <1>4, <2>1
    <2> HIDE DEF Present
    <2>4. untouched.sessions \subseteq Conversations /\ untouched.listed \subseteq Conversations
      BY <1>4
    <2>5. /\ \A c \in untouched'.sessions \union untouched'.listed : sessions'[c] # 0
          /\ \A c \in untouched'.sessions : sessions'[c] = sessions[c]
          /\ \A c \in Conversations : sessions'[c] \in {sessions[c], 0, Present}
      BY <1>3, <1>4, <2>2, <2>3, <2>4
    <2>6. \A w \in Messages : server[w] <= server'[w] /\ server'[w] = server[w]
      BY <1>5, <2>1
    <2>7. untouched'.messages \subseteq messages' /\ messages' \subseteq Messages
      BY <1>4, <2>1, <2>2
    <2>8. untouched.messages \subseteq Messages
      BY <1>4
    <2>9. QED
      BY <1>4, <2>1, <2>2, <2>3, <2>5, <2>6, <2>7, <2>8
  <1>7. ASSUME NEW m \in Messages, Delete(m) PROVE Sound
    <2>1. /\ messages' = messages \ {m} /\ UNCHANGED <<server, sessions>>
          /\ untouched' = [untouched EXCEPT !.messages = @ \ {m}]
      BY <1>7 DEF Delete
    <2>2. /\ untouched'.messages = untouched.messages \ {m}
          /\ untouched'.sessions = untouched.sessions
          /\ untouched'.listed = untouched.listed
          /\ untouched' \in [messages : SUBSET Messages, sessions : SUBSET Conversations,
                             listed : SUBSET Conversations]
      BY <1>4, <2>1
    <2>3. \A w \in Messages : server[w] <= server'[w]
      BY <1>5, <2>1
    <2>4. QED
      BY <1>4, <2>1, <2>2, <2>3
  <1>8. ASSUME NEW m \in Messages, Confirm(m) PROVE Sound
    <2>1. /\ server' = [server EXCEPT ![m] = 1] /\ UNCHANGED <<messages, sessions>>
          /\ untouched' = [untouched EXCEPT !.messages = @ \ {m}] /\ server[m] = 0
      BY <1>8 DEF Confirm
    <2>2. /\ untouched'.messages = untouched.messages \ {m}
          /\ untouched'.sessions = untouched.sessions
          /\ untouched'.listed = untouched.listed
          /\ untouched' \in [messages : SUBSET Messages, sessions : SUBSET Conversations,
                             listed : SUBSET Conversations]
      BY <1>4, <2>1
    <2>3. /\ server' \in [Messages -> 0..1]
          /\ \A w \in Messages : server'[w] = IF w = m THEN 1 ELSE server[w]
      BY <1>4, <2>1
    <2>4. \A w \in Messages : server[w] <= server'[w]
      BY <1>5, <2>1, <2>3
    <2>5. \A w \in untouched'.messages : server'[w] = server[w]
      BY <1>4, <2>2, <2>3
    <2>6. QED
      BY <1>4, <2>1, <2>2, <2>3, <2>4, <2>5
  <1>9. ASSUME NEW c \in Conversations, Hide(c) PROVE Sound
    <2>1. /\ sessions' = [sessions EXCEPT ![c] = 0] /\ UNCHANGED <<messages, server>>
          /\ untouched' = [untouched EXCEPT !.sessions = @ \ {c}, !.listed = @ \ {c}]
      BY <1>9 DEF Hide
    <2>2. /\ untouched'.messages = untouched.messages
          /\ untouched'.sessions = untouched.sessions \ {c}
          /\ untouched'.listed = untouched.listed \ {c}
          /\ untouched' \in [messages : SUBSET Messages, sessions : SUBSET Conversations,
                             listed : SUBSET Conversations]
      BY <1>4, <2>1
    <2>3. /\ sessions' \in [Conversations -> Nat]
          /\ \A d \in Conversations : sessions'[d] = IF d = c THEN 0 ELSE sessions[d]
      BY <1>4, <2>1
    <2>4. untouched.sessions \subseteq Conversations /\ untouched.listed \subseteq Conversations
      BY <1>4
    <2>5. /\ \A d \in untouched'.sessions \union untouched'.listed : sessions'[d] # 0
          /\ \A d \in untouched'.sessions : sessions'[d] = sessions[d]
          /\ \A d \in Conversations : sessions'[d] \in {sessions[d], 0, Present}
      BY <1>4, <2>2, <2>3, <2>4
    <2>6. \A w \in Messages : server[w] <= server'[w] /\ server'[w] = server[w]
      BY <1>5, <2>1
    <2>7. QED
      BY <1>4, <2>1, <2>2, <2>3, <2>5, <2>6
  <1>10. Sound
    BY <1>6, <1>7, <1>8, <1>9 DEF Change
  <1>11. LiveTypeOK'
    <2>1. changes' \in Nat
      BY <1>1, <1>2 DEF LiveTypeOK
    <2>2. QED
      BY <1>1, <1>2, <1>10, <2>1 DEF LiveTypeOK
  <1>12. DataSound'
    <2>1. \A c \in Conversations : sessions'[c] < Present'
      BY <1>3, <1>10
    <2>2. QED
      BY <1>10, <2>1 DEF DataSound
  <1> HIDE DEF Present
  <1>13. QED
    BY <1>2, <1>10, <1>11, <1>12 DEF Moves

LEMMA MovedKeys ==
  ASSUME LiveTypeOK, DataSound, Moves
  PROVE  /\ \A m \in Messages :
              /\ MessageKey(m)' = MessageKey(m) \/ Less(MessageKey(m), MessageKey(m)')
              /\ MessageKey(m) \in Key(5) /\ MessageKey(m)' \in Key(5)
              /\ SearchKey(m)' = SearchKey(m)
         /\ \A m \in untouched'.messages : m \in Messages /\ MessageKey(m)' = MessageKey(m)
         /\ \A c \in untouched'.sessions :
              c \in Conversations /\ ConversationKey(c)' = ConversationKey(c)
         /\ \A c \in Conversations : sessions'[c] # 0 =>
              \/ sessions[c] # 0 /\ ConversationKey(c)' = ConversationKey(c)
              \/ ConversationKey(c)'[1] = Present
         /\ \A c \in Conversations : ConversationKey(c)' \in Key(2)
  <1>1. /\ server \in [Messages -> 0..1] /\ server' \in [Messages -> 0..1]
        /\ sessions' \in [Conversations -> Nat]
        /\ \A m \in Messages : server[m] <= server'[m]
        /\ \A m \in untouched'.messages : server'[m] = server[m]
        /\ \A c \in untouched'.sessions : sessions'[c] = sessions[c]
        /\ \A c \in Conversations : sessions'[c] \in {sessions[c], 0, Present}
        /\ untouched'.messages \subseteq Messages
        /\ untouched'.sessions \subseteq Conversations
    BY DEF Moves, LiveTypeOK
  <1>2. ASSUME NEW m \in Messages
        PROVE  /\ MessageKey(m) \in Key(5) /\ MessageKey(m)' \in Key(5)
               /\ MessageKey(m)' = MessageKey(m) \/ Less(MessageKey(m), MessageKey(m)')
               /\ SearchKey(m)' = SearchKey(m)
    <2>1. MessageKey(m) \in Key(5) /\ MessageKey(m)' \in Key(5)
      <3>1. /\ server[m] \in Int /\ server'[m] \in Int
            /\ m.sort \in Int /\ m.time \in Int /\ m.shard \in Int /\ m.row \in Int
        BY <1>1, MessageFacts
      <3>2. QED
        BY <3>1 DEF MessageKey, Key
    <2>2. CASE server'[m] = server[m]
      BY <2>1, <2>2 DEF MessageKey, SearchKey
    <2>3. CASE server'[m] # server[m]
      <3>1. server[m] < server'[m] /\ server[m] \in Int /\ server'[m] \in Int
        BY <1>1, <2>3
      <3>2. 3 \in DOMAIN MessageKey(m)
        BY DEF MessageKey
      <3>3. /\ MessageKey(m)[3] = server[m] /\ MessageKey(m)'[3] = server'[m]
            /\ MessageKey(m)[1] = MessageKey(m)'[1] /\ MessageKey(m)[2] = MessageKey(m)'[2]
        BY DEF MessageKey
      <3>4. \A j \in 1..(3 - 1) : MessageKey(m)[j] = MessageKey(m)'[j]
        <4>1. \A j \in 1..(3 - 1) : j = 1 \/ j = 2
          OBVIOUS
        <4>2. QED
          BY <3>3, <4>1
      <3>5. QED
        BY <2>1, <3>1, <3>2, <3>3, <3>4 DEF Less, SearchKey
    <2>4. QED
      BY <2>2, <2>3
  <1>3. \A m \in untouched'.messages : m \in Messages /\ MessageKey(m)' = MessageKey(m)
    BY <1>1 DEF MessageKey
  <1>4. \A c \in untouched'.sessions :
          c \in Conversations /\ ConversationKey(c)' = ConversationKey(c)
    BY <1>1 DEF ConversationKey
  <1>5. \A c \in Conversations : sessions'[c] # 0 =>
              \/ sessions[c] # 0 /\ ConversationKey(c)' = ConversationKey(c)
              \/ ConversationKey(c)'[1] = Present
    BY <1>1 DEF ConversationKey
  <1>6. \A c \in Conversations : ConversationKey(c)' \in Key(2)
    <2> TAKE c \in Conversations
    <2>1. sessions'[c] \in Int /\ -c \in Int
      BY <1>1, QueryAssumption
    <2>2. QED
      BY <2>1 DEF ConversationKey, Key
  <1>7. QED
    BY <1>2, <1>3, <1>4, <1>5, <1>6

LEMMA ChangeStep ==
  ASSUME LiveInv, Change
  PROVE  LiveInv'
  <1>1. /\ LiveTypeOK /\ DataSound /\ AnswerSound /\ KeysetSound /\ FallbackSound
        /\ PageSound /\ FetchedSound /\ ItemsSound /\ CoverSound
    BY DEF LiveInv
  <1>2. Moves
    BY ChangeMoves
  <1>3. /\ LiveTypeOK' /\ DataSound' /\ ~answer.done
        /\ UNCHANGED <<request, cursor, answer, page, troubles>>
        /\ Returned' = Returned /\ Asked' = Asked /\ Width' = Width
        /\ \A m : InScope(m)' = InScope(m) /\ InRange(m)' = InRange(m)
    BY <1>2 DEF Moves, Returned, Asked, Width, InScope, InRange
  <1>4. /\ \A m \in Messages :
              /\ MessageKey(m)' = MessageKey(m) \/ Less(MessageKey(m), MessageKey(m)')
              /\ MessageKey(m) \in Key(5) /\ MessageKey(m)' \in Key(5)
              /\ SearchKey(m)' = SearchKey(m)
        /\ \A m \in untouched'.messages : m \in Messages /\ MessageKey(m)' = MessageKey(m)
        /\ \A c \in untouched'.sessions :
             c \in Conversations /\ ConversationKey(c)' = ConversationKey(c)
        /\ \A c \in Conversations : sessions'[c] # 0 =>
             \/ sessions[c] # 0 /\ ConversationKey(c)' = ConversationKey(c)
             \/ ConversationKey(c)'[1] = Present
        /\ \A c \in Conversations : ConversationKey(c)' \in Key(2)
    BY <1>1, <1>2, MovedKeys
  <1>5. /\ \A c \in Conversations : sessions[c] \in Nat /\ sessions[c] < Present
        /\ Present \in Nat /\ Present' = Present + 1
    BY <1>1, <1>2 DEF LiveTypeOK, DataSound, Moves, Present
  <1>6. /\ untouched'.messages \subseteq untouched.messages
        /\ untouched'.sessions \subseteq untouched.sessions
        /\ untouched'.listed \subseteq untouched.listed
        /\ \A m \in Messages : server[m] <= server'[m]
    BY <1>2 DEF Moves
  <1>7. AnswerSound'
    BY <1>1, <1>3 DEF AnswerSound, Distinct
  <1>8. KeysetSound'
    <2> SUFFICES ASSUME cursor.kind # "fallback" PROVE KeysetSound'
      BY <1>3 DEF KeysetSound
    <2>1. cursor.key = <<>> => answer.got = <<>>
      BY <1>1, <1>3 DEF KeysetSound
    <2>2. ASSUME cursor.key # <<>>
          PROVE  /\ cursor.key \in Key(Width)
                 /\ request.kind = "conversations" => cursor.key[1] < Present
                 /\ \A w \in Returned : There(w) => ~Less(NowKey(w), cursor.key)
      BY <1>1, <1>3, <2>2 DEF KeysetSound
    <2>3. ASSUME cursor.key # <<>>, request.kind = "conversations"
          PROVE  cursor.key[1] < Present'
      <3>1. cursor.key \in Key(2)
        BY <2>2, <2>3 DEF Width
      <3>2. cursor.key[1] \in Int
        BY <3>1 DEF Key
      <3>3. QED
        BY <1>5, <2>2, <2>3, <3>2
    <2>4. ASSUME cursor.key # <<>>, NEW w \in Returned, There(w)'
          PROVE  ~Less(NowKey(w)', cursor.key)
      <3>1. w \in Asked
        BY <1>1 DEF AnswerSound
      <3>2. CASE request.kind = "conversations"
        <4>1. w \in Conversations /\ cursor.key \in Key(2) /\ sessions'[w] # 0
          BY <1>3, <2>2, <2>4, <3>1, <3>2 DEF Asked, Width, There
        <4>2. NowKey(w)' = ConversationKey(w)' /\ NowKey(w) = ConversationKey(w)
          BY <1>3, <3>2 DEF NowKey
        <4>3. CASE sessions[w] # 0 /\ ConversationKey(w)' = ConversationKey(w)
          BY <2>2, <2>4, <4>2, <4>3 DEF There
        <4>4. CASE ConversationKey(w)'[1] = Present
          <5> DEFINE a == ConversationKey(w)'
                     b == cursor.key
          <5>1. a \in Key(2) /\ b \in Key(2) /\ b[1] < a[1]
            BY <1>4, <2>2, <2>4, <3>2, <4>1, <4>4
          <5>2. ~Less(a, b)
            <6> HIDE DEF a, b
            <6>1. a[1] \in Int /\ b[1] \in Int /\ DOMAIN a = 1..2
              BY <5>1 DEF Key
            <6>2. ASSUME NEW i \in 1..2, a[i] < b[i], \A j \in 1..(i - 1) : a[j] = b[j]
                  PROVE  FALSE
              <7>1. CASE i = 1
                BY <5>1, <6>1, <6>2, <7>1
              <7>2. CASE i = 2
                <8>1. 1 \in 1..(i - 1)
                  BY <7>2
                <8>2. a[1] = b[1]
                  BY <6>2, <8>1
                <8>3. QED
                  BY <5>1, <6>1, <8>2
              <7>3. QED
                BY <7>1, <7>2
            <6>3. QED
              BY <6>1, <6>2 DEF Less
          <5>3. QED
            BY <4>2, <5>2
        <4>5. QED
          BY <1>4, <4>1, <4>3, <4>4
      <3>3. CASE request.kind = "messages"
        <4>1. w \in Messages /\ cursor.key \in Key(5) /\ There(w)
          BY <2>2, <2>4, <3>1, <3>3 DEF Asked, Width, There
        <4>2. NowKey(w)' = MessageKey(w)' /\ NowKey(w) = MessageKey(w)
          BY <1>3, <3>3 DEF NowKey
        <4>3. ~Less(MessageKey(w), cursor.key)
          BY <2>2, <2>4, <4>1, <4>2
        <4>4. QED
          BY <1>4, <4>1, <4>2, <4>3, GrownNotLess
      <3>4. CASE request.kind \notin {"conversations", "messages"}
        <4>1. w \in Messages /\ There(w)
          BY <3>1, <3>4 DEF Asked, There
        <4>2. NowKey(w)' = SearchKey(w)' /\ NowKey(w) = SearchKey(w)
          BY <1>3, <3>4 DEF NowKey
        <4>3. QED
          BY <1>4, <2>2, <2>4, <4>1, <4>2
      <3>5. QED
        BY <3>2, <3>3, <3>4
    <2>5. ASSUME answer.covered, NEW w \in Wanted'
          PROVE  w \in Returned \/ Older(NowKey(w)', cursor.key)
      <3>1. w \in Wanted
        BY <1>3, <1>6 DEF Wanted
      <3>2. NowKey(w)' = NowKey(w)
        <4>1. CASE request.kind = "conversations"
          <5>1. w \in untouched'.sessions
            BY <1>3, <2>5, <4>1 DEF Wanted
          <5>2. QED
            BY <1>3, <1>4, <4>1, <5>1 DEF NowKey
        <4>2. CASE request.kind # "conversations"
          <5>1. w \in untouched'.messages
            BY <1>3, <2>5, <4>2 DEF Wanted
          <5>2. QED
            BY <1>3, <1>4, <4>2, <5>1 DEF NowKey
        <4>3. QED
          BY <4>1, <4>2
      <3>3. w \in Returned \/ Older(NowKey(w), cursor.key)
        BY <1>1, <1>3, <2>5, <3>1 DEF KeysetSound
      <3>4. QED
        BY <3>2, <3>3
    <2>6. \A w \in Wanted' : Older(NowKey(w)', cursor.key) <=> Older(NowKey(w), cursor.key)'
      BY <1>3 DEF Older
    <2>7. QED
      BY <1>3, <2>1, <2>2, <2>3, <2>4, <2>5 DEF KeysetSound, Older
  <1>9. \A w \in Sought' : w \in Sought /\ w \in Messages /\ MessageKey(w)' = MessageKey(w)
    BY <1>3, <1>4, <1>6 DEF Sought
  <1>10. FallbackSound'
    <2> SUFFICES ASSUME cursor.kind = "fallback" PROVE FallbackSound'
      BY <1>3 DEF FallbackSound
    <2>1. /\ cursor.conversation \in Conversations
          /\ request.conversation \in {0, cursor.conversation}
          /\ cursor.key = <<>> \/ cursor.key \in Key(5)
      BY <1>1, <1>3 DEF FallbackSound
    <2>2. ASSUME NEW w \in Returned
          PROVE  \/ w.conversation < cursor.conversation
                 \/ /\ w.conversation = cursor.conversation /\ cursor.key # <<>>
                    /\ ~Less(MessageKey(w)', cursor.key)
      <3>1. w \in Messages
        BY <1>1 DEF AnswerSound, Asked
      <3>2. \/ w.conversation < cursor.conversation
            \/ /\ w.conversation = cursor.conversation /\ cursor.key # <<>>
               /\ ~Less(MessageKey(w), cursor.key)
        BY <1>1, <1>3 DEF FallbackSound
      <3>3. QED
        BY <1>4, <2>1, <3>1, <3>2, GrownNotLess
    <2>3. ASSUME answer.covered, NEW w \in Sought'
          PROVE  \/ w \in Returned
                 \/ cursor.conversation < w.conversation
                 \/ cursor.conversation = w.conversation /\ Older(MessageKey(w)', cursor.key)
      BY <1>1, <1>3, <1>9, <2>3 DEF FallbackSound
    <2>4. QED
      BY <1>3, <2>1, <2>2, <2>3 DEF FallbackSound, Older
  <1>11. PageSound' /\ ItemsSound'
    BY <1>1, <1>3 DEF PageSound, ItemsSound, Distinct, Whats
  <1>12. FetchedSound'
    <2> SUFFICES ASSUME page.at # "none" PROVE FetchedSound'
      BY <1>3 DEF FetchedSound
    <2>1. /\ IsFiniteSet(page.fetched)
          /\ \A x \in page.fetched :
           /\ x.what \in Messages \ Returned
           /\ x.what.conversation = page.ids[1] /\ x.what.shard \in page.open \ page.todo
           /\ \E v \in 0..server[x.what] :
                x.key = <<x.what.sort, x.what.time, v, x.what.shard, x.what.row>>
           /\ x.what \in untouched.messages => x.key = MessageKey(x.what)
           /\ Older(x.key, page.key)
           /\ \A y \in page.fetched : x.what = y.what => x = y
      BY <1>1 DEF FetchedSound
    <2>2. ASSUME NEW x \in page.fetched
          PROVE  /\ \E v \in 0..server'[x.what] :
                      x.key = <<x.what.sort, x.what.time, v, x.what.shard, x.what.row>>
                 /\ x.what \in untouched'.messages => x.key = MessageKey(x.what)'
      <3>1. PICK v \in 0..server[x.what] :
                      x.key = <<x.what.sort, x.what.time, v, x.what.shard, x.what.row>>
        BY <2>1
      <3>2. /\ server[x.what] \in 0..1 /\ server'[x.what] \in 0..1
            /\ server[x.what] <= server'[x.what]
        BY <1>1, <1>3, <1>6, <2>1 DEF LiveTypeOK
      <3>3. v \in 0..server'[x.what]
        BY <3>2
      <3>4. x.what \in untouched'.messages => x.key = MessageKey(x.what)'
        BY <1>4, <1>6, <2>1
      <3>5. QED
        BY <3>1, <3>3, <3>4
    <2>3. QED
      BY <1>3, <2>1, <2>2 DEF FetchedSound, Older
  <1>13. CoverSound'
    <2>1. ListLimit' = ListLimit
      BY <1>3 DEF ListLimit
    <2>2. \A w \in Sought' : Ahead(w) => Ahead(w)'
      <3> TAKE w \in Sought'
      <3>1. MessageKey(w)' = MessageKey(w)
        BY <1>9
      <3>2. Behind(w)' = Behind(w) /\ Older(MessageKey(w), page.key)' = Older(MessageKey(w), page.key)
        BY <1>3, <2>1, <3>1 DEF Behind, Older
      <3>3. QED
        BY <1>3, <3>2 DEF Ahead
    <2>3. QED
      BY <1>1, <1>3, <1>9, <2>2 DEF CoverSound, Whats
  <1>14. NothingMissed'
    BY <1>3 DEF NothingMissed
  <1>15. QED
    BY <1>3, <1>7, <1>8, <1>10, <1>11, <1>12, <1>13, <1>14 DEF LiveInv

-----------------------------------------------------------------------------
(* The conversations of a search without the index.                          *)
Increasing(s) == \A i, j \in DOMAIN s : i < j => s[i] < s[j]

LEMMA FirstAscending ==
  ASSUME NEW S \in SUBSET Nat, IsFiniteSet(S), NEW n \in Nat, NEW f,
         f = FirstOf(Ascending(S), n)
  PROVE  /\ f \in Seq(S) /\ Len(f) \in Nat /\ Len(f) <= n /\ DOMAIN f = 1..Len(f)
         /\ Increasing(f)
         /\ \A x \in S : \/ \E i \in DOMAIN f : f[i] = x
                         \/ Len(f) = n /\ \A i \in DOMAIN f : f[i] < x
  <1> DEFINE D == Ascending(S)
             c == Cardinality(S)
             m == IF c < n THEN c ELSE n
  <1>1. /\ c \in Nat /\ D \in [1..c -> S]
        /\ \A x \in S : \E i \in 1..c : D[i] = x
        /\ \A i, j \in 1..c : i < j => D[i] < D[j]
    BY AscendingFacts
  <1>2. f = FirstOf(D, n)
    OBVIOUS
  <1> HIDE DEF D, c
  <1>3. D \in Seq(S) /\ Len(D) = c
    <2>1. D \in Seq(S)
      BY <1>1, SeqDef
    <2>2. QED
      BY <1>1, <2>1
  <1>4. m \in Nat /\ m <= n /\ m <= c
    BY <1>1
  <1>5. f = SubSeq(D, 1, m)
    BY <1>2, <1>3 DEF FirstOf
  <1>6. f \in Seq(S) /\ Len(f) = m /\ \A i \in 1..m : f[i] = D[i]
    <2> HIDE DEF m
    <2>1. SubSeq(D, 1, m) \in Seq(S) /\ Len(SubSeq(D, 1, m)) = m
      BY <1>1, <1>3, <1>4
    <2>2. \A i \in 1..m : SubSeq(D, 1, m)[i] = D[i]
      BY <1>1, <1>3, <1>4
    <2>3. QED
      BY <1>5, <2>1, <2>2
  <1>7. DOMAIN f = 1..m
    BY <1>6
  <1>8. \A i \in 1..m : i \in 1..c
    BY <1>1, <1>4
  <1>9. ASSUME NEW x \in S
        PROVE  \/ \E i \in DOMAIN f : f[i] = x
               \/ m = n /\ \A i \in DOMAIN f : f[i] < x
    <2>1. PICK i \in 1..c : D[i] = x
      BY <1>1
    <2>2. CASE i <= m
      <3>1. i \in 1..m
        BY <1>4, <2>2
      <3>2. QED
        BY <1>6, <1>7, <2>1, <3>1
    <2>3. CASE m < i
      <3>1. m = n
        BY <1>1, <2>3
      <3>2. \A j \in 1..m : j < i
        BY <1>4, <2>3
      <3> HIDE DEF m
      <3>3. \A j \in 1..m : f[j] < x
        BY <1>1, <1>6, <1>8, <2>1, <3>2
      <3>4. QED
        BY <1>7, <3>1, <3>3
    <2>4. QED
      BY <1>4, <2>2, <2>3
  <1> HIDE DEF m
  <1>10. Increasing(f)
    BY <1>1, <1>6, <1>7, <1>8 DEF Increasing
  <1>11. QED
    BY <1>4, <1>6, <1>7, <1>9, <1>10

\* The page takes the first of the conversations, and knows of one beyond.
Begins(C) ==
    /\ C \in Seq(Conversations) /\ Len(C) \in Nat /\ DOMAIN C = 1..Len(C)
    /\ Len(C) <= ConversationBudget + 1
    /\ Increasing(C)

Taken(C, c) ==
    \/ \E i \in DOMAIN C : C[i] = c
    \/ Len(C) = ConversationBudget + 1 /\ C[ConversationBudget + 1] <= c

LEMMA CandidatesFacts ==
  ASSUME LiveTypeOK, FallbackSound, ~answer.done, cursor.kind # "keyset"
  PROVE  /\ Begins(Candidates)
         /\ request.conversation # 0 => Candidates = <<request.conversation>>
         /\ request.conversation = 0 /\ cursor.kind = "none" =>
              \A c \in Conversations : sessions[c] # 0 => Taken(Candidates, c)
         /\ cursor.kind = "fallback" =>
              /\ Candidates # <<>> /\ Candidates[1] = cursor.conversation
              /\ request.conversation = 0 =>
                   \A c \in Conversations : sessions[c] # 0 /\ cursor.conversation <= c =>
                     Taken(Candidates, c)
  <1> DEFINE B == ConversationBudget
  <1>1. B \in Nat \ {0} /\ Conversations \subseteq Nat \ {0} /\ IsFiniteSet(Conversations)
    BY QueryAssumption
  <1>2. request.conversation \in Conversations \union {0}
    BY RequestFacts
  <1> DEFINE listed == {c \in Conversations : sessions[c] # 0}
  <1>3. CASE request.conversation # 0
    <2>1. Candidates = <<request.conversation>> /\ request.conversation \in Conversations
      BY <1>2, <1>3 DEF Candidates
    <2>2. Begins(Candidates)
      BY <1>1, <2>1 DEF Begins, Increasing
    <2>3. cursor.kind = "fallback" => request.conversation = cursor.conversation
      BY <1>3 DEF FallbackSound
    <2>4. QED
      BY <1>3, <2>1, <2>2, <2>3
  <1>4. CASE request.conversation = 0 /\ cursor.kind = "none"
    <2> DEFINE n == B + 1
    <2>1. Candidates = FirstOf(Ascending(listed), n)
      BY <1>4 DEF Candidates
    <2>2. n \in Nat /\ listed \in SUBSET Nat /\ IsFiniteSet(listed)
      <3>1. listed \in SUBSET Conversations
        OBVIOUS
      <3>2. IsFiniteSet(listed)
        BY <1>1, <3>1, FS_Subset
      <3>3. n \in Nat
        BY <1>1
      <3>4. QED
        BY <1>1, <3>1, <3>2, <3>3
    <2> HIDE DEF listed, n
    <2>3. /\ Candidates \in Seq(listed) /\ Len(Candidates) \in Nat /\ Len(Candidates) <= n
          /\ DOMAIN Candidates = 1..Len(Candidates) /\ Increasing(Candidates)
          /\ \A x \in listed : \/ \E i \in DOMAIN Candidates : Candidates[i] = x
                               \/ Len(Candidates) = n
                                  /\ \A i \in DOMAIN Candidates : Candidates[i] < x
      BY <2>1, <2>2, FirstAscending
    <2>4. listed \in SUBSET Conversations
      BY DEF listed
    <2>5. Candidates \in Seq(Conversations)
      BY <2>3, <2>4, SeqOfSubset
    <2>6. ASSUME NEW c \in Conversations, sessions[c] # 0 PROVE Taken(Candidates, c)
      <3>1. c \in listed
        BY <2>6 DEF listed
      <3>2. CASE \E i \in DOMAIN Candidates : Candidates[i] = c
        BY <3>2 DEF Taken
      <3>3. CASE Len(Candidates) = n /\ \A i \in DOMAIN Candidates : Candidates[i] < c
        <4>1. n \in DOMAIN Candidates
          BY <1>1, <2>3, <3>3 DEF n
        <4>2. Candidates[n] < c /\ Candidates[n] \in Conversations
          BY <2>5, <3>3, <4>1
        <4>3. Candidates[n] \in Nat /\ c \in Nat
          BY <1>1, <4>2
        <4>4. Candidates[n] <= c
          BY <4>2, <4>3
        <4>5. QED
          BY <3>3, <4>4 DEF Taken, n
      <3>4. QED
        BY <2>3, <3>1, <3>2, <3>3
    <2>7. Begins(Candidates)
      BY <2>3, <2>5 DEF Begins, n
    <2>8. QED
      BY <1>4, <2>6, <2>7
  <1>5. CASE request.conversation = 0 /\ cursor.kind # "none"
    <2> DEFINE a == cursor.conversation
               later == {c \in listed : c > a}
               t == FirstOf(Ascending(later), B)
    <2>1. Candidates = <<a>> \o t
      BY <1>5 DEF Candidates
    <2>2. B \in Nat /\ later \in SUBSET Nat /\ IsFiniteSet(later)
      <3>1. later \in SUBSET Conversations
        OBVIOUS
      <3>2. QED
        BY <1>1, <3>1, FS_Subset
    <2>3. \A x \in later : x > a /\ x \in Conversations
      OBVIOUS
    <2>4. \A c \in Conversations : sessions[c] # 0 /\ c > a => c \in later
      OBVIOUS
    <2> HIDE DEF later, a, B
    <2>5. /\ t \in Seq(later) /\ Len(t) \in Nat /\ Len(t) <= B /\ DOMAIN t = 1..Len(t)
          /\ Increasing(t)
          /\ \A x \in later : \/ \E i \in DOMAIN t : t[i] = x
                              \/ Len(t) = B /\ \A i \in DOMAIN t : t[i] < x
      BY <2>2, FirstAscending
    <2> HIDE DEF t
    <2>6. cursor.kind = "fallback" /\ a \in Conversations /\ a \in Nat
      <3>1. cursor.kind = "fallback"
        BY <1>5 DEF LiveTypeOK
      <3>2. QED
        BY <1>1, <3>1 DEF FallbackSound, a
    <2> DEFINE C == <<a>> \o t
    <2>7. /\ C \in Seq(Conversations) /\ Len(C) = Len(t) + 1 /\ DOMAIN C = 1..(Len(t) + 1)
          /\ C[1] = a /\ \A i \in 1..Len(t) : C[i + 1] = t[i]
      <3>1. t \in Seq(Conversations)
        BY <2>3, <2>5, SeqOfSubset
      <3>2. QED
        BY <2>6, <3>1
    <2> HIDE DEF C
    <2>8. \A i \in 1..Len(t) : t[i] \in later /\ t[i] > a /\ t[i] \in Nat
      <3>1. \A i \in 1..Len(t) : t[i] \in later
        BY <2>5
      <3>2. QED
        BY <1>1, <2>3, <3>1
    <2>9. ASSUME NEW i \in DOMAIN C, NEW j \in DOMAIN C, i < j PROVE C[i] < C[j]
      <3> DEFINE j0 == j - 1
                 i0 == i - 1
      <3>1. j0 \in 1..Len(t) /\ C[j] = t[j0]
        <4>1. j0 \in 1..Len(t) /\ j = j0 + 1
          BY <2>5, <2>7, <2>9
        <4>2. QED
          BY <2>7, <4>1
      <3>2. CASE i = 1
        <4> HIDE DEF j0
        <4> QED
          BY <2>6, <2>7, <2>8, <3>1, <3>2
      <3>3. CASE i # 1
        <4>1. i0 \in 1..Len(t) /\ C[i] = t[i0] /\ i0 < j0
          <5>1. i0 \in 1..Len(t) /\ i = i0 + 1 /\ i0 < j0
            BY <2>5, <2>7, <2>9, <3>3
          <5>2. QED
            BY <2>7, <5>1
        <4> HIDE DEF j0, i0
        <4>2. QED
          BY <2>5, <3>1, <4>1 DEF Increasing
      <3>4. QED
        BY <3>2, <3>3
    <2>10. Begins(C)
      <3>1. Len(C) \in Nat /\ Len(C) <= B + 1 /\ DOMAIN C = 1..Len(C)
        <4>1. B \in Nat /\ Len(t) \in Nat /\ Len(t) <= B
          BY <1>1, <2>5 DEF B
        <4>2. Len(C) = Len(t) + 1 /\ DOMAIN C = 1..(Len(t) + 1)
          BY <2>7
        <4>3. QED
          BY <4>1, <4>2
      <3>2. Increasing(C)
        BY <2>9 DEF Increasing
      <3>3. QED
        BY <2>7, <3>1, <3>2 DEF Begins, B
    <2>11. ASSUME NEW c \in Conversations, sessions[c] # 0, a <= c
           PROVE  Taken(C, c)
      <3>1. c \in Nat
        BY <1>1
      <3>2. CASE c = a
        <4>1. 1 \in DOMAIN C
          BY <2>5, <2>7
        <4>2. QED
          BY <2>7, <3>2, <4>1 DEF Taken
      <3>3. CASE c # a
        <4>1. c \in later
          BY <2>4, <2>6, <2>11, <3>1, <3>3
        <4>2. CASE \E i \in DOMAIN t : t[i] = c
          <5>1. PICK i \in 1..Len(t) : t[i] = c
            BY <2>5, <4>2
          <5>2. i + 1 \in 1..(Len(t) + 1)
            BY <2>5
          <5>3. i + 1 \in DOMAIN C /\ C[i + 1] = c
            BY <2>7, <5>1, <5>2
          <5>4. QED
            BY <5>3 DEF Taken
        <4>3. CASE Len(t) = B /\ \A i \in DOMAIN t : t[i] < c
          <5>1. B \in 1..Len(t)
            BY <1>1, <4>3 DEF B
          <5>2. t[B] < c /\ t[B] \in Nat /\ C[B + 1] = t[B]
            BY <2>5, <2>7, <2>8, <4>3, <5>1
          <5>3. C[B + 1] <= c
            BY <3>1, <5>2
          <5>4. QED
            BY <2>7, <4>3, <5>3 DEF Taken, B
        <4>4. QED
          BY <2>5, <4>1, <4>2, <4>3
      <3>4. QED
        BY <3>2, <3>3
    <2>12. C # <<>>
      <3>1. Len(C) # 0
        BY <2>5, <2>7
      <3>2. QED
        BY <3>1
    <2>13. Candidates = C
      BY <2>1 DEF C
    <2>14. QED
      BY <1>5, <2>6, <2>7, <2>10, <2>11, <2>12, <2>13 DEF a
  <1>6. QED
    BY <1>3, <1>4, <1>5

LEMMA PageOf ==
  ASSUME NEW C, Begins(C), C # <<>>
  PROVE  /\ Within(C) \in Seq(Conversations) /\ Within(C) # <<>> /\ Within(C)[1] = C[1]
         /\ Increasing(Within(C))
         /\ Beyond(C) \in Conversations \union {0}
         /\ Beyond(C) # 0 => \A i \in DOMAIN Within(C) : Within(C)[i] < Beyond(C)
         /\ Len(C) = 1 => Within(C) = C /\ Beyond(C) = 0
         /\ \A c : Taken(C, c) =>
              \/ c = C[1]
              \/ \E i \in 2..Len(Within(C)) : Within(C)[i] = c
              \/ Beyond(C) # 0 /\ Beyond(C) <= c
  <1> DEFINE B == ConversationBudget
             n == Len(C)
             m == IF n < B THEN n ELSE B
             w == Within(C)
             b == Beyond(C)
  <1>1. B \in Nat \ {0} /\ Conversations \subseteq Nat \ {0}
    BY QueryAssumption
  <1>2. /\ C \in Seq(Conversations) /\ n \in Nat /\ DOMAIN C = 1..n /\ n <= B + 1 /\ n # 0
        /\ \A i, j \in 1..n : i < j => C[i] < C[j]
        /\ \A i \in 1..n : C[i] \in Conversations
    BY DEF Begins, Increasing
  <1>3. w = SubSeq(C, 1, m) /\ b = IF n > B THEN C[B + 1] ELSE 0
    BY DEF Within, FirstOf, Beyond
  <1> HIDE DEF n, b, B, w
  <1>4. m \in Nat /\ m # 0 /\ m <= n /\ (n > B => m = B /\ n = B + 1) /\ (n <= B => m = n)
    <2>1. B \in Nat /\ B # 0 /\ n \in Nat /\ n <= B + 1 /\ n # 0
      BY <1>1, <1>2
    <2>2. QED
      BY <2>1
  <1> HIDE DEF m
  <1>5. w \in Seq(Conversations) /\ Len(w) = m /\ \A i \in 1..m : w[i] = C[i]
    <2>1. C \in Seq(Conversations) /\ Len(C) \in Nat /\ m \in Nat /\ m <= Len(C)
      BY <1>2, <1>4 DEF n
    <2>2. SubSeq(C, 1, m) \in Seq(Conversations) /\ Len(SubSeq(C, 1, m)) = m
      BY <2>1
    <2>4. \A i \in 1..m : SubSeq(C, 1, m)[i] = C[i]
      BY <2>1
    <2>3. QED
      BY <1>3, <2>2, <2>4
  <1>6. DOMAIN w = 1..m /\ w # <<>> /\ w[1] = C[1] /\ \A i \in 1..m : i \in 1..n
    BY <1>2, <1>4, <1>5
  <1>7. Increasing(w)
    BY <1>2, <1>5, <1>6 DEF Increasing
  <1>8. n > B => B + 1 \in 1..n /\ b = C[B + 1]
    BY <1>1, <1>3, <1>4
  <1>9. ~(n > B) => b = 0
    BY <1>3
  <1>10. b \in Conversations \union {0} /\ (b # 0 <=> n > B)
    BY <1>1, <1>2, <1>8, <1>9
  <1>11. ASSUME b # 0, NEW i \in DOMAIN w PROVE w[i] < b
    <2>1. i \in 1..n /\ i < B + 1 /\ w[i] = C[i]
      BY <1>1, <1>4, <1>5, <1>6, <1>10, <1>11
    <2>2. QED
      BY <1>2, <1>8, <1>10, <1>11, <2>1
  <1>12. ASSUME NEW c, Taken(C, c)
         PROVE  \/ c = C[1]
                \/ \E i \in 2..Len(w) : w[i] = c
                \/ b # 0 /\ b <= c
    <2>1. CASE \E i \in DOMAIN C : C[i] = c
      <3>1. PICK i \in 1..n : C[i] = c
        BY <1>2, <2>1
      <3>2. CASE i = 1
        BY <3>1, <3>2
      <3>3. CASE i # 1 /\ i <= m
        <4>1. i \in 2..Len(w) /\ i \in 1..m
          BY <1>4, <1>5, <3>3
        <4>2. QED
          BY <1>5, <3>1, <4>1
      <3>4. CASE i > m
        <4>1. n > B /\ i = B + 1
          BY <1>1, <1>2, <1>4, <3>4
        <4>2. b = c /\ b # 0 /\ c \in Nat
          BY <1>1, <1>2, <1>8, <1>10, <3>1, <4>1
        <4>3. QED
          BY <4>2
      <3>5. QED
        BY <1>4, <3>2, <3>3, <3>4
    <2>2. CASE n = B + 1 /\ C[B + 1] <= c
      <3>1. n > B
        BY <1>1, <2>2
      <3>2. QED
        BY <1>8, <1>10, <2>2, <3>1
    <2>3. QED
      BY <1>12, <2>1, <2>2 DEF Taken, n, B
  <1>13. ASSUME n = 1 PROVE w = C /\ b = 0
    <2>1. m = 1 /\ ~(n > B)
      BY <1>1, <1>2, <1>4, <1>13
    <2>2. Len(w) = Len(C) /\ \A i \in 1..Len(w) : w[i] = C[i]
      BY <1>5, <1>13, <2>1 DEF n
    <2>3. w = C
      BY <1>2, <1>5, <2>2
    <2>4. QED
      BY <1>9, <2>1, <2>3
  <1>14. QED
    BY <1>5, <1>6, <1>7, <1>10, <1>11, <1>12, <1>13 DEF w, b, n

(* Within a page the client keeps its cursor and its answer.                 *)
LEMMA KeptFacts ==
  ASSUME LiveInv, page.at # "none" \/ ~answer.done, LiveTypeOK',
         UNCHANGED <<databases, request, cursor, answer>>
  PROVE  /\ ~answer.done /\ DataSound' /\ AnswerSound' /\ KeysetSound' /\ FallbackSound'
         /\ NothingMissed'
         /\ Returned' = Returned /\ Sought' = Sought
         /\ \A w : MessageKey(w)' = MessageKey(w)
  <1>1. /\ DataSound /\ AnswerSound /\ KeysetSound /\ FallbackSound
        /\ UNCHANGED <<databases, request, cursor, answer>>
    BY DEF LiveInv
  <1>2. ~answer.done
    BY <1>1 DEF AnswerSound, NoPage
  <1>3. /\ Returned' = Returned /\ Asked' = Asked /\ Width' = Width /\ Sought' = Sought
        /\ Wanted' = Wanted /\ Present' = Present
        /\ \A w : /\ NowKey(w)' = NowKey(w) /\ There(w)' = There(w)
                  /\ MessageKey(w)' = MessageKey(w)
    BY <1>1 DEF Returned, Asked, Width, Sought, Wanted, NowKey, There, MessageKey, SearchKey,
                ConversationKey, databases, InScope, InRange, Present
  <1>4. DataSound'
    BY <1>1, <1>3 DEF DataSound, databases
  <1>5. AnswerSound'
    BY <1>1, <1>2, <1>3 DEF AnswerSound, Distinct
  <1>6. KeysetSound' /\ FallbackSound'
    BY <1>1, <1>3 DEF KeysetSound, FallbackSound, Older
  <1>7. NothingMissed'
    BY <1>1, <1>2 DEF NothingMissed
  <1>8. QED
    BY <1>2, <1>3, <1>4, <1>5, <1>6, <1>7

LEMMA BeginStep ==
  ASSUME LiveInv, Ready, NEW C, Begins(C), C # <<>>,
         request.kind = "messages" \/ (request.kind = "search" /\ cursor.kind # "keyset"),
         request.conversation # 0 => C = <<request.conversation>>,
         cursor.key = <<>> \/ cursor.key \in Key(5),
         cursor.kind = "fallback" => C[1] = cursor.conversation,
         answer.covered => \A w \in Sought :
           \/ w \in Returned
           \/ w.conversation = C[1] /\ Older(MessageKey(w), cursor.key)
           \/ w.conversation # C[1] /\ Taken(C, w.conversation),
         BeginPage(C), UNCHANGED <<databases, request, cursor, answer, troubles>>
  PROVE  LiveInv'
  <1> DEFINE ids == Within(C)
             later == Beyond(C)
  <1>1. /\ LiveTypeOK /\ DataSound /\ AnswerSound /\ KeysetSound /\ FallbackSound /\ ~answer.done
    BY DEF LiveInv, Ready
  <1>2. /\ ids \in Seq(Conversations) /\ ids # <<>> /\ ids[1] = C[1]
        /\ Increasing(ids) /\ later \in Conversations \union {0}
        /\ later # 0 => \A i \in DOMAIN ids : ids[i] < later
        /\ Len(C) = 1 => ids = C /\ later = 0
        /\ \A c : Taken(C, c) =>
             \/ c = C[1]
             \/ \E i \in 2..Len(ids) : ids[i] = c
             \/ later # 0 /\ later <= c
    BY PageOf
  <1> HIDE DEF ids, later
  <1>3. Conversations \subseteq Nat \ {0} /\ ScanBudget \in Nat \ {0}
    BY QueryAssumption
  <1>4. /\ page' = [NoPage EXCEPT !.at = "open", !.ids = ids, !.later = later, !.key = cursor.key]
        /\ UNCHANGED <<databases, request, cursor, answer, troubles>>
    BY DEF BeginPage, ids, later
  <1>5. /\ page'.at = "open" /\ page'.ids = ids /\ page'.later = later /\ page'.key = cursor.key
        /\ page'.open = {} /\ page'.todo = {} /\ page'.fetched = {} /\ page'.items = <<>>
        /\ page'.scanned = 0 /\ page'.warned = FALSE
    BY <1>4 DEF NoPage
  <1>6. LiveTypeOK'
    <2>1. ids \in Seq(Nat) /\ later \in Nat /\ cursor.key \in Seq(Int)
      <3>1. Conversations \in SUBSET Nat
        BY <1>3
      <3>2. ids \in Seq(Nat)
        BY <1>2, <3>1, SeqOfSubset
      <3>3. QED
        BY <1>1, <1>2, <1>3, <3>2 DEF LiveTypeOK
    <2>2. page' \in [at : {"none", "open", "read"}, ids : Seq(Nat), later : Nat, key : Seq(Int),
                   open : SUBSET Shards, todo : SUBSET Shards, fetched : SUBSET AnyItem,
                   items : Seq(AnyItem), scanned : Nat, warned : BOOLEAN]
      <3>1. page' = [at |-> "open", ids |-> ids, later |-> later, key |-> cursor.key,
                     open |-> {}, todo |-> {}, fetched |-> {}, items |-> <<>>, scanned |-> 0,
                     warned |-> FALSE]
        BY <1>4 DEF NoPage
      <3>2. <<>> \in Seq(AnyItem)
        OBVIOUS
      <3>3. QED
        BY <2>1, <3>1, <3>2
    <2>3. QED
      BY <1>1, <1>4, <2>2 DEF LiveTypeOK, databases
  <1>7. /\ DataSound' /\ AnswerSound' /\ KeysetSound' /\ FallbackSound' /\ NothingMissed'
        /\ Returned' = Returned /\ Sought' = Sought /\ \A w : MessageKey(w)' = MessageKey(w)
    BY <1>1, <1>4, <1>6, KeptFacts
  <1>11. PageSound'
    <2>1. \A i \in DOMAIN ids :
           /\ ids[i] \in Conversations
           /\ later # 0 => ids[i] < later
           /\ \A j \in DOMAIN ids : i < j => ids[i] < ids[j]
      BY <1>2 DEF Increasing
    <2>2. request.conversation # 0 => ids = <<request.conversation>> /\ later = 0
      BY <1>2
    <2>3. QED
      BY <1>2, <1>3, <1>4, <1>5, <2>1, <2>2 DEF PageSound
  <1>12. FetchedSound'
    BY <1>5, FS_EmptySet DEF FetchedSound
  <1>13. ItemsSound'
    BY <1>5 DEF ItemsSound, Distinct, Whats
  <1>14. CoverSound'
    <2>1. ASSUME answer.covered, NEW w \in Sought
          PROVE  w \in Returned \/ Ahead(w)'
      BY <1>2, <1>4, <1>5, <1>7, <2>1 DEF Ahead, Older
    <2>2. QED
      BY <1>4, <1>5, <1>7, <2>1 DEF CoverSound
  <1>15. QED
    BY <1>6, <1>7, <1>11, <1>12, <1>13, <1>14 DEF LiveInv

LEMMA ListMessagesStep ==
  ASSUME LiveInv, ListMessages
  PROVE  LiveInv'
  <1> DEFINE C == <<request.conversation>>
  <1>1. /\ Ready /\ request.kind = "messages" /\ BeginPage(C)
        /\ UNCHANGED <<databases, request, cursor, answer, troubles>>
        /\ ~answer.done
    BY DEF ListMessages, Ready
  <1>2. LiveTypeOK /\ AnswerSound /\ KeysetSound /\ cursor.kind # "fallback"
    BY <1>1 DEF LiveInv, AnswerSound
  <1>3. request.conversation \in Conversations /\ request.conversation # 0
    BY <1>1, <1>2, RequestFacts
  <1>4. Begins(C) /\ C # <<>> /\ C[1] = request.conversation
    BY <1>3, QueryAssumption DEF Begins, Increasing
  <1>5. cursor.key = <<>> \/ cursor.key \in Key(5)
    BY <1>1, <1>2 DEF KeysetSound, Width
  <1>6. ASSUME answer.covered, NEW w \in Sought
        PROVE  \/ w \in Returned
               \/ w.conversation = C[1] /\ Older(MessageKey(w), cursor.key)
    <2>1. w \in Wanted /\ w.conversation = request.conversation
      BY <1>1, <1>2, <1>3, <1>6 DEF Sought, Wanted, InScope
    <2>2. w \in Returned \/ Older(NowKey(w), cursor.key)
      BY <1>1, <1>2, <1>6, <2>1 DEF KeysetSound
    <2>3. NowKey(w) = MessageKey(w)
      BY <1>1 DEF NowKey
    <2>4. QED
      BY <2>1, <2>2, <2>3
  <1> HIDE DEF C
  <1>7. request.conversation # 0 => C = <<request.conversation>>
    BY DEF C
  <1>8. answer.covered => \A w \in Sought :
          \/ w \in Returned
          \/ w.conversation = C[1] /\ Older(MessageKey(w), cursor.key)
          \/ w.conversation # C[1] /\ Taken(C, w.conversation)
    BY <1>6
  <1>9. cursor.kind = "fallback" => C[1] = cursor.conversation
    BY <1>2
  <1>10. QED
    BY <1>1, <1>4, <1>5, <1>7, <1>8, <1>9, BeginStep

LEMMA FallbackSearchStep ==
  ASSUME LiveInv, FallbackSearch
  PROVE  LiveInv'
  <1>1. /\ Ready /\ request.kind = "search" /\ cursor.kind # "keyset" /\ ~answer.done
        /\ LiveTypeOK /\ DataSound /\ AnswerSound /\ KeysetSound /\ FallbackSound
    BY DEF FallbackSearch, Ready, LiveInv
  <1> DEFINE C == Candidates
  <1>2. /\ Begins(C)
        /\ request.conversation # 0 => C = <<request.conversation>>
        /\ request.conversation = 0 /\ cursor.kind = "none" =>
             \A c \in Conversations : sessions[c] # 0 => Taken(C, c)
        /\ cursor.kind = "fallback" =>
             /\ C # <<>> /\ C[1] = cursor.conversation
             /\ request.conversation = 0 =>
                  \A c \in Conversations : sessions[c] # 0 /\ cursor.conversation <= c =>
                    Taken(C, c)
    BY <1>1, CandidatesFacts
  <1>3. cursor.kind = "none" \/ cursor.kind = "fallback"
    BY <1>1 DEF LiveTypeOK
  <1>4. \A w \in Sought : /\ w \in Messages /\ w.conversation \in Conversations
                          /\ w.conversation \in Nat
                          /\ request.conversation \in {0, w.conversation}
                          /\ request.conversation = 0 => sessions[w.conversation] # 0
    <2>1. \A w \in Sought : w \in Messages
      BY <1>1 DEF Sought, LiveTypeOK
    <2>2. \A w \in Sought : request.conversation = 0 => sessions[w.conversation] # 0
      BY <1>1 DEF Sought, DataSound
    <2>3. QED
      BY <2>1, <2>2, MessageFacts DEF Sought, InScope
  <1>5. CASE C = <<>>
    <2> DEFINE next == [NoCursor EXCEPT !.kind = "fallback"]
    <2>1. Deliver(<<>>, FALSE, next, FALSE)
      BY <1>5 DEF FallbackSearch
    <2>2. request.conversation = 0 /\ cursor.kind = "none"
      BY <1>2, <1>3, <1>5
    <2>3. next \in [kind : {"keyset", "fallback"}, conversation : Nat, key : Seq(Int)]
      <3>1. next = [kind |-> "fallback", conversation |-> 0, key |-> <<>>]
        BY DEF NoCursor
      <3>2. [kind |-> "fallback", conversation |-> 0, key |-> <<>>]
              \in [kind : {"keyset", "fallback"}, conversation : Nat, key : Seq(Int)]
        OBVIOUS
      <3> HIDE DEF next
      <3>3. QED
        BY <3>1, <3>2
    <2>4. /\ <<>> \in Seq(AnyItem) /\ Distinct(<<>>) /\ Whats(<<>>) = {}
      BY DEF Distinct, Whats
    <2>5. next.kind = "fallback"
      BY DEF NoCursor
    <2> HIDE DEF next
    <2>6. /\ LiveTypeOK' /\ DataSound' /\ AnswerSound'
          /\ PageSound' /\ FetchedSound' /\ ItemsSound' /\ CoverSound'
          /\ answer'.done <=> ~FALSE
          /\ cursor'.kind = next.kind
          /\ UNCHANGED <<databases, request, troubles>>
      BY <1>1, <2>1, <2>3, <2>4, Delivered
    <2>7. ASSUME NEW w \in Sought PROVE FALSE
      <3>1. Taken(C, w.conversation)
        BY <1>2, <1>4, <2>2
      <3>2. ConversationBudget \in Nat /\ Len(C) = 0 /\ DOMAIN C = {}
        BY <1>5, QueryAssumption
      <3>3. QED
        BY <3>1, <3>2 DEF Taken
    <2>8. Wanted' \subseteq Sought
      BY <1>1, <2>2, <2>5, <2>6 DEF Wanted, Sought, databases, InScope, InRange
    <2>9. NothingMissed'
      BY <2>7, <2>8 DEF NothingMissed
    <2>10. KeysetSound' /\ FallbackSound'
      BY <2>6 DEF KeysetSound, FallbackSound
    <2>11. QED
      BY <2>6, <2>9, <2>10 DEF LiveInv
  <1>6. CASE C # <<>>
    <2>1. BeginPage(C) /\ UNCHANGED <<databases, request, cursor, answer, troubles>>
      BY <1>6 DEF FallbackSearch
    <2>2. cursor.key = <<>> \/ cursor.key \in Key(5)
      BY <1>1, <1>3 DEF AnswerSound, NoCursor, FallbackSound
    <2>3. ASSUME answer.covered, NEW w \in Sought
          PROVE  \/ w \in Returned
                 \/ w.conversation = C[1] /\ Older(MessageKey(w), cursor.key)
                 \/ w.conversation # C[1] /\ Taken(C, w.conversation)
      <3>1. CASE cursor.kind = "none"
        <4>1. cursor.key = <<>>
          BY <1>1, <3>1 DEF AnswerSound, NoCursor
        <4>2. CASE request.conversation = 0
          BY <1>2, <1>4, <2>3, <3>1, <4>1, <4>2 DEF Older
        <4>3. CASE request.conversation # 0
          BY <1>2, <1>4, <2>3, <4>1, <4>3 DEF Older
        <4>4. QED
          BY <4>2, <4>3
      <3>2. CASE cursor.kind = "fallback"
        <4>1. \/ w \in Returned
              \/ cursor.conversation < w.conversation
              \/ cursor.conversation = w.conversation /\ Older(MessageKey(w), cursor.key)
          BY <1>1, <2>3, <3>2 DEF FallbackSound
        <4>2. C[1] = cursor.conversation /\ cursor.conversation \in Conversations
              /\ cursor.conversation \in Nat
          BY <1>1, <1>2, <3>2, QueryAssumption DEF FallbackSound
        <4>3. CASE cursor.conversation < w.conversation
          <5>1. request.conversation = 0 /\ cursor.conversation <= w.conversation
                /\ w.conversation # C[1]
            BY <1>1, <1>4, <2>3, <3>2, <4>2, <4>3 DEF FallbackSound
          <5>2. QED
            BY <1>2, <1>4, <2>3, <3>2, <5>1
        <4>4. QED
          BY <4>1, <4>2, <4>3
      <3>3. QED
        BY <1>3, <3>1, <3>2
    <2> HIDE DEF C
    <2>4. QED
      BY <1>1, <1>2, <1>6, <2>1, <2>2, <2>3, BeginStep
  <1>7. QED
    BY <1>5, <1>6

-----------------------------------------------------------------------------
LEMMA LimitFacts ==
  ASSUME LiveTypeOK, PageSound, page.at # "none"
  PROVE  ListLimit \in Nat \ {0} /\ ListLimit + page.scanned \in Nat
  <1>1. page.scanned \in Nat /\ page.scanned < ScanBudget
    BY DEF LiveTypeOK, PageSound
  <1>2. ScanBudget \in Nat /\ PageLimit \in Nat \ {0}
    BY QueryAssumption
  <1>3. CASE request.kind = "messages"
    <2>1. ListLimit = request.limit /\ request.limit \in Nat \ {0}
      BY <1>3, RequestFacts DEF ListLimit
    <2>2. QED
      BY <1>1, <2>1
  <1>4. CASE request.kind # "messages"
    <2> DEFINE remaining == ScanBudget - page.scanned
    <2>1. remaining \in Nat \ {0}
      BY <1>1, <1>2
    <2>2. ListLimit = IF remaining < PageLimit THEN remaining ELSE PageLimit
      BY <1>4 DEF ListLimit
    <2> HIDE DEF remaining
    <2>3. QED
      BY <1>1, <1>2, <2>1, <2>2
  <1>5. QED
    BY <1>3, <1>4

\* What a page may still return was not returned.
LEMMA NotReturned ==
  ASSUME LiveInv, page.at # "none", NEW m \in Messages, m.conversation = page.ids[1],
         Older(MessageKey(m), page.key)
  PROVE  m \notin Returned
  <1> SUFFICES ASSUME m \in Returned PROVE FALSE
    OBVIOUS
  <1>1. /\ LiveTypeOK /\ AnswerSound /\ KeysetSound /\ FallbackSound /\ PageSound
        /\ ~answer.done
    BY DEF LiveInv, AnswerSound, NoPage
  <1>2. answer.got # <<>>
    BY DEF Returned
  <1>3. CASE cursor.kind = "none"
    BY <1>1, <1>2, <1>3 DEF AnswerSound
  <1>4. CASE cursor.kind = "keyset"
    <2>1. request.kind = "messages" /\ page.key = cursor.key
      BY <1>1, <1>4 DEF PageSound
    <2>2. cursor.key # <<>> /\ There(m)
      BY <1>1, <1>2, <1>4, <2>1 DEF KeysetSound, There
    <2>3. ~Less(NowKey(m), cursor.key)
      BY <1>1, <1>4, <2>2 DEF KeysetSound
    <2>4. NowKey(m) = MessageKey(m)
      BY <2>1 DEF NowKey
    <2>5. QED
      BY <2>1, <2>2, <2>3, <2>4 DEF Older
  <1>5. CASE cursor.kind = "fallback"
    <2>1. \/ m.conversation < cursor.conversation
          \/ /\ m.conversation = cursor.conversation /\ cursor.key # <<>>
             /\ ~Less(MessageKey(m), cursor.key)
      BY <1>1, <1>5 DEF FallbackSound
    <2>2. \/ page.ids[1] = cursor.conversation /\ page.key = cursor.key
          \/ cursor.conversation < page.ids[1] /\ page.key = <<>>
      BY <1>1, <1>5 DEF PageSound
    <2>3. m.conversation \in Nat /\ cursor.conversation \in Nat
      BY <1>1, MessageFacts DEF LiveTypeOK
    <2>4. QED
      BY <2>1, <2>2, <2>3 DEF Older
  <1>6. QED
    BY <1>1, <1>3, <1>4, <1>5 DEF LiveTypeOK

LEMMA AbandonStep ==
  ASSUME LiveInv, Abandon
  PROVE  LiveInv'
  <1>1. /\ page' = NoPage /\ UNCHANGED <<databases, request, cursor, answer>>
        /\ troubles' = troubles + 1 /\ page # NoPage
    BY DEF Abandon
  <1>2. LiveTypeOK /\ AnswerSound /\ DataSound /\ KeysetSound /\ FallbackSound /\ ~answer.done
    BY <1>1 DEF LiveInv, AnswerSound
  <1>3. /\ page' \in [at : {"none", "open", "read"}, ids : Seq(Nat), later : Nat, key : Seq(Int),
                   open : SUBSET Shards, todo : SUBSET Shards, fetched : SUBSET AnyItem,
                   items : Seq(AnyItem), scanned : Nat, warned : BOOLEAN]
        /\ page'.at = "none"
    BY <1>1 DEF NoPage
  <1>4. LiveTypeOK'
    BY <1>1, <1>2, <1>3 DEF LiveTypeOK, databases
  <1>5. /\ DataSound' /\ AnswerSound' /\ KeysetSound' /\ FallbackSound' /\ NothingMissed'
    BY <1>1, <1>2, <1>4, KeptFacts
  <1>6. PageSound' /\ FetchedSound' /\ ItemsSound' /\ CoverSound'
    BY <1>3 DEF PageSound, FetchedSound, ItemsSound, CoverSound
  <1>7. QED
    BY <1>4, <1>5, <1>6 DEF LiveInv

LEMMA OpenShardsStep ==
  ASSUME LiveInv, NEW opened \in SUBSET Shards, OpenShards(opened)
  PROVE  LiveInv'
  <1>1. /\ page.at = "open" /\ UNCHANGED <<databases, request, cursor, answer>>
        /\ page' = [page EXCEPT !.at = "read", !.open = opened, !.todo = opened,
                                !.warned = opened # Shards]
        /\ troubles' = troubles \/ troubles' = troubles + 1
    BY DEF OpenShards
  <1>2. /\ LiveTypeOK /\ PageSound /\ ItemsSound /\ CoverSound /\ page.at # "none"
    BY <1>1 DEF LiveInv
  <1>3. page.fetched = {} /\ page.items = <<>> /\ ~page.warned
    BY <1>1, <1>2 DEF PageSound
  <1>4. page \in [at : {"none", "open", "read"}, ids : Seq(Nat), later : Nat, key : Seq(Int),
                   open : SUBSET Shards, todo : SUBSET Shards, fetched : SUBSET AnyItem,
                   items : Seq(AnyItem), scanned : Nat, warned : BOOLEAN]
    BY <1>2 DEF LiveTypeOK
  <1>5. /\ page' \in [at : {"none", "open", "read"}, ids : Seq(Nat), later : Nat, key : Seq(Int),
                   open : SUBSET Shards, todo : SUBSET Shards, fetched : SUBSET AnyItem,
                   items : Seq(AnyItem), scanned : Nat, warned : BOOLEAN]
        /\ page'.at = "read" /\ page'.open = opened /\ page'.todo = opened
        /\ page'.warned = (opened # Shards)
        /\ page'.ids = page.ids /\ page'.later = page.later /\ page'.key = page.key
        /\ page'.fetched = page.fetched /\ page'.items = page.items
        /\ page'.scanned = page.scanned
    <2>1. (opened # Shards) \in BOOLEAN
      OBVIOUS
    <2>2. QED
      BY <1>1, <1>4, <2>1
  <1>6. LiveTypeOK'
    <2>1. troubles' \in Nat
      BY <1>1, <1>2 DEF LiveTypeOK
    <2>2. QED
      BY <1>1, <1>2, <1>5, <2>1 DEF LiveTypeOK, databases
  <1>7. /\ ~answer.done /\ DataSound' /\ AnswerSound' /\ KeysetSound' /\ FallbackSound'
        /\ NothingMissed' /\ Returned' = Returned /\ Sought' = Sought
        /\ \A w : MessageKey(w)' = MessageKey(w)
    BY <1>1, <1>2, <1>6, KeptFacts
  <1>8. PageSound'
    BY <1>1, <1>2, <1>5 DEF PageSound
  <1>9. FetchedSound'
    BY <1>3, <1>5, FS_EmptySet DEF FetchedSound
  <1>10. ItemsSound'
    BY <1>2, <1>5, <1>7 DEF ItemsSound, Distinct, Whats
  <1>11. CoverSound'
    <2>1. ASSUME answer.covered, opened = Shards, NEW w \in Sought
          PROVE  w \in Returned \union Whats(page.items) \/ Ahead(w)'
      <3>1. w \in Returned \union Whats(page.items) \/ Ahead(w)
        BY <1>2, <1>3, <2>1 DEF CoverSound
      <3>2. w.shard \in page'.todo
        <4>1. w \in Messages
          BY <1>2 DEF Sought, LiveTypeOK
        <4>2. QED
          BY <1>5, <2>1, <4>1, MessageFacts
      <3>3. Older(MessageKey(w), page.key)' = Older(MessageKey(w), page.key)
        BY <1>5, <1>7 DEF Older
      <3>4. Ahead(w) => Ahead(w)'
        BY <1>5, <3>2, <3>3 DEF Ahead
      <3>5. QED
        BY <3>1, <3>4
    <2>2. ~page'.warned => opened = Shards
      BY <1>5
    <2>3. page'.open = opened /\ answer' = answer /\ Whats(page.items)' = Whats(page.items)
      BY <1>1, <1>5 DEF Whats
    <2>4. QED
      BY <1>7, <2>1, <2>2, <2>3 DEF CoverSound
  <1>12. QED
    BY <1>6, <1>7, <1>8, <1>9, <1>10, <1>11 DEF LiveInv

\* The rows of a shard that continue the conversation, and the newest of them
InShard(shard) ==
    {n \in messages : /\ n.shard = shard /\ n.conversation = page.ids[1]
                      /\ InRange(n) /\ Older(MessageKey(n), page.key)}

LEMMA RowsFacts ==
  ASSUME LiveTypeOK, PageSound, page.at # "none", NEW shard
  PROVE  /\ Keyed(ShardRows(shard), 5)
         /\ \A x, y \in ShardRows(shard) : x.what = y.what => x = y
         /\ \A x \in ShardRows(shard) : /\ x.what \in InShard(shard) /\ x \in AnyItem
                                        /\ x.key = MessageKey(x.what)
         /\ \A m \in InShard(shard) :
              \/ \E x \in ShardRows(shard) : x.what = m
              \/ /\ Cardinality(ShardRows(shard)) = ListLimit + 1
                 /\ \A x \in ShardRows(shard) : Less(MessageKey(m), x.key)
  <1> DEFINE W == InShard(shard)
             c == page.ids[1]
             k == [m \in Messages |-> MessageKey(m)]
             S == Items(W, c, k)
             n == ListLimit + 1
             R == Newest(S, n)
  <1>1. W \in SUBSET Messages /\ IsFiniteSet(W)
    <2>1. W \in SUBSET Messages
      BY DEF InShard, LiveTypeOK
    <2>2. QED
      BY <2>1, QueryAssumption, FS_Subset
  <1>2. ListLimit \in Nat \ {0} /\ n \in Nat
    BY LimitFacts
  <1>3. \A w \in W : /\ k[w] = MessageKey(w) /\ k[w] \in Key(5) /\ k[w] \in Seq(Int)
                     /\ w.conversation = c
    BY <1>1, KeyFacts DEF InShard
  <1>4. \A v, w \in W : k[v] = k[w] => v = w
    BY <1>1, <1>3, KeysDiffer
  <1>5. c \in Nat
    <2>1. page.ids # <<>> /\ page.ids \in Seq(Nat)
      BY DEF PageSound, LiveTypeOK
    <2>2. QED
      BY <2>1
  <1>6. ShardRows(shard) = R
    <2>1. S = {Item(m, page.ids[1], MessageKey(m)) : m \in W}
      BY <1>1 DEF Items
    <2>2. QED
      BY <2>1 DEF ShardRows, InShard, FetchLimit
  <1> HIDE DEF W, c, k
  <1>7. /\ Keyed(S, 5)
        /\ \A x, y \in S : x.what = y.what => x = y
        /\ \A x \in S : /\ x.what \in W /\ x.key = k[x.what] /\ x.conversation = c
                        /\ x = Item(x.what, c, k[x.what])
        /\ \A w \in W : Item(w, c, k[w]) \in S
    <2>1. 5 \in Nat /\ \A w \in W : k[w] \in Key(5)
      BY <1>3
    <2>2. QED
      BY <1>1, <1>4, <2>1, ItemsOf
  <1> HIDE DEF S, n
  <1>8. /\ R \in SUBSET S /\ Keyed(R, 5)
        /\ Cardinality(R) \in Nat
        /\ R # S => Cardinality(R) = n
        /\ \A x \in R, y \in S \ R : Less(y.key, x.key)
    <2>1. Keyed(S, 5) /\ 5 \in Nat /\ n \in Nat
      BY <1>2, <1>7
    <2>2. QED
      BY <2>1, NewestFacts
  <1> HIDE DEF R
  <1>9. ASSUME NEW x \in R
        PROVE  x.what \in W /\ x \in AnyItem /\ x.key = MessageKey(x.what)
    <2>1. /\ x.what \in W /\ x.key = k[x.what] /\ x = Item(x.what, c, k[x.what])
      BY <1>7, <1>8
    <2>2. x.what \in Messages /\ k[x.what] \in Seq(Int) /\ k[x.what] = MessageKey(x.what)
      BY <1>1, <1>3, <2>1
    <2>3. Item(x.what, c, k[x.what]) \in AnyItem
      BY <1>5, <2>2 DEF Item, AnyItem
    <2>4. QED
      BY <2>1, <2>2, <2>3
  <1>10. ASSUME NEW m \in W
         PROVE  \/ \E x \in R : x.what = m
                \/ Cardinality(R) = n /\ \A x \in R : Less(MessageKey(m), x.key)
    <2> DEFINE i == Item(m, c, k[m])
    <2>1. i \in S /\ i.what = m /\ i.key = MessageKey(m)
      BY <1>3, <1>7 DEF Item
    <2> HIDE DEF i
    <2>2. QED
      BY <1>8, <2>1
  <1>11. \A x, y \in R : x.what = y.what => x = y
    BY <1>7, <1>8
  <1>12. QED
    BY <1>6, <1>8, <1>9, <1>10, <1>11 DEF W, n

\* A shard was read: some of the newest rows, all of them without a warning.
ReadSome(shard, read, failed) ==
    /\ page.at = "read" /\ shard \in page.todo /\ read \subseteq ShardRows(shard)
    /\ ~failed => read = ShardRows(shard)
    /\ page' = [page EXCEPT
                  !.todo = @ \ {shard},
                  !.fetched = @ \union {x \in read : x.what.readable},
                  !.warned = @ \/ failed \/ \E x \in read : ~x.what.readable]
    /\ UNCHANGED <<databases, request, cursor, answer>>
    /\ troubles' \in Nat

LEMMA ReadShardReads ==
  ASSUME LiveInv, NEW failed \in BOOLEAN, ReadShard(failed)
  PROVE  \E shard, read : ReadSome(shard, read, failed)
  <1>1. LiveTypeOK /\ PageSound /\ page.at = "read" /\ page.at # "none"
    BY DEF LiveInv, ReadShard
  <1> DEFINE shard == CHOOSE s \in page.todo : \A t \in page.todo : s <= t
             rows == ShardRows(shard)
  <1>2. shard \in page.todo
    <2>1. page.todo # {} /\ page.todo \in SUBSET Nat /\ IsFiniteSet(page.todo)
      <3>1. page.todo \in SUBSET Shards
        BY <1>1 DEF LiveTypeOK
      <3>2. IsFiniteSet(Shards) /\ Shards \subseteq Nat
        BY QueryAssumption
      <3>3. page.todo # {}
        BY DEF ReadShard
      <3>4. QED
        BY <3>1, <3>2, <3>3, FS_Subset
    <2>2. \E s \in page.todo : \A t \in page.todo : s <= t
      BY <2>1, LeastMember
    <2>3. QED
      BY <2>2
  <1>3. PICK n \in 0..Cardinality(rows) :
          /\ IF failed THEN n < Cardinality(rows) ELSE n = Cardinality(rows)
          /\ page' = [page EXCEPT
                !.todo = @ \ {shard},
                !.fetched = @ \union {x \in Newest(rows, n) : x.what.readable},
                !.warned = @ \/ failed \/ \E x \in Newest(rows, n) : ~x.what.readable]
    BY DEF ReadShard
  <1>4. UNCHANGED <<databases, request, cursor, answer>> /\ troubles' \in Nat
    BY <1>1 DEF ReadShard, LiveTypeOK
  <1> HIDE DEF shard
  <1>5. Keyed(rows, 5)
    BY <1>1, RowsFacts
  <1> HIDE DEF rows
  <1>6. Cardinality(rows) \in Nat /\ IsFiniteSet(rows)
    BY <1>5, FS_CardinalityType DEF Keyed
  <1>7. n \in Nat
    BY <1>6
  <1> DEFINE read == Newest(rows, n)
  <1>8. read \in SUBSET rows /\ (read # rows => Cardinality(read) = n)
    BY <1>5, <1>7, NewestFacts
  <1> HIDE DEF read
  <1>9. ~failed => read = rows
    <2>1. ~failed => n = Cardinality(rows)
      BY <1>3
    <2>2. Cardinality(read) = Cardinality(rows) => read = rows
      BY <1>6, <1>8, FS_Subset
    <2>3. QED
      BY <1>8, <2>1, <2>2
  <1>10. page' = [page EXCEPT
                !.todo = @ \ {shard},
                !.fetched = @ \union {x \in read : x.what.readable},
                !.warned = @ \/ failed \/ \E x \in read : ~x.what.readable]
    BY <1>3 DEF read
  <1>11. ReadSome(shard, read, failed)
    BY <1>1, <1>2, <1>4, <1>8, <1>9, <1>10 DEF ReadSome, rows
  <1>12. QED
    BY <1>11

LEMMA ReadSomeStep ==
  ASSUME LiveInv, NEW failed \in BOOLEAN, NEW shard, NEW read, ReadSome(shard, read, failed)
  PROVE  LiveInv'
  <1> DEFINE rows == ShardRows(shard)
             new == {x \in read : x.what.readable}
             W == InShard(shard)
  <1>1. /\ LiveTypeOK /\ AnswerSound /\ DataSound /\ PageSound /\ FetchedSound /\ ItemsSound
        /\ CoverSound /\ page.at = "read" /\ page.at # "none"
    BY DEF LiveInv, ReadSome
  <1>2. /\ shard \in page.todo /\ read \subseteq rows /\ (~failed => read = rows)
        /\ page' = [page EXCEPT
                !.todo = @ \ {shard},
                !.fetched = @ \union new,
                !.warned = @ \/ failed \/ \E x \in read : ~x.what.readable]
        /\ UNCHANGED <<databases, request, cursor, answer>> /\ troubles' \in Nat
    BY DEF ReadSome
  <1>3. /\ Keyed(rows, 5)
        /\ \A x, y \in rows : x.what = y.what => x = y
        /\ \A x \in rows : x.what \in W /\ x \in AnyItem /\ x.key = MessageKey(x.what)
        /\ \A m \in W : \/ \E x \in rows : x.what = m
                        \/ /\ Cardinality(rows) = ListLimit + 1
                           /\ \A x \in rows : Less(MessageKey(m), x.key)
    BY <1>1, RowsFacts
  <1>4. \A m \in W : /\ m \in messages /\ m \in Messages /\ m.shard = shard
                     /\ m.conversation = page.ids[1] /\ Older(MessageKey(m), page.key)
    BY <1>1 DEF InShard, LiveTypeOK
  <1>5. new \subseteq read /\ new \subseteq rows /\ new \subseteq AnyItem /\ IsFiniteSet(new)
    <2>1. new \subseteq read /\ new \subseteq rows
      BY <1>2
    <2>2. IsFiniteSet(rows)
      BY <1>3 DEF Keyed
    <2>3. IsFiniteSet(new)
      BY <2>1, <2>2, FS_Subset
    <2>4. QED
      BY <1>3, <2>1, <2>3
  <1>6. ASSUME ~failed, ~\E x \in read : ~x.what.readable PROVE new = rows
    <2>1. \A x \in read : x.what.readable
      BY <1>6
    <2>2. QED
      BY <1>2, <1>6, <2>1
  <1> HIDE DEF rows, new, W
  <1>7. page \in [at : {"none", "open", "read"}, ids : Seq(Nat), later : Nat, key : Seq(Int),
                   open : SUBSET Shards, todo : SUBSET Shards, fetched : SUBSET AnyItem,
                   items : Seq(AnyItem), scanned : Nat, warned : BOOLEAN]
    BY <1>1 DEF LiveTypeOK
  <1>8. /\ page' \in [at : {"none", "open", "read"}, ids : Seq(Nat), later : Nat, key : Seq(Int),
                   open : SUBSET Shards, todo : SUBSET Shards, fetched : SUBSET AnyItem,
                   items : Seq(AnyItem), scanned : Nat, warned : BOOLEAN]
        /\ page'.at = "read" /\ page'.open = page.open /\ page'.todo = page.todo \ {shard}
        /\ page'.ids = page.ids /\ page'.later = page.later /\ page'.key = page.key
        /\ page'.fetched = page.fetched \union new /\ page'.items = page.items
        /\ page'.scanned = page.scanned
        /\ ~page'.warned => ~page.warned /\ ~failed /\ ~\E x \in read : ~x.what.readable
    <2> DEFINE b == page.warned \/ failed \/ \E x \in read : ~x.what.readable
    <2>1. b \in BOOLEAN /\ page.fetched \union new \in SUBSET AnyItem
      BY <1>5, <1>7
    <2>2. page' = [page EXCEPT !.todo = @ \ {shard}, !.fetched = @ \union new, !.warned = b]
      BY <1>2
    <2>3. ~b => ~page.warned /\ ~failed /\ ~\E x \in read : ~x.what.readable
      OBVIOUS
    <2> DEFINE F == page.fetched \union new
               T == page.todo \ {shard}
    <2>4. page' = [page EXCEPT !.todo = T, !.fetched = F, !.warned = b]
      BY <2>2
    <2>5. F \in SUBSET AnyItem /\ T \in SUBSET Shards
      BY <1>7, <2>1
    <2> HIDE DEF b, F, T
    <2>6. /\ page' \in [at : {"none", "open", "read"}, ids : Seq(Nat), later : Nat,
                   key : Seq(Int),
                   open : SUBSET Shards, todo : SUBSET Shards, fetched : SUBSET AnyItem,
                   items : Seq(AnyItem), scanned : Nat, warned : BOOLEAN]
          /\ page'.at = page.at /\ page'.open = page.open /\ page'.todo = T
          /\ page'.ids = page.ids /\ page'.later = page.later /\ page'.key = page.key
          /\ page'.fetched = F /\ page'.items = page.items
          /\ page'.scanned = page.scanned /\ page'.warned = b
      BY <1>7, <2>1, <2>4, <2>5
    <2>7. QED
      BY <1>1, <2>3, <2>6 DEF F, T
  <1>9. LiveTypeOK'
    BY <1>1, <1>2, <1>8 DEF LiveTypeOK, databases
  <1>10. /\ DataSound' /\ AnswerSound' /\ KeysetSound' /\ FallbackSound' /\ NothingMissed'
         /\ Returned' = Returned /\ Sought' = Sought /\ \A w : MessageKey(w)' = MessageKey(w)
         /\ server' = server /\ untouched' = untouched /\ request' = request
         /\ cursor' = cursor /\ answer' = answer
    BY <1>1, <1>2, <1>9, KeptFacts DEF databases
  <1>11. PageSound'
    BY <1>1, <1>8, <1>10 DEF PageSound
  <1>12. /\ IsFiniteSet(page.fetched)
         /\ \A x \in page.fetched :
              /\ x.what \in Messages \ Returned
              /\ x.what.conversation = page.ids[1] /\ x.what.shard \in page.open \ page.todo
              /\ \E v \in 0..server[x.what] :
                   x.key = <<x.what.sort, x.what.time, v, x.what.shard, x.what.row>>
              /\ x.what \in untouched.messages => x.key = MessageKey(x.what)
              /\ Older(x.key, page.key)
              /\ \A y \in page.fetched : x.what = y.what => x = y
    BY <1>1 DEF FetchedSound
  <1>13. FetchedSound'
    <2>1. IsFiniteSet(page.fetched \union new)
      BY <1>5, <1>12, FS_Union
    <2>2. ASSUME NEW x \in new
          PROVE  /\ x.what \in Messages \ Returned
                 /\ x.what.conversation = page.ids[1]
                 /\ x.what.shard = shard /\ shard \in page.open \ (page.todo \ {shard})
                 /\ \E v \in 0..server[x.what] :
                      x.key = <<x.what.sort, x.what.time, v, x.what.shard, x.what.row>>
                 /\ x.key = MessageKey(x.what)
                 /\ Older(x.key, page.key)
      <3>1. x.what \in W /\ x.key = MessageKey(x.what)
        BY <1>3, <1>5
      <3>2. /\ x.what \in Messages /\ x.what.conversation = page.ids[1] /\ x.what.shard = shard
            /\ Older(x.key, page.key)
        BY <1>4, <3>1
      <3>3. x.what \notin Returned
        BY <1>1, <3>1, <3>2, NotReturned
      <3>4. shard \in page.open
        BY <1>1, <1>2 DEF PageSound
      <3>5. server[x.what] \in 0..server[x.what]
        <4>1. server[x.what] \in 0..1
          BY <1>1, <3>2 DEF LiveTypeOK
        <4>2. QED
          BY <4>1
      <3>6. x.key = <<x.what.sort, x.what.time, server[x.what], x.what.shard, x.what.row>>
        BY <3>1 DEF MessageKey
      <3>7. QED
        BY <3>1, <3>2, <3>3, <3>4, <3>5, <3>6
    <2>3. \A x, y \in new : x.what = y.what => x = y
      BY <1>3, <1>5
    <2>4. \A x \in page.fetched, y \in new : x.what # y.what
      BY <1>2, <1>12, <2>2
    <2>5. ASSUME NEW x \in page.fetched \union new
          PROVE  /\ x.what \in Messages \ Returned
                 /\ x.what.conversation = page.ids[1]
                 /\ x.what.shard \in page.open \ (page.todo \ {shard})
                 /\ \E v \in 0..server[x.what] :
                      x.key = <<x.what.sort, x.what.time, v, x.what.shard, x.what.row>>
                 /\ x.what \in untouched.messages => x.key = MessageKey(x.what)
                 /\ Older(x.key, page.key)
                 /\ \A y \in page.fetched \union new : x.what = y.what => x = y
      <3>1. CASE x \in page.fetched
        BY <1>12, <2>4, <3>1
      <3>2. CASE x \in new
        BY <2>2, <2>3, <2>4, <3>2
      <3>3. QED
        BY <3>1, <3>2
    <2>6. QED
      BY <1>8, <1>10, <2>1, <2>5 DEF FetchedSound, Older
  <1>14. ItemsSound'
    BY <1>1, <1>8, <1>10 DEF ItemsSound, Distinct, Whats
  <1>15. CoverSound'
    <2> SUFFICES ASSUME answer.covered, ~page'.warned PROVE CoverSound'
      BY <1>10 DEF CoverSound
    <2>1. new = rows /\ ~page.warned
      BY <1>6, <1>8
    <2>2. ListLimit' = ListLimit /\ ListLimit \in Nat \ {0}
      BY <1>1, <1>8, <1>10, LimitFacts DEF ListLimit
    <2>3. page.open = Shards
      BY <1>1, <2>1 DEF CoverSound
    <2>4. ASSUME NEW w, NEW A \in SUBSET page'.fetched, IsFiniteSet(A), Cardinality(A) > ListLimit,
                 \A x \in A : Less(MessageKey(w), x.key)
          PROVE  Behind(w)'
      <3> DEFINE D == {x \in page'.fetched : Less(MessageKey(w), x.key)}
      <3>1. IsFiniteSet(page'.fetched)
        <4>1. IsFiniteSet(page.fetched \union new)
          BY <1>5, <1>12, FS_Union
        <4>2. QED
          BY <1>8, <4>1
      <3>2. IsFiniteSet(D) /\ A \in SUBSET D
        BY <2>4, <3>1, FS_Subset
      <3> HIDE DEF D
      <3>3. Cardinality(A) <= Cardinality(D) /\ Cardinality(A) \in Nat /\ Cardinality(D) \in Nat
        BY <3>2, FS_Subset, FS_CardinalityType
      <3>4. Cardinality(D) > ListLimit
        BY <2>2, <2>4, <3>3
      <3>5. QED
        BY <1>10, <2>2, <3>4 DEF Behind, D
    <2>5. ASSUME NEW w \in Sought, w.conversation = page.ids[1], Older(MessageKey(w), page.key),
                 w.shard \notin page.todo =>
                   (\E x \in page.fetched : x.what = w) \/ Behind(w),
                 w.shard \notin page'.todo
          PROVE  (\E x \in page'.fetched : x.what = w) \/ Behind(w)'
      <3>1. CASE w.shard \notin page.todo
        <4>1. CASE \E x \in page.fetched : x.what = w
          BY <1>8, <4>1
        <4>2. CASE Behind(w)
          <5> DEFINE A == {x \in page.fetched : Less(MessageKey(w), x.key)}
          <5>1. A \in SUBSET page'.fetched /\ IsFiniteSet(A)
            BY <1>8, <1>12, FS_Subset
          <5>2. Cardinality(A) > ListLimit /\ \A x \in A : Less(MessageKey(w), x.key)
            BY <4>2 DEF Behind
          <5> HIDE DEF A
          <5>3. QED
            BY <2>4, <5>1, <5>2
        <4>3. QED
          BY <2>5, <3>1, <4>1, <4>2
      <3>2. CASE w.shard \in page.todo
        <4>1. w.shard = shard
          BY <1>8, <2>5, <3>2
        <4>2. w \in W
          <5>1. w \in messages /\ InRange(w)
            BY <1>1 DEF Sought, DataSound
          <5>2. QED
            BY <2>5, <4>1, <5>1 DEF W, InShard
        <4>3. CASE \E x \in rows : x.what = w
          BY <1>8, <2>1, <4>3
        <4>4. CASE /\ Cardinality(rows) = ListLimit + 1
                   /\ \A x \in rows : Less(MessageKey(w), x.key)
          <5>1. Cardinality(rows) > ListLimit
            BY <2>2, <4>4
          <5>2. rows \in SUBSET page'.fetched /\ IsFiniteSet(rows)
            BY <1>3, <1>8, <2>1 DEF Keyed
          <5>3. QED
            BY <2>4, <4>4, <5>1, <5>2
        <4>5. QED
          BY <1>3, <4>2, <4>3, <4>4
      <3>3. QED
        BY <3>1, <3>2
    <2>6. ASSUME NEW w \in Sought PROVE w \in Returned \union Whats(page.items) \/ Ahead(w)'
      <3>1. w \in Returned \union Whats(page.items) \/ Ahead(w)
        BY <1>1, <2>1 DEF CoverSound
      <3>2. Older(MessageKey(w), page.key)' = Older(MessageKey(w), page.key)
        BY <1>8, <1>10 DEF Older
      <3>3. ASSUME w.conversation = page.ids[1], Older(MessageKey(w), page.key),
                   w.shard \notin page.todo =>
                     (\E x \in page.fetched : x.what = w) \/ Behind(w)
            PROVE  Ahead(w)'
        BY <1>8, <2>5, <3>2, <3>3 DEF Ahead
      <3>4. ASSUME \/ \E i \in 2..Len(page.ids) : page.ids[i] = w.conversation
                   \/ page.later # 0 /\ page.later <= w.conversation
            PROVE  Ahead(w)'
        BY <1>8, <3>4 DEF Ahead
      <3>5. QED
        BY <1>1, <3>1, <3>3, <3>4 DEF Ahead
    <2>7. Whats(page.items)' = Whats(page.items)
      BY <1>8 DEF Whats
    <2>8. QED
      BY <1>8, <1>10, <2>3, <2>6, <2>7 DEF CoverSound
  <1>16. QED
    BY <1>9, <1>10, <1>11, <1>13, <1>14, <1>15 DEF LiveInv

-----------------------------------------------------------------------------
(* What was fetched from the shards, merged.                                 *)
LEMMA FetchedKeys ==
  ASSUME LiveTypeOK, FetchedSound, page.at # "none"
  PROVE  /\ Keyed(page.fetched, 5)
         /\ \A x, y \in page.fetched : x.what = y.what => x = y
         /\ \A x \in page.fetched : /\ x.what \in Messages /\ MessageKey(x.what) \in Key(5)
                                    /\ \/ MessageKey(x.what) = x.key
                                       \/ Less(x.key, MessageKey(x.what))
                                    /\ x.key \in Key(5) /\ x.key \in Seq(Int)
  <1>1. /\ IsFiniteSet(page.fetched)
        /\ \A x \in page.fetched :
             /\ x.what \in Messages
             /\ x.what.conversation = page.ids[1]
             /\ \E v \in 0..server[x.what] :
                  x.key = <<x.what.sort, x.what.time, v, x.what.shard, x.what.row>>
             /\ \A y \in page.fetched : x.what = y.what => x = y
    BY DEF FetchedSound
  <1>2. ASSUME NEW x \in page.fetched
        PROVE  /\ MessageKey(x.what) \in Key(5)
               /\ MessageKey(x.what) = x.key \/ Less(x.key, MessageKey(x.what))
               /\ x.key \in Key(5) /\ x.key \in Seq(Int)
    <2> DEFINE m == x.what
    <2>1. m \in Messages /\ server[m] \in 0..1
      BY <1>1 DEF LiveTypeOK
    <2>2. /\ m.sort \in Int /\ m.time \in Int /\ m.shard \in Int /\ m.row \in Int
          /\ server[m] \in Int
      BY <2>1, MessageFacts
    <2>3. PICK v \in 0..server[m] : x.key = <<m.sort, m.time, v, m.shard, m.row>>
      BY <1>1
    <2>4. v \in Int /\ v <= server[m]
      BY <2>2
    <2> HIDE DEF m
    <2>5. x.key \in Key(5) /\ x.key \in Seq(Int)
      BY <2>2, <2>3, <2>4 DEF Key
    <2>6. MessageKey(m) \in Key(5)
      BY <2>1, KeyFacts
    <2>7. CASE v = server[m]
      BY <2>3, <2>5, <2>6, <2>7 DEF MessageKey, m
    <2>8. CASE v < server[m]
      <3>1. /\ x.key[3] = v /\ MessageKey(m)[3] = server[m]
            /\ x.key[1] = MessageKey(m)[1] /\ x.key[2] = MessageKey(m)[2]
            /\ 3 \in DOMAIN x.key
        BY <2>3 DEF MessageKey
      <3>2. \A j \in 1..(3 - 1) : x.key[j] = MessageKey(m)[j]
        <4>1. \A j \in 1..(3 - 1) : j = 1 \/ j = 2
          OBVIOUS
        <4>2. QED
          BY <3>1, <4>1
      <3>3. Less(x.key, MessageKey(m))
        BY <2>8, <3>1, <3>2 DEF Less
      <3>4. QED
        BY <2>5, <2>6, <3>3 DEF m
    <2>9. QED
      BY <2>2, <2>4, <2>7, <2>8
  <1>3. ASSUME NEW x \in page.fetched, NEW y \in page.fetched, x.key = y.key PROVE x = y
    <2>1. x.key[4] = x.what.shard /\ x.key[5] = x.what.row
      BY <1>1
    <2>2. y.key[4] = y.what.shard /\ y.key[5] = y.what.row
      BY <1>1
    <2>3. x.what = y.what
      BY <1>1, <1>3, <2>1, <2>2, QueryAssumption
    <2>4. QED
      BY <1>1, <2>3
  <1>4. QED
    BY <1>1, <1>2, <1>3 DEF Keyed

LEMMA MergedFacts ==
  ASSUME LiveTypeOK, PageSound, FetchedSound, page.at # "none"
  PROVE  /\ MergedMore \in BOOLEAN
         /\ Lists(Merged, page.fetched, ListLimit, MergedMore)
         /\ Distinct(Merged)
         /\ \A i \in DOMAIN Merged : Merged[i] \in page.fetched
         /\ \A i \in DOMAIN Merged :
              i # Len(Merged) => Less(Merged[Len(Merged)].key, Merged[i].key)
  <1>1. /\ Keyed(page.fetched, 5) /\ 5 \in Nat
        /\ \A x, y \in page.fetched : x.what = y.what => x = y
    BY FetchedKeys
  <1>2. ListLimit \in Nat \ {0}
    BY LimitFacts
  <1>3. /\ MergedMore \in BOOLEAN /\ (MergedMore <=> Cardinality(page.fetched) > ListLimit)
        /\ Merged = FirstOf(Descending(page.fetched), ListLimit)
    BY DEF MergedMore, Merged
  <1> DEFINE S == page.fetched
             L == ListLimit
             more == MergedMore
             f == Merged
  <1>4. f = FirstOf(Descending(S), L) /\ more \in BOOLEAN /\ (more <=> Cardinality(S) > L)
    BY <1>3
  <1>5. Keyed(S, 5) /\ L \in Nat \ {0} /\ \A x, y \in S : x.what = y.what => x = y
    BY <1>1, <1>2
  <1> HIDE DEF S, L, more, f
  <1>6. Lists(FirstOf(Descending(S), L), S, L, more)
    BY <1>1, <1>4, <1>5, FirstFacts
  <1>7. Lists(f, S, L, more)
    BY <1>4, <1>6
  <1>8. /\ Distinct(f) /\ \A i \in DOMAIN f : f[i] \in S
        /\ \A i \in DOMAIN f : i # Len(f) => Less(f[Len(f)].key, f[i].key)
    BY <1>1, <1>4, <1>5, <1>7, ListedOnce
  <1>9. QED
    BY <1>4, <1>7, <1>8 DEF S, L, more, f

\* What is behind the limit is older than all that is returned.
LEMMA MergedBehind ==
  ASSUME LiveTypeOK, PageSound, FetchedSound, page.at # "none", NEW w \in Messages, Behind(w)
  PROVE  MergedMore /\ Less(MessageKey(w), Merged[Len(Merged)].key)
  <1> DEFINE A == {x \in page.fetched : Less(MessageKey(w), x.key)}
             B == {Merged[i] : i \in 1..ListLimit}
  <1>1. /\ Lists(Merged, page.fetched, ListLimit, MergedMore)
        /\ \A i \in DOMAIN Merged : Merged[i] \in page.fetched
    BY MergedFacts
  <1>2. /\ Keyed(page.fetched, 5)
        /\ \A x \in page.fetched : x.key \in Key(5)
    BY FetchedKeys
  <1>3. ListLimit \in Nat \ {0}
    BY LimitFacts
  <1>4. IsFiniteSet(page.fetched) /\ A \in SUBSET page.fetched
    BY <1>2 DEF Keyed
  <1>5. /\ IsFiniteSet(A) /\ Cardinality(A) \in Nat /\ Cardinality(page.fetched) \in Nat
        /\ Cardinality(A) <= Cardinality(page.fetched)
    BY <1>4, FS_Subset, FS_CardinalityType
  <1>6. Cardinality(A) > ListLimit
    BY DEF Behind
  <1>7. MergedMore
    BY <1>3, <1>5, <1>6 DEF MergedMore
  <1>8. /\ Len(Merged) = ListLimit /\ DOMAIN Merged = 1..ListLimit
        /\ \A x \in page.fetched :
             (\E i \in DOMAIN Merged : Merged[i] = x) \/ Less(x.key, Merged[ListLimit].key)
    BY <1>1, <1>7 DEF Lists
  <1>9. IsFiniteSet(B) /\ Cardinality(B) \in Nat /\ Cardinality(B) <= ListLimit
    <2> DEFINE I == 1..ListLimit
               f == [i \in I |-> Merged[i]]
    <2>1. IsFiniteSet(I) /\ Cardinality(I) = ListLimit
      BY <1>3, FS_Interval
    <2>2. B = {f[i] : i \in I}
      OBVIOUS
    <2> HIDE DEF I, f, B
    <2>3. /\ IsFiniteSet({f[i] : i \in I}) /\ Cardinality({f[i] : i \in I}) \in Nat
          /\ Cardinality({f[i] : i \in I}) <= Cardinality(I)
      BY <2>1, ImageFinite
    <2>4. QED
      BY <2>1, <2>2, <2>3
  <1>10. ~(A \subseteq B)
    <2> HIDE DEF A, B
    <2>1. A \subseteq B => Cardinality(A) <= Cardinality(B)
      BY <1>9, FS_Subset
    <2>2. QED
      BY <1>3, <1>5, <1>6, <1>9, <2>1
  <1>11. PICK x \in A : x \notin B
    BY <1>10
  <1>12. Less(x.key, Merged[ListLimit].key) /\ Less(MessageKey(w), x.key)
    BY <1>8, <1>11
  <1>13. ListLimit \in DOMAIN Merged
    BY <1>3, <1>8
  <1>14. x.key \in Key(5) /\ Merged[ListLimit].key \in Key(5) /\ MessageKey(w) \in Key(5)
    BY <1>1, <1>2, <1>11, <1>13, KeyFacts
  <1>15. Less(MessageKey(w), Merged[ListLimit].key)
    BY <1>12, <1>14, LessTransitive
  <1>16. QED
    BY <1>7, <1>8, <1>15

\* What the conversation still owes is merged, or older than all that is.
LEMMA MergedCovers ==
  ASSUME LiveInv, AllRead, NEW w \in Sought, w.conversation = page.ids[1],
         w.shard \notin page.todo => (\E x \in page.fetched : x.what = w) \/ Behind(w)
  PROVE  \/ \E i \in DOMAIN Merged : Merged[i].what = w /\ Merged[i].key = MessageKey(w)
         \/ MergedMore /\ Less(MessageKey(w), Merged[Len(Merged)].key)
  <1>1. /\ LiveTypeOK /\ PageSound /\ FetchedSound /\ page.at # "none" /\ page.todo = {}
    BY DEF LiveInv, AllRead
  <1>2. w \in Messages /\ w \in untouched.messages
    BY <1>1 DEF Sought, LiveTypeOK
  <1>3. (\E x \in page.fetched : x.what = w) \/ Behind(w)
    BY <1>1
  <1>4. CASE Behind(w)
    BY <1>1, <1>2, <1>4, MergedBehind
  <1>5. CASE \E x \in page.fetched : x.what = w
    <2>1. PICK x \in page.fetched : x.what = w
      BY <1>5
    <2>2. x.key = MessageKey(w)
      BY <1>1, <1>2, <2>1 DEF FetchedSound
    <2>3. Lists(Merged, page.fetched, ListLimit, MergedMore) /\ MergedMore \in BOOLEAN
      BY <1>1, MergedFacts
    <2>4. \/ \E i \in DOMAIN Merged : Merged[i] = x
          \/ MergedMore /\ Less(x.key, Merged[Len(Merged)].key)
      BY <2>3 DEF Lists
    <2>5. QED
      BY <2>1, <2>2, <2>4
  <1>6. QED
    BY <1>3, <1>4, <1>5

\* What was returned is not older than a key of this page.
LEMMA ReturnedNewer ==
  ASSUME LiveInv, page.at # "none", NEW w \in Returned, w.conversation = page.ids[1],
         NEW q \in Key(5), Older(q, page.key)
  PROVE  ~Less(MessageKey(w), q)
  <1>1. /\ LiveTypeOK /\ AnswerSound /\ KeysetSound /\ FallbackSound /\ PageSound
        /\ ~answer.done
    BY DEF LiveInv, AnswerSound, NoPage
  <1>2. answer.got # <<>>
    BY DEF Returned
  <1>3. w \in Messages /\ MessageKey(w) \in Key(5)
    <2>1. request.kind # "conversations"
      BY <1>1 DEF PageSound
    <2>2. w \in Messages
      BY <1>1, <2>1 DEF AnswerSound, Asked
    <2>3. QED
      BY <1>1, <2>2, KeyFacts
  <1>4. CASE cursor.kind = "none"
    BY <1>1, <1>2, <1>4 DEF AnswerSound
  <1>5. ASSUME cursor.key # <<>>, page.key = cursor.key, ~Less(MessageKey(w), cursor.key)
        PROVE  ~Less(MessageKey(w), q)
    <2>1. Less(q, cursor.key) /\ cursor.key \in Key(5)
      BY <1>1, <1>5 DEF Older, PageSound
    <2>2. QED
      BY <1>3, <1>5, <2>1, LessTransitive
  <1>6. CASE cursor.kind = "keyset"
    <2>1. request.kind = "messages" /\ page.key = cursor.key
      BY <1>1, <1>6 DEF PageSound
    <2>2. cursor.key # <<>> /\ There(w)
      BY <1>1, <1>2, <1>6, <2>1 DEF KeysetSound, There
    <2>3. ~Less(NowKey(w), cursor.key)
      BY <1>1, <1>6, <2>2 DEF KeysetSound
    <2>4. NowKey(w) = MessageKey(w)
      BY <2>1 DEF NowKey
    <2>5. QED
      BY <1>5, <2>1, <2>2, <2>3, <2>4
  <1>7. CASE cursor.kind = "fallback"
    <2>1. \/ w.conversation < cursor.conversation
          \/ /\ w.conversation = cursor.conversation /\ cursor.key # <<>>
             /\ ~Less(MessageKey(w), cursor.key)
      BY <1>1, <1>7 DEF FallbackSound
    <2>2. \/ page.ids[1] = cursor.conversation /\ page.key = cursor.key
          \/ cursor.conversation < page.ids[1] /\ page.key = <<>>
      BY <1>1, <1>7 DEF PageSound
    <2>3. w.conversation \in Nat /\ cursor.conversation \in Nat
      BY <1>1, <1>3, MessageFacts DEF LiveTypeOK
    <2>4. QED
      BY <1>5, <2>1, <2>2, <2>3
  <1>8. QED
    BY <1>1, <1>4, <1>6, <1>7 DEF LiveTypeOK

\* A message of the page is not older than the last one before it.
LEMMA ListedNewer ==
  ASSUME LiveTypeOK, PageSound, FetchedSound, page.at # "none",
         NEW i \in DOMAIN Merged, NEW j \in DOMAIN Merged, i <= j
  PROVE  /\ Merged[j].key \in Key(5) /\ Merged[j].key \in Seq(Int)
         /\ Older(Merged[j].key, page.key)
         /\ ~Less(MessageKey(Merged[i].what), Merged[j].key)
  <1>1. /\ Lists(Merged, page.fetched, ListLimit, MergedMore)
        /\ \A h \in DOMAIN Merged : Merged[h] \in page.fetched
    BY MergedFacts
  <1>2. \A x \in page.fetched : /\ MessageKey(x.what) \in Key(5)
                                /\ \/ MessageKey(x.what) = x.key
                                   \/ Less(x.key, MessageKey(x.what))
                                /\ x.key \in Key(5) /\ x.key \in Seq(Int)
    BY FetchedKeys
  <1> DEFINE x == Merged[i]
             y == Merged[j]
  <1>3. x \in page.fetched /\ y \in page.fetched
    BY <1>1
  <1>4. x = y \/ Less(y.key, x.key)
    <2>1. i = j \/ i < j
      BY <1>1 DEF Lists
    <2>2. QED
      BY <1>1, <2>1 DEF Lists
  <1>5. Older(y.key, page.key)
    BY <1>3 DEF FetchedSound
  <1> HIDE DEF x, y
  <1>6. ~Less(x.key, y.key)
    BY <1>2, <1>3, <1>4, LessIrreflexive, LessTransitive
  <1>7. ~Less(MessageKey(x.what), y.key)
    BY <1>2, <1>3, <1>6, GrownNotLess
  <1>8. QED
    BY <1>2, <1>3, <1>5, <1>7 DEF x, y

LEMMA ReturnMessagesStep ==
  ASSUME LiveInv, ReturnMessages
  PROVE  LiveInv'
  <1> DEFINE f == Merged
             L == Len(Merged)
             items == [i \in DOMAIN f |-> [f[i] EXCEPT !.conversation = 0]]
             next == [kind |-> "keyset", conversation |-> 0,
                      key |-> IF MergedMore THEN f[L].key ELSE <<>>]
  <1>1. /\ AllRead /\ request.kind = "messages" /\ page.at = "read" /\ page.at # "none"
        /\ LiveTypeOK /\ DataSound /\ AnswerSound /\ KeysetSound /\ PageSound /\ FetchedSound
        /\ CoverSound /\ ~answer.done /\ cursor.kind # "fallback" /\ page.todo = {}
    BY DEF ReturnMessages, AllRead, LiveInv, AnswerSound, NoPage
  <1>2. Deliver(items, MergedMore, next, page.warned)
    BY DEF ReturnMessages
  <1>3. /\ MergedMore \in BOOLEAN /\ Lists(f, page.fetched, ListLimit, MergedMore)
        /\ Distinct(f) /\ \A i \in DOMAIN f : f[i] \in page.fetched
        /\ ListLimit \in Nat \ {0}
    BY <1>1, MergedFacts, LimitFacts
  <1>4. /\ L \in Nat /\ DOMAIN f = 1..L /\ (MergedMore => L \in DOMAIN f)
    <2>1. L \in Nat /\ DOMAIN f = 1..L /\ (MergedMore => L = ListLimit)
      BY <1>3 DEF Lists
    <2>2. MergedMore => L \in 1..L
      BY <1>3, <2>1
    <2>3. QED
      BY <2>1, <2>2
  <1>5. /\ \A i, j \in DOMAIN f : i <= j =>
             /\ f[j].key \in Key(5) /\ f[j].key \in Seq(Int) /\ Older(f[j].key, page.key)
             /\ ~Less(MessageKey(f[i].what), f[j].key)
    BY <1>1, ListedNewer
  <1>6. \A i \in DOMAIN f : f[i] \in AnyItem /\ f[i].what \in Messages \ Returned
    <2>1. page.fetched \subseteq AnyItem
      BY <1>1 DEF LiveTypeOK
    <2>2. QED
      BY <1>1, <1>3, <2>1 DEF FetchedSound
  <1>7. page.ids = <<request.conversation>> /\ page.later = 0 /\ page.items = <<>>
        /\ page.key = cursor.key /\ request.conversation \in Conversations
    BY <1>1, RequestFacts DEF PageSound
  <1> HIDE DEF f, L
  <1>8. /\ items \in Seq(AnyItem) /\ DOMAIN items = DOMAIN f
        /\ \A i \in DOMAIN f : items[i].what = f[i].what
    <2>1. \A i \in DOMAIN f : /\ [f[i] EXCEPT !.conversation = 0] \in AnyItem
                              /\ [f[i] EXCEPT !.conversation = 0].what = f[i].what
      BY <1>6 DEF AnyItem
    <2>2. items \in [1..L -> AnyItem]
      BY <1>4, <2>1
    <2>3. QED
      BY <1>4, <2>1, <2>2, SeqDef
  <1> HIDE DEF items
  <1>9. Distinct(items) /\ Whats(items) = {f[i].what : i \in DOMAIN f}
    BY <1>3, <1>8 DEF Distinct, Whats
  <1>10. Whats(items) \subseteq Asked /\ Whats(items) \cap Returned = {}
    BY <1>1, <1>6, <1>9 DEF Asked
  <1>11. next \in [kind : {"keyset", "fallback"}, conversation : Nat, key : Seq(Int)]
    <2>1. next.key \in Seq(Int)
      <3>1. CASE MergedMore
        BY <1>4, <1>5, <3>1
      <3>2. CASE ~MergedMore
        BY <3>2
      <3>3. QED
        BY <3>1, <3>2
    <2>2. QED
      BY <2>1
  <1>12. next.kind = "keyset" /\ (MergedMore => next.key = f[L].key)
    OBVIOUS
  <1> HIDE DEF next
  <1>13. /\ LiveTypeOK' /\ DataSound' /\ AnswerSound'
         /\ PageSound' /\ FetchedSound' /\ ItemsSound' /\ CoverSound'
         /\ Returned' = Returned \union Whats(items)
         /\ answer'.covered => answer.covered /\ ~page.warned
         /\ answer'.done <=> ~MergedMore
         /\ cursor'.kind = next.kind /\ (MergedMore => cursor' = next)
         /\ UNCHANGED <<databases, request, troubles>>
    <2>1. next.kind = "fallback" => request.kind = "search"
      BY <1>12
    <2>2. QED
      BY <1>1, <1>2, <1>8, <1>9, <1>10, <1>11, <2>1, Delivered
  <1>14. /\ Wanted' = Wanted
         /\ \A w : NowKey(w)' = NowKey(w) /\ There(w)' = There(w)
         /\ \A w : NowKey(w) = MessageKey(w)
         /\ Width' = Width /\ Width = 5
    BY <1>1, <1>12, <1>13 DEF Wanted, NowKey, There, Width, databases, InScope, InRange,
         MessageKey, SearchKey, ConversationKey
  <1>15. Wanted = Sought /\ \A w \in Sought : w.conversation = page.ids[1]
    <2>1. Wanted = Sought
      BY <1>1 DEF Wanted, Sought
    <2>2. \A w \in Sought : w.conversation = request.conversation
      BY <1>7, QueryAssumption DEF Sought, InScope
    <2>3. QED
      BY <1>7, <2>1, <2>2
  <1>16. ASSUME answer.covered, ~page.warned, NEW w \in Wanted
         PROVE  \/ w \in Returned'
                \/ MergedMore /\ Less(MessageKey(w), f[L].key)
    <2>1. CASE w \in Returned
      BY <1>13, <2>1
    <2>2. CASE w \notin Returned
      <3>1. w \in Sought /\ w.conversation = page.ids[1]
        BY <1>15, <1>16
      <3>2. Ahead(w)
        BY <1>1, <1>7, <1>16, <2>2, <3>1 DEF CoverSound, Whats
      <3>3. w.shard \notin page.todo => (\E x \in page.fetched : x.what = w) \/ Behind(w)
        BY <1>1, <1>7, <3>2 DEF Ahead
      <3>4. \/ \E i \in DOMAIN Merged : Merged[i].what = w /\ Merged[i].key = MessageKey(w)
            \/ MergedMore /\ Less(MessageKey(w), Merged[Len(Merged)].key)
        BY <1>1, <3>1, <3>3, MergedCovers
      <3>5. QED
        BY <1>9, <1>13, <3>4 DEF f, L
    <2>3. QED
      BY <2>1, <2>2
  <1>17. ASSUME MergedMore, NEW w \in Returned'
         PROVE  ~Less(MessageKey(w), f[L].key)
    <2>1. CASE w \in Returned
      <3>1. w \in Messages
        BY <1>1, <2>1 DEF AnswerSound, Asked
      <3>2. f[L].key \in Key(5) /\ Older(f[L].key, page.key)
        BY <1>4, <1>5, <1>17
      <3>3. CASE cursor.key # <<>>
        <4>1. ~Less(MessageKey(w), cursor.key) /\ cursor.key \in Key(5)
          BY <1>1, <1>14, <2>1, <3>3 DEF KeysetSound, There
        <4>2. Less(f[L].key, cursor.key) /\ MessageKey(w) \in Key(5)
          BY <1>1, <1>7, <3>1, <3>2, <3>3, KeyFacts DEF Older
        <4>3. QED
          BY <3>2, <4>1, <4>2, LessTransitive
      <3>4. CASE cursor.key = <<>>
        BY <1>1, <2>1, <3>4 DEF KeysetSound, Returned
      <3>5. QED
        BY <3>3, <3>4
    <2>2. CASE w \in Whats(items)
      <3>1. PICK i \in DOMAIN f : f[i].what = w
        BY <1>9, <2>2
      <3>2. i <= L /\ L \in DOMAIN f
        BY <1>4, <1>17
      <3>3. QED
        BY <1>5, <3>1, <3>2
    <2>3. QED
      BY <1>13, <1>17, <2>1, <2>2
  <1>18. KeysetSound'
    <2> SUFFICES ASSUME ~answer'.done PROVE KeysetSound'
      BY DEF KeysetSound
    <2>1. MergedMore /\ cursor' = next /\ next.key = f[L].key
      BY <1>12, <1>13
    <2>2. next.key \in Key(5) /\ next.key # <<>>
      BY <1>4, <1>5, <2>1, EmptyKey
    <2>3. \A w \in Returned' : ~Less(MessageKey(w), next.key)
      BY <1>17, <2>1
    <2>4. answer'.covered => \A w \in Wanted : w \in Returned' \/ Older(MessageKey(w), next.key)
      BY <1>13, <1>16, <2>1 DEF Older
    <2>5. QED
      BY <1>1, <1>13, <1>14, <2>1, <2>2, <2>3, <2>4 DEF KeysetSound, Older
  <1>19. NothingMissed'
    BY <1>13, <1>14, <1>16 DEF NothingMissed
  <1>20. FallbackSound'
    BY <1>12, <1>13 DEF FallbackSound
  <1>21. QED
    BY <1>13, <1>18, <1>19, <1>20 DEF LiveInv

-----------------------------------------------------------------------------
(* What a scan finds, and how far it goes.                                   *)
LEMMA ScannedFacts ==
  ASSUME LiveTypeOK, PageSound, FetchedSound, page.at # "none"
  PROVE  /\ Scanned \in 0..Len(Merged) /\ Len(Merged) \in Nat /\ DOMAIN Merged = 1..Len(Merged)
         /\ Filling # {} => Scanned \in DOMAIN Merged
         /\ Filling = {} => Scanned = Len(Merged)
  <1>1. Len(Merged) \in Nat /\ DOMAIN Merged = 1..Len(Merged)
    BY MergedFacts DEF Lists
  <1>2. CASE Filling = {}
    BY <1>1, <1>2 DEF Scanned
  <1>3. CASE Filling # {}
    <2>1. Filling \in SUBSET (1..Len(Merged))
      BY <1>1 DEF Filling
    <2>2. Filling \in SUBSET Nat /\ IsFiniteSet(Filling)
      <3>1. IsFiniteSet(1..Len(Merged)) /\ 1..Len(Merged) \subseteq Nat
        BY <1>1, FS_Interval
      <3>2. IsFiniteSet(Filling)
        BY <2>1, <3>1, FS_Subset
      <3>3. QED
        BY <2>1, <3>1, <3>2
    <2>3. \E k \in Filling : \A j \in Filling : k <= j
      BY <1>3, <2>2, LeastMember
    <2>4. Scanned \in Filling
      BY <1>3, <2>3 DEF Scanned
    <2>5. Scanned \in 1..Len(Merged)
      BY <2>1, <2>4
    <2>6. Scanned \in 0..Len(Merged) /\ Scanned \in DOMAIN Merged
      BY <1>1, <2>5
    <2>7. QED
      BY <1>1, <1>3, <2>6
  <1>4. QED
    BY <1>2, <1>3

LEMMA MatchingFacts ==
  ASSUME LiveTypeOK, PageSound, FetchedSound, page.at # "none",
         NEW k \in 0..Len(Merged)
  PROVE  /\ Matching(k) \in Seq(AnyItem) /\ Distinct(Matching(k))
         /\ Whats(Matching(k)) = {Merged[h].what : h \in Hits(k)}
         /\ Hits(k) \subseteq DOMAIN Merged
         /\ \A h \in DOMAIN Merged : h <= k /\ Merged[h].what.matches => h \in Hits(k)
         /\ \A h \in Hits(k) : h <= k
  <1> DEFINE H == Hits(k)
             a == Ascending(H)
             c == Cardinality(H)
             M == Matching(k)
  <1>1. /\ Len(Merged) \in Nat /\ DOMAIN Merged = 1..Len(Merged)
        /\ \A i \in DOMAIN Merged : Merged[i] \in page.fetched
        /\ Distinct(Merged)
    BY MergedFacts DEF Lists
  <1>2. H = {h \in 1..k : Merged[h].what.matches}
    BY DEF Hits
  <1>3. k \in Nat /\ k <= Len(Merged)
    BY <1>1
  <1>4. H \in SUBSET (1..k) /\ H \in SUBSET Nat /\ IsFiniteSet(H) /\ H \subseteq DOMAIN Merged
    <2>1. IsFiniteSet(1..k)
      BY <1>3, FS_Interval
    <2>2. H \in SUBSET (1..k)
      BY <1>2
    <2>3. QED
      BY <1>1, <1>3, <2>1, <2>2, FS_Subset
  <1>5. \A h \in DOMAIN Merged : h <= k /\ Merged[h].what.matches => h \in H
    BY <1>1, <1>2, <1>3
  <1>6. M = [i \in DOMAIN a |-> Merged[a[i]]]
    BY DEF Matching
  <1> HIDE DEF H, M
  <1>7. /\ c \in Nat /\ a \in [1..c -> H]
        /\ \A x \in H : \E i \in 1..c : a[i] = x
        /\ \A i, j \in 1..c : i < j => a[i] < a[j]
    BY <1>4, AscendingFacts
  <1> HIDE DEF a, c
  <1>8. \A i \in 1..c : M[i] = Merged[a[i]] /\ a[i] \in H /\ a[i] \in DOMAIN Merged
    BY <1>4, <1>6, <1>7
  <1>9. page.fetched \subseteq AnyItem
    BY DEF LiveTypeOK
  <1>10. M \in [1..c -> AnyItem] /\ DOMAIN M = 1..c
    BY <1>1, <1>6, <1>7, <1>8, <1>9
  <1>11. M \in Seq(AnyItem)
    BY <1>7, <1>10, SeqDef
  <1>12. Distinct(M)
    <2> SUFFICES ASSUME NEW i \in 1..c, NEW j \in 1..c, M[i].what = M[j].what PROVE i = j
      BY <1>10 DEF Distinct
    <2>1. a[i] = a[j]
      BY <1>1, <1>8 DEF Distinct
    <2>2. a[i] \in Nat
      BY <1>4, <1>8
    <2>3. ~(i < j) /\ ~(j < i)
      BY <1>7, <2>1, <2>2
    <2>4. QED
      BY <1>7, <2>3
  <1>13. Whats(M) = {Merged[h].what : h \in H}
    BY <1>7, <1>8, <1>10 DEF Whats
  <1>14. \A h \in H : h <= k
    BY <1>3, <1>4
  <1>15. QED
    BY <1>4, <1>5, <1>11, <1>12, <1>13, <1>14 DEF M, H

LEMMA FoundFacts ==
  ASSUME LiveTypeOK, PageSound, FetchedSound, ItemsSound, page.at # "none"
  PROVE  /\ Found \in Seq(AnyItem) /\ Distinct(Found)
         /\ Whats(Found) = Whats(page.items) \union {Merged[h].what : h \in Hits(Scanned)}
         /\ \A w \in Whats(Found) : w \in Messages \ Returned /\ w.conversation <= page.ids[1]
         /\ \A w \in Whats(page.items) : w \in Messages /\ w.conversation < page.ids[1]
         /\ \A h \in Hits(Scanned) : h \in DOMAIN Merged /\ h <= Scanned
                                     /\ Merged[h].what.conversation = page.ids[1]
         /\ \A h \in DOMAIN Merged : h <= Scanned /\ Merged[h].what.matches =>
                                       Merged[h].what \in Whats(Found)
  <1> DEFINE M == Matching(Scanned)
  <1>1. Scanned \in 0..Len(Merged)
    BY ScannedFacts
  <1>2. /\ M \in Seq(AnyItem) /\ Distinct(M)
        /\ Whats(M) = {Merged[h].what : h \in Hits(Scanned)}
        /\ Hits(Scanned) \subseteq DOMAIN Merged
        /\ \A h \in DOMAIN Merged : h <= Scanned /\ Merged[h].what.matches => h \in Hits(Scanned)
        /\ \A h \in Hits(Scanned) : h <= Scanned
    BY <1>1, MatchingFacts
  <1> HIDE DEF M
  <1>3. page.items \in Seq(AnyItem) /\ Distinct(page.items)
    BY DEF LiveTypeOK, ItemsSound
  <1>4. \A w \in Whats(page.items) : /\ w \in Messages \ Returned /\ w.conversation < page.ids[1]
                                     /\ w.conversation \in Nat
    BY MessageFacts DEF ItemsSound
  <1>5. page.ids[1] \in Nat
    <2>1. page.ids # <<>> /\ page.ids \in Seq(Nat)
      BY DEF PageSound, LiveTypeOK
    <2>2. QED
      BY <2>1
  <1>6. \A h \in DOMAIN Merged : /\ Merged[h].what \in Messages \ Returned
                                 /\ Merged[h].what.conversation = page.ids[1]
    <2>1. \A h \in DOMAIN Merged : Merged[h] \in page.fetched
      BY MergedFacts
    <2>2. QED
      BY <2>1 DEF FetchedSound
  <1>7. \A w \in Whats(M) : w \in Messages \ Returned /\ w.conversation = page.ids[1]
    BY <1>2, <1>6
  <1>8. Whats(page.items) \cap Whats(M) = {}
    BY <1>4, <1>5, <1>7
  <1>9. Found = page.items \o M
    BY DEF Found, M
  <1>10. /\ Found \in Seq(AnyItem) /\ Distinct(Found)
         /\ Whats(Found) = Whats(page.items) \union Whats(M)
    BY <1>2, <1>3, <1>8, <1>9, JoinedFacts
  <1>11. \A w \in Whats(Found) : w \in Messages \ Returned /\ w.conversation <= page.ids[1]
    BY <1>4, <1>5, <1>7, <1>10
  <1>12. QED
    BY <1>2, <1>4, <1>6, <1>10, <1>11

\* What a scan still owes after it.
LEMMA ScanCovers ==
  ASSUME LiveInv, AllRead, request.kind = "search", answer.covered, ~page.warned,
         NEW w \in Sought
  PROVE  \/ w \in Returned \union Whats(Found)
         \/ /\ w.conversation = page.ids[1] /\ Scanned \in DOMAIN Merged
            /\ Less(MessageKey(w), Merged[Scanned].key)
            /\ Scanned < Len(Merged) \/ MergedMore
         \/ \E i \in 2..Len(page.ids) : page.ids[i] = w.conversation
         \/ page.later # 0 /\ page.later <= w.conversation
  <1>1. /\ LiveTypeOK /\ PageSound /\ FetchedSound /\ ItemsSound /\ CoverSound
        /\ page.at = "read" /\ page.at # "none"
    BY DEF LiveInv, AllRead
  <1>2. w \in Returned \union Whats(page.items) \/ Ahead(w)
    BY <1>1 DEF CoverSound
  <1>3. /\ Whats(Found) = Whats(page.items) \union {Merged[h].what : h \in Hits(Scanned)}
        /\ \A h \in DOMAIN Merged : h <= Scanned /\ Merged[h].what.matches =>
                                      Merged[h].what \in Whats(Found)
    BY <1>1, FoundFacts
  <1>4. /\ Scanned \in 0..Len(Merged) /\ Len(Merged) \in Nat /\ DOMAIN Merged = 1..Len(Merged)
        /\ Filling # {} => Scanned \in DOMAIN Merged
        /\ Filling = {} => Scanned = Len(Merged)
    BY <1>1, ScannedFacts
  <1>5. w \in Messages /\ w.matches /\ MessageKey(w) \in Key(5)
    BY <1>1, KeyFacts DEF Sought, LiveTypeOK
  <1>6. /\ Lists(Merged, page.fetched, ListLimit, MergedMore) /\ ListLimit \in Nat \ {0}
        /\ \A i \in DOMAIN Merged :
             i # Len(Merged) => Less(Merged[Len(Merged)].key, Merged[i].key)
        /\ \A i \in DOMAIN Merged : Merged[i].key \in Key(5)
    BY <1>1, MergedFacts, LimitFacts, FetchedKeys
  <1>7. CASE /\ w.conversation = page.ids[1]
             /\ w.shard \notin page.todo => (\E x \in page.fetched : x.what = w) \/ Behind(w)
    <2>1. \/ \E i \in DOMAIN Merged : Merged[i].what = w /\ Merged[i].key = MessageKey(w)
          \/ MergedMore /\ Less(MessageKey(w), Merged[Len(Merged)].key)
      BY <1>7, MergedCovers
    <2>2. CASE \E i \in DOMAIN Merged : Merged[i].what = w /\ Merged[i].key = MessageKey(w)
      <3>1. PICK i \in DOMAIN Merged : Merged[i].what = w /\ Merged[i].key = MessageKey(w)
        BY <2>2
      <3>2. CASE i <= Scanned
        BY <1>3, <1>5, <3>1, <3>2
      <3>3. CASE Scanned < i
        <4>1. Scanned \in DOMAIN Merged /\ Scanned < Len(Merged)
          <5> DEFINE n == Len(Merged)
          <5>1. i \in 1..n /\ n \in Nat /\ Scanned \in 0..n
            BY <1>4
          <5> HIDE DEF n
          <5>2. Scanned < n /\ Scanned # n
            BY <3>3, <5>1
          <5>3. Scanned # Len(Merged) /\ Scanned < Len(Merged)
            BY <5>2 DEF n
          <5>4. Filling # {}
            BY <1>4, <5>3
          <5>5. QED
            BY <1>4, <5>3, <5>4
        <4>2. Less(Merged[i].key, Merged[Scanned].key)
          BY <1>6, <3>3, <4>1 DEF Lists
        <4>3. QED
          BY <1>7, <3>1, <4>1, <4>2
      <3>4. i \in Nat /\ Scanned \in Nat
        <4> DEFINE n == Len(Merged)
        <4>1. i \in 1..n /\ n \in Nat /\ Scanned \in 0..n
          BY <1>4
        <4> HIDE DEF n
        <4>2. QED
          BY <4>1
      <3>5. QED
        BY <3>2, <3>3, <3>4
    <2>3. CASE MergedMore /\ Less(MessageKey(w), Merged[Len(Merged)].key)
      <3>1. Len(Merged) = ListLimit
        BY <1>6, <2>3 DEF Lists
      <3>2. Len(Merged) \in DOMAIN Merged
        BY <1>4, <1>6, <3>1
      <3>3. Scanned \in DOMAIN Merged
        BY <1>4, <3>2
      <3>4. Less(MessageKey(w), Merged[Scanned].key)
        <4>1. CASE Scanned = Len(Merged)
          BY <2>3, <4>1
        <4>2. CASE Scanned # Len(Merged)
          <5> DEFINE a == MessageKey(w)
                     b == Merged[Len(Merged)].key
                     c == Merged[Scanned].key
          <5>1. Less(b, c) /\ Less(a, b)
            BY <1>6, <2>3, <3>3, <4>2
          <5>2. a \in Key(5) /\ b \in Key(5) /\ c \in Key(5) /\ 5 \in Nat
            BY <1>5, <1>6, <3>2, <3>3
          <5> HIDE DEF a, b, c
          <5>3. Less(a, c)
            BY <5>1, <5>2, LessTransitive
          <5>4. QED
            BY <5>3 DEF a, c
        <4>3. QED
          BY <4>1, <4>2
      <3>5. Scanned < Len(Merged) \/ MergedMore
        BY <2>3
      <3>6. QED
        BY <1>7, <3>3, <3>4, <3>5
    <2>4. QED
      BY <2>1, <2>2, <2>3
  <1>8. QED
    BY <1>1, <1>2, <1>3, <1>7 DEF Ahead

LEMMA NextFacts ==
  ASSUME LiveTypeOK, PageSound, page.at # "none"
  PROVE  /\ Len(page.ids) \in Nat \ {0} /\ DOMAIN page.ids = 1..Len(page.ids)
         /\ \A i \in DOMAIN page.ids : page.ids[i] \in Conversations /\ page.ids[i] \in Nat
         /\ page.ids[1] \in Conversations /\ page.ids[1] \in Nat
         /\ request.conversation \in {0, page.ids[1]}
         /\ \A i \in 2..Len(page.ids) : page.ids[1] < page.ids[i]
         /\ page.later # 0 => page.ids[1] < page.later
         /\ NextConversation \in Nat
         /\ NextConversation = 0 => Len(page.ids) = 1 /\ page.later = 0
         /\ NextConversation # 0 =>
              /\ NextConversation \in Conversations /\ page.ids[1] < NextConversation
              /\ request.conversation = 0
              /\ \A i \in 2..Len(page.ids) : NextConversation <= page.ids[i]
              /\ page.later # 0 => NextConversation <= page.later
  <1> DEFINE ids == page.ids
             n == Len(ids)
             later == page.later
  <1>1. ids \in Seq(Nat) /\ ids # <<>> /\ later \in Nat
    BY DEF LiveTypeOK, PageSound
  <1>2. n \in Nat \ {0} /\ DOMAIN ids = 1..n
    BY <1>1
  <1>3. /\ \A i \in DOMAIN ids :
             /\ ids[i] \in Conversations
             /\ later # 0 => ids[i] < later
             /\ \A j \in DOMAIN ids : i < j => ids[i] < ids[j]
        /\ later # 0 => later \in Conversations
        /\ request.conversation # 0 => ids = <<request.conversation>> /\ later = 0
    BY DEF PageSound
  <1>4. Conversations \subseteq Nat \ {0}
    BY QueryAssumption
  <1>5. NextConversation = IF n > 1 THEN ids[2] ELSE later
    BY DEF NextConversation
  <1>6. ASSUME request.conversation # 0 PROVE n = 1 /\ ids[1] = request.conversation /\ later = 0
    BY <1>3, <1>6
  <1> HIDE DEF ids, n, later
  <1>7. \A i \in 1..n : ids[i] \in Conversations /\ ids[i] \in Nat /\ ids[i] # 0
    BY <1>2, <1>3, <1>4
  <1>8. 1 \in 1..n /\ \A i \in 2..n : i \in 1..n /\ 1 < i
    BY <1>2
  <1>9. \A i \in 2..n : ids[1] < ids[i]
    BY <1>2, <1>3, <1>8
  <1>10. CASE n > 1
    <2>1. 2 \in 2..n
      BY <1>2, <1>10
    <2>2. 2 \in 1..n /\ NextConversation = ids[2]
      BY <1>5, <1>8, <1>10, <2>1
    <2>3. \A i \in 2..n : ids[2] <= ids[i]
      <3> TAKE i \in 2..n
      <3>1. i = 2 \/ 2 < i
        BY <1>2
      <3>2. i \in 1..n /\ ids[i] \in Nat /\ ids[2] \in Nat
        BY <1>7, <1>8, <2>2
      <3>3. 2 < i => ids[2] < ids[i]
        BY <1>2, <1>3, <2>2, <3>2
      <3>4. QED
        BY <3>1, <3>2, <3>3
    <2>4. later # 0 => ids[2] <= later
      BY <1>1, <1>2, <1>3, <1>7, <2>2
    <2>5. request.conversation = 0
      BY <1>6, <1>10
    <2>6. ids[1] < ids[2] /\ ids[2] # 0 /\ ids[2] \in Conversations /\ ids[2] \in Nat
      BY <1>7, <1>9, <2>1, <2>2
    <2>7. later # 0 => ids[1] < later
      BY <1>2, <1>3, <1>8
    <2>8. QED
      BY <1>2, <1>7, <1>8, <1>9, <2>2, <2>3, <2>4, <2>5, <2>6, <2>7 DEF ids, n, later
  <1>11. CASE ~(n > 1)
    <2>1. n = 1 /\ NextConversation = later
      BY <1>2, <1>5, <1>11
    <2>2. later # 0 => ids[1] < later /\ later \in Conversations /\ request.conversation = 0
      BY <1>2, <1>3, <1>6, <1>8
    <2>3. later # 0 => later <= later
      BY <1>1
    <2>4. \A i \in 2..n : FALSE
      BY <2>1
    <2>5. request.conversation \in {0, ids[1]}
      BY <1>6
    <2>6. QED
      BY <1>1, <1>2, <1>7, <1>8, <1>9, <2>1, <2>2, <2>3, <2>4, <2>5 DEF ids, n, later
  <1>12. QED
    BY <1>10, <1>11

\* A cursor behind what was returned, and all that is owed behind the cursor
Passes(next) ==
    /\ next.conversation \in Conversations /\ request.conversation \in {0, next.conversation}
    /\ next.key = <<>> \/ next.key \in Key(5)
    /\ \A w \in Returned \union Whats(Found) :
         \/ w.conversation < next.conversation
         \/ /\ w.conversation = next.conversation /\ next.key # <<>>
            /\ ~Less(MessageKey(w), next.key)

Owes(next, more) ==
    answer.covered /\ ~page.warned => \A w \in Sought :
      \/ w \in Returned \union Whats(Found)
      \/ more /\ next.conversation < w.conversation
      \/ more /\ next.conversation = w.conversation /\ Older(MessageKey(w), next.key)

LEMMA ScanDelivers ==
  ASSUME LiveInv, AllRead, request.kind = "search", NEW more \in BOOLEAN,
         NEW next \in [kind : {"fallback"}, conversation : Nat, key : Seq(Int)],
         Deliver(Found, more, next, page.warned), more => Passes(next), Owes(next, more)
  PROVE  LiveInv'
  <1>1. /\ LiveTypeOK /\ DataSound /\ AnswerSound /\ PageSound /\ FetchedSound /\ ItemsSound
        /\ page.at # "none"
    BY DEF LiveInv, AllRead
  <1>2. /\ Found \in Seq(AnyItem) /\ Distinct(Found)
        /\ \A w \in Whats(Found) : w \in Messages \ Returned
    BY <1>1, FoundFacts
  <1>3. Asked = Messages
    BY DEF Asked
  <1>4. /\ next \in [kind : {"keyset", "fallback"}, conversation : Nat, key : Seq(Int)]
        /\ next.kind = "fallback"
    OBVIOUS
  <1>5. Whats(Found) \subseteq Asked /\ Whats(Found) \cap Returned = {}
    BY <1>2, <1>3
  <1>6. /\ LiveTypeOK' /\ DataSound' /\ AnswerSound'
        /\ PageSound' /\ FetchedSound' /\ ItemsSound' /\ CoverSound'
        /\ Returned' = Returned \union Whats(Found)
        /\ answer'.covered => answer.covered /\ ~page.warned
        /\ answer'.done <=> ~more
        /\ cursor'.kind = next.kind /\ (more => cursor' = next)
        /\ UNCHANGED <<databases, request, troubles>>
    BY <1>1, <1>2, <1>4, <1>5, Delivered
  <1>7. /\ Sought' = Sought /\ (\A w : MessageKey(w)' = MessageKey(w))
        /\ cursor'.kind = "fallback" /\ request' = request
    BY <1>4, <1>6 DEF Sought, MessageKey, databases, InScope, InRange
  <1>8. KeysetSound'
    BY <1>7 DEF KeysetSound
  <1>9. FallbackSound'
    <2> SUFFICES ASSUME more PROVE FallbackSound'
      BY <1>6 DEF FallbackSound
    <2>1. cursor' = next
      BY <1>6
    <2>2. answer'.covered => \A w \in Sought :
           \/ w \in Returned'
           \/ next.conversation < w.conversation
           \/ next.conversation = w.conversation /\ Older(MessageKey(w), next.key)
      BY <1>6 DEF Owes
    <2>3. /\ next.conversation \in Conversations /\ request.conversation \in {0, next.conversation}
          /\ next.key = <<>> \/ next.key \in Key(5)
          /\ \A w \in Returned' :
               \/ w.conversation < next.conversation
               \/ /\ w.conversation = next.conversation /\ next.key # <<>>
                  /\ ~Less(MessageKey(w), next.key)
      BY <1>6 DEF Passes
    <2>4. QED
      BY <1>7, <2>1, <2>2, <2>3 DEF FallbackSound, Older
  <1>10. NothingMissed'
    <2> SUFFICES ASSUME answer'.done, answer'.covered PROVE Wanted' \subseteq Returned'
      BY DEF NothingMissed
    <2>1. ~more /\ Sought \subseteq Returned'
      BY <1>6 DEF Owes
    <2>2. Wanted' \subseteq Sought'
      BY <1>7 DEF Wanted, Sought
    <2>3. QED
      BY <1>7, <2>1, <2>2
  <1>11. QED
    BY <1>6, <1>8, <1>9, <1>10 DEF LiveInv

\* The next page goes on behind the last message that was scanned.
LEMMA ContinuationStep ==
  ASSUME LiveInv, AllRead, request.kind = "search", NEW more \in BOOLEAN,
         Scanned \in DOMAIN Merged,
         (Scanned < Len(Merged) \/ MergedMore \/ NextConversation # 0) => more,
         Deliver(Found, more, Continuation(Scanned), page.warned)
  PROVE  LiveInv'
  <1> DEFINE c == page.ids[1]
             q == Merged[Scanned].key
             next == Continuation(Scanned)
  <1>1. /\ LiveTypeOK /\ AnswerSound /\ PageSound /\ FetchedSound /\ ItemsSound /\ FallbackSound
        /\ page.at # "none" /\ ~answer.done /\ cursor.kind # "keyset"
    BY DEF LiveInv, AllRead, AnswerSound, NoPage, PageSound
  <1>2. /\ c \in Conversations /\ c \in Nat /\ request.conversation \in {0, c}
        /\ \A i \in 2..Len(page.ids) : c < page.ids[i] /\ page.ids[i] \in Nat
        /\ page.later # 0 => c < page.later
        /\ NextConversation = 0 => Len(page.ids) = 1 /\ page.later = 0
    <2>1. \A i \in 2..Len(page.ids) : i \in DOMAIN page.ids
      BY <1>1, NextFacts
    <2>2. QED
      BY <1>1, <2>1, NextFacts
  <1>3. next = [kind |-> "fallback", conversation |-> c, key |-> q]
    BY DEF Continuation
  <1>4. /\ q \in Key(5) /\ q \in Seq(Int) /\ Older(q, page.key) /\ q # <<>>
    <2>1. Scanned <= Scanned
      BY <1>1, ScannedFacts
    <2>2. QED
      BY <1>1, <2>1, ListedNewer, EmptyKey
  <1>5. ASSUME NEW w \in Returned
        PROVE  w.conversation < c \/ (w.conversation = c /\ ~Less(MessageKey(w), q))
    <2>1. w \in Messages /\ w.conversation \in Nat
      BY <1>1, <1>5, MessageFacts DEF AnswerSound, Asked
    <2>2. w.conversation <= c
      <3>1. cursor.kind = "fallback"
        BY <1>1, <1>5 DEF LiveTypeOK, AnswerSound, Returned
      <3>2. w.conversation <= cursor.conversation /\ cursor.conversation \in Nat
        BY <1>1, <2>1, <3>1 DEF FallbackSound, LiveTypeOK
      <3>3. cursor.conversation <= c
        BY <1>1, <1>2, <3>1, <3>2 DEF PageSound
      <3>4. QED
        BY <1>2, <2>1, <3>2, <3>3
    <2>3. w.conversation = c => ~Less(MessageKey(w), q)
      BY <1>1, <1>4, <1>5, ReturnedNewer
    <2>4. QED
      BY <1>2, <2>1, <2>2, <2>3
  <1>6. ASSUME NEW w \in Whats(Found)
        PROVE  w.conversation < c \/ (w.conversation = c /\ ~Less(MessageKey(w), q))
    <2>1. /\ Whats(Found) = Whats(page.items) \union {Merged[h].what : h \in Hits(Scanned)}
          /\ \A v \in Whats(page.items) : v.conversation < c
          /\ \A h \in Hits(Scanned) : h \in DOMAIN Merged /\ h <= Scanned
                                      /\ Merged[h].what.conversation = c
      BY <1>1, FoundFacts
    <2>2. CASE w \in Whats(page.items)
      BY <2>1, <2>2
    <2>3. CASE w \notin Whats(page.items)
      <3>1. PICK h \in Hits(Scanned) : w = Merged[h].what
        BY <1>6, <2>1, <2>3
      <3>2. h \in DOMAIN Merged /\ h <= Scanned /\ w.conversation = c
        BY <2>1, <3>1
      <3>3. ~Less(MessageKey(w), q)
        BY <1>1, <3>1, <3>2, ListedNewer
      <3>4. QED
        BY <3>2, <3>3
    <2>4. QED
      BY <2>2, <2>3
  <1>7. ASSUME answer.covered, ~page.warned, NEW w \in Sought
        PROVE  \/ w \in Returned \union Whats(Found)
               \/ more /\ c < w.conversation
               \/ more /\ c = w.conversation /\ Older(MessageKey(w), q)
    <2>1. \/ w \in Returned \union Whats(Found)
          \/ /\ w.conversation = page.ids[1] /\ Scanned \in DOMAIN Merged
             /\ Less(MessageKey(w), Merged[Scanned].key)
             /\ Scanned < Len(Merged) \/ MergedMore
          \/ \E i \in 2..Len(page.ids) : page.ids[i] = w.conversation
          \/ page.later # 0 /\ page.later <= w.conversation
      BY <1>7, ScanCovers
    <2>2. CASE \E i \in 2..Len(page.ids) : page.ids[i] = w.conversation
      <3>1. c < w.conversation /\ Len(page.ids) # 1
        BY <1>2, <2>2
      <3>2. QED
        BY <1>2, <3>1
    <2>3. CASE page.later # 0 /\ page.later <= w.conversation
      <3>1. w.conversation \in Nat /\ page.later \in Nat
        <4>1. w \in Messages
          BY <1>1 DEF Sought, LiveTypeOK
        <4>2. QED
          BY <1>1, <4>1, MessageFacts DEF LiveTypeOK
      <3>2. c < w.conversation
        BY <1>2, <2>3, <3>1
      <3>3. QED
        BY <1>2, <2>3, <3>2
    <2>4. QED
      BY <2>1, <2>2, <2>3 DEF Older
  <1> HIDE DEF next, c, q
  <1>8. Deliver(Found, more, next, page.warned)
    BY DEF next
  <1>9. /\ next \in [kind : {"fallback"}, conversation : Nat, key : Seq(Int)]
        /\ next.conversation = c /\ next.key = q
    BY <1>2, <1>3, <1>4
  <1>10. Passes(next)
    BY <1>2, <1>4, <1>5, <1>6, <1>9 DEF Passes
  <1>11. Owes(next, more)
    BY <1>7, <1>9 DEF Owes
  <1>12. QED
    BY <1>8, <1>9, <1>10, <1>11, ScanDelivers

\* A conversation that was scanned to its end owes no more.
LEMMA ScanExhausts ==
  ASSUME LiveInv, AllRead, request.kind = "search", Filling = {}, ~MergedMore,
         answer.covered, ~page.warned, NEW w \in Sought
  PROVE  \/ w \in Returned \union Whats(Found)
         \/ \E i \in 2..Len(page.ids) : page.ids[i] = w.conversation
         \/ page.later # 0 /\ page.later <= w.conversation
  <1>1. /\ LiveTypeOK /\ PageSound /\ FetchedSound /\ page.at # "none"
    BY DEF LiveInv, AllRead
  <1>2. Scanned = Len(Merged) /\ Len(Merged) \in Nat
    BY <1>1, ScannedFacts
  <1>3. ~(Scanned < Len(Merged))
    BY <1>2
  <1>4. QED
    BY <1>3, ScanCovers

\* All that was returned by then is of this conversation or one before.
LEMMA ReturnedBefore ==
  ASSUME LiveInv, AllRead, request.kind = "search", NEW w \in Returned \union Whats(Found)
  PROVE  w \in Messages /\ w.conversation \in Nat /\ w.conversation <= page.ids[1]
  <1>1. /\ LiveTypeOK /\ AnswerSound /\ PageSound /\ FetchedSound /\ ItemsSound /\ FallbackSound
        /\ page.at # "none" /\ ~answer.done /\ cursor.kind # "keyset"
    BY DEF LiveInv, AllRead, AnswerSound, NoPage, PageSound
  <1>2. page.ids[1] \in Nat
    BY <1>1, NextFacts
  <1>3. CASE w \in Whats(Found)
    <2>1. w \in Messages /\ w.conversation <= page.ids[1]
      BY <1>1, <1>3, FoundFacts
    <2>2. QED
      BY <2>1, MessageFacts
  <1>4. CASE w \in Returned
    <2>1. w \in Messages /\ w.conversation \in Nat
      BY <1>1, <1>4, MessageFacts DEF AnswerSound, Asked
    <2>2. cursor.kind = "fallback"
      BY <1>1, <1>4 DEF LiveTypeOK, AnswerSound, Returned
    <2>3. w.conversation <= cursor.conversation /\ cursor.conversation \in Nat
      BY <1>1, <1>4, <2>1, <2>2 DEF FallbackSound, LiveTypeOK
    <2>4. cursor.conversation <= page.ids[1]
      BY <1>1, <1>2, <2>2, <2>3 DEF PageSound
    <2>5. QED
      BY <1>2, <2>1, <2>3, <2>4
  <1>5. QED
    BY <1>3, <1>4

LEMMA ScanEndsPageStep ==
  ASSUME LiveInv, AllRead, request.kind = "search", ScanEndsPage
  PROVE  LiveInv'
  <1> DEFINE n == NextConversation
             more == n # 0
             next == AtConversation(n)
  <1>1. /\ LiveTypeOK /\ PageSound /\ page.at # "none"
    BY DEF LiveInv, AllRead
  <1>2. Filling = {} /\ ~MergedMore /\ Deliver(Found, more, next, page.warned)
    BY DEF ScanEndsPage
  <1>3. /\ page.ids[1] \in Nat /\ n \in Nat
        /\ n = 0 => Len(page.ids) = 1 /\ page.later = 0
        /\ n # 0 => /\ n \in Conversations /\ page.ids[1] < n /\ request.conversation = 0
                    /\ \A i \in 2..Len(page.ids) : n <= page.ids[i]
                    /\ page.later # 0 => n <= page.later
    BY <1>1, NextFacts
  <1>4. \A i \in 2..Len(page.ids) : page.ids[i] \in Nat
    <2>1. \A i \in 2..Len(page.ids) : i \in DOMAIN page.ids
      BY <1>1, NextFacts
    <2>2. QED
      BY <1>1, <2>1, NextFacts
  <1>5. /\ next \in [kind : {"fallback"}, conversation : Nat, key : Seq(Int)]
        /\ next.conversation = n /\ next.key = <<>> /\ more \in BOOLEAN
    BY <1>3 DEF AtConversation
  <1>6. more <=> n # 0
    OBVIOUS
  <1> HIDE DEF n, more, next
  <1>7. more => Passes(next)
    <2> HAVE more
    <2>1. \A w \in Returned \union Whats(Found) : w.conversation < n
      <3> TAKE w \in Returned \union Whats(Found)
      <3>1. w.conversation \in Nat /\ w.conversation <= page.ids[1]
        BY ReturnedBefore
      <3>2. QED
        BY <1>3, <1>6, <3>1
    <2>2. QED
      BY <1>3, <1>5, <1>6, <2>1 DEF Passes
  <1>8. Owes(next, more)
    <2> SUFFICES ASSUME answer.covered, ~page.warned, NEW w \in Sought
                 PROVE  \/ w \in Returned \union Whats(Found)
                        \/ more /\ n < w.conversation
                        \/ more /\ n = w.conversation
      BY <1>5 DEF Owes, Older
    <2>1. \/ w \in Returned \union Whats(Found)
          \/ \E i \in 2..Len(page.ids) : page.ids[i] = w.conversation
          \/ page.later # 0 /\ page.later <= w.conversation
      BY <1>2, ScanExhausts
    <2>2. w.conversation \in Nat /\ page.later \in Nat
      <3>1. w \in Messages
        BY <1>1 DEF Sought, LiveTypeOK
      <3>2. QED
        BY <1>1, <3>1, MessageFacts DEF LiveTypeOK
    <2>3. CASE \E i \in 2..Len(page.ids) : page.ids[i] = w.conversation
      <3>1. PICK i \in 2..Len(page.ids) : page.ids[i] = w.conversation
        BY <2>3
      <3>2. n # 0
        <4>1. Len(page.ids) # 1
          BY <3>1
        <4>2. QED
          BY <1>3, <4>1
      <3>3. n <= w.conversation
        BY <1>3, <3>1, <3>2
      <3>4. QED
        BY <1>3, <1>6, <2>2, <3>2, <3>3
    <2>4. CASE page.later # 0 /\ page.later <= w.conversation
      <3>1. n # 0 /\ n <= page.later
        BY <1>3, <2>4
      <3>2. QED
        BY <1>3, <1>6, <2>2, <2>4, <3>1
    <2>5. QED
      BY <2>1, <2>3, <2>4
  <1>9. QED
    BY <1>2, <1>5, <1>7, <1>8, ScanDelivers

LEMMA ScanGoesOnStep ==
  ASSUME LiveInv, AllRead, request.kind = "search", ScanGoesOn
  PROVE  LiveInv'
  <1> DEFINE ids == page.ids
             n == Len(ids)
             rest == Tail(ids)
  <1>1. /\ LiveTypeOK /\ AnswerSound /\ PageSound /\ FetchedSound /\ ItemsSound /\ CoverSound
        /\ FallbackSound /\ page.at = "read" /\ page.at # "none" /\ cursor.kind # "keyset"
        /\ ~answer.done
    BY DEF LiveInv, AllRead, AnswerSound, NoPage, PageSound
  <1>2. /\ Filling = {} /\ ~MergedMore /\ page.scanned + Scanned < ScanBudget /\ n # 1
        /\ page' = [page EXCEPT !.ids = rest, !.key = <<>>, !.todo = page.open,
                                !.fetched = {}, !.items = Found,
                                !.scanned = page.scanned + Scanned]
        /\ UNCHANGED <<databases, request, cursor, answer, troubles>>
    <2>1. page.scanned \in Nat /\ Scanned \in Nat /\ ScanBudget \in Nat
      <3>1. Scanned \in Nat
        BY <1>1, ScannedFacts
      <3>2. QED
        BY <1>1, <3>1, QueryAssumption DEF LiveTypeOK
    <2>2. ~SpendsPage => page.scanned + Scanned < ScanBudget /\ n # 1
      BY <2>1 DEF SpendsPage
    <2>3. QED
      BY <2>2 DEF ScanGoesOn
  <1>3. /\ n \in Nat \ {0} /\ ids \in Seq(Nat)
        /\ \A i \in 1..n : ids[i] \in Conversations /\ ids[i] \in Nat
        /\ \A i, j \in 1..n : i < j => ids[i] < ids[j]
        /\ page.later # 0 => \A i \in 1..n : ids[i] < page.later
        /\ page.later # 0 => page.later \in Conversations
        /\ request.conversation # 0 => ids = <<request.conversation>>
    <2>1. n \in Nat \ {0} /\ DOMAIN ids = 1..n
      BY <1>1, NextFacts
    <2>2. \A i \in 1..n : ids[i] \in Conversations /\ ids[i] \in Nat
      BY <1>1, <2>1, NextFacts
    <2>3. ids \in Seq(Nat)
      BY <1>1 DEF LiveTypeOK
    <2>4. /\ \A i, j \in 1..n : i < j => ids[i] < ids[j]
          /\ page.later # 0 => \A i \in 1..n : ids[i] < page.later
          /\ page.later # 0 => page.later \in Conversations
          /\ request.conversation # 0 => ids = <<request.conversation>>
      BY <1>1, <2>1 DEF PageSound
    <2>5. QED
      BY <2>1, <2>2, <2>3, <2>4
  <1>4. request.conversation = 0
    <2> SUFFICES ASSUME request.conversation # 0 PROVE FALSE
      OBVIOUS
    <2>1. ids = <<request.conversation>>
      BY <1>3
    <2> HIDE DEF ids
    <2>2. Len(ids) = 1
      BY <2>1
    <2>3. QED
      BY <1>2, <2>2
  <1>5. /\ rest \in Seq(Nat) /\ Len(rest) = n - 1 /\ DOMAIN rest = 1..(n - 1)
        /\ \A i \in 1..(n - 1) : rest[i] = ids[i + 1] /\ i + 1 \in 1..n /\ 1 < i + 1
        /\ 1 \in 1..(n - 1) /\ 1 \in 1..n /\ rest # <<>>
    <2>1. ids # <<>>
      BY <1>3
    <2>2. rest \in Seq(Nat) /\ Len(rest) = n - 1 /\ \A i \in 1..(n - 1) : rest[i] = ids[i + 1]
      BY <1>3, <2>1
    <2> HIDE DEF ids, n, rest
    <2>3. /\ DOMAIN rest = 1..(n - 1) /\ 1 \in 1..(n - 1) /\ 1 \in 1..n
          /\ \A i \in 1..(n - 1) : i + 1 \in 1..n /\ 1 < i + 1
      BY <1>2, <1>3, <2>2
    <2>4. QED
      BY <2>2, <2>3
  <1> HIDE DEF ids, n, rest
  <1>6. /\ Found \in Seq(AnyItem) /\ Distinct(Found)
        /\ \A w \in Whats(Found) : w \in Messages \ Returned /\ w.conversation <= ids[1]
    BY <1>1, FoundFacts DEF ids
  <1>7. page.scanned + Scanned \in Nat
    BY <1>1, ScannedFacts DEF LiveTypeOK
  <1>8. page \in [at : {"none", "open", "read"}, ids : Seq(Nat), later : Nat, key : Seq(Int),
                   open : SUBSET Shards, todo : SUBSET Shards, fetched : SUBSET AnyItem,
                   items : Seq(AnyItem), scanned : Nat, warned : BOOLEAN]
    BY <1>1 DEF LiveTypeOK
  <1>9. /\ page' \in [at : {"none", "open", "read"}, ids : Seq(Nat), later : Nat, key : Seq(Int),
                   open : SUBSET Shards, todo : SUBSET Shards, fetched : SUBSET AnyItem,
                   items : Seq(AnyItem), scanned : Nat, warned : BOOLEAN]
        /\ page'.at = "read" /\ page'.ids = rest /\ page'.later = page.later
        /\ page'.key = <<>> /\ page'.open = page.open /\ page'.todo = page.open
        /\ page'.fetched = {} /\ page'.items = Found /\ page'.warned = page.warned
        /\ page'.scanned = page.scanned + Scanned
    <2> DEFINE s == page.scanned + Scanned
               found == Found
    <2>1. page' = [page EXCEPT !.ids = rest, !.key = <<>>, !.todo = page.open,
                               !.fetched = {}, !.items = found, !.scanned = s]
      BY <1>2
    <2>2. s \in Nat /\ found \in Seq(AnyItem) /\ rest \in Seq(Nat) /\ <<>> \in Seq(Int)
      BY <1>5, <1>6, <1>7
    <2> HIDE DEF s, found
    <2>3. /\ page' \in [at : {"none", "open", "read"}, ids : Seq(Nat), later : Nat, key : Seq(Int),
                   open : SUBSET Shards, todo : SUBSET Shards, fetched : SUBSET AnyItem,
                   items : Seq(AnyItem), scanned : Nat, warned : BOOLEAN]
          /\ page'.at = page.at /\ page'.ids = rest /\ page'.later = page.later
          /\ page'.key = <<>> /\ page'.open = page.open /\ page'.todo = page.open
          /\ page'.fetched = {} /\ page'.items = found /\ page'.warned = page.warned
          /\ page'.scanned = s
      BY <1>8, <2>1, <2>2
    <2>4. QED
      BY <1>1, <2>3 DEF s, found
  <1>10. LiveTypeOK'
    BY <1>1, <1>2, <1>9 DEF LiveTypeOK, databases
  <1>11. /\ DataSound' /\ AnswerSound' /\ KeysetSound' /\ FallbackSound' /\ NothingMissed'
         /\ Returned' = Returned /\ Sought' = Sought /\ \A w : MessageKey(w)' = MessageKey(w)
         /\ request' = request /\ cursor' = cursor /\ answer' = answer
    BY <1>1, <1>2, <1>10, KeptFacts
  <1>12. ids[1] < rest[1] /\ ids[1] \in Nat /\ rest[1] \in Nat
    BY <1>3, <1>5
  <1>13. PageSound'
    <2>1. \A i \in DOMAIN rest :
           /\ rest[i] \in Conversations
           /\ page.later # 0 => rest[i] < page.later
           /\ \A j \in DOMAIN rest : i < j => rest[i] < rest[j]
      <3> TAKE i \in DOMAIN rest
      <3>1. i \in 1..(n - 1) /\ rest[i] = ids[i + 1] /\ i + 1 \in 1..n
        BY <1>5
      <3>2. ASSUME NEW j \in DOMAIN rest, i < j PROVE rest[i] < rest[j]
        <4> DEFINE i1 == i + 1
                   j1 == j + 1
        <4>1. /\ j \in 1..(n - 1) /\ rest[j] = ids[j1] /\ j1 \in 1..n
              /\ rest[i] = ids[i1] /\ i1 \in 1..n
          BY <1>5, <3>1
        <4>2. i1 < j1
          BY <1>3, <3>1, <3>2, <4>1
        <4> HIDE DEF i1, j1
        <4>3. QED
          BY <1>3, <4>1, <4>2
      <3>3. QED
        BY <1>3, <3>1, <3>2
    <2>2. IF cursor.kind = "fallback"
          THEN cursor.conversation < rest[1]
          ELSE cursor.key = <<>>
      <3>1. CASE cursor.kind = "fallback"
        <4>1. cursor.conversation <= ids[1] /\ cursor.conversation \in Nat
          <5>1. cursor.conversation \in Nat
            BY <1>1 DEF LiveTypeOK
          <5>2. cursor.conversation = ids[1] \/ cursor.conversation < ids[1]
            BY <1>1, <3>1 DEF PageSound, ids
          <5>3. QED
            BY <1>12, <5>1, <5>2
        <4>2. QED
          BY <1>12, <3>1, <4>1
      <3>2. CASE cursor.kind # "fallback"
        <4>1. cursor.kind = "none"
          BY <1>1, <3>2 DEF LiveTypeOK
        <4>2. QED
          BY <1>1, <3>2, <4>1 DEF AnswerSound, NoCursor
      <3>3. QED
        BY <3>1, <3>2
    <2>3. page.later # 0 => page.later \in Conversations
      BY <1>3
    <2>4. page.scanned + Scanned < ScanBudget
      BY <1>2
    <2>5. QED
      BY <1>1, <1>4, <1>5, <1>9, <1>11, <2>1, <2>2, <2>3, <2>4 DEF PageSound
  <1>14. FetchedSound'
    BY <1>9, FS_EmptySet DEF FetchedSound
  <1>15. ItemsSound'
    <2>1. \A w \in Whats(Found) : w \in Messages \ Returned /\ w.conversation < rest[1]
      <3> TAKE w \in Whats(Found)
      <3>1. w \in Messages \ Returned /\ w.conversation <= ids[1] /\ w.conversation \in Nat
        BY <1>6, MessageFacts
      <3>2. QED
        BY <1>12, <3>1
    <2>2. QED
      BY <1>6, <1>9, <1>11, <2>1 DEF ItemsSound, Whats, Distinct
  <1>16. CoverSound'
    <2> SUFFICES ASSUME answer.covered, ~page.warned PROVE CoverSound'
      BY <1>9, <1>11 DEF CoverSound
    <2>1. page.open = Shards
      BY <1>1 DEF CoverSound
    <2>2. ASSUME NEW w \in Sought PROVE w \in Returned \union Whats(Found) \/ Ahead(w)'
      <3>1. w \in Messages
        BY <1>1 DEF Sought, LiveTypeOK
      <3>2. w.shard \in page'.todo
        BY <1>9, <2>1, <3>1, MessageFacts
      <3>3. \/ w \in Returned \union Whats(Found)
            \/ \E i \in 2..n : ids[i] = w.conversation
            \/ page.later # 0 /\ page.later <= w.conversation
        BY <1>2, ScanExhausts DEF ids, n
      <3>4. ASSUME NEW i \in 2..n, ids[i] = w.conversation PROVE Ahead(w)'
        <4> DEFINE j == i - 1
        <4>1. j \in 1..(n - 1) /\ i = j + 1
          BY <1>3
        <4>2. rest[j] = w.conversation
          BY <1>5, <3>4, <4>1
        <4>3. CASE j = 1
          <5>1. w.conversation = page'.ids[1]
            BY <1>9, <4>2, <4>3
          <5>2. Older(MessageKey(w), page.key)'
            BY <1>9 DEF Older
          <5>3. QED
            BY <3>2, <5>1, <5>2 DEF Ahead
        <4>4. CASE j # 1
          <5>1. j \in 2..Len(page'.ids)
            BY <1>3, <1>5, <1>9, <4>1, <4>4
          <5>2. page'.ids[j] = w.conversation
            BY <1>9, <4>2
          <5> HIDE DEF j
          <5>3. QED
            BY <5>1, <5>2 DEF Ahead
        <4>5. QED
          BY <4>3, <4>4
      <3>5. ASSUME page.later # 0, page.later <= w.conversation PROVE Ahead(w)'
        BY <1>9, <3>5 DEF Ahead
      <3>6. QED
        BY <3>3, <3>4, <3>5
    <2>3. Whats(page.items)' = Whats(Found)
      BY <1>9 DEF Whats
    <2>4. QED
      BY <1>9, <1>11, <2>1, <2>2, <2>3 DEF CoverSound
  <1>17. QED
    BY <1>10, <1>11, <1>13, <1>14, <1>15, <1>16 DEF LiveInv


LEMMA ScanFillsStep ==
  ASSUME LiveInv, AllRead, request.kind = "search", ScanFills
  PROVE  LiveInv'
  <1> DEFINE more == Scanned < Len(Merged) \/ MergedMore \/ NextConversation # 0
  <1>1. /\ more \in BOOLEAN
        /\ (Scanned < Len(Merged) \/ MergedMore \/ NextConversation # 0) => more
        /\ Deliver(Found, more, Continuation(Scanned), page.warned)
    BY DEF ScanFills
  <1> HIDE DEF more
  <1>2. Scanned \in DOMAIN Merged
    <2>1. Filling # {}
      BY DEF ScanFills
    <2>2. LiveTypeOK /\ PageSound /\ FetchedSound /\ page.at # "none"
      BY DEF LiveInv, AllRead
    <2>3. QED
      BY <2>1, <2>2, ScannedFacts
  <1>3. QED
    BY <1>1, <1>2, ContinuationStep

LEMMA ScanLeavesRestStep ==
  ASSUME LiveInv, AllRead, request.kind = "search", ScanLeavesRest
  PROVE  LiveInv'
  <1>1. LiveTypeOK /\ PageSound /\ FetchedSound /\ page.at # "none"
    BY DEF LiveInv, AllRead
  <1>2. Filling = {} /\ MergedMore /\ Deliver(Found, TRUE, Continuation(Len(Merged)), page.warned)
    BY DEF ScanLeavesRest
  <1>3. Scanned = Len(Merged) /\ DOMAIN Merged = 1..Len(Merged)
    BY <1>1, <1>2, ScannedFacts
  <1>4. Len(Merged) = ListLimit /\ ListLimit \in Nat \ {0}
    BY <1>1, <1>2, MergedFacts, LimitFacts DEF Lists
  <1>5. Scanned \in DOMAIN Merged
    BY <1>3, <1>4
  <1>6. Deliver(Found, TRUE, Continuation(Scanned), page.warned)
    BY <1>2, <1>3
  <1>7. TRUE \in BOOLEAN /\ ((Scanned < Len(Merged) \/ MergedMore \/ NextConversation # 0) => TRUE)
    OBVIOUS
  <1>8. QED
    BY <1>5, <1>6, <1>7, ContinuationStep


LEMMA ScanStep ==
  ASSUME LiveInv, Scan
  PROVE  LiveInv'
  <1>1. AllRead /\ request.kind = "search"
    BY DEF Scan
  <1>2. ScanFills \/ ScanLeavesRest \/ ScanEndsPage \/ ScanGoesOn
    BY DEF Scan
  <1>3. QED
    BY <1>1, <1>2, ScanFillsStep, ScanLeavesRestStep, ScanEndsPageStep, ScanGoesOnStep

-----------------------------------------------------------------------------
(* The invariant.                                                            *)
LEMMA LiveInit == Init => LiveInv
  <1> SUFFICES ASSUME Init PROVE LiveInv
    OBVIOUS
  <1>1. /\ messages \subseteq Messages /\ request \in Requests
        /\ server = [m \in Messages |-> 0] /\ changes = 0 /\ troubles = 0
        /\ cursor = NoCursor /\ page = NoPage
        /\ answer = [got |-> <<>>, covered |-> TRUE, done |-> FALSE]
        /\ sessions \in [Conversations -> 0..1]
        /\ untouched = [messages |-> messages,
                        sessions |-> {c \in Conversations : sessions[c] # 0},
                        listed |-> {c \in Conversations : sessions[c] # 0}]
    BY QueryAssumption DEF Init
  <1>2. Returned = {} /\ page.at = "none" /\ cursor.kind = "none" /\ cursor.key = <<>>
    BY <1>1 DEF Returned, NoPage, NoCursor
  <1>3. LiveTypeOK
    <2>1. /\ server \in [Messages -> 0..1]
          /\ sessions \in [Conversations -> Nat]
          /\ untouched \in [messages : SUBSET Messages, sessions : SUBSET Conversations,
                            listed : SUBSET Conversations]
      BY <1>1
    <2>2. cursor \in [kind : {"none", "keyset", "fallback"}, conversation : Nat, key : Seq(Int)]
      <3>1. <<>> \in Seq(Int)
        OBVIOUS
      <3>2. QED
        BY <1>1, <3>1 DEF NoCursor
    <2>3. answer \in [got : Seq(AnyItem), covered : BOOLEAN, done : BOOLEAN]
      <3>1. <<>> \in Seq(AnyItem)
        OBVIOUS
      <3>2. QED
        BY <1>1, <3>1
    <2>4. page \in [at : {"none", "open", "read"}, ids : Seq(Nat), later : Nat, key : Seq(Int),
                    open : SUBSET Shards, todo : SUBSET Shards, fetched : SUBSET AnyItem,
                    items : Seq(AnyItem), scanned : Nat, warned : BOOLEAN]
      <3>1. <<>> \in Seq(AnyItem) /\ <<>> \in Seq(Int) /\ <<>> \in Seq(Nat)
        OBVIOUS
      <3>2. QED
        BY <1>1, <3>1 DEF NoPage
    <2>5. QED
      BY <1>1, <2>1, <2>2, <2>3, <2>4 DEF LiveTypeOK
  <1>4. DataSound
    BY <1>1 DEF DataSound, Present
  <1>5. AnswerSound
    BY <1>1, <1>2 DEF AnswerSound, Distinct
  <1>6. KeysetSound
    BY <1>1, <1>2 DEF KeysetSound, Older
  <1>7. FallbackSound /\ PageSound /\ FetchedSound /\ ItemsSound /\ CoverSound /\ NothingMissed
    BY <1>1, <1>2
    DEF FallbackSound, PageSound, FetchedSound, ItemsSound, CoverSound, NothingMissed
  <1>8. QED
    BY <1>3, <1>4, <1>5, <1>6, <1>7 DEF LiveInv

LEMMA LiveStutters ==
  ASSUME LiveInv, UNCHANGED vars
  PROVE  LiveInv'
  <1>1. UNCHANGED <<messages, server, sessions, request, cursor, answer, page, untouched, changes,
                    troubles>>
    BY DEF vars, databases
  <1>2. LiveTypeOK' /\ DataSound'
    BY <1>1 DEF LiveInv, LiveTypeOK, DataSound, Present
  <1>3. AnswerSound'
    BY <1>1 DEF LiveInv, AnswerSound, Asked, Returned, Distinct
  <1>4. /\ Returned' = Returned /\ Sought' = Sought /\ Wanted' = Wanted /\ Width' = Width
        /\ ListLimit' = ListLimit
        /\ \A w : MessageKey(w)' = MessageKey(w) /\ NowKey(w)' = NowKey(w)
        /\ \A w : There(w)' <=> There(w)
    BY <1>1 DEF Returned, Sought, Wanted, Width, ListLimit, MessageKey, SearchKey,
                ConversationKey, NowKey, There, InScope, InRange
  <1>5. KeysetSound' /\ NothingMissed'
    BY <1>1, <1>4 DEF LiveInv, KeysetSound, Present, NothingMissed
  <1>6. FallbackSound'
    BY <1>1, <1>4 DEF LiveInv, FallbackSound
  <1>7. PageSound' /\ FetchedSound' /\ ItemsSound'
    BY <1>1, <1>4 DEF LiveInv, PageSound, FetchedSound, ItemsSound, Whats, Distinct
  <1>8. \A w : Ahead(w) => Ahead(w)'
    BY <1>1, <1>4 DEF Ahead, Behind
  <1>9. CoverSound'
    BY <1>1, <1>4, <1>8 DEF LiveInv, CoverSound, Whats
  <1>10. QED
    BY <1>2, <1>3, <1>5, <1>6, <1>7, <1>9 DEF LiveInv

LEMMA LiveStep == LiveInv /\ [Next]_vars => LiveInv'
  <1> SUFFICES ASSUME LiveInv, [Next]_vars PROVE LiveInv'
    OBVIOUS
  <1>1. CASE Change
    BY <1>1, ChangeStep
  <1>2. CASE Abandon
    BY <1>2, AbandonStep
  <1>3. CASE Page
    <2>1. CASE ListConversations \/ NativeSearch \/ ListMessages \/ FallbackSearch
      BY <2>1, ConversationsStep, NativeSearchStep, ListMessagesStep, FallbackSearchStep
    <2>2. ASSUME NEW opened \in SUBSET Shards, OpenShards(opened) PROVE LiveInv'
      BY <2>2, OpenShardsStep
    <2>3. ASSUME NEW failed \in BOOLEAN, ReadShard(failed) PROVE LiveInv'
      <3>1. PICK shard, read : ReadSome(shard, read, failed)
        BY <2>3, ReadShardReads
      <3>2. QED
        BY <3>1, ReadSomeStep
    <2>4. CASE ReturnMessages \/ Scan
      BY <2>4, ReturnMessagesStep, ScanStep
    <2>5. QED
      BY <1>3, <2>1, <2>2, <2>3, <2>4 DEF Page
  <1>4. CASE UNCHANGED vars
    BY <1>4, LiveStutters
  <1>5. QED
    BY <1>1, <1>2, <1>3, <1>4 DEF Next

\* What was returned counts as many records as there were items.
LEMMA DistinctCounts ==
  ASSUME LiveInv
  PROVE  Cardinality(Returned) = Len(answer.got)
  <1> DEFINE n == Len(answer.got)
             f == [i \in 1..n |-> answer.got[i].what]
  <1>1. n \in Nat /\ DOMAIN answer.got = 1..n
    BY DEF LiveInv, LiveTypeOK
  <1>2. Returned = {answer.got[i].what : i \in 1..n}
    BY <1>1 DEF Returned
  <1>3. \A i, j \in 1..n : answer.got[i].what = answer.got[j].what => i = j
    BY <1>1 DEF LiveInv, AnswerSound, Distinct
  <1>4. f \in Surjection(1..n, Returned) /\ f \in Injection(1..n, Returned)
    BY <1>2, <1>3 DEF Surjection, Injection, IsInjective
  <1>5. IsFiniteSet(1..n) /\ Cardinality(1..n) = n
    BY <1>1, FS_Interval
  <1> HIDE DEF n, f
  <1>6. Cardinality(Returned) = Cardinality(1..n)
    BY <1>4, <1>5, FS_Surjection
  <1>7. QED
    BY <1>5, <1>6 DEF n

\* A cursor and what was returned, kept and fetched always fit together,
\* however keys move between two pages and between the shards of one: nothing
\* that was returned is behind the cursor, and what stayed and is still owed is
\* (list_conversations, list_messages_in_time_range_with_open_shards,
\* search_messages and its fallback).
THEOREM LiveInvariance == Spec => []LiveInv
  <1>1. Init => LiveInv
    BY LiveInit
  <1>2. LiveInv /\ [Next]_vars => LiveInv'
    BY LiveStep
  <1>3. QED
    BY <1>1, <1>2, PTL DEF Spec

\* Paging to the end returns every record that stayed where it was, whatever
\* else changed between and within the pages, unless a page warned
\* (list_messages_in_time_range_with_open_shards, list_conversations, both
\* searches).
THEOREM NothingMissedHolds == Spec => []NothingMissed
  <1>1. LiveInv => NothingMissed
    BY DEF LiveInv
  <1>2. QED
    BY <1>1, LiveInvariance, PTL

\* No record is returned twice, also when its key moved, when a page was asked
\* for again or a search re-reads the conversation its cursor names
\* (the cursors of live_query.rs).
THEOREM ReturnedOnceHolds == Spec => []ReturnedOnce
  <1>1. LiveInv => ReturnedOnce
    BY DistinctCounts DEF ReturnedOnce
  <1>2. QED
    BY <1>1, LiveInvariance, PTL
=============================================================================
