--------------------------- MODULE CorpusSelection ---------------------------
(***************************************************************************)
(* personal_memory.rs, what "memory prepare" computes: the messages of a   *)
(* conversation a selection policy chooses, the episodes they form, the    *)
(* units an episode is split into and the order the units are published    *)
(* in.                                                                     *)
(*                                                                         *)
(* A message has its conversation, its time, its sender (a set of at most  *)
(* one number, empty when the row names nobody, 0 the account holder), its *)
(* size and whether its content decodes.  Conversations and persons are    *)
(* numbers: their order is the order of their identifiers.  A message is   *)
(* its own location: two messages differ in time or in number.             *)
(***************************************************************************)
EXTENDS Integers, Sequences, FiniteSets, SequencesExt, FiniteSetsExt

CONSTANTS
  Kind,         \* the kind of every conversation: "direct", "group", "official"
  MonthLength,  \* ticks of the clock in a month
  CalendarEnd   \* the first time outside the calendar

Self == 0
FromSelf(m) == m.sender = {Self}

\* Lexicographic order of two tuples of the same length
Precedes(a, b) ==
  \E i \in DOMAIN a : a[i] < b[i] /\ \A j \in 1 .. i - 1 : a[j] = b[j]

\* The elements of S in a strict total order
InOrder(S, Before(_, _)) ==
  [k \in 1 .. Cardinality(S) |->
     CHOOSE x \in S : Cardinality({y \in S : Before(y, x)}) = k - 1]

Sorted(S) == InOrder(S, <)

\* A stable sort of s by a key computed from each position
SortedBy(s, Key(_)) ==
  LET order == InOrder(DOMAIN s,
                 LAMBDA i, j : Precedes(Append(Key(i), i), Append(Key(j), j)))
  IN  [k \in DOMAIN s |-> s[order[k]]]

\* s cut into consecutive groups, a new one where StartsNew says so
Grouped(s, StartsNew(_, _)) ==
  FoldLeft(LAMBDA groups, x :
             IF groups = <<>> THEN <<<<x>>>>
             ELSE IF StartsNew(Last(groups), x) THEN Append(groups, <<x>>)
             ELSE [groups EXCEPT ![Len(groups)] = Append(@, x)],
           <<>>, s)

MonthKey(at) == at \div MonthLength
Dated(m) == m.at < CalendarEnd

AllMessages(policy) == policy.mode = "allMessages"

\* validate: a canonical corpus is not filtered while it is prepared
ValidPolicy(policy) ==
  /\ \A from \in policy.notBefore, to \in policy.notAfter : from <= to
  /\ policy.minimumSelf >= 1
  /\ policy.minimumActiveMonths <= policy.lookback
  /\ policy.maximumMessages >= 1
  /\ AllMessages(policy) =>
       /\ policy.notBefore = {} /\ policy.notAfter = {}
       /\ policy.include = {"direct", "group", "official"}

ConversationEnabled(c, policy) == AllMessages(policy) \/ Kind[c] \in policy.include

InRange(m, policy) ==
  /\ \A from \in policy.notBefore : m.at >= from
  /\ \A to \in policy.notAfter : m.at <= to

Eligible(messages, policy) == {m \in messages : InRange(m, policy) /\ Dated(m)}

InMonth(messages, month) == {m \in messages : MonthKey(m.at) = month}
Months(messages) == {MonthKey(m.at) : m \in messages}

\* Months the account holder wrote enough in
ActiveMonths(eligible, policy) ==
  {month \in Months(eligible) :
     Cardinality({m \in InMonth(eligible, month) : FromSelf(m)}) >= policy.minimumSelf}

\* ... in a conversation active often enough in the months before the reference
RecentlyActive(eligible, policy, now) ==
  LET last == MonthKey(now)
  IN  \/ policy.minimumActiveMonths = 0
      \/ Cardinality(ActiveMonths(eligible, policy) \cap (last - policy.lookback + 1 .. last))
           >= policy.minimumActiveMonths

SelectedMonths(eligible, policy, now) ==
  IF AllMessages(policy) THEN Months(eligible)
  ELSE IF RecentlyActive(eligible, policy, now) THEN ActiveMonths(eligible, policy)
  ELSE {}

Chronological(messages) ==
  InOrder(messages, LAMBDA m, n : Precedes(<<m.at, m.number>>, <<n.at, n.number>>))

\* A policy has a gap and context bounds for groups and others for the rest
SessionBounds(c, policy) == IF Kind[c] = "group" THEN policy.group ELSE policy.direct

SplitSessions(messages, policy) ==
  Grouped(messages, LAMBDA session, m :
            m.at - Last(session).at > SessionBounds(m.conversation, policy).gap)

Anchors(session) == {i \in DOMAIN session : FromSelf(session[i])}

\* (mutant) a window stops one message before the bound after its anchor
ShortContextWindows(session, policy) ==
  LET bounds == SessionBounds(session[1].conversation, policy)
      kept == UNION {i - bounds.before .. i + bounds.after - 1 : i \in Anchors(session)}
                \cap DOMAIN session
  IN  Grouped(Sorted(kept), LAMBDA window, i : i > Last(window) + 1)

\* The merged windows of context around the anchors of a session
MergedContextWindows(session, policy) ==
  LET bounds == SessionBounds(session[1].conversation, policy)
      kept == UNION {i - bounds.before .. i + bounds.after : i \in Anchors(session)}
                \cap DOMAIN session
  IN  Grouped(Sorted(kept), LAMBDA window, i : i > Last(window) + 1)

SessionEpisodes(session, policy) ==
  IF AllMessages(policy) THEN <<session>>
  ELSE LET windows == MergedContextWindows(session, policy)
       IN  [w \in DOMAIN windows |-> [k \in DOMAIN windows[w] |-> session[windows[w][k]]]]

Sessions(eligible, policy, now) ==
  FlattenSeq([k \in 1 .. Cardinality(SelectedMonths(eligible, policy, now)) |->
    LET month == Sorted(SelectedMonths(eligible, policy, now))[k]
    IN  SplitSessions(Chronological(InMonth(eligible, month)), policy)])

\* The episodes the scan of one conversation drafts
Episodes(scanned, policy, now) ==
  LET sessions == Sessions(Eligible(scanned, policy), policy, now)
  IN  FlattenSeq([s \in DOMAIN sessions |-> SessionEpisodes(sessions[s], policy)])

Messages(groups) == UNION {ToSet(groups[g]) : g \in DOMAIN groups}

\* ---- units ----------------------------------------------------------------

Bytes(messages) == FoldLeft(LAMBDA sum, m : sum + m.bytes, 0, messages)

SplitUnits(episode, policy) ==
  Grouped(episode, LAMBDA unit, m :
                     \/ Len(unit) >= policy.maximumMessages
                     \/ Bytes(unit) + m.bytes > policy.maximumBytes)

UnitDrafts(episodes, policy) ==
  FlattenSeq([e \in DOMAIN episodes |-> SplitUnits(episodes[e], policy)])

Conversation(unit) == unit[1].conversation
Month(unit) == MonthKey(unit[1].at)
SelfMessages(unit) == Cardinality({i \in DOMAIN unit : FromSelf(unit[i])})

SelfTotal(units) == FoldLeft(LAMBDA sum, unit : sum + SelfMessages(unit), 0, units)
LastTimestamp(units) == Max({Last(units[u]).at : u \in DOMAIN units})

UnitDraftKey(unit, aliases) == <<unit[1].at, aliases[Conversation(unit)], Month(unit)>>

\* (mutant) the weight grows with the messages, not with their number of bits
LinearWeight(units) == Max({1, SelfTotal(units)})

\* The bits of a conversation's number of own messages, between 1 and 16
ConversationWeight(units) ==
  Min({16} \cup {bits \in 1 .. 16 : Max({1, SelfTotal(units)}) < 2 ^ bits})

KindPriority(c) ==
  CASE Kind[c] = "direct" -> 0 [] Kind[c] = "group" -> 1 [] Kind[c] = "official" -> 2

\* The units of one month, the densest in the account holder's words first
MonthOrder(units, aliases) ==
  SortedBy(units, LAMBDA u : <<-SelfMessages(units[u]), -Len(units[u]), -Last(units[u]).at>>
                               \o UnitDraftKey(units[u], aliases))

\* The units of one conversation: the first of every month, then the second...
ConversationOrder(units, aliases) ==
  LET OfMonth(month) == SelectSeq(units, LAMBDA unit : Month(unit) = month)
      months == Sorted({Month(units[u]) : u \in DOMAIN units})
      ranked == FlattenSeq([k \in DOMAIN months |->
                  LET ordered == MonthOrder(OfMonth(months[k]), aliases)
                  IN  [r \in DOMAIN ordered |->
                         [unit |-> ordered[r],
                          key |-> <<r, -SelfTotal(ordered), -LastTimestamp(ordered), months[k]>>
                                  \o UnitDraftKey(ordered[r], aliases)]]])
      sorted == SortedBy(ranked, LAMBDA i : ranked[i].key)
  IN  [i \in DOMAIN sorted |-> sorted[i].unit]

\* One unit before another when it finishes first: (rank + 1) / weight, cross-multiplied
Scheduled(a, b) ==
  LET finishA == a.rank * b.weight
      finishB == b.rank * a.weight
  IN  \/ finishA < finishB
      \/ finishA = finishB /\ Precedes(a.key, b.key)

RelevanceOrder(units, aliases) ==
  LET OfConversation(c) == SelectSeq(units, LAMBDA unit : Conversation(unit) = c)
      entries == UNION {
        LET ordered == ConversationOrder(OfConversation(c), aliases)
        IN  {[unit |-> ordered[r], rank |-> r, weight |-> ConversationWeight(ordered),
              key |-> <<-SelfTotal(ordered),
                        -Cardinality({Month(ordered[u]) : u \in DOMAIN ordered}),
                        KindPriority(c), -LastTimestamp(ordered), aliases[c], r>>]
             : r \in DOMAIN ordered}
        : c \in {Conversation(units[u]) : u \in DOMAIN units}}
      sorted == InOrder(entries, Scheduled)
  IN  [i \in DOMAIN sorted |-> sorted[i].unit]

OrderUnitDrafts(units, aliases, order) ==
  LET sorted == SortedBy(units, LAMBDA u : UnitDraftKey(units[u], aliases))
  IN  IF order = "chronological" THEN sorted ELSE RelevanceOrder(sorted, aliases)
=============================================================================
