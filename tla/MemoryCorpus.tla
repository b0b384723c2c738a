----------------------------- MODULE MemoryCorpus -----------------------------
(***************************************************************************)
(* "memory prepare" and "memory prepare --extend" of personal_memory.rs    *)
(* over the live databases of live_query.rs.                               *)
(*                                                                         *)
(* A preparation reads the inventory of conversations once, then the       *)
(* metadata of one conversation after another, then the text of what it    *)
(* selected, again one conversation after another, while the chat program  *)
(* goes on writing: messages arrive, and rows go or change their identity. *)
(* A query may fail and is then only counted.  What is published is one    *)
(* directory renamed into place, which a later preparation may extend.     *)
(***************************************************************************)
EXTENDS CorpusSelection

CONSTANTS
  MessageSet,   \* every message that may ever be in the databases
  Policies,     \* the selection policies
  InitialLive,  \* the messages there at the start
  MaxCorpora,   \* corpora published
  MaxTroubles   \* rows that go or change, and queries that fail

ASSUME MessagesAssumption ==
  /\ InitialLive \subseteq MessageSet
  /\ \A m \in MessageSet : m.conversation \in DOMAIN Kind

VARIABLES
  live,     \* the messages in the databases
  gone,     \* the messages that were and are not any more
  clock,    \* the time of the reference month
  faults,   \* the queries that failed
  work,     \* the preparation under way, as a set of at most one
  corpora   \* the corpora published, in order

vars == <<live, gone, clock, faults, work, corpora>>

NoCoverage ==
  [scanned |-> 0, eligible |-> 0, selected |-> 0, outside |-> 0, filtered |-> 0,
   inactive |-> 0, silent |-> 0, contextBound |-> 0, failedRows |-> 0,
   rowsComplete |-> TRUE, contentComplete |-> TRUE]

Evidence(corpus) == FlattenSeq(corpus.units)

Generation(corpus) == Max({0} \cup {link.generation : link \in corpus.extends})

EvidenceCount(units) == FoldLeft(LAMBDA sum, unit : sum + Len(unit), 0, units)

\* load_corpus: the accounts of a corpus agree with one another
Loads(corpus) ==
  LET coverage == corpus.coverage
      count == EvidenceCount(corpus.units)
  IN  /\ AllMessages(corpus.policy) =>
           /\ coverage.selected = coverage.eligible
           /\ coverage.outside = 0 /\ coverage.inactive = 0 /\ coverage.silent = 0
           /\ coverage.contextBound = 0 /\ coverage.filtered = 0
      /\ \A u \in DOMAIN corpus.units : corpus.units[u] # <<>>
      /\ count <= coverage.selected
      /\ coverage.contentComplete => coverage.selected = count
      /\ \A link \in corpus.extends :
           /\ link.firstNewUnit <= Len(corpus.units)
           /\ link.carriedMessages <= count
           /\ link.generation >= 1

\* ---- the databases --------------------------------------------------------

Arrive(m) ==
  /\ m \in MessageSet \ (live \cup gone)
  /\ live' = live \cup {m}
  /\ UNCHANGED <<gone, clock, faults, work, corpora>>

Vanish(m) ==
  /\ m \in live
  /\ Cardinality(gone) + faults < MaxTroubles
  /\ live' = live \ {m} /\ gone' = gone \cup {m}
  /\ UNCHANGED <<clock, faults, work, corpora>>

MonthPasses ==
  /\ clock + MonthLength < CalendarEnd
  /\ clock' = clock + MonthLength
  /\ UNCHANGED <<live, gone, faults, work, corpora>>

\* ---- one preparation ------------------------------------------------------

Tables == {m.conversation : m \in live \cup gone}

Inventory == Sorted(Tables)

Start(policy, base) ==
  [policy |-> policy, base |-> base, now |-> clock, phase |-> "scan",
   tables |-> Tables, inventory |-> Inventory, next |-> 1,
   before |-> live, lost |-> gone,
   scanned |-> {}, drafts |-> <<>>, episodes |-> <<>>, coverage |-> NoCoverage]

BeginPrepare(policy) ==
  /\ work = {} /\ Len(corpora) < MaxCorpora
  /\ ValidPolicy(policy)
  /\ work' = {Start(policy, {})}
  /\ UNCHANGED <<live, gone, clock, faults, corpora>>

\* The base is loaded and every file of it hashed; its evidence names no message twice
BeginExtend(policy, b) ==
  /\ work = {} /\ Len(corpora) < MaxCorpora
  /\ ValidPolicy(policy)
  /\ Loads(corpora[b])
  /\ IsInjective(Evidence(corpora[b]))
  /\ work' = {Start(policy, {b})}
  /\ UNCHANGED <<live, gone, clock, faults, corpora>>

Carried(job) == UNION {ToSet(Evidence(corpora[b])) : b \in job.base}

\* A query that fails reads nothing and is counted
Faults(ok) ==
  /\ ~ok => Cardinality(gone) + faults < MaxTroubles
  /\ faults' = IF ok THEN faults ELSE faults + 1

Omitted(job, rows) ==
  LET eligible == Eligible(rows, job.policy)
      inactive == {m \in eligible : MonthKey(m.at) \notin SelectedMonths(eligible, job.policy, job.now)}
      sessions == Sessions(eligible, job.policy, job.now)
      Silent(s) == ~AllMessages(job.policy) /\ Anchors(sessions[s]) = {}
      silent == UNION {ToSet(sessions[s]) : s \in {i \in DOMAIN sessions : Silent(i)}}
      kept == Messages(Episodes(rows, job.policy, job.now))
  IN  [inactive |-> Cardinality(inactive), silent |-> Cardinality(silent),
       contextBound |-> Cardinality(eligible \ (inactive \cup silent \cup kept)),
       kept |-> Cardinality(kept)]

\* The coverage after the rows of an enabled conversation
Counted(job, rows) ==
  LET omitted == Omitted(job, rows)
      inRange == {m \in rows : InRange(m, job.policy)}
      undated == {m \in inRange : ~Dated(m)}
      eligible == Cardinality(inRange \ undated)
      sums == [job.coverage EXCEPT
        !.eligible = @ + eligible,
        !.outside = @ + Cardinality(rows \ inRange),
        !.failedRows = @ + Cardinality(undated),
        !.inactive = @ + omitted.inactive, !.silent = @ + omitted.silent,
        !.contextBound = @ + omitted.contextBound, !.selected = @ + omitted.kept]
  IN  [sums EXCEPT !.rowsComplete = @ /\ undated = {}]

\* (mutant) the whole episode is drafted as soon as a part of it is new
WholeDrafted(job, rows) ==
  LET episodes == Episodes(rows, job.policy, job.now)
  IN  SelectSeq(episodes, LAMBDA episode : ~(ToSet(episode) \subseteq Carried(job)))

\* Only what the base does not hold is drafted
Drafted(job, rows) ==
  LET episodes == Episodes(rows, job.policy, job.now)
      fresh == [e \in DOMAIN episodes |->
                  SelectSeq(episodes[e], LAMBDA m : m \notin Carried(job))]
  IN  SelectSeq(fresh, LAMBDA episode : episode # <<>>)

\* scan_metadata: the rows of a conversation
ScannedRows(c, ok) == IF ok THEN {m \in live : m.conversation = c} ELSE {}

\* The metadata of the next conversation, at the time it is read
Scan(ok) == \E job \in work :
  LET c == job.inventory[job.next]
      rows == ScannedRows(c, ok)
      read == [job EXCEPT !.next = @ + 1, !.scanned = @ \cup rows,
                          !.coverage.scanned = @ + Cardinality(rows),
                          !.coverage.rowsComplete = @ /\ ok]
  IN  /\ job.phase = "scan" /\ job.next <= Len(job.inventory)
      /\ Faults(ok)
      /\ work' = {IF ConversationEnabled(c, job.policy)
                    THEN [read EXCEPT !.coverage = Counted(read, rows),
                                      !.drafts = @ \o Drafted(job, rows)]
                    ELSE [read EXCEPT !.coverage.filtered = @ + Cardinality(rows)]}
      /\ UNCHANGED <<live, gone, clock, corpora>>

DraftConversations(job) == {job.drafts[d][1].conversation : d \in DOMAIN job.drafts}

\* (mutant) the check of the base is left out
MayAlwaysHydrate(job) == TRUE

\* Everything is scanned.  An extension stops unless all its base is still there.
MayHydrate(job) == Carried(job) \subseteq job.scanned

StartHydration == \E job \in work :
  /\ job.phase = "scan" /\ job.next > Len(job.inventory)
  /\ MayHydrate(job)
  /\ work' = {[job EXCEPT
       !.phase = "hydrate", !.next = 1,
       !.inventory = Sorted(DraftConversations(job)),
       !.coverage.selected =
          IF job.base # {} /\ AllMessages(job.policy) THEN job.coverage.eligible ELSE @]}
  /\ UNCHANGED <<live, gone, clock, faults, corpora>>

\* hydrate: the rows of an episode still there and unchanged
Hydrated(episode, ok) == SelectSeq(episode, LAMBDA m : ok /\ m \in live)

\* (mutant) what hydration did not find is not noticed
HydrateUnchecked(ok) == \E job \in work :
  LET c == job.inventory[job.next]
      drafts == SelectSeq(job.drafts, LAMBDA episode : episode[1].conversation = c)
      found == [d \in DOMAIN drafts |-> Hydrated(drafts[d], ok)]
  IN  /\ job.phase = "hydrate" /\ job.next <= Len(job.inventory)
      /\ Faults(ok)
      /\ work' = {[job EXCEPT
           !.next = @ + 1,
           !.episodes = @ \o SelectSeq(found, LAMBDA episode : episode # <<>>),
           !.coverage.contentComplete = @ /\ \A m \in Messages(found) : m.decodes]}
      /\ UNCHANGED <<live, gone, clock, corpora>>

\* The text of the drafts of the next conversation: a row that went is left out
Hydrate(ok) == \E job \in work :
  LET c == job.inventory[job.next]
      drafts == SelectSeq(job.drafts, LAMBDA episode : episode[1].conversation = c)
      found == [d \in DOMAIN drafts |-> Hydrated(drafts[d], ok)]
  IN  /\ job.phase = "hydrate" /\ job.next <= Len(job.inventory)
      /\ Faults(ok)
      /\ work' = {[job EXCEPT
           !.next = @ + 1,
           !.episodes = @ \o SelectSeq(found, LAMBDA episode : episode # <<>>),
           !.coverage.contentComplete =
              /\ @
              /\ found = drafts
              /\ \A m \in Messages(found) : m.decodes]}
      /\ UNCHANGED <<live, gone, clock, corpora>>

\* ---- publication ----------------------------------------------------------

\* The ids without an alias yet are numbered after the largest one, in order
Numbered(aliases, ids) ==
  LET fresh == Sorted(ids \ DOMAIN aliases)
      largest == Max({0} \cup Range(aliases))
  IN  [id \in DOMAIN aliases \cup ids |->
         IF id \in DOMAIN aliases THEN aliases[id]
         ELSE largest + (CHOOSE k \in DOMAIN fresh : fresh[k] = id)]

NoAliases == [id \in {} |-> 0]

PersonIds(episodes) ==
  LET messages == Messages(episodes)
  IN  {m.conversation : m \in {n \in messages : Kind[n.conversation] = "direct"}}
        \cup (UNION {m.sender : m \in messages} \ {Self})

Published(job) ==
  LET base == UNION {{corpora[b]} : b \in job.base}
      Inherited(field(_)) == IF base = {} THEN NoAliases ELSE field(CHOOSE corpus \in base : TRUE)
      episodes == SortedBy(job.episodes,
        LAMBDA e : LET first == job.episodes[e][1]
                   IN  <<first.at, first.conversation, MonthKey(first.at)>>)
      conversations == Numbered(Inherited(LAMBDA corpus : corpus.conversations),
                                job.tables)
      units == OrderUnitDrafts(UnitDrafts(episodes, job.policy), conversations, job.policy.order)
      carried == IF base = {} THEN <<>> ELSE (CHOOSE corpus \in base : TRUE).units
  IN  [policy |-> job.policy,
       units |-> carried \o units,
       conversations |-> conversations,
       persons |-> Numbered(Inherited(LAMBDA corpus : corpus.persons), PersonIds(episodes)),
       coverage |-> job.coverage,
       extends |-> {[base |-> b, firstNewUnit |-> Len(carried),
                     generation |-> 1 + Generation(corpora[b]),
                     carriedMessages |-> EvidenceCount(carried)] : b \in job.base}]

Publish == \E job \in work :
  /\ job.phase = "hydrate" /\ job.next > Len(job.inventory)
  /\ corpora' = Append(corpora, Published(job))
  /\ work' = {}
  /\ UNCHANGED <<live, gone, clock, faults>>

\* An error or a crash: the staging directory is never renamed
Abandon ==
  /\ work # {}
  /\ work' = {}
  /\ UNCHANGED <<live, gone, clock, faults, corpora>>

Init ==
  /\ live = InitialLive /\ gone = {}
  /\ clock = 0 /\ faults = 0
  /\ work = {} /\ corpora = <<>>

Next ==
  \/ \E m \in MessageSet : Arrive(m) \/ Vanish(m)
  \/ MonthPasses
  \/ \E policy \in Policies :
       \/ BeginPrepare(policy)
       \/ \E b \in DOMAIN corpora : BeginExtend(policy, b)
  \/ \E ok \in BOOLEAN : Scan(ok) \/ Hydrate(ok)
  \/ StartHydration
  \/ Publish
  \/ Abandon

Spec == Init /\ [][Next]_vars

(***************************************************************************)
(* Properties                                                              *)
(***************************************************************************)

\* No message has two evidence aliases in one corpus: what a reviewed page
\* cites is one message, over every extension of the corpus.
OncePerCorpus == \A k \in DOMAIN corpora : IsInjective(Evidence(corpora[k]))

\* m and n are in one session: same month, no gap anywhere between them
Together(m, n, rows, bounds) ==
  LET first == Min({m.at, n.at})
      last == Max({m.at, n.at})
      between == {r \in rows : first <= r.at /\ r.at <= last}
  IN  /\ MonthKey(m.at) = MonthKey(n.at)
      /\ \A r \in between : r.at = last \/ \E s \in between : s.at > r.at /\ s.at - r.at <= bounds.gap

\* How many messages n is after m, negative when it is before
Distance(m, n, rows) ==
  LET Position(x) == Cardinality({r \in rows : Precedes(<<r.at, r.number>>, <<x.at, x.number>>)})
  IN  Position(n) - Position(m)

\* Every message the scan of a conversation drafted, and no other, is one the policy selects: in
\* a month that counts, and for an account holder's policy in the same session
\* as a message of theirs and within the context bound of it.
SelectionExact ==
  \A job \in work : job.phase = "scan" =>
    \A c \in {job.inventory[k] : k \in {job.next - 1} \ {0}} :
      LET rows == Eligible({m \in job.scanned : m.conversation = c}, job.policy)
          bounds == IF Kind[c] = "group" THEN job.policy.group ELSE job.policy.direct
          Near(m) == \E s \in {r \in rows : FromSelf(r)} :
            /\ Together(s, m, rows, bounds)
            /\ Distance(s, m, rows) \in -bounds.before .. bounds.after
          chosen == {m \in rows :
            /\ MonthKey(m.at) \in SelectedMonths(rows, job.policy, job.now)
            /\ AllMessages(job.policy) \/ Near(m)}
      IN  {m \in Messages(job.drafts) : m.conversation = c} =
            IF ConversationEnabled(c, job.policy) THEN chosen \ Carried(job) ELSE {}

\* No conversation keeps the reader from another: before the first unit of one
\* conversation, another gets at most as many units as its number of own
\* messages has bits.
FrontierShared ==
  \A k \in DOMAIN corpora : corpora[k].policy.order = "relevance" =>
    LET carried == Max({0} \cup {link.firstNewUnit : link \in corpora[k].extends})
        units == SubSeq(corpora[k].units, carried + 1, Len(corpora[k].units))
        Of(c) == {u \in DOMAIN units : Conversation(units[u]) = c}
        all == {Conversation(units[u]) : u \in DOMAIN units}
    IN  \A c, d \in all : c # d =>
          LET ahead == {u \in Of(d) : u < Min(Of(c))}
              own == Cardinality({m \in Messages(units) : m.conversation = d /\ FromSelf(m)})
          IN  ahead # {} => 2 ^ (Cardinality(ahead) - 1) <= Max({1, own})

\* A corpus of all messages that says its rows and its contents are complete
\* holds every message that was there from the start of its preparation to its
\* publication, in whatever order conversations were read and read again.
NothingLost ==
  [][\A job \in work : corpora' # corpora /\ AllMessages(job.policy) =>
       LET corpus == Last(corpora')
       IN  corpus.coverage.rowsComplete /\ corpus.coverage.contentComplete =>
             job.before \ gone \subseteq ToSet(Evidence(corpus))]_vars

\* What is published was in the databases since its preparation began: an
\* extension never carries a message that had gone before it started.
NoGhosts ==
  [][\A job \in work : corpora' # corpora =>
       ToSet(Evidence(Last(corpora'))) \cap job.lost = {}]_vars
=============================================================================
