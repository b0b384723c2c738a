---------------------------- MODULE MemoryBatches ----------------------------
(***************************************************************************)
(* personal_memory.rs: the commands memory next, page, acknowledge and     *)
(* commit over one state file, one prepared corpus and one wiki.           *)
(*                                                                         *)
(* Every command loads the corpus, takes the lock of the state file or     *)
(* fails, loads the state, and writes it back by rename, once or several   *)
(* times; it may be killed before any write and after any.  A commit scans *)
(* the wiki and writes the state later, while other programs edit the      *)
(* wiki.  The client is one agent: it calls the commands one after the     *)
(* other, loses replies, starts again with nothing, and names pages by     *)
(* their token or as "current".                                            *)
(*                                                                         *)
(* A page of the wiki is the set of its prose lines, a line the set of     *)
(* aliases it cites, and two pages with the same lines are the same bytes. *)
(***************************************************************************)
EXTENDS MemoryScopes

CONSTANTS
  Formats,       \* the formats memory next is asked for
  TextBounds,    \* --max-text-bytes
  MessageBounds, \* --max-messages
  WikiPages,     \* the pages an editor of the wiki writes
  Contents,      \* per page, the contents an editor gives it
  FirstWikis,    \* the wikis a run may start from
  MaxLineCitations, \* MAXIMUM_WIKI_CITATIONS_PER_PROSE_LINE
  MaxCompleted,  \* bound on rebinds (MAXIMUM_SCOPE_SELECTORS in the code)
  Nothing

VARIABLES
  run,        \* the state file, or Nothing
  wiki,       \* the directory: page -> set of lines
  committing, \* the wiki a running commit has scanned, or Nothing
  seen,       \* the page the client read last: [batch, page], or Nothing
  unanswered, \* the reply to the client's last memory page was lost
  past        \* what was reviewed and kept so far (history)

vars == <<run, wiki, committing, seen, unanswered, past>>

Unspecified == "unspecified"

Cites(page) == UNION page
Citations(w) == UNION {Cites(w[p]) : p \in DOMAIN w}

Corpus == UNION {Aliases(Units[u].messages) : u \in DOMAIN Units}

\* A page has a content.
ASSUME WikiAssumption ==
  /\ \A p \in WikiPages : Nothing \notin Contents[p]
  /\ \A w \in FirstWikis : \A p \in DOMAIN w : w[p] # Nothing

----------------------------------------------------------------------------
(* The state file *)

NewRun(scope) ==
  [scope |-> scope, completed |-> <<>>, format |-> "wiki", next |-> 0,
   batch |-> Nothing, last |-> Nothing, wiki |-> Nothing]

\* A batch is bound to its units: identifier, pages and targets follow
BatchId(scope, first, last) ==
  [first |-> first, last |-> last,
   units |-> SubSeq(ScopedUnits(scope), first + 1, last)]

NewBatch(scope, first, last, before) ==
  [id |-> BatchId(scope, first, last), first |-> first, last |-> last,
   targets |-> TargetPages(scope, first, last), before |-> before,
   pages |-> [p \in DOMAIN DeliveryPages(Evidence(scope, first, last)) |->
                [evidence |-> DeliveryPages(Evidence(scope, first, last))[p],
                 delivered |-> FALSE, review |-> Nothing]]]

Finished(r) == r.batch = Nothing /\ r.next = Total(r.scope)

Unreviewed(batch) == {p \in DOMAIN batch.pages : batch.pages[p].review = Nothing}

\* The first page without a review, if there is one
First(batch) == {p \in Unreviewed(batch) : p = Min(Unreviewed(batch))}

PageToken(batch, p) == [batch |-> batch.id, page |-> p]

\* The aliases the reviews of a batch retained
Retained(batch) ==
  UNION {batch.pages[p].review : p \in DOMAIN batch.pages \ Unreviewed(batch)}

Unlocked == committing = Nothing

----------------------------------------------------------------------------
(* memory next *)

\* load_or_initialize_state
MayBind(scope) ==
  run # Nothing /\ run.scope # scope =>
    Finished(run) /\ Len(run.completed) < MaxCompleted

Bound(scope) ==
  IF run = Nothing THEN NewRun(scope)
  ELSE IF run.scope = scope THEN run
  ELSE [run EXCEPT !.scope = scope, !.completed = Append(@, run.scope),
                   !.next = 0, !.last = Nothing]

Unformatted(r) ==
  r.format = "wiki" /\ r.next = 0 /\ r.batch = Nothing /\ r.last = Nothing

FormatAccepted(r, format) ==
  format = Unspecified \/ format = r.format \/ Unformatted(r)

Formatted(r, format) ==
  IF format # Unspecified /\ Unformatted(r) THEN [r EXCEPT !.format = format] ELSE r

ScansWiki(r) == r.batch = Nothing /\ r.format = "wiki"

\* Nobody but a commit changed the wiki since the last commit
WikiUnchanged(r) == ScansWiki(r) /\ r.wiki # Nothing => wiki = r.wiki

\* The wiki a new batch is compared with when it commits
WikiBefore(r) == IF ScansWiki(r) THEN wiki ELSE r.wiki

MayOpen(r, bytes) ==
  /\ WikiUnchanged(r)
  /\ r.batch = Nothing /\ ~ Finished(r) => FirstUnitFits(r.scope, r.next, bytes)

\* What next leaves behind: the batch it found, the run it finished, or a
\* new batch
Opened(r, bytes, messages) ==
  IF r.batch # Nothing THEN r
  ELSE IF Finished(r)
    THEN [r EXCEPT !.wiki = IF @ = Nothing THEN WikiBefore(r) ELSE @]
    ELSE [r EXCEPT !.batch =
            NewBatch(r.scope, r.next,
                     BatchEnd(r.scope, r.next, bytes,
                              IF messages < BatchMessages THEN messages ELSE BatchMessages),
                     WikiBefore(r))]

\* The evidence the notes of a run began with is theirs to cite
Baseline(r) == IF (run = Nothing \/ run.wiki = Nothing) /\ r.wiki # Nothing
                 THEN Citations(r.wiki) ELSE {}

\* Each of the three writes may be the last one a command gets to make
NextBatch ==
  /\ Unlocked
  /\ \E scope \in Scopes, format \in Formats \cup {Unspecified},
        bytes \in TextBounds, messages \in MessageBounds :
       LET bound == Bound(scope)
           formatted == Formatted(bound, format)
           opened == Opened(formatted, bytes, messages)
       IN /\ MayBind(scope)
          /\ \/ run' = bound
             \/ FormatAccepted(bound, format) /\ run' = formatted
             \/ /\ FormatAccepted(bound, format)
                /\ MayOpen(formatted, bytes)
                /\ run' = opened
  /\ past' = [past EXCEPT
       !.covered = IF run # Nothing /\ run'.scope # run.scope THEN <<>> ELSE @,
       !.kept = @ \cup Baseline(run')]
  /\ UNCHANGED <<wiki, committing, seen, unanswered>>

----------------------------------------------------------------------------
(* memory page and memory acknowledge *)

MarkDelivered(batch, p) == [batch EXCEPT !.pages[p].delivered = TRUE]

NextPage(answered) ==
  /\ Unlocked
  /\ run # Nothing /\ run.batch # Nothing
  /\ \E p \in First(run.batch) :
       /\ run' = [run EXCEPT !.batch = MarkDelivered(@, p)]
       /\ seen' = IF answered THEN PageToken(run.batch, p) ELSE seen
  /\ unanswered' = ~ answered
  /\ UNCHANGED <<wiki, committing, past>>

\* The page an acknowledgement is about: the one named by its token, or,
\* when none is ("current"), the first one without a review
Selected(batch, tokens) ==
  IF tokens = {} THEN First(batch) ELSE {p \in DOMAIN batch.pages : PageToken(batch, p) \in tokens}

\* (mutant) the page need not have been delivered
AnyPageReviewable(batch, p, retained) ==
  /\ p \in First(batch)
  /\ retained \subseteq Aliases(batch.pages[p].evidence)

\* (mutant) a review may be given again with another verdict
ReviewableAgain(batch, p, retained) ==
  /\ batch.pages[p].delivered
  /\ retained \subseteq Aliases(batch.pages[p].evidence)

Reviewable(batch, p, retained) ==
  /\ p \in First(batch)
  /\ batch.pages[p].delivered
  /\ retained \subseteq Aliases(batch.pages[p].evidence)

\* retained = {} is --reviewed-no-durable-memory.  The client judges the
\* page it read last, and says "current" only while it knows it is.
AcknowledgePage ==
  /\ Unlocked
  /\ run # Nothing /\ run.batch # Nothing /\ seen # Nothing
  /\ \E tokens \in {{seen}} \cup (IF unanswered THEN {} ELSE {{}}) :
       \E p \in Selected(run.batch, tokens) :
         \E retained \in SUBSET Aliases(run.batch.pages[p].evidence) :
           /\ Reviewable(run.batch, p, retained)
           /\ run' = [run EXCEPT !.batch.pages[p].review = retained]
  /\ UNCHANGED <<wiki, committing, seen, unanswered, past>>

\* The agent is started again and knows nothing of what it was doing
ClientRestart ==
  /\ seen' = Nothing /\ unanswered' = FALSE
  /\ UNCHANGED <<run, wiki, committing, past>>

----------------------------------------------------------------------------
(* memory commit *)

Before(batch, p) ==
  IF batch.before # Nothing /\ p \in DOMAIN batch.before THEN batch.before[p] ELSE Nothing

ChangedPages(batch, current) ==
  {p \in DOMAIN current : current[p] # Before(batch, p)}

FactualPages(pages) == pages \ {<<"index">>}

SoundProse(lines) ==
  /\ lines # {}
  /\ \A line \in lines : line # {} /\ Cardinality(line) <= MaxLineCitations

\* The aliases a page may cite: those of the batch, and those it did cite
MayCite(batch, p) ==
  Retained(batch) \cup (IF Before(batch, p) = Nothing THEN {} ELSE Cites(Before(batch, p)))

KeepsPages(batch, current) ==
  batch.before = Nothing \/ DOMAIN batch.before \subseteq DOMAIN current

\* validate_wiki_commit
ValidUpdate(batch, current) ==
  /\ KeepsPages(batch, current)
  /\ ChangedPages(batch, current) \subseteq batch.targets
  /\ \A p \in FactualPages(ChangedPages(batch, current)) : SoundProse(current[p])
  /\ \A p \in ChangedPages(batch, current) : Cites(current[p]) \subseteq MayCite(batch, p)
  /\ Citations(current) \subseteq Corpus
  /\ Retained(batch) \subseteq Citations(current)
  /\ \E p \in FactualPages(ChangedPages(batch, current)) :
       Cites(current[p]) \cap Retained(batch) # {}

\* validate_me_self_attribution
SelfAttributed(batch, current) ==
  <<"me">> \in ChangedPages(batch, current) =>
    \A line \in current[<<"me">>] :
      \E u \in DOMAIN Units : \E m \in DOMAIN Units[u].messages :
        Units[u].messages[m].alias \in line /\ Units[u].messages[m].sender = "self"

\* (mutant) nothing retained is enough
NothingRetained(batch, current) == Retained(batch) = {}

\* validate_reviewed_no_durable_memory_commit
ValidNoUpdate(batch, current) ==
  Retained(batch) = {} /\ batch.before # Nothing /\ current = batch.before

ReviewComplete(batch) ==
  batch.pages # <<>> /\ Unreviewed(batch) = {}

Acceptable(batch, current) ==
  \/ ValidUpdate(batch, current) /\ SelfAttributed(batch, current)
  \/ ValidNoUpdate(batch, current)

\* The checks of a commit, on the wiki as it is now
CommitScan ==
  /\ Unlocked
  /\ run # Nothing /\ run.batch # Nothing
  /\ ReviewComplete(run.batch)
  /\ run.format = "wiki" => Acceptable(run.batch, wiki)
  /\ committing' = wiki
  /\ UNCHANGED <<run, wiki, seen, unanswered, past>>

ReviewedEvidence(batch) ==
  [p \in DOMAIN batch.pages |->
     IF p \in Unreviewed(batch) THEN <<>> ELSE batch.pages[p].evidence]

\* (mutant) the wiki is read again when the state is written
CommittedLater(r) ==
  [r EXCEPT !.next = r.batch.last, !.batch = Nothing, !.last = r.batch.id,
            !.wiki = IF r.format = "wiki" THEN wiki ELSE @]

Committed(r) ==
  [r EXCEPT !.next = r.batch.last, !.batch = Nothing, !.last = r.batch.id,
            !.wiki = IF r.format = "wiki" THEN committing ELSE @]

CommitWrite ==
  /\ committing # Nothing
  /\ run' = Committed(run)
  /\ committing' = Nothing
  /\ past' =
       [covered |-> past.covered \o FlattenSeq(ReviewedEvidence(run.batch)),
        kept |-> past.kept \cup Retained(run.batch)
                 \cup (IF run.wiki = Nothing /\ run.batch.before # Nothing
                         THEN Citations(run.batch.before) ELSE {}),
        latest |-> Retained(run.batch)]
  /\ UNCHANGED <<wiki, seen, unanswered>>

CommitStops ==
  /\ committing # Nothing
  /\ committing' = Nothing
  /\ UNCHANGED <<run, wiki, seen, unanswered, past>>

\* The agent, the owner or another program writes or removes a page
EditWiki ==
  /\ \E p \in WikiPages :
       \/ \E lines \in Contents[p] :
            wiki' = [q \in DOMAIN wiki \cup {p} |-> IF q = p THEN lines ELSE wiki[q]]
       \/ wiki' = [q \in DOMAIN wiki \ {p} |-> wiki[q]]
  /\ UNCHANGED <<run, committing, seen, unanswered, past>>

----------------------------------------------------------------------------
Init ==
  /\ run = Nothing
  /\ wiki \in FirstWikis
  /\ committing = Nothing
  /\ seen = Nothing /\ unanswered = FALSE
  /\ past = [covered |-> <<>>, kept |-> {}, latest |-> {}]

Next ==
  \/ NextBatch
  \/ \E answered \in BOOLEAN : NextPage(answered)
  \/ AcknowledgePage
  \/ ClientRestart
  \/ CommitScan
  \/ CommitWrite
  \/ CommitStops
  \/ EditWiki

Spec == Init /\ [][Next]_vars

----------------------------------------------------------------------------
(* Properties *)

(* What lies behind the cursor was read: the messages of the reviewed pages *)
(* of all committed batches are, in order and once each, the messages the   *)
(* scope means, and all of them when the run reports itself complete.       *)
NothingSkipped ==
  run # Nothing =>
    /\ IsPrefix(past.covered, MeantBy(run.scope))
    /\ past.covered = Evidence(run.scope, 0, run.next)
    /\ Finished(run) => past.covered = MeantBy(run.scope)

(* A review is recorded only for the page the client judged, although it    *)
(* may call it "current", lose the reply and repeat the call.               *)
ReviewsJudged ==
  [][run # Nothing /\ run.batch # Nothing =>
       \A p \in Unreviewed(run.batch) :
         /\ run'.batch # Nothing /\ run'.batch.id = run.batch.id
         /\ run'.batch.pages[p].review # Nothing
         => seen = PageToken(run.batch, p)]_vars

(* A batch and its reviews stand until a commit of that batch: no retry,    *)
(* restart, other scope or other bound replaces it or changes a verdict,    *)
(* and the cursor passes it only when every page of it was reviewed.        *)
ReviewsStand ==
  [][run # Nothing /\ run.batch # Nothing =>
       \/ /\ run'.batch # Nothing
          /\ run'.batch.id = run.batch.id /\ run'.batch.before = run.batch.before
          /\ run'.next = run.next
          /\ \A p \in DOMAIN run.batch.pages \ Unreviewed(run.batch) :
               run'.batch.pages[p] = run.batch.pages[p]
       \/ /\ ReviewComplete(run.batch)
          /\ run'.batch = Nothing /\ run'.next = run.batch.last
          /\ run'.last = run.batch.id]_vars

(* Every alias the committed notes cite was retained by a review of a       *)
(* committed batch, or was in the notes the run began with.                 *)
OnlyKeptCited ==
  run # Nothing /\ run.wiki # Nothing => Citations(run.wiki) \subseteq past.kept

(* What the batch committed last retained is in the notes that are on       *)
(* record with it, whatever was written to the wiki during the commit.      *)
LatestKeptCited ==
  run # Nothing /\ run.last # Nothing /\ run.format = "wiki" =>
    past.latest \subseteq Citations(run.wiki)

=============================================================================
