------------------------ MODULE MemoryBatchesProof -------------------------
(***************************************************************************)
(* Theorems about MemoryBatches, for every corpus, scope, wiki and bound:  *)
(* verdicts are given for pages that were read, they stand until their     *)
(* batch is committed, the notes on record cite only what was retained and *)
(* all that was retained last, and nothing behind the cursor was skipped.  *)
(*                                                                         *)
(* BatchesInv says of runs, batches and pages that they are records, never *)
(* what their fields range over.  CoverInv adds what the pages of a batch  *)
(* hold; it rests on lemmas about sequences that are flattened, by         *)
(* induction over a set of numbers.                                        *)
(***************************************************************************)
EXTENDS MemoryBatches, SequenceTheorems, FiniteSetTheorems, WellFoundedInduction, TLAPS

RunShape(r) ==
  r = [scope |-> r.scope, completed |-> r.completed, format |-> r.format,
       next |-> r.next, batch |-> r.batch, last |-> r.last, wiki |-> r.wiki]

PageShape(page) ==
  page = [evidence |-> page.evidence, delivered |-> page.delivered, review |-> page.review]

BatchShape(batch) ==
  /\ batch = [id |-> batch.id, first |-> batch.first, last |-> batch.last,
              targets |-> batch.targets, before |-> batch.before, pages |-> batch.pages]
  /\ batch.pages = [p \in DOMAIN batch.pages |-> batch.pages[p]]
  /\ \A p \in DOMAIN batch.pages : PageShape(batch.pages[p])

Shapes ==
  /\ past = [covered |-> past.covered, kept |-> past.kept, latest |-> past.latest]
  /\ run # Nothing =>
       RunShape(run) /\ (run.batch # Nothing => BatchShape(run.batch))

Outstanding(r) == r # Nothing /\ r.batch # Nothing

Written(w) == \A p \in DOMAIN w : w[p] # Nothing

WikiWritten == Written(wiki) /\ (committing # Nothing => Written(committing))

\* A commit writes what it has accepted: the state cannot change before.
CommitReady ==
  committing # Nothing =>
    /\ Outstanding(run) /\ ReviewComplete(run.batch)
    /\ run.format = "wiki" => Acceptable(run.batch, committing)

\* A batch is compared with the notes on record.
BatchOnNotes ==
  Outstanding(run) /\ run.wiki # Nothing /\ run.format = "wiki"
    => run.batch.before = run.wiki

LatestOnNotes ==
  run # Nothing /\ run.last # Nothing /\ run.format = "wiki"
    => run.wiki # Nothing /\ past.latest \subseteq Citations(run.wiki)

\* The only delivered page without a verdict is the first one, and a client
\* that got its last reply has read it.
JudgedNext ==
  Outstanding(run) =>
    \A p \in Unreviewed(run.batch) :
      run.batch.pages[p].delivered =>
        /\ p \in First(run.batch)
        /\ seen # Nothing /\ ~ unanswered => seen = PageToken(run.batch, p)

BatchesInv ==
  /\ Shapes /\ WikiWritten /\ CommitReady /\ OnlyKeptCited
  /\ BatchOnNotes /\ LatestOnNotes /\ JudgedNext

\* The steps ReviewsJudged and ReviewsStand allow
JudgedStep ==
  run # Nothing /\ run.batch # Nothing =>
    \A p \in Unreviewed(run.batch) :
      /\ run'.batch # Nothing /\ run'.batch.id = run.batch.id
      /\ run'.batch.pages[p].review # Nothing
      => seen = PageToken(run.batch, p)

StandsStep ==
  run # Nothing /\ run.batch # Nothing =>
    \/ /\ run'.batch # Nothing
       /\ run'.batch.id = run.batch.id /\ run'.batch.before = run.batch.before
       /\ run'.next = run.next
       /\ \A p \in DOMAIN run.batch.pages \ Unreviewed(run.batch) :
            run'.batch.pages[p] = run.batch.pages[p]
    \/ /\ ReviewComplete(run.batch)
       /\ run'.batch = Nothing /\ run'.next = run.batch.last
       /\ run'.last = run.batch.id

(* Nothing is not a record: a state file without a batch is told from one    *)
(* with a batch.                                                             *)
NothingIsNoBatch == \A batch : BatchShape(batch) => batch # Nothing

-----------------------------------------------------------------------------
(* Pages of a batch.                                                         *)

\* `changed` is `batch` but for the delivery and the review of page p.
ChangedAt(batch, changed, p) ==
  /\ BatchShape(changed)
  /\ changed.id = batch.id /\ changed.before = batch.before
  /\ DOMAIN changed.pages = DOMAIN batch.pages
  /\ \A q \in DOMAIN batch.pages \ {p} : changed.pages[q] = batch.pages[q]

LEMMA PageWith ==
  ASSUME NEW page, PageShape(page), NEW value
  PROVE  [page EXCEPT !.delivered = value] =
           [evidence |-> page.evidence, delivered |-> value, review |-> page.review]
  BY DEF PageShape

LEMMA PageDelivered ==
  ASSUME NEW batch, BatchShape(batch), NEW p \in DOMAIN batch.pages
  PROVE  /\ ChangedAt(batch, MarkDelivered(batch, p), p)
         /\ MarkDelivered(batch, p).pages[p].review = batch.pages[p].review
  <1> DEFINE page == [batch.pages[p] EXCEPT !.delivered = TRUE]
             pages == [batch.pages EXCEPT ![p] = page]
  <1>1. PageShape(page) /\ page.review = batch.pages[p].review
    <2>1. PageShape(batch.pages[p])
      BY DEF BatchShape
    <2>2. page = [evidence |-> batch.pages[p].evidence, delivered |-> TRUE,
                  review |-> batch.pages[p].review]
      BY <2>1, PageWith
    <2>3. QED
      BY <2>2 DEF PageShape
  <1> HIDE DEF page
  <1>2. /\ DOMAIN pages = DOMAIN batch.pages /\ pages[p] = page
        /\ \A q \in DOMAIN batch.pages \ {p} : pages[q] = batch.pages[q]
        /\ pages = [q \in DOMAIN pages |-> pages[q]]
    BY DEF BatchShape
  <1>3. MarkDelivered(batch, p) = [batch EXCEPT !.pages = pages]
    BY DEF MarkDelivered, page
  <1> HIDE DEF pages
  <1>4. MarkDelivered(batch, p) =
          [id |-> batch.id, first |-> batch.first, last |-> batch.last,
           targets |-> batch.targets, before |-> batch.before, pages |-> pages]
    BY <1>3 DEF BatchShape
  <1>5. QED
    BY <1>1, <1>2, <1>4 DEF ChangedAt, BatchShape

\* A verdict is recorded.
Reviewed(batch, p, retained) == [batch EXCEPT !.pages[p].review = retained]

LEMMA PageReviewed ==
  ASSUME NEW batch, BatchShape(batch), NEW p \in DOMAIN batch.pages, NEW retained
  PROVE  /\ ChangedAt(batch, Reviewed(batch, p, retained), p)
         /\ Reviewed(batch, p, retained).pages[p].review = retained
  <1> DEFINE page == [batch.pages[p] EXCEPT !.review = retained]
             pages == [batch.pages EXCEPT ![p] = page]
             reviewed == Reviewed(batch, p, retained)
  <1>1. PageShape(page) /\ page.review = retained
    BY DEF BatchShape, PageShape
  <1> HIDE DEF page
  <1>2. /\ DOMAIN pages = DOMAIN batch.pages /\ pages[p] = page
        /\ \A q \in DOMAIN batch.pages \ {p} : pages[q] = batch.pages[q]
        /\ pages = [q \in DOMAIN pages |-> pages[q]]
    BY DEF BatchShape
  <1>3. reviewed = [batch EXCEPT !.pages = pages]
    BY DEF page, Reviewed
  <1> HIDE DEF pages, reviewed
  <1>4. reviewed =
          [id |-> batch.id, first |-> batch.first, last |-> batch.last,
           targets |-> batch.targets, before |-> batch.before, pages |-> pages]
    BY <1>3 DEF BatchShape
  <1>5. ChangedAt(batch, reviewed, p) /\ reviewed.pages[p].review = retained
    BY <1>1, <1>2, <1>4 DEF ChangedAt, BatchShape
  <1>6. QED
    BY <1>5 DEF reviewed

LEMMA NewBatchShape ==
  ASSUME NEW scope, NEW first, NEW last, NEW before
  PROVE  LET batch == NewBatch(scope, first, last, before)
         IN  /\ BatchShape(batch) /\ batch.before = before
             /\ \A p \in DOMAIN batch.pages : batch.pages[p].delivered = FALSE
  <1> DEFINE delivery == DeliveryPages(Evidence(scope, first, last))
             pages == [p \in DOMAIN delivery |->
                         [evidence |-> delivery[p], delivered |-> FALSE, review |-> Nothing]]
  <1>1. /\ pages = [p \in DOMAIN pages |-> pages[p]]
        /\ \A p \in DOMAIN pages : PageShape(pages[p]) /\ pages[p].delivered = FALSE
    <2> HIDE DEF delivery
    <2> QED
      BY DEF PageShape
  <1>2. NewBatch(scope, first, last, before) =
          [id |-> BatchId(scope, first, last), first |-> first, last |-> last,
           targets |-> TargetPages(scope, first, last), before |-> before, pages |-> pages]
    BY DEF NewBatch
  <1> HIDE DEF pages
  <1>3. QED
    BY <1>1, <1>2 DEF BatchShape

-----------------------------------------------------------------------------
(* memory next.                                                              *)

\* `r` is the state file, or a new one, before a batch is opened.
Continues(r) ==
  /\ RunShape(r)
  /\ Outstanding(run) => r = run
  /\ r.batch # Nothing => run # Nothing /\ r = run
  /\ r.last # Nothing => /\ run # Nothing /\ r.last = run.last
                         /\ r.format = "wiki" => run.format = "wiki"
  /\ r.wiki = IF run = Nothing THEN Nothing ELSE run.wiki

LEMMA BoundContinues ==
  ASSUME BatchesInv, NEW scope \in Scopes, MayBind(scope)
  PROVE  Continues(Bound(scope))
  <1>1. CASE run = Nothing
    <2>1. Bound(scope) = [scope |-> scope, completed |-> <<>>, format |-> "wiki", next |-> 0,
                          batch |-> Nothing, last |-> Nothing, wiki |-> Nothing]
      BY <1>1 DEF Bound, NewRun
    <2>2. QED
      BY <1>1, <2>1 DEF Continues, RunShape, Outstanding
  <1>2. CASE run # Nothing /\ run.scope = scope
    BY <1>2 DEF Bound, Continues, BatchesInv, Shapes
  <1>3. CASE run # Nothing /\ run.scope # scope
    <2>1. run.batch = Nothing
      BY <1>3 DEF MayBind, Finished
    <2>2. Bound(scope) = [scope |-> scope, completed |-> Append(run.completed, run.scope),
                          format |-> run.format, next |-> 0, batch |-> run.batch,
                          last |-> Nothing, wiki |-> run.wiki]
      BY <1>3 DEF Bound, BatchesInv, Shapes, RunShape
    <2>3. QED
      BY <1>3, <2>1, <2>2 DEF Continues, RunShape, Outstanding
  <1>4. QED
    BY <1>1, <1>2, <1>3

LEMMA FormattedContinues ==
  ASSUME NEW r, Continues(r), NEW format
  PROVE  Continues(Formatted(r, format))
  <1>1. CASE Formatted(r, format) = r
    BY <1>1
  <1>2. CASE Unformatted(r) /\ Formatted(r, format) = [r EXCEPT !.format = format]
    <2>1. r.batch = Nothing /\ r.last = Nothing
      BY <1>2 DEF Unformatted
    <2>2. [r EXCEPT !.format = format] =
            [scope |-> r.scope, completed |-> r.completed, format |-> format,
             next |-> r.next, batch |-> r.batch, last |-> r.last, wiki |-> r.wiki]
      BY DEF Continues, RunShape
    <2>3. ~ Outstanding(run)
      BY <2>1 DEF Continues, Outstanding
    <2>4. QED
      BY <1>2, <2>1, <2>2, <2>3 DEF Continues, RunShape
  <1>3. QED
    BY <1>1, <1>2 DEF Formatted

\* What next leaves alone
NextLeaves ==
  /\ Unlocked /\ UNCHANGED <<wiki, committing, seen, unanswered>>
  /\ past' = [past EXCEPT
       !.covered = IF run # Nothing /\ run'.scope # run.scope THEN <<>> ELSE @,
       !.kept = @ \cup Baseline(run')]

LEMMA HistoryNext ==
  ASSUME BatchesInv, NextLeaves
  PROVE  /\ past'.latest = past.latest
         /\ past'.kept = past.kept \cup Baseline(run')
         /\ (past = [covered |-> past.covered, kept |-> past.kept, latest |-> past.latest])'
  <1> DEFINE covered == IF run # Nothing /\ run'.scope # run.scope THEN <<>> ELSE past.covered
             kept == past.kept \cup Baseline(run')
  <1>1. past' = [past EXCEPT !.covered = covered, !.kept = kept]
    BY DEF NextLeaves
  <1> HIDE DEF covered, kept
  <1>2. past' = [covered |-> covered, kept |-> kept, latest |-> past.latest]
    BY <1>1 DEF BatchesInv, Shapes
  <1>3. QED
    BY <1>2 DEF kept

LEMMA ContinuesKeeps ==
  ASSUME BatchesInv, NextLeaves, Continues(run')
  PROVE  BatchesInv' /\ JudgedStep /\ (Outstanding(run) => run' = run)
  <1>1. Shapes'
    BY HistoryNext DEF BatchesInv, Shapes, Continues
  <1>2. WikiWritten' /\ CommitReady'
    BY DEF BatchesInv, WikiWritten, CommitReady, NextLeaves, Unlocked
  <1>3. OnlyKeptCited'
    BY HistoryNext DEF BatchesInv, OnlyKeptCited, Continues
  <1>4. BatchOnNotes' /\ JudgedNext'
    BY DEF BatchesInv, BatchOnNotes, JudgedNext, Continues, Outstanding, NextLeaves
  <1>5. LatestOnNotes'
    BY HistoryNext DEF BatchesInv, LatestOnNotes, Continues
  <1>6. JudgedStep
    BY DEF JudgedStep, Continues, Outstanding, Unreviewed
  <1>7. QED
    BY <1>1, <1>2, <1>3, <1>4, <1>5, <1>6 DEF BatchesInv, Continues

LEMMA OpenedKeeps ==
  ASSUME BatchesInv, NextLeaves, NEW r, Continues(r), NEW bytes, NEW messages,
         MayOpen(r, bytes), run' = Opened(r, bytes, messages)
  PROVE  BatchesInv' /\ JudgedStep /\ (Outstanding(run) => run' = run)
  <1>1. CASE r.batch # Nothing
    BY <1>1, ContinuesKeeps DEF Opened
  <1>2. ASSUME r.batch = Nothing PROVE ~ Outstanding(run)
    BY <1>2 DEF Continues, Outstanding
  <1>3. WikiWritten' /\ CommitReady'
    BY DEF BatchesInv, WikiWritten, CommitReady, NextLeaves, Unlocked
  <1>4. CASE r.batch = Nothing /\ Finished(r)
    <2> DEFINE given == IF r.wiki = Nothing THEN WikiBefore(r) ELSE r.wiki
    <2>1. run' = [r EXCEPT !.wiki = given]
      BY <1>4 DEF Opened
    <2> HIDE DEF given
    <2>2. run' = [scope |-> r.scope, completed |-> r.completed, format |-> r.format,
                  next |-> r.next, batch |-> r.batch, last |-> r.last, wiki |-> given]
      BY <2>1 DEF Continues, RunShape
    <2>3. Shapes'
      BY <1>4, <2>2, HistoryNext DEF Shapes, RunShape
    <2>4. OnlyKeptCited'
      <3>1. CASE r.wiki = Nothing
        BY <2>2, <3>1, HistoryNext DEF OnlyKeptCited, Continues, Baseline
      <3>2. CASE r.wiki # Nothing
        BY <2>2, <3>2, HistoryNext DEF given, BatchesInv, OnlyKeptCited, Continues
      <3>3. QED
        BY <3>1, <3>2
    <2>5. BatchOnNotes' /\ JudgedNext'
      BY <1>4, <2>2 DEF BatchOnNotes, JudgedNext, Outstanding
    <2>6. LatestOnNotes'
      BY <2>2, HistoryNext DEF given, BatchesInv, LatestOnNotes, Continues
    <2>7. QED
      BY <1>2, <1>3, <1>4, <2>3, <2>4, <2>5, <2>6 DEF BatchesInv, JudgedStep, Outstanding
  <1>5. CASE r.batch = Nothing /\ ~ Finished(r)
    <2> DEFINE last == BatchEnd(r.scope, r.next, bytes,
                                IF messages < BatchMessages THEN messages ELSE BatchMessages)
               batch == NewBatch(r.scope, r.next, last, WikiBefore(r))
    <2>1. run' = [r EXCEPT !.batch = batch]
      BY <1>5 DEF Opened
    <2> HIDE DEF last
    <2>2. /\ BatchShape(batch) /\ batch.before = WikiBefore(r)
          /\ \A p \in DOMAIN batch.pages : batch.pages[p].delivered = FALSE
      BY NewBatchShape
    <2> HIDE DEF batch
    <2>3. run' = [scope |-> r.scope, completed |-> r.completed, format |-> r.format,
                  next |-> r.next, batch |-> batch, last |-> r.last, wiki |-> r.wiki]
      BY <2>1 DEF Continues, RunShape
    <2>4. Shapes'
      BY <2>2, <2>3, HistoryNext DEF Shapes, RunShape
    <2>5. OnlyKeptCited'
      BY <2>3, HistoryNext DEF BatchesInv, OnlyKeptCited, Continues
    <2>6. BatchOnNotes'
      BY <1>5, <2>2, <2>3 DEF BatchOnNotes, WikiBefore, MayOpen, WikiUnchanged, ScansWiki
    <2>7. LatestOnNotes'
      BY <2>3, HistoryNext DEF BatchesInv, LatestOnNotes, Continues
    <2>8. JudgedNext'
      BY <2>2, <2>3 DEF JudgedNext, Unreviewed
    <2>9. QED
      BY <1>2, <1>3, <1>5, <2>4, <2>5, <2>6, <2>7, <2>8 DEF BatchesInv, JudgedStep, Outstanding
  <1>6. QED
    BY <1>1, <1>4, <1>5

LEMMA NextBatchKeeps ==
  ASSUME BatchesInv, NextBatch
  PROVE  BatchesInv' /\ JudgedStep /\ (Outstanding(run) => run' = run)
  <1>1. NextLeaves
    BY DEF NextBatch, NextLeaves
  <1>2. PICK scope \in Scopes, format \in Formats \cup {Unspecified},
             bytes \in TextBounds, messages \in MessageBounds :
          /\ MayBind(scope)
          /\ \/ run' = Bound(scope)
             \/ run' = Formatted(Bound(scope), format)
             \/ /\ MayOpen(Formatted(Bound(scope), format), bytes)
                /\ run' = Opened(Formatted(Bound(scope), format), bytes, messages)
    BY DEF NextBatch
  <1>3. Continues(Bound(scope)) /\ Continues(Formatted(Bound(scope), format))
    BY <1>2, BoundContinues, FormattedContinues
  <1>4. QED
    BY <1>1, <1>2, <1>3, ContinuesKeeps, OpenedKeeps

-----------------------------------------------------------------------------
(* memory page and memory acknowledge.                                       *)

\* One page of the outstanding batch changes, and nothing else.
LEMMA PageChange ==
  ASSUME BatchesInv, Outstanding(run), Unlocked, NEW p, NEW changed,
         ChangedAt(run.batch, changed, p),
         run' = [run EXCEPT !.batch = changed], UNCHANGED <<wiki, committing, past>>
  PROVE  /\ Shapes' /\ WikiWritten' /\ CommitReady' /\ OnlyKeptCited'
         /\ BatchOnNotes' /\ LatestOnNotes'
         /\ run'.batch = changed /\ run'.next = run.next
  <1>1. run' = [scope |-> run.scope, completed |-> run.completed, format |-> run.format,
                next |-> run.next, batch |-> changed, last |-> run.last, wiki |-> run.wiki]
    BY DEF BatchesInv, Shapes, RunShape, Outstanding
  <1>2. Shapes'
    BY <1>1 DEF BatchesInv, Shapes, RunShape, ChangedAt
  <1>3. WikiWritten' /\ CommitReady'
    BY DEF BatchesInv, WikiWritten, CommitReady, Unlocked
  <1>4. OnlyKeptCited' /\ LatestOnNotes'
    BY <1>1 DEF BatchesInv, OnlyKeptCited, LatestOnNotes, Outstanding
  <1>5. BatchOnNotes'
    BY <1>1 DEF BatchesInv, BatchOnNotes, Outstanding, ChangedAt
  <1>6. QED
    BY <1>1, <1>2, <1>3, <1>4, <1>5

LEMMA NextPageKeeps ==
  ASSUME BatchesInv, NEW answered \in BOOLEAN, NextPage(answered)
  PROVE  BatchesInv' /\ JudgedStep /\ (NothingIsNoBatch => StandsStep)
  <1>1. PICK p \in First(run.batch) :
          /\ run' = [run EXCEPT !.batch = MarkDelivered(run.batch, p)]
          /\ seen' = IF answered THEN PageToken(run.batch, p) ELSE seen
    BY DEF NextPage
  <1>2. Outstanding(run) /\ Unlocked /\ UNCHANGED <<wiki, committing, past>>
        /\ unanswered' = ~ answered
    BY DEF NextPage, Outstanding
  <1> DEFINE batch == run.batch
             changed == MarkDelivered(run.batch, p)
  <1>3. p \in Unreviewed(batch) /\ p \in DOMAIN batch.pages /\ BatchShape(batch)
    BY <1>2 DEF First, Unreviewed, BatchesInv, Shapes, Outstanding
  <1>4. ChangedAt(batch, changed, p) /\ changed.pages[p].review = batch.pages[p].review
    BY <1>3, PageDelivered
  <1> HIDE DEF changed
  <1>5. /\ Shapes' /\ WikiWritten' /\ CommitReady' /\ OnlyKeptCited'
        /\ BatchOnNotes' /\ LatestOnNotes'
        /\ run'.batch = changed /\ run'.next = run.next
    BY <1>1, <1>2, <1>4, PageChange DEF changed
  <1>6. Unreviewed(changed) = Unreviewed(batch) /\ First(changed) = First(batch)
    <2>1. Unreviewed(changed) = Unreviewed(batch)
      BY <1>4 DEF Unreviewed, ChangedAt
    <2>2. QED
      BY <2>1 DEF First
  <1>7. JudgedNext'
    <2> SUFFICES ASSUME NEW q \in Unreviewed(changed), changed.pages[q].delivered
                 PROVE  /\ q \in First(changed)
                        /\ seen' # Nothing /\ ~ unanswered' => seen' = PageToken(changed, q)
      BY <1>5 DEF JudgedNext
    <2>1. q = p
      <3> SUFFICES ASSUME q # p PROVE FALSE
        OBVIOUS
      <3>1. q \in DOMAIN batch.pages /\ batch.pages[q].delivered
        BY <1>4, <1>6 DEF ChangedAt, Unreviewed
      <3>2. q \in First(batch)
        BY <1>2, <1>6, <3>1 DEF BatchesInv, JudgedNext
      <3>3. QED
        BY <1>1, <3>2 DEF First
    <2>2. PageToken(changed, p) = PageToken(batch, p)
      BY <1>4 DEF PageToken, ChangedAt
    <2>3. QED
      BY <1>1, <1>2, <1>6, <2>1, <2>2
  <1>8. JudgedStep
    <2>1. \A q \in Unreviewed(batch) : changed.pages[q].review = Nothing
      BY <1>3, <1>4 DEF Unreviewed, ChangedAt
    <2>2. QED
      BY <1>5, <2>1 DEF JudgedStep
  <1>9. NothingIsNoBatch => StandsStep
    <2>1. \A q \in DOMAIN batch.pages \ Unreviewed(batch) : changed.pages[q] = batch.pages[q]
      BY <1>3, <1>4 DEF ChangedAt
    <2>2. NothingIsNoBatch => changed # Nothing
      BY <1>4 DEF NothingIsNoBatch, ChangedAt
    <2>3. QED
      BY <1>4, <1>5, <2>1, <2>2 DEF StandsStep, ChangedAt
  <1>10. QED
    BY <1>5, <1>7, <1>8, <1>9 DEF BatchesInv

LEMMA AcknowledgeKeeps ==
  ASSUME BatchesInv, AcknowledgePage
  PROVE  BatchesInv' /\ JudgedStep /\ (NothingIsNoBatch => StandsStep)
  <1> DEFINE batch == run.batch
  <1>1. /\ Outstanding(run) /\ Unlocked /\ seen # Nothing
        /\ UNCHANGED <<wiki, committing, past, seen, unanswered>>
    BY DEF AcknowledgePage, Outstanding
  <1>a. PICK tokens \in {{seen}} \cup (IF unanswered THEN {} ELSE {{}}) :
          \E p \in Selected(batch, tokens) :
            \E retained \in SUBSET Aliases(batch.pages[p].evidence) :
              /\ Reviewable(batch, p, retained)
              /\ run' = [run EXCEPT !.batch.pages[p].review = retained]
    BY DEF AcknowledgePage
  <1>b. PICK p \in Selected(batch, tokens) :
          \E retained \in SUBSET Aliases(batch.pages[p].evidence) :
            /\ Reviewable(batch, p, retained)
            /\ run' = [run EXCEPT !.batch.pages[p].review = retained]
    BY <1>a
  <1>2. PICK retained \in SUBSET Aliases(batch.pages[p].evidence) :
          /\ Reviewable(batch, p, retained)
          /\ run' = [run EXCEPT !.batch.pages[p].review = retained]
    BY <1>b
  <1> DEFINE changed == Reviewed(batch, p, retained)
  <1>3. /\ p \in First(batch) /\ p \in Unreviewed(batch) /\ p \in DOMAIN batch.pages
        /\ batch.pages[p].delivered /\ BatchShape(batch)
    BY <1>1, <1>2 DEF Reviewable, First, Unreviewed, BatchesInv, Shapes, Outstanding
  <1>4. ChangedAt(batch, changed, p) /\ changed.pages[p].review = retained
    BY <1>3, PageReviewed
  <1>5. run' = [run EXCEPT !.batch = changed]
    BY <1>2 DEF Reviewed
  <1> HIDE DEF changed
  <1>6. /\ Shapes' /\ WikiWritten' /\ CommitReady' /\ OnlyKeptCited'
        /\ BatchOnNotes' /\ LatestOnNotes'
        /\ run'.batch = changed /\ run'.next = run.next
    BY <1>1, <1>4, <1>5, PageChange
  <1>7. seen = PageToken(batch, p)
    <2>1. CASE tokens = {seen}
      BY <1>2, <2>1 DEF Selected
    <2>2. CASE ~ unanswered
      BY <1>1, <1>3, <2>2 DEF BatchesInv, JudgedNext
    <2>3. QED
      BY <1>2, <2>1, <2>2
  <1>8. JudgedNext'
    <2> SUFFICES ASSUME NEW q \in Unreviewed(changed), changed.pages[q].delivered
                 PROVE  /\ q \in First(changed)
                        /\ seen' # Nothing /\ ~ unanswered' => seen' = PageToken(changed, q)
      BY <1>6 DEF JudgedNext
    <2>1. q = p
      <3> SUFFICES ASSUME q # p PROVE FALSE
        OBVIOUS
      <3>1. q \in Unreviewed(batch) /\ batch.pages[q].delivered
        BY <1>4 DEF ChangedAt, Unreviewed
      <3>2. q \in First(batch)
        BY <1>1, <3>1 DEF BatchesInv, JudgedNext
      <3>3. QED
        BY <1>3, <3>2 DEF First
    <2>2. Unreviewed(changed) = Unreviewed(batch)
      BY <1>3, <1>4, <2>1 DEF Unreviewed, ChangedAt
    <2>3. First(changed) = First(batch)
      BY <2>2 DEF First
    <2>4. PageToken(changed, p) = PageToken(batch, p)
      BY <1>4 DEF PageToken, ChangedAt
    <2>5. QED
      BY <1>1, <1>3, <1>7, <2>1, <2>3, <2>4
  <1>9. JudgedStep
    <2>1. \A q \in Unreviewed(batch) \ {p} : changed.pages[q].review = Nothing
      BY <1>4 DEF Unreviewed, ChangedAt
    <2>2. QED
      BY <1>6, <1>7, <2>1 DEF JudgedStep
  <1>10. NothingIsNoBatch => StandsStep
    <2>1. \A q \in DOMAIN batch.pages \ Unreviewed(batch) : changed.pages[q] = batch.pages[q]
      BY <1>3, <1>4 DEF ChangedAt
    <2>2. NothingIsNoBatch => changed # Nothing
      BY <1>4 DEF NothingIsNoBatch, ChangedAt
    <2>3. QED
      BY <1>4, <1>6, <2>1, <2>2 DEF StandsStep, ChangedAt
  <1>11. QED
    BY <1>6, <1>8, <1>9, <1>10 DEF BatchesInv

-----------------------------------------------------------------------------
(* memory commit.                                                            *)

\* An accepted wiki cites what its batch retained, and beyond that only what
\* the wiki before it cited.
LEMMA AcceptedCitations ==
  ASSUME NEW batch, NEW current, Written(current), Acceptable(batch, current)
  PROVE  /\ Retained(batch) \subseteq Citations(current)
         /\ Citations(current) \subseteq Retained(batch) \cup
              (IF batch.before = Nothing THEN {} ELSE Citations(batch.before))
  <1>1. CASE ValidNoUpdate(batch, current)
    BY <1>1 DEF ValidNoUpdate
  <1>2. CASE ValidUpdate(batch, current)
    <2>1. Retained(batch) \subseteq Citations(current)
      BY <1>2 DEF ValidUpdate
    <2>2. ASSUME NEW p \in DOMAIN current
          PROVE  Cites(current[p]) \subseteq Retained(batch) \cup
                   (IF batch.before = Nothing THEN {} ELSE Citations(batch.before))
      <3>1. Before(batch, p) # Nothing =>
              /\ batch.before # Nothing
              /\ Cites(Before(batch, p)) \subseteq Citations(batch.before)
        BY DEF Before, Citations
      <3>2. CASE p \in ChangedPages(batch, current)
        BY <1>2, <3>1, <3>2 DEF ValidUpdate, MayCite
      <3>3. CASE p \notin ChangedPages(batch, current)
        BY <2>2, <3>1, <3>3 DEF ChangedPages, Written
      <3>4. QED
        BY <3>2, <3>3
    <2>3. QED
      BY <2>1, <2>2 DEF Citations
  <1>3. QED
    BY <1>1, <1>2 DEF Acceptable

LEMMA CommitWriteKeeps ==
  ASSUME BatchesInv, CommitWrite
  PROVE  BatchesInv' /\ JudgedStep /\ StandsStep
  <1> DEFINE given == IF run.format = "wiki" THEN committing ELSE run.wiki
             began == IF run.wiki = Nothing /\ run.batch.before # Nothing
                      THEN Citations(run.batch.before) ELSE {}
             covered == past.covered \o FlattenSeq(ReviewedEvidence(run.batch))
  <1>1. /\ committing # Nothing /\ committing' = Nothing /\ run' = Committed(run)
        /\ past' = [covered |-> covered,
                    kept |-> past.kept \cup Retained(run.batch) \cup began,
                    latest |-> Retained(run.batch)]
        /\ UNCHANGED <<wiki, seen, unanswered>>
    BY DEF CommitWrite
  <1>2. /\ Outstanding(run) /\ ReviewComplete(run.batch) /\ Written(committing)
        /\ run.format = "wiki" => Acceptable(run.batch, committing)
    BY <1>1 DEF BatchesInv, CommitReady, WikiWritten
  <1>3. Committed(run) = [run EXCEPT !.next = run.batch.last, !.batch = Nothing,
                                     !.last = run.batch.id, !.wiki = given]
    BY DEF Committed
  <1> HIDE DEF covered, given
  <1>4. run' = [scope |-> run.scope, completed |-> run.completed, format |-> run.format,
                next |-> run.batch.last, batch |-> Nothing, last |-> run.batch.id,
                wiki |-> given]
    BY <1>1, <1>2, <1>3 DEF BatchesInv, Shapes, RunShape, Outstanding
  <1>5. Shapes' /\ WikiWritten' /\ CommitReady' /\ BatchOnNotes' /\ JudgedNext'
    BY <1>1, <1>4 DEF Shapes, RunShape, BatchesInv, WikiWritten, CommitReady, BatchOnNotes,
       JudgedNext, Outstanding
  <1>6. ASSUME run.format = "wiki" PROVE OnlyKeptCited' /\ LatestOnNotes'
    <2>1. given = committing
      BY <1>6 DEF given
    <2>2. /\ Retained(run.batch) \subseteq Citations(committing)
          /\ Citations(committing) \subseteq Retained(run.batch) \cup
               (IF run.batch.before = Nothing THEN {} ELSE Citations(run.batch.before))
      BY <1>2, <1>6, AcceptedCitations
    <2>3. run.batch.before # Nothing => Citations(run.batch.before) \subseteq past.kept \cup began
      BY <1>2, <1>6 DEF BatchesInv, OnlyKeptCited, BatchOnNotes, Outstanding
    <2> HIDE DEF began
    <2>4. QED
      BY <1>1, <1>4, <2>1, <2>2, <2>3 DEF OnlyKeptCited, LatestOnNotes
  <1>7. ASSUME run.format # "wiki" PROVE OnlyKeptCited' /\ LatestOnNotes'
    <2>1. given = run.wiki
      BY <1>7 DEF given
    <2>2. past.kept \subseteq past'.kept
      BY <1>1
    <2>3. QED
      BY <1>2, <1>4, <1>7, <2>1, <2>2 DEF BatchesInv, OnlyKeptCited, LatestOnNotes, Outstanding
  <1>8. OnlyKeptCited' /\ LatestOnNotes'
    BY <1>6, <1>7
  <1>9. JudgedStep /\ StandsStep
    BY <1>2, <1>4 DEF JudgedStep, StandsStep
  <1>10. QED
    BY <1>5, <1>8, <1>9 DEF BatchesInv

LEMMA CommitScanKeeps ==
  ASSUME BatchesInv, CommitScan
  PROVE  BatchesInv'
  <1>1. /\ committing' = wiki /\ UNCHANGED <<run, wiki, seen, unanswered, past>>
        /\ Outstanding(run) /\ ReviewComplete(run.batch)
        /\ run.format = "wiki" => Acceptable(run.batch, wiki)
    BY DEF CommitScan, Outstanding
  <1>2. CommitReady' /\ WikiWritten'
    BY <1>1 DEF CommitReady, BatchesInv, WikiWritten
  <1>3. QED
    BY <1>1, <1>2 DEF BatchesInv, Shapes, OnlyKeptCited, BatchOnNotes, LatestOnNotes, JudgedNext

LEMMA EditKeeps ==
  ASSUME BatchesInv, EditWiki
  PROVE  BatchesInv'
  <1>1. UNCHANGED <<run, committing, seen, unanswered, past>>
    BY DEF EditWiki
  <1>2. Written(wiki')
    BY WikiAssumption DEF EditWiki, Written, BatchesInv, WikiWritten
  <1>3. QED
    BY <1>1, <1>2 DEF BatchesInv, Shapes, WikiWritten, CommitReady, OnlyKeptCited,
       BatchOnNotes, LatestOnNotes, JudgedNext

-----------------------------------------------------------------------------
LEMMA InitBatches == Init => BatchesInv
  <1> SUFFICES ASSUME Init PROVE BatchesInv
    OBVIOUS
  <1>1. /\ run = Nothing /\ committing = Nothing /\ wiki \in FirstWikis
        /\ past = [covered |-> <<>>, kept |-> {}, latest |-> {}]
    BY DEF Init
  <1>2. Shapes
    BY <1>1 DEF Shapes
  <1>3. WikiWritten
    BY <1>1, WikiAssumption DEF WikiWritten, Written
  <1>4. QED
    BY <1>1, <1>2, <1>3 DEF BatchesInv, CommitReady, OnlyKeptCited, BatchOnNotes,
       LatestOnNotes, JudgedNext, Outstanding

\* A step that leaves the run alone judges nothing.
LEMMA RunKept ==
  ASSUME UNCHANGED run
  PROVE  JudgedStep /\ StandsStep
  BY DEF JudgedStep, StandsStep, Unreviewed

LEMMA BatchesStepKeeps ==
  ASSUME BatchesInv, [Next]_vars
  PROVE  BatchesInv' /\ JudgedStep /\ (NothingIsNoBatch => StandsStep)
  <1>1. CASE UNCHANGED vars
    BY <1>1, RunKept DEF vars, BatchesInv, Shapes, WikiWritten, CommitReady, OnlyKeptCited,
       BatchOnNotes, LatestOnNotes, JudgedNext
  <1>2. CASE NextBatch
    <2>1. BatchesInv' /\ JudgedStep /\ (Outstanding(run) => run' = run)
      BY <1>2, NextBatchKeeps
    <2>2. StandsStep
      BY <2>1 DEF StandsStep, Outstanding
    <2>3. QED
      BY <2>1, <2>2
  <1>3. CASE \E answered \in BOOLEAN : NextPage(answered)
    BY <1>3, NextPageKeeps
  <1>4. CASE AcknowledgePage
    BY <1>4, AcknowledgeKeeps
  <1>5. CASE ClientRestart
    <2>1. UNCHANGED <<run, wiki, committing, past>> /\ seen' = Nothing
      BY <1>5 DEF ClientRestart
    <2>2. BatchesInv'
      BY <2>1 DEF BatchesInv, Shapes, WikiWritten, CommitReady, OnlyKeptCited,
         BatchOnNotes, LatestOnNotes, JudgedNext
    <2>3. QED
      BY <2>1, <2>2, RunKept
  <1>6. CASE CommitScan
    BY <1>6, CommitScanKeeps, RunKept DEF CommitScan
  <1>7. CASE CommitWrite
    BY <1>7, CommitWriteKeeps
  <1>8. CASE CommitStops
    <2>1. UNCHANGED <<run, wiki, seen, unanswered, past>> /\ committing' = Nothing
      BY <1>8 DEF CommitStops
    <2>2. BatchesInv'
      BY <2>1 DEF BatchesInv, Shapes, WikiWritten, CommitReady, OnlyKeptCited,
         BatchOnNotes, LatestOnNotes, JudgedNext
    <2>3. QED
      BY <2>1, <2>2, RunKept
  <1>9. CASE EditWiki
    BY <1>9, EditKeeps, RunKept DEF EditWiki
  <1>10. QED
    BY <1>1, <1>2, <1>3, <1>4, <1>5, <1>6, <1>7, <1>8, <1>9 DEF Next

LEMMA BatchesInvariance == Spec => []BatchesInv
  <1>1. BatchesInv /\ [Next]_vars => BatchesInv'
    BY BatchesStepKeeps
  <1>2. QED
    BY InitBatches, <1>1, PTL DEF Spec

(* The notes on record cite nothing but what some review retained and what   *)
(* the first notes cited, although anyone edits the wiki during a commit.    *)
THEOREM OnlyKeptCitedHolds == Spec => []OnlyKeptCited
  <1>1. BatchesInv => OnlyKeptCited
    BY DEF BatchesInv
  <1>2. QED
    BY BatchesInvariance, <1>1, PTL

(* The notes on record cite all that the batch committed last retained.      *)
THEOREM LatestKeptCitedHolds == Spec => []LatestKeptCited
  <1>1. BatchesInv => LatestKeptCited
    BY DEF BatchesInv, LatestOnNotes, LatestKeptCited
  <1>2. QED
    BY BatchesInvariance, <1>1, PTL

(* A verdict is recorded only for the page the client read last, whether it  *)
(* names it or says "current", and whichever replies were lost.              *)
THEOREM ReviewsJudgedHolds == Spec => ReviewsJudged
  <1>1. BatchesInv /\ [Next]_vars => JudgedStep
    BY BatchesStepKeeps
  <1>2. ReviewsJudged <=> [][JudgedStep]_vars
    BY PTL DEF ReviewsJudged, JudgedStep
  <1>3. QED
    BY BatchesInvariance, <1>1, <1>2, PTL DEF Spec

(* A batch and its verdicts stand until that batch is committed, which takes *)
(* a verdict for every page.                                                 *)
THEOREM ReviewsStandHolds ==
  ASSUME NothingIsNoBatch
  PROVE  Spec => ReviewsStand
  <1>1. BatchesInv /\ [Next]_vars => StandsStep
    BY BatchesStepKeeps
  <1>2. ReviewsStand <=> [][StandsStep]_vars
    BY PTL DEF ReviewsStand, StandsStep
  <1>3. QED
    BY BatchesInvariance, <1>1, <1>2, PTL DEF Spec

-----------------------------------------------------------------------------
(* Sequences of sequences, flattened: what the messages of units, the pages  *)
(* of a batch and the positions of a bitmap are.                             *)

LEMMA LeastNumber ==
  ASSUME NEW T \in SUBSET Nat, T # {}
  PROVE  \E m \in T : \A k \in T : m <= k
  <1> DEFINE initials == {0 .. n : n \in T}
  <1>1. initials # {} /\ initials \subseteq FiniteSubsetsOf(Nat)
    <2>1. \A n \in T : 0 .. n \in SUBSET Nat /\ IsFiniteSet(0 .. n)
      BY FS_Interval
    <2>2. QED
      BY <2>1 DEF FiniteSubsetsOf
  <1>2. PICK least \in initials :
          \A other \in initials : <<other, least>> \notin StrictSubsetOrdering(Nat)
    <2> HIDE DEF initials
    <2> QED
      BY <1>1, FS_StrictSubsetOrderingWellFounded, WFMin
  <1>3. PICK m \in T : least = 0 .. m
    OBVIOUS
  <1>4. ASSUME NEW k \in T, k < m
        PROVE  FALSE
    <2>1. 0 .. k \subseteq 0 .. m /\ m \in 0 .. m /\ m \notin 0 .. k
      BY <1>4
    <2>2. <<0 .. k, 0 .. m>> \in StrictSubsetOrdering(Nat)
      BY <2>1 DEF StrictSubsetOrdering
    <2>3. QED
      BY <1>2, <1>3, <2>2
  <1>5. QED
    BY <1>4

(* Induction, over a set of numbers.                                         *)
LEMMA NumberInduction ==
  ASSUME NEW T \in SUBSET Nat, 0 \in T, \A n \in T : n + 1 \in T
  PROVE  \A n \in Nat : n \in T
  <1> SUFFICES ASSUME Nat \ T # {} PROVE FALSE
    OBVIOUS
  <1>1. PICK m \in Nat \ T : \A k \in Nat \ T : m <= k
    <2> DEFINE others == Nat \ T
    <2>1. others \in SUBSET Nat /\ others # {}
      OBVIOUS
    <2> HIDE DEF others
    <2>2. \E m \in others : \A k \in others : m <= k
      BY <2>1, LeastNumber
    <2>3. QED
      BY <2>2 DEF others
  <1>2. m # 0 /\ m - 1 \in Nat
    OBVIOUS
  <1>3. m - 1 \in T
    BY <1>1, <1>2
  <1>4. (m - 1) + 1 \in T
    BY <1>3
  <1>5. QED
    BY <1>4

\* The function FlattenSeq defines on the positions of a sequence
Flattens(f, ss) ==
  f = [i \in 1 .. Len(ss) |-> IF i = 1 THEN ss[i] ELSE f[i - 1] \o ss[i]]

LEMMA FlattensAt ==
  ASSUME NEW ss, NEW f, Flattens(f, ss), NEW i \in 1 .. Len(ss)
  PROVE  f[i] = IF i = 1 THEN ss[i] ELSE f[i - 1] \o ss[i]
  <1> DEFINE g == [j \in 1 .. Len(ss) |-> IF j = 1 THEN ss[j] ELSE f[j - 1] \o ss[j]]
  <1>1. g[i] = IF i = 1 THEN ss[i] ELSE f[i - 1] \o ss[i]
    OBVIOUS
  <1>2. f = g
    BY DEF Flattens
  <1> HIDE DEF g
  <1>3. QED
    BY <1>1, <1>2

LEMMA FlattensExists ==
  ASSUME NEW S, NEW ss \in Seq(Seq(S))
  PROVE  \E f \in [1 .. Len(ss) -> Seq(S)] : Flattens(f, ss)
  <1> DEFINE Upto(f, n) ==
               /\ f \in [1 .. n -> Seq(S)]
               /\ \A i \in 1 .. n : f[i] = IF i = 1 THEN ss[i] ELSE f[i - 1] \o ss[i]
             T == {n \in Nat : n <= Len(ss) => \E f : Upto(f, n)}
  <1>1. 0 \in T
    <2>1. Upto([i \in 1 .. 0 |-> <<>>], 0)
      OBVIOUS
    <2> HIDE DEF Upto
    <2>2. QED
      BY <2>1
  <1>2. ASSUME NEW n \in T PROVE n + 1 \in T
    <2> HIDE DEF Upto
    <2> SUFFICES ASSUME n + 1 <= Len(ss) PROVE \E f : Upto(f, n + 1)
      OBVIOUS
    <2>1. n \in Nat /\ Len(ss) \in Nat /\ n + 1 \in 1 .. Len(ss) /\ ss[n + 1] \in Seq(S)
      BY LenProperties
    <2>2. PICK f : Upto(f, n)
      BY <2>1
    <2> USE DEF Upto
    <2> DEFINE last == IF n = 0 THEN ss[1] ELSE f[n] \o ss[n + 1]
               g == [i \in 1 .. n + 1 |-> IF i = n + 1 THEN last ELSE f[i]]
    <2>3. last \in Seq(S)
      BY <2>1, <2>2, ConcatProperties
    <2>4. g \in [1 .. n + 1 -> Seq(S)]
      <3> HIDE DEF last
      <3> QED
        BY <2>1, <2>2, <2>3
    <2>5. \A i \in 1 .. n + 1 : g[i] = IF i = 1 THEN ss[i] ELSE g[i - 1] \o ss[i]
      <3> TAKE i \in 1 .. n + 1
      <3>1. CASE i = n + 1
        BY <2>1, <3>1
      <3>2. CASE i # n + 1
        <4>1. i \in 1 .. n /\ g[i] = f[i] /\ (i # 1 => i - 1 \in 1 .. n /\ g[i - 1] = f[i - 1])
          BY <2>1, <3>2
        <4> HIDE DEF g
        <4>2. QED
          BY <2>2, <4>1
      <3>3. QED
        BY <3>1, <3>2
    <2>6. QED
      BY <2>4, <2>5
  <1>3. Len(ss) \in Nat
    BY LenProperties
  <1> HIDE DEF Upto
  <1>4. \A n \in Nat : n \in T
    <2>1. T \in SUBSET Nat
      OBVIOUS
    <2> HIDE DEF T
    <2>2. QED
      BY <1>1, <1>2, <2>1, NumberInduction
  <1>5. PICK f : Upto(f, Len(ss))
    BY <1>3, <1>4
  <1>6. QED
    BY <1>3, <1>5 DEF Upto, Flattens

Agree(ss, tt, n) ==
  /\ n \in Nat /\ Len(ss) \in Nat /\ Len(tt) \in Nat /\ n <= Len(ss) /\ n <= Len(tt)
  /\ \A i \in 1 .. n : ss[i] = tt[i]

LEMMA FlattensAgree ==
  ASSUME NEW ss, NEW tt, NEW f, NEW g, Flattens(f, ss), Flattens(g, tt),
         NEW n, Agree(ss, tt, n)
  PROVE  \A i \in 1 .. n : f[i] = g[i]
  <1> DEFINE T == {k \in Nat : k \in 1 .. n => f[k] = g[k]}
  <1>1. \A k \in 1 .. n : /\ f[k] = IF k = 1 THEN ss[k] ELSE f[k - 1] \o ss[k]
                          /\ g[k] = IF k = 1 THEN tt[k] ELSE g[k - 1] \o tt[k]
    <2> TAKE k \in 1 .. n
    <2>1. k \in 1 .. Len(ss) /\ k \in 1 .. Len(tt)
      BY DEF Agree
    <2>2. QED
      BY <2>1, FlattensAt
  <1>2. 0 \in T
    OBVIOUS
  <1>3. ASSUME NEW k \in T PROVE k + 1 \in T
    <2> SUFFICES ASSUME k + 1 \in 1 .. n PROVE f[k + 1] = g[k + 1]
      OBVIOUS
    <2>1. CASE k = 0
      BY <1>1, <2>1 DEF Agree
    <2>2. CASE k # 0
      <3>1. k \in 1 .. n /\ f[k] = g[k] /\ k + 1 # 1 /\ (k + 1) - 1 = k
        BY <2>2 DEF Agree
      <3>2. f[k + 1] = f[k] \o ss[k + 1] /\ g[k + 1] = g[k] \o tt[k + 1]
        BY <1>1, <3>1
      <3>3. QED
        BY <3>1, <3>2 DEF Agree
    <2>3. QED
      BY <2>1, <2>2
  <1>4. \A k \in Nat : k \in T
    <2>1. T \in SUBSET Nat
      OBVIOUS
    <2> HIDE DEF T
    <2>2. QED
      BY <1>2, <1>3, <2>1, NumberInduction
  <1>5. QED
    BY <1>4 DEF Agree

LEMMA FlattenIs ==
  ASSUME NEW S, NEW ss \in Seq(Seq(S)), NEW f, Flattens(f, ss)
  PROVE  FlattenSeq(ss) = IF Len(ss) = 0 THEN <<>> ELSE f[Len(ss)]
  <1> DEFINE g == CHOOSE h : Flattens(h, ss)
  <1>1. FlattenSeq(ss) = IF Len(ss) = 0 THEN ss ELSE g[Len(ss)]
    BY DEF FlattenSeq, Flattens
  <1>2. Flattens(g, ss)
    OBVIOUS
  <1> HIDE DEF g
  <1>3. Len(ss) \in Nat /\ (Len(ss) = 0 => ss = <<>>)
    BY LenProperties, EmptySeq
  <1>4. \A i \in 1 .. Len(ss) : f[i] = g[i]
    <2>1. Agree(ss, ss, Len(ss))
      BY <1>3 DEF Agree
    <2>2. QED
      BY <1>2, <2>1, FlattensAgree
  <1>5. QED
    BY <1>1, <1>3, <1>4

LEMMA FlattenType ==
  ASSUME NEW S, NEW ss \in Seq(Seq(S))
  PROVE  FlattenSeq(ss) \in Seq(S) /\ (Len(ss) = 0 => FlattenSeq(ss) = <<>>)
  <1>1. PICK f \in [1 .. Len(ss) -> Seq(S)] : Flattens(f, ss)
    BY FlattensExists
  <1>2. FlattenSeq(ss) = IF Len(ss) = 0 THEN <<>> ELSE f[Len(ss)]
    BY <1>1, FlattenIs
  <1>3. QED
    BY <1>1, <1>2, LenProperties, EmptySeq

(* One more sequence.                                                        *)
LEMMA FlattenMore ==
  ASSUME NEW S, NEW ss \in Seq(Seq(S)), NEW tt \in Seq(Seq(S)),
         Len(tt) = Len(ss) + 1, \A i \in 1 .. Len(ss) : ss[i] = tt[i]
  PROVE  FlattenSeq(tt) = FlattenSeq(ss) \o tt[Len(tt)]
  <1> DEFINE n == Len(ss)
  <1>1. PICK f \in [1 .. Len(ss) -> Seq(S)] : Flattens(f, ss)
    BY FlattensExists
  <1>2. PICK g \in [1 .. Len(tt) -> Seq(S)] : Flattens(g, tt)
    BY FlattensExists
  <1>3. n \in Nat /\ Len(tt) = n + 1 /\ tt[n + 1] \in Seq(S)
    BY LenProperties
  <1>4. \A i \in 1 .. n : f[i] = g[i]
    <2>1. Agree(ss, tt, n)
      BY <1>3 DEF Agree
    <2> HIDE DEF n
    <2>2. Flattens(f, ss) /\ Flattens(g, tt)
      BY <1>1, <1>2
    <2>3. QED
      BY <2>1, <2>2, FlattensAgree
  <1>5. FlattenSeq(tt) = g[n + 1]
    BY <1>2, <1>3, FlattenIs
  <1>6. FlattenSeq(ss) = IF n = 0 THEN <<>> ELSE f[n]
    BY <1>1, FlattenIs
  <1>7. g[n + 1] = IF n = 0 THEN tt[n + 1] ELSE g[n] \o tt[n + 1]
    <2>1. PICK i \in 1 .. Len(tt) : i = n + 1
      BY <1>3
    <2>2. g[i] = IF i = 1 THEN tt[i] ELSE g[i - 1] \o tt[i]
      BY <1>2, FlattensAt
    <2>3. i - 1 = n /\ (i = 1 <=> n = 0)
      BY <1>3, <2>1
    <2>4. QED
      BY <2>1, <2>2, <2>3
  <1>8. <<>> \o tt[n + 1] = tt[n + 1]
    BY <1>3, ConcatEmptySeq
  <1> HIDE DEF n
  <1>9. n # 0 => f[n] = g[n]
    BY <1>3, <1>4
  <1>10. FlattenSeq(tt) = FlattenSeq(ss) \o tt[n + 1]
    BY <1>5, <1>6, <1>7, <1>8, <1>9
  <1>11. QED
    BY <1>3, <1>10

\* The first n of a sequence
Part(ss, n) == SubSeq(ss, 1, n)

LEMMA PartFacts ==
  ASSUME NEW S, NEW ss \in Seq(Seq(S))
  PROVE  /\ FlattenSeq(Part(ss, 0)) = <<>> /\ Part(ss, Len(ss)) = ss
         /\ \A n \in 0 .. Len(ss) : FlattenSeq(Part(ss, n)) \in Seq(S)
         /\ \A n \in 0 .. Len(ss) - 1 :
              FlattenSeq(Part(ss, n + 1)) = FlattenSeq(Part(ss, n)) \o ss[n + 1]
  <1>1. /\ Len(ss) \in Nat
        /\ \A n \in 0 .. Len(ss) :
             /\ Part(ss, n) \in Seq(Seq(S)) /\ Len(Part(ss, n)) = n
             /\ \A i \in 1 .. n : Part(ss, n)[i] = ss[i]
    BY LenProperties, SubSeqProperties DEF Part
  <1>2. Part(ss, Len(ss)) = ss
    BY SubSeqFull DEF Part
  <1>3. \A n \in 0 .. Len(ss) : FlattenSeq(Part(ss, n)) \in Seq(S)
                               /\ (n = 0 => FlattenSeq(Part(ss, n)) = <<>>)
    BY <1>1, FlattenType
  <1>4. ASSUME NEW n \in 0 .. Len(ss) - 1
        PROVE  FlattenSeq(Part(ss, n + 1)) = FlattenSeq(Part(ss, n)) \o ss[n + 1]
    <2>1. n \in 0 .. Len(ss) /\ n + 1 \in 0 .. Len(ss) /\ n \in Nat
      BY <1>1
    <2> DEFINE p == Part(ss, n)  q == Part(ss, n + 1)
    <2>2. /\ p \in Seq(Seq(S)) /\ q \in Seq(Seq(S)) /\ Len(p) = n /\ Len(q) = n + 1
          /\ \A i \in 1 .. n : p[i] = q[i]
          /\ q[n + 1] = ss[n + 1]
      BY <1>1, <2>1
    <2> HIDE DEF p, q
    <2>3. FlattenSeq(q) = FlattenSeq(p) \o q[Len(q)]
      BY <2>1, <2>2, FlattenMore
    <2>4. QED
      BY <2>2, <2>3 DEF p, q
  <1>5. 0 \in 0 .. Len(ss)
    BY <1>1
  <1>6. QED
    BY <1>2, <1>3, <1>4, <1>5

(* Flattening goes through concatenation.                                    *)
LEMMA FlattenSplit ==
  ASSUME NEW S, NEW ss \in Seq(Seq(S)), NEW a \in 0 .. Len(ss)
  PROVE  FlattenSeq(ss) =
           FlattenSeq(SubSeq(ss, 1, a)) \o FlattenSeq(SubSeq(ss, a + 1, Len(ss)))
  <1> DEFINE tt == SubSeq(ss, a + 1, Len(ss))
             head == FlattenSeq(Part(ss, a))
             Splits(k) == FlattenSeq(Part(ss, a + k)) = head \o FlattenSeq(Part(tt, k))
             T == {k \in Nat : k <= Len(tt) => Splits(k)}
  <1>1. /\ a \in Nat /\ Len(ss) \in Nat /\ Len(tt) = Len(ss) - a /\ tt \in Seq(Seq(S))
        /\ \A i \in 1 .. Len(tt) : tt[i] = ss[a + i]
    <2>1. Len(ss) \in Nat /\ a \in Nat /\ \A i \in a + 1 .. Len(ss) : ss[i] \in Seq(S)
      BY LenProperties
    <2>2. /\ tt \in Seq(Seq(S))
          /\ Len(tt) = IF a + 1 <= Len(ss) THEN Len(ss) - (a + 1) + 1 ELSE 0
          /\ \A i \in 1 .. Len(ss) - (a + 1) + 1 : tt[i] = ss[(a + 1) + i - 1]
      BY <2>1, SubSeqProperties
    <2> HIDE DEF tt
    <2>3. QED
      BY <2>1, <2>2
  <1> HIDE DEF tt
  <1>2. head \in Seq(S)
    BY PartFacts
  <1>3. 0 \in T
    <2>1. head \o <<>> = head
      BY <1>2, ConcatEmptySeq
    <2> HIDE DEF head
    <2>2. FlattenSeq(Part(tt, 0)) = <<>> /\ a + 0 = a
      BY <1>1, PartFacts
    <2>3. QED
      BY <2>1, <2>2 DEF head
  <1>4. ASSUME NEW k \in T PROVE k + 1 \in T
    <2> HIDE DEF Splits
    <2> SUFFICES ASSUME k + 1 <= Len(tt) PROVE Splits(k + 1)
      OBVIOUS
    <2>0. k \in Nat /\ Len(tt) \in Nat /\ (k <= Len(tt) => Splits(k))
      BY <1>1
    <2>1. FlattenSeq(Part(ss, a + k)) = head \o FlattenSeq(Part(tt, k))
      BY <2>0 DEF Splits
    <2> HIDE DEF T
    <2>2. /\ k \in 0 .. Len(tt) - 1 /\ k \in 0 .. Len(tt) /\ a + k \in 0 .. Len(ss) - 1
          /\ a + (k + 1) = (a + k) + 1 /\ k + 1 \in 1 .. Len(tt)
      BY <1>1, <2>0
    <2>3. /\ FlattenSeq(Part(tt, k)) \in Seq(S)
          /\ FlattenSeq(Part(tt, k + 1)) = FlattenSeq(Part(tt, k)) \o tt[k + 1]
      BY <1>1, <2>2, PartFacts
    <2>4. FlattenSeq(Part(ss, (a + k) + 1)) = FlattenSeq(Part(ss, a + k)) \o ss[(a + k) + 1]
      BY <2>2, PartFacts
    <2>5. tt[k + 1] = ss[(a + k) + 1] /\ tt[k + 1] \in Seq(S)
      <3>1. a + (k + 1) = (a + k) + 1
        BY <2>2
      <3>2. tt[k + 1] = ss[a + (k + 1)]
        BY <1>1, <2>2
      <3>3. tt[k + 1] \in Seq(S)
        BY <1>1, <2>2, LenProperties
      <3>4. QED
        BY <3>1, <3>2, <3>3
    <2> HIDE DEF head
    <2>6. (head \o FlattenSeq(Part(tt, k))) \o tt[k + 1]
            = head \o (FlattenSeq(Part(tt, k)) \o tt[k + 1])
      <3> DEFINE u == FlattenSeq(Part(tt, k))  v == tt[k + 1]
      <3>1. u \in Seq(S) /\ v \in Seq(S)
        BY <2>3, <2>5
      <3> HIDE DEF u, v
      <3>2. (head \o u) \o v = head \o (u \o v)
        BY <1>2, <3>1, ConcatAssociative
      <3>3. QED
        BY <3>2 DEF u, v
    <2>7. QED
      BY <2>1, <2>2, <2>3, <2>4, <2>5, <2>6 DEF Splits
  <1>5. \A k \in Nat : k \in T
    <2>1. T \in SUBSET Nat
      OBVIOUS
    <2> HIDE DEF T
    <2>2. QED
      BY <1>3, <1>4, <2>1, NumberInduction
  <1>6. Len(tt) \in Nat /\ a + Len(tt) = Len(ss)
    BY <1>1
  <1>7. FlattenSeq(Part(ss, Len(ss))) = head \o FlattenSeq(Part(tt, Len(tt)))
    <2> HIDE DEF Splits
    <2>1. Splits(Len(tt))
      BY <1>5, <1>6
    <2>2. QED
      BY <1>6, <2>1 DEF Splits
  <1>8. Part(ss, Len(ss)) = ss /\ Part(tt, Len(tt)) = tt
    BY <1>1, PartFacts
  <1>9. QED
    BY <1>7, <1>8 DEF Part, tt

(* A sequence that is built piece by piece is its pieces flattened.          *)
LEMMA FlattenPieces ==
  ASSUME NEW S, NEW ss \in Seq(Seq(S)), NEW r, r[0] = <<>>,
         \A n \in 0 .. Len(ss) - 1 : r[n + 1] = r[n] \o ss[n + 1]
  PROVE  FlattenSeq(ss) = r[Len(ss)]
  <1> DEFINE T == {n \in Nat : n <= Len(ss) => FlattenSeq(Part(ss, n)) = r[n]}
  <1>1. Len(ss) \in Nat
    BY LenProperties
  <1>2. 0 \in T
    BY PartFacts
  <1>3. ASSUME NEW n \in T PROVE n + 1 \in T
    <2> SUFFICES ASSUME n + 1 <= Len(ss) PROVE FlattenSeq(Part(ss, n + 1)) = r[n + 1]
      OBVIOUS
    <2>1. n \in 0 .. Len(ss) - 1 /\ FlattenSeq(Part(ss, n)) = r[n]
      BY <1>1
    <2>2. FlattenSeq(Part(ss, n + 1)) = FlattenSeq(Part(ss, n)) \o ss[n + 1]
      BY <2>1, PartFacts
    <2>3. QED
      BY <2>1, <2>2
  <1>4. \A n \in Nat : n \in T
    <2>1. T \in SUBSET Nat
      OBVIOUS
    <2> HIDE DEF T
    <2>2. QED
      BY <1>2, <1>3, <2>1, NumberInduction
  <1>5. QED
    BY <1>1, <1>4, PartFacts

LEMMA FunctionIsSeq ==
  ASSUME NEW S, NEW n \in Nat, NEW f \in [1 .. n -> S]
  PROVE  f \in Seq(S) /\ Len(f) = n
  BY SeqDef, LenProperties

\* What each position of a sequence adds to what is kept of it
KeptPieces(s, positions) == [i \in DOMAIN s |-> IF i \in positions THEN <<s[i]>> ELSE <<>>]

LEMMA KeptIs ==
  ASSUME NEW S, NEW s \in Seq(S), NEW positions
  PROVE  /\ KeptPieces(s, positions) \in Seq(Seq(S))
         /\ Len(KeptPieces(s, positions)) = Len(s)
         /\ \A i \in 1 .. Len(s) :
              KeptPieces(s, positions)[i] = IF i \in positions THEN <<s[i]>> ELSE <<>>
         /\ Kept(s, positions) = FlattenSeq(KeptPieces(s, positions))
         /\ Kept(s, positions) \in Seq(S)
  <1> DEFINE pieces == KeptPieces(s, positions)
  <1>1. Len(s) \in Nat /\ DOMAIN s = 1 .. Len(s) /\ \A i \in 1 .. Len(s) : s[i] \in S
    BY LenProperties
  <1>2. \A i \in 1 .. Len(s) : (IF i \in positions THEN <<s[i]>> ELSE <<>>) \in Seq(S)
    BY <1>1
  <1>3. pieces = [i \in 1 .. Len(s) |-> IF i \in positions THEN <<s[i]>> ELSE <<>>]
    BY <1>1 DEF KeptPieces
  <1>4. pieces \in [1 .. Len(s) -> Seq(S)]
    BY <1>2, <1>3
  <1>5. \A i \in 1 .. Len(s) : pieces[i] = IF i \in positions THEN <<s[i]>> ELSE <<>>
    BY <1>3
  <1>6. pieces \in Seq(Seq(S)) /\ Len(pieces) = Len(s)
    <2> HIDE DEF pieces
    <2> QED
      BY <1>1, <1>4, FunctionIsSeq
  <1>7. Kept(s, positions) = FlattenSeq(pieces)
    BY DEF Kept, KeptPieces
  <1>8. FlattenSeq(pieces) \in Seq(S)
    BY <1>6, FlattenType
  <1>9. QED
    BY <1>5, <1>6, <1>7, <1>8

LEMMA KeptAll ==
  ASSUME NEW S, NEW s \in Seq(S), NEW positions, DOMAIN s \subseteq positions
  PROVE  Kept(s, positions) = s
  <1> DEFINE pieces == KeptPieces(s, positions)
             r == [n \in 0 .. Len(s) |-> SubSeq(s, 1, n)]
  <1>1. Len(s) \in Nat /\ DOMAIN s = 1 .. Len(s)
    BY LenProperties
  <1>2. /\ pieces \in Seq(Seq(S)) /\ Len(pieces) = Len(s)
        /\ \A i \in 1 .. Len(s) : pieces[i] = <<s[i]>>
        /\ Kept(s, positions) = FlattenSeq(pieces)
    BY <1>1, KeptIs
  <1> HIDE DEF pieces
  <1>3. r[0] = <<>> /\ r[Len(s)] = s
    <2>1. SubSeq(s, 1, 0) = <<>>
      BY SubSeqEmpty
    <2>2. SubSeq(s, 1, Len(s)) = s
      BY SubSeqFull
    <2>3. QED
      BY <1>1, <2>1, <2>2
  <1>4. ASSUME NEW n \in 0 .. Len(s) - 1
        PROVE  r[n + 1] = r[n] \o pieces[n + 1]
    <2>1. n \in 0 .. Len(s) /\ n + 1 \in 0 .. Len(s) /\ n + 1 \in 1 .. Len(s) /\ (n + 1) - 1 = n
          /\ 1 \in 1 .. Len(s) /\ n + 1 \in 1 .. Len(s)
      BY <1>1
    <2>2. r[n + 1] = SubSeq(s, 1, n + 1) /\ r[n] = SubSeq(s, 1, n)
      BY <2>1
    <2> HIDE DEF r
    <2>3. SubSeq(s, 1, n + 1) = SubSeq(s, 1, (n + 1) - 1) \o <<s[n + 1]>>
      BY <2>1, SubSeqRecursiveSecond
    <2>4. pieces[n + 1] = <<s[n + 1]>>
      BY <1>2, <2>1
    <2>5. QED
      BY <2>1, <2>2, <2>3, <2>4
  <1> HIDE DEF r
  <1>5. \A n \in 0 .. Len(pieces) - 1 : r[n + 1] = r[n] \o pieces[n + 1]
    BY <1>2, <1>4
  <1>6. FlattenSeq(pieces) = r[Len(pieces)]
    BY <1>2, <1>3, <1>5, FlattenPieces
  <1>7. QED
    BY <1>2, <1>3, <1>6

LEMMA KeptNone ==
  ASSUME NEW S, NEW s \in Seq(S), NEW positions, DOMAIN s \cap positions = {}
  PROVE  Kept(s, positions) = <<>>
  <1> DEFINE pieces == KeptPieces(s, positions)
             r == [n \in 0 .. Len(s) |-> <<>>]
  <1>1. Len(s) \in Nat
    BY LenProperties
  <1>2. /\ pieces \in Seq(Seq(S)) /\ Len(pieces) = Len(s)
        /\ \A i \in 1 .. Len(s) : pieces[i] = <<>>
        /\ Kept(s, positions) = FlattenSeq(pieces)
    <2>1. \A i \in 1 .. Len(s) : pieces[i] = IF i \in positions THEN <<s[i]>> ELSE <<>>
      BY KeptIs
    <2>2. \A i \in 1 .. Len(s) : i \notin positions
      BY LenProperties
    <2>3. \A i \in 1 .. Len(s) : pieces[i] = <<>>
      BY <2>1, <2>2
    <2>4. QED
      BY <2>3, KeptIs
  <1> HIDE DEF pieces
  <1>3. \A n \in 0 .. Len(s) : r[n] = <<>>
    OBVIOUS
  <1> HIDE DEF r
  <1>4. <<>> \o <<>> = <<>>
    OBVIOUS
  <1>5. ASSUME NEW n \in 0 .. Len(pieces) - 1 PROVE r[n + 1] = r[n] \o pieces[n + 1]
    <2>1. n \in 0 .. Len(s) /\ n + 1 \in 0 .. Len(s) /\ n + 1 \in 1 .. Len(s)
      BY <1>1, <1>2
    <2>2. QED
      BY <1>2, <1>3, <1>4, <2>1
  <1>6. FlattenSeq(pieces) = r[Len(pieces)]
    <2>1. r[0] = <<>>
      BY <1>1, <1>3
    <2>2. QED
      BY <1>2, <1>5, <2>1, FlattenPieces
  <1>7. QED
    BY <1>1, <1>2, <1>3, <1>6

\* A sequence under a function
Through(e, t) == [k \in 1 .. Len(t) |-> e[t[k]]]

LEMMA ThroughType ==
  ASSUME NEW S, NEW U, NEW e \in [U -> Seq(S)], NEW t \in Seq(U)
  PROVE  Through(e, t) \in Seq(Seq(S)) /\ Len(Through(e, t)) = Len(t)
         /\ \A k \in 1 .. Len(t) : Through(e, t)[k] = e[t[k]]
  <1>1. Len(t) \in Nat /\ \A k \in 1 .. Len(t) : t[k] \in U
    BY LenProperties
  <1>2. Through(e, t) \in [1 .. Len(t) -> Seq(S)]
    BY <1>1 DEF Through
  <1>3. QED
    <2> DEFINE u == Through(e, t)
    <2>1. \A k \in 1 .. Len(t) : u[k] = e[t[k]]
      BY DEF Through
    <2> HIDE DEF u
    <2>2. u \in Seq(Seq(S)) /\ Len(u) = Len(t)
      BY <1>1, <1>2, FunctionIsSeq DEF u
    <2>3. QED
      BY <2>1, <2>2 DEF u

\* A sequence under a function, with nothing for what is not kept of it
KeptEach(e, s, positions) ==
  [i \in 1 .. Len(s) |-> IF i \in positions THEN e[s[i]] ELSE <<>>]

(* The messages of what is kept are, unit by unit, those of a unit that is   *)
(* kept and none of one that is not.                                         *)
LEMMA KeptThrough ==
  ASSUME NEW S, NEW U, NEW e \in [U -> Seq(S)], NEW s \in Seq(U), NEW positions
  PROVE  FlattenSeq(Through(e, Kept(s, positions))) = FlattenSeq(KeptEach(e, s, positions))
  <1> DEFINE pieces == KeptPieces(s, positions)
             K(n) == FlattenSeq(Part(pieces, n))
             r == [n \in 0 .. Len(s) |-> FlattenSeq(Through(e, K(n)))]
             ss == KeptEach(e, s, positions)
  <1>1. Len(s) \in Nat /\ DOMAIN s = 1 .. Len(s) /\ \A i \in 1 .. Len(s) : s[i] \in U
    BY LenProperties
  <1>2. /\ pieces \in Seq(Seq(U)) /\ Len(pieces) = Len(s)
        /\ \A i \in 1 .. Len(s) : pieces[i] = IF i \in positions THEN <<s[i]>> ELSE <<>>
        /\ Kept(s, positions) = FlattenSeq(pieces)
    BY KeptIs
  <1> HIDE DEF pieces
  <1>3. ss \in Seq(Seq(S)) /\ Len(ss) = Len(s)
        /\ \A i \in 1 .. Len(s) : ss[i] = IF i \in positions THEN e[s[i]] ELSE <<>>
    <2>1. \A i \in 1 .. Len(s) : ss[i] = IF i \in positions THEN e[s[i]] ELSE <<>>
      BY DEF KeptEach
    <2>2. ss \in [1 .. Len(s) -> Seq(S)]
      BY <1>1 DEF KeptEach
    <2> HIDE DEF ss
    <2>3. QED
      BY <1>1, <2>1, <2>2, FunctionIsSeq
  <1> HIDE DEF ss
  <1>4. /\ K(0) = <<>> /\ K(Len(s)) = Kept(s, positions)
        /\ \A n \in 0 .. Len(s) : K(n) \in Seq(U)
        /\ \A n \in 0 .. Len(s) - 1 : K(n + 1) = K(n) \o pieces[n + 1]
    BY <1>2, PartFacts
  <1> HIDE DEF K
  <1>5. r[0] = <<>>
    <2>1. Through(e, <<>>) = <<>>
      BY DEF Through
    <2>2. FlattenSeq(<<>>) = <<>>
      <3>1. <<>> \in Seq(Seq(S)) /\ Len(<<>>) = 0
        OBVIOUS
      <3>2. QED
        BY <3>1, FlattenType
    <2>3. QED
      BY <1>1, <1>4, <2>1, <2>2
  <1>6. ASSUME NEW n \in 0 .. Len(s) - 1
        PROVE  r[n + 1] = r[n] \o ss[n + 1]
    <2>1. n \in 0 .. Len(s) /\ n + 1 \in 0 .. Len(s) /\ n + 1 \in 1 .. Len(s)
      BY <1>1
    <2>2. r[n] = FlattenSeq(Through(e, K(n))) /\ r[n + 1] = FlattenSeq(Through(e, K(n + 1)))
      BY <2>1
    <2> DEFINE t == K(n)  q == K(n + 1)
    <2>3. t \in Seq(U) /\ q \in Seq(U) /\ q = t \o pieces[n + 1]
      BY <1>4, <2>1
    <2>4. Through(e, t) \in Seq(Seq(S)) /\ Through(e, q) \in Seq(Seq(S))
      BY <2>3, ThroughType
    <2>5. FlattenSeq(Through(e, t)) \in Seq(S)
      BY <2>4, FlattenType
    <2> HIDE DEF t, q, r
    <2>6. CASE n + 1 \in positions
      <3>1. pieces[n + 1] = <<s[n + 1]>> /\ ss[n + 1] = e[s[n + 1]] /\ s[n + 1] \in U
        BY <1>1, <1>2, <1>3, <2>1, <2>6
      <3>2. <<s[n + 1]>> \in Seq(U) /\ Len(<<s[n + 1]>>) = 1 /\ <<s[n + 1]>>[1] = s[n + 1]
        BY <3>1
      <3> DEFINE x == <<s[n + 1]>>
      <3>3. q = t \o x /\ x \in Seq(U) /\ Len(x) = 1 /\ x[1] = s[n + 1]
        BY <2>3, <3>1, <3>2
      <3> HIDE DEF x
      <3>4. /\ Len(t) \in Nat /\ Len(q) = Len(t) + 1
            /\ \A i \in 1 .. Len(t) : q[i] = t[i]
            /\ q[Len(t) + 1] = s[n + 1]
        <4>1. /\ Len(t \o x) = Len(t) + Len(x)
              /\ \A i \in 1 .. Len(t) + Len(x) :
                   (t \o x)[i] = IF i <= Len(t) THEN t[i] ELSE x[i - Len(t)]
          BY <2>3, <3>3, ConcatProperties
        <4>2. Len(t) \in Nat
          BY <2>3, LenProperties
        <4>3. /\ Len(q) = Len(t) + 1
              /\ \A i \in 1 .. Len(t) + 1 : q[i] = IF i <= Len(t) THEN t[i] ELSE x[i - Len(t)]
          BY <3>3, <4>1
        <4>4. (Len(t) + 1) - Len(t) = 1 /\ ~ (Len(t) + 1 <= Len(t)) /\ Len(t) + 1 \in 1 .. Len(t) + 1
          BY <4>2
        <4>5. QED
          BY <3>3, <4>2, <4>3, <4>4
      <3> DEFINE a == Through(e, t)  b == Through(e, q)
      <3>5. /\ a \in Seq(Seq(S)) /\ Len(a) = Len(t) /\ \A k \in 1 .. Len(t) : a[k] = e[t[k]]
            /\ b \in Seq(Seq(S)) /\ Len(b) = Len(q) /\ \A k \in 1 .. Len(q) : b[k] = e[q[k]]
        <4>1. a \in Seq(Seq(S)) /\ Len(a) = Len(t) /\ \A k \in 1 .. Len(t) : a[k] = e[t[k]]
          <5>1. Len(t) \in Nat
            BY <2>3, LenProperties
          <5>2. QED
            BY <2>4, <5>1 DEF Through
        <4>2. b \in Seq(Seq(S)) /\ Len(b) = Len(q) /\ \A k \in 1 .. Len(q) : b[k] = e[q[k]]
          <5>1. Len(q) \in Nat
            BY <2>3, LenProperties
          <5>2. QED
            BY <2>4, <5>1 DEF Through
        <4>3. QED
          BY <4>1, <4>2
      <3> HIDE DEF a, b
      <3>6. FlattenSeq(b) = FlattenSeq(a) \o e[s[n + 1]]
        <4>1. Len(b) = Len(a) + 1 /\ \A i \in 1 .. Len(a) : a[i] = b[i]
          <5>1. Len(b) = Len(a) + 1
            BY <3>4, <3>5
          <5>2. ASSUME NEW i \in 1 .. Len(t) PROVE a[i] = b[i]
            <6>1. i \in 1 .. Len(q) /\ q[i] = t[i]
              BY <3>4
            <6>2. QED
              BY <3>5, <6>1
          <5>3. QED
            BY <3>5, <5>1, <5>2
        <4>2. b[Len(b)] = e[s[n + 1]]
          BY <3>4, <3>5
        <4>3. FlattenSeq(b) = FlattenSeq(a) \o b[Len(b)]
          BY <3>5, <4>1, FlattenMore
        <4>4. QED
          BY <4>2, <4>3
      <3>7. QED
        BY <2>2, <3>1, <3>6 DEF t, q, a, b
    <2>7. CASE n + 1 \notin positions
      <3>1. pieces[n + 1] = <<>> /\ ss[n + 1] = <<>>
        BY <1>2, <1>3, <2>1, <2>7
      <3>2. q = t
        BY <2>3, <3>1, ConcatEmptySeq
      <3>3. FlattenSeq(Through(e, t)) \o <<>> = FlattenSeq(Through(e, t))
        BY <2>5, ConcatEmptySeq
      <3>4. QED
        BY <2>2, <3>1, <3>2, <3>3 DEF t, q
    <2>8. QED
      BY <2>6, <2>7
  <1>7. r[Len(s)] = FlattenSeq(Through(e, Kept(s, positions)))
    BY <1>1, <1>4
  <1> HIDE DEF r
  <1>8. FlattenSeq(ss) = r[Len(ss)]
    BY <1>3, <1>5, <1>6, FlattenPieces
  <1>9. QED
    BY <1>3, <1>7, <1>8 DEF ss

-----------------------------------------------------------------------------
(* The units of a scope and their evidence.                                  *)

CorpusMessages == UNION {ToSet(Units[u].messages) : u \in DOMAIN Units}

LEMMA CorpusFacts ==
  /\ Len(Units) \in Nat /\ DOMAIN Units = 1 .. Len(Units)
  /\ \A u \in DOMAIN Units :
       /\ Units[u].messages \in Seq(CorpusMessages)
       /\ Units[u].messages # <<>>
  <1>1. Units \in Seq(ToSet(Units))
    BY UnitsAssumption
  <1>2. Len(Units) \in Nat /\ DOMAIN Units = 1 .. Len(Units)
    BY <1>1, LenProperties
  <1>3. ASSUME NEW u \in DOMAIN Units
        PROVE  Units[u].messages \in Seq(CorpusMessages) /\ Units[u].messages # <<>>
    <2>1. Units[u].messages \in Seq(ToSet(Units[u].messages)) /\ Units[u].messages # <<>>
      BY UnitsAssumption
    <2>2. ToSet(Units[u].messages) \subseteq CorpusMessages
      BY DEF CorpusMessages
    <2>3. QED
      BY <2>1, <2>2, SeqMonotonic
  <1>4. QED
    BY <1>2, <1>3

Chosen(scope) == {Selection(Units[u], scope) : u \in DOMAIN Units}
Selections(scope) == [u \in DOMAIN Units |-> Selection(Units[u], scope)]
Matching(scope) ==
  {u \in DOMAIN Units :
     /\ EntryMayMatch(IndexEntry(Units[u]), scope)
     /\ KindMatches(Units[u], scope)
     /\ MessageBitmap(Units[u], scope) # {}}

LEMMA SelectionMessages ==
  ASSUME NEW scope, NEW u \in DOMAIN Units
  PROVE  /\ Selection(Units[u], scope).messages =
              Kept(Units[u].messages, MessageBitmap(Units[u], scope))
         /\ Selection(Units[u], scope).messages \in Seq(CorpusMessages)
  <1>1. Selection(Units[u], scope).messages =
          Kept(Units[u].messages, MessageBitmap(Units[u], scope))
    BY DEF Selection
  <1>2. Kept(Units[u].messages, MessageBitmap(Units[u], scope)) \in Seq(CorpusMessages)
    BY CorpusFacts, KeptIs
  <1>3. QED
    BY <1>1, <1>2

\* The messages of the units of a scope, unit by unit
MessagesOf(scope) == [u \in 1 .. Total(scope) |-> ScopedUnits(scope)[u].messages]

LEMMA SelectedUnits ==
  ASSUME NEW scope
  PROVE  /\ Selections(scope) \in Seq(Chosen(scope)) /\ Len(Selections(scope)) = Len(Units)
         /\ SelectScopeUnits(scope) = Kept(Selections(scope), Matching(scope))
         /\ SelectScopeUnits(scope) \in Seq(Chosen(scope))
  <1>1. Selections(scope) \in [1 .. Len(Units) -> Chosen(scope)]
    BY CorpusFacts DEF Selections, Chosen
  <1>2. Selections(scope) \in Seq(Chosen(scope)) /\ Len(Selections(scope)) = Len(Units)
    BY <1>1, CorpusFacts, FunctionIsSeq
  <1>3. SelectScopeUnits(scope) = Kept(Selections(scope), Matching(scope))
    BY DEF SelectScopeUnits, Selections, Matching
  <1>4. QED
    BY <1>2, <1>3, KeptIs

LEMMA ScopedFacts ==
  ASSUME NEW scope
  PROVE  /\ Total(scope) \in Nat
         /\ MessagesOf(scope) \in Seq(Seq(CorpusMessages))
         /\ Len(MessagesOf(scope)) = Total(scope)
         /\ \A u \in 1 .. Total(scope) :
              MessagesOf(scope)[u] = ScopedUnits(scope)[u].messages
  <1>1. /\ Total(scope) \in Nat
        /\ \A u \in 1 .. Total(scope) : ScopedUnits(scope)[u].messages \in Seq(CorpusMessages)
    <2>1. CASE SelectsAllEvidence(scope)
      BY <2>1, CorpusFacts DEF Total, ScopedUnits
    <2>2. CASE ~ SelectsAllEvidence(scope)
      <3>1. ScopedUnits(scope) \in Seq(Chosen(scope))
        BY <2>2, SelectedUnits DEF ScopedUnits
      <3>2. \A unit \in Chosen(scope) : unit.messages \in Seq(CorpusMessages)
        BY SelectionMessages DEF Chosen
      <3>3. QED
        BY <3>1, <3>2, LenProperties DEF Total
    <2>3. QED
      BY <2>1, <2>2
  <1>2. MessagesOf(scope) \in [1 .. Total(scope) -> Seq(CorpusMessages)]
    BY <1>1 DEF MessagesOf
  <1>3. \A u \in 1 .. Total(scope) : MessagesOf(scope)[u] = ScopedUnits(scope)[u].messages
    BY DEF MessagesOf
  <1>4. QED
    BY <1>1, <1>2, <1>3, FunctionIsSeq

\* Units first + 1 .. last of a scope
Stretch(scope, first, last) ==
  [u \in 1 .. last - first |-> ScopedUnits(scope)[first + u].messages]

LEMMA StretchType ==
  ASSUME NEW scope, NEW last \in 0 .. Total(scope), NEW first \in 0 .. last
  PROVE  /\ Stretch(scope, first, last) \in Seq(Seq(CorpusMessages))
         /\ Len(Stretch(scope, first, last)) = last - first
         /\ \A u \in 1 .. last - first :
              Stretch(scope, first, last)[u] = ScopedUnits(scope)[first + u].messages
         /\ Evidence(scope, first, last) = FlattenSeq(Stretch(scope, first, last))
         /\ Evidence(scope, first, last) \in Seq(CorpusMessages)
  <1>1. last - first \in Nat
    BY ScopedFacts
  <1>2. \A u \in 1 .. last - first : ScopedUnits(scope)[first + u].messages \in Seq(CorpusMessages)
    <2> TAKE u \in 1 .. last - first
    <2> DEFINE k == first + u
    <2>1. k \in 1 .. Total(scope)
      BY ScopedFacts
    <2> HIDE DEF k
    <2>2. ScopedUnits(scope)[k].messages \in Seq(CorpusMessages)
      BY <2>1, ScopedFacts, LenProperties
    <2>3. QED
      BY <2>2 DEF k
  <1>3. Stretch(scope, first, last) \in [1 .. last - first -> Seq(CorpusMessages)]
    BY <1>2 DEF Stretch
  <1>4. \A u \in 1 .. last - first :
          Stretch(scope, first, last)[u] = ScopedUnits(scope)[first + u].messages
    BY DEF Stretch
  <1>5. Evidence(scope, first, last) = FlattenSeq(Stretch(scope, first, last))
    BY DEF Evidence, Stretch
  <1> DEFINE stretch == Stretch(scope, first, last)
  <1>6. stretch \in Seq(Seq(CorpusMessages)) /\ Len(stretch) = last - first
    <2> HIDE DEF stretch
    <2> QED
      BY <1>1, <1>3, FunctionIsSeq DEF stretch
  <1>7. FlattenSeq(stretch) \in Seq(CorpusMessages)
    BY <1>6, FlattenType
  <1>8. QED
    BY <1>4, <1>5, <1>6, <1>7

LEMMA EvidenceNone ==
  ASSUME NEW scope
  PROVE  Evidence(scope, 0, 0) = <<>>
  <1>1. 0 \in 0 .. Total(scope) /\ 0 \in 0 .. 0 /\ 0 - 0 = 0
    BY ScopedFacts
  <1>2. QED
    BY <1>1, StretchType, FlattenType

(* What a cursor has passed and the next batch make up what it passes then.  *)
LEMMA EvidenceSplit ==
  ASSUME NEW scope, NEW last \in 0 .. Total(scope), NEW first \in 0 .. last
  PROVE  Evidence(scope, 0, last) = Evidence(scope, 0, first) \o Evidence(scope, first, last)
  <1> DEFINE all == Stretch(scope, 0, last)
             a == Stretch(scope, 0, first)
             b == Stretch(scope, first, last)
             S == Seq(CorpusMessages)
             at(k) == ScopedUnits(scope)[k].messages
  <1>1. /\ last \in Nat /\ first \in Nat /\ first <= last /\ 0 \in 0 .. last /\ 0 \in 0 .. first
        /\ first \in 0 .. Total(scope) /\ last - 0 = last /\ first - 0 = first
        /\ last - first \in Nat
    BY ScopedFacts
  <1>2. all \in Seq(S) /\ Len(all) = last /\ \A u \in 1 .. last : all[u] = at(u)
    <2>1. all \in Seq(S) /\ Len(all) = last - 0 /\ \A u \in 1 .. last - 0 : all[u] = at(0 + u)
      BY <1>1, StretchType
    <2>2. \A u \in 1 .. last : 0 + u = u
      BY <1>1
    <2> HIDE DEF all
    <2>3. QED
      BY <1>1, <2>1, <2>2
  <1>3. a \in Seq(S) /\ Len(a) = first /\ \A u \in 1 .. first : a[u] = at(u)
    <2>1. a \in Seq(S) /\ Len(a) = first - 0 /\ \A u \in 1 .. first - 0 : a[u] = at(0 + u)
      BY <1>1, StretchType
    <2>2. \A u \in 1 .. first : 0 + u = u
      BY <1>1
    <2> HIDE DEF a
    <2>3. QED
      BY <1>1, <2>1, <2>2
  <1>4. b \in Seq(S) /\ Len(b) = last - first /\ \A u \in 1 .. last - first : b[u] = at(first + u)
    BY <1>1, StretchType
  <1>5. /\ Evidence(scope, 0, last) = FlattenSeq(all)
        /\ Evidence(scope, 0, first) = FlattenSeq(a)
        /\ Evidence(scope, first, last) = FlattenSeq(b)
    BY DEF Evidence, Stretch
  <1> HIDE DEF all, a, b, at
  <1>6. SubSeq(all, 1, first) = a
    <2> DEFINE p == SubSeq(all, 1, first)
    <2>1. \A i \in 1 .. first : all[i] \in S
      BY <1>1, <1>2, LenProperties
    <2>2. /\ p \in Seq(S) /\ Len(p) = first
          /\ \A i \in 1 .. first : p[i] = all[i]
      <3>1. /\ p \in Seq(S) /\ Len(p) = IF 1 <= first THEN first - 1 + 1 ELSE 0
            /\ \A i \in 1 .. first - 1 + 1 : p[i] = all[1 + i - 1]
        BY <1>1, <2>1, SubSeqProperties
      <3> HIDE DEF p
      <3>2. QED
        BY <1>1, <3>1
    <2> HIDE DEF p
    <2>3. \A i \in 1 .. first : p[i] = a[i]
      BY <1>1, <1>2, <1>3, <2>2
    <2>4. p = a
      BY <1>3, <2>2, <2>3, SeqEqual
    <2>5. QED
      BY <2>4 DEF p
  <1>7. SubSeq(all, first + 1, last) = b
    <2> DEFINE p == SubSeq(all, first + 1, last)
    <2>1. \A i \in first + 1 .. last : all[i] \in S
      BY <1>1, <1>2, LenProperties
    <2>2. /\ p \in Seq(S) /\ Len(p) = last - first
          /\ \A i \in 1 .. last - first : p[i] = all[first + i]
      <3>1. /\ p \in Seq(S)
            /\ Len(p) = IF first + 1 <= last THEN last - (first + 1) + 1 ELSE 0
            /\ \A i \in 1 .. last - (first + 1) + 1 : p[i] = all[(first + 1) + i - 1]
        BY <1>1, <2>1, SubSeqProperties
      <3> HIDE DEF p
      <3>2. Len(p) = last - first
        BY <1>1, <3>1
      <3>3. ASSUME NEW i \in 1 .. last - first PROVE p[i] = all[first + i]
        <4>1. i \in 1 .. last - (first + 1) + 1 /\ (first + 1) + i - 1 = first + i
          BY <1>1
        <4>2. QED
          BY <3>1, <4>1
      <3>4. QED
        BY <3>1, <3>2, <3>3
    <2> HIDE DEF p
    <2>3. ASSUME NEW i \in 1 .. last - first PROVE p[i] = b[i]
      <3>1. first + i \in 1 .. last
        BY <1>1
      <3>2. QED
        BY <1>2, <1>4, <2>2, <3>1
    <2>4. p = b
      BY <1>4, <2>2, <2>3, SeqEqual
    <2>5. QED
      BY <2>4 DEF p
  <1>8. FlattenSeq(all) = FlattenSeq(SubSeq(all, 1, first)) \o FlattenSeq(SubSeq(all, first + 1, last))
    <2>1. first \in 0 .. Len(all)
      BY <1>1, <1>2
    <2>2. FlattenSeq(all) =
            FlattenSeq(SubSeq(all, 1, first)) \o FlattenSeq(SubSeq(all, first + 1, Len(all)))
      BY <1>2, <2>1, FlattenSplit
    <2>3. QED
      BY <1>2, <2>2
  <1>9. QED
    BY <1>5, <1>6, <1>7, <1>8

(* The pages of a batch.                                                     *)
LEMMA Division ==
  ASSUME NEW a \in Nat, NEW b \in Nat \ {0}
  PROVE  /\ a \div b \in Nat
         /\ (a \div b) * b <= a /\ a < (a \div b) * b + b
  OBVIOUS

LEMMA Multiples ==
  ASSUME NEW b \in Nat \ {0}, NEW k \in Nat, NEW p \in Nat, p + 1 <= k
  PROVE  p * b \in Nat /\ (p + 1) * b = p * b + b /\ p * b + b <= k * b
  OBVIOUS

(* The pages of a batch hold its messages, in order and once each.           *)
LEMMA PagesFlatten ==
  ASSUME NEW S, NEW m \in Seq(S)
  PROVE  FlattenSeq(DeliveryPages(m)) = m
  <1> DEFINE length == Len(m)
             n == (Len(m) + PageMessages - 1) \div PageMessages
             upto(p) == IF p * PageMessages < Len(m) THEN p * PageMessages ELSE Len(m)
             ss == DeliveryPages(m)
             r == [p \in 0 .. n |-> SubSeq(m, 1, upto(p))]
  <1>1. length \in Nat /\ PageMessages \in Nat \ {0} /\ \A i \in 1 .. length : m[i] \in S
    BY LenProperties, UnitsAssumption
  <1>2. n \in Nat /\ length <= n * PageMessages
        /\ n * PageMessages <= length + PageMessages - 1
    <2> DEFINE a == Len(m) + PageMessages - 1
    <2>1. a \in Nat
      BY <1>1
    <2> HIDE DEF a
    <2>2. a \div PageMessages \in Nat /\ (a \div PageMessages) * PageMessages <= a
          /\ a < (a \div PageMessages) * PageMessages + PageMessages
      BY <1>1, <2>1, Division
    <2> DEFINE q == a \div PageMessages
               x == q * PageMessages
    <2>3. q \in Nat /\ x \in Nat /\ x <= a /\ a < x + PageMessages
      BY <1>1, <2>2
    <2>4. n = q
      BY DEF a
    <2> HIDE DEF n, q
    <2>5. n * PageMessages = x
      BY <2>4
    <2> HIDE DEF x
    <2>6. QED
      BY <1>1, <2>3, <2>4, <2>5 DEF a
  <1>3. /\ DOMAIN ss = 1 .. n
        /\ ss = [p \in 1 .. n |-> SubSeq(m, (p - 1) * PageMessages + 1, upto(p))]
    BY DEF DeliveryPages
  <1> HIDE DEF n
  <1>4. ASSUME NEW p \in 0 .. n - 1
        PROVE  /\ upto(p) = p * PageMessages /\ upto(p) \in 0 .. length
               /\ upto(p + 1) \in upto(p) .. length
               /\ (p + 1) * PageMessages = upto(p) + PageMessages
    <2>1. p \in Nat /\ p + 1 <= n
      BY <1>2
    <2>2. p * PageMessages \in Nat /\ (p + 1) * PageMessages = p * PageMessages + PageMessages
          /\ p * PageMessages + PageMessages <= n * PageMessages
      BY <1>1, <1>2, <2>1, Multiples
    <2> DEFINE x == p * PageMessages  y == n * PageMessages  z == (p + 1) * PageMessages
    <2>3. x \in Nat /\ z = x + PageMessages /\ z <= y
      BY <2>2
    <2>4. y <= length + PageMessages - 1 /\ y \in Nat
      BY <1>1, <1>2
    <2>5. /\ upto(p) = IF x < length THEN x ELSE length
          /\ upto(p + 1) = IF z < length THEN z ELSE length
      OBVIOUS
    <2> HIDE DEF x, y, z, upto
    <2>6. x < length
      BY <1>1, <2>3, <2>4
    <2>7. upto(p) = x /\ upto(p) \in 0 .. length /\ upto(p + 1) \in upto(p) .. length
          /\ z = upto(p) + PageMessages
      BY <1>1, <2>3, <2>5, <2>6
    <2>8. QED
      BY <2>7 DEF x, z
  <1>5. upto(n) = length /\ upto(0) = 0
    <2>1. ~ (n * PageMessages < length)
      <3> DEFINE y == n * PageMessages
      <3>1. y \in Nat /\ length <= y
        BY <1>1, <1>2
      <3> HIDE DEF y
      <3>2. ~ (y < length)
        BY <1>1, <3>1
      <3>3. QED
        BY <3>2 DEF y
    <2>2. 0 * PageMessages = 0
      BY <1>1
    <2>3. QED
      BY <1>1, <2>1, <2>2
  <1> HIDE DEF upto
  <1>6. ASSUME NEW p \in 0 .. n - 1
        PROVE  /\ p + 1 \in 1 .. n
               /\ ss[p + 1] = SubSeq(m, upto(p) + 1, upto(p + 1))
               /\ ss[p + 1] \in Seq(S)
               /\ r[p + 1] = r[p] \o ss[p + 1]
    <2>1. p + 1 \in 1 .. n /\ p + 1 \in 0 .. n /\ p \in 0 .. n /\ (p + 1) - 1 = p
      BY <1>2
    <2>2. ss[p + 1] = SubSeq(m, ((p + 1) - 1) * PageMessages + 1, upto(p + 1))
      BY <1>3, <2>1
    <2>3. ss[p + 1] = SubSeq(m, upto(p) + 1, upto(p + 1))
      BY <1>4, <2>1, <2>2
    <2> DEFINE x == upto(p)  y == upto(p + 1)
    <2>4. x \in 0 .. length /\ y \in x .. length
      BY <1>4
    <2>5. r[p] = SubSeq(m, 1, x) /\ r[p + 1] = SubSeq(m, 1, y)
      BY <2>1
    <2> HIDE DEF x, y
    <2>6. /\ x \in 1 - 1 .. Len(m) /\ 1 \in 1 .. Len(m) + 1
          /\ y \in x .. Len(m) /\ x + 1 \in Int /\ y \in Int
      BY <1>1, <2>4
    <2>7. SubSeq(m, 1, x) \o SubSeq(m, x + 1, y) = SubSeq(m, 1, y)
      BY <2>6, ConcatAdjacentSubSeq
    <2>8. SubSeq(m, x + 1, y) \in Seq(S)
      <3>1. \A i \in x + 1 .. y : m[i] \in S
        BY <1>1, <2>4
      <3>2. QED
        BY <2>6, <3>1, SubSeqProperties
    <2>9. QED
      BY <2>1, <2>3, <2>5, <2>7, <2>8 DEF x, y
  <1>7. ss \in Seq(Seq(S)) /\ Len(ss) = n
    <2>1. ASSUME NEW k \in 1 .. n PROVE ss[k] \in Seq(S)
      <3>1. k - 1 \in 0 .. n - 1 /\ (k - 1) + 1 = k
        BY <1>2
      <3>2. ss[(k - 1) + 1] \in Seq(S)
        BY <1>6, <3>1
      <3>3. QED
        BY <3>1, <3>2
    <2>2. ss = [k \in 1 .. n |-> ss[k]]
      BY <1>3
    <2> HIDE DEF ss
    <2>3. ss \in [1 .. n -> Seq(S)]
      BY <2>1, <2>2
    <2>4. QED
      BY <1>2, <2>3, FunctionIsSeq
  <1>8. r[0] = <<>> /\ r[n] = m
    <2>1. 0 \in 0 .. n /\ n \in 0 .. n
      BY <1>2
    <2>2. SubSeq(m, 1, 0) = <<>>
      BY SubSeqEmpty
    <2>3. SubSeq(m, 1, Len(m)) = m
      BY SubSeqFull
    <2>4. QED
      BY <1>5, <2>1, <2>2, <2>3
  <1> HIDE DEF ss, r
  <1>9. FlattenSeq(ss) = r[Len(ss)]
    BY <1>6, <1>7, <1>8, FlattenPieces
  <1>10. QED
    BY <1>7, <1>8, <1>9 DEF ss

(* The index is a safe filter: a unit it excludes has nothing of the scope.  *)
LEMMA EntrySound ==
  ASSUME NEW scope \in Scopes, NEW u \in DOMAIN Units,
         MessageBitmap(Units[u], scope) # {}
  PROVE  EntryMayMatch(IndexEntry(Units[u]), scope)
  <1> DEFINE unit == Units[u]
             messages == unit.messages
             entry == IndexEntry(unit)
             n == Len(messages)
  <1>1. PICK i \in DOMAIN messages : MessageMatches(unit, messages[i], scope)
    BY DEF MessageBitmap
  <1>2. n \in Nat /\ DOMAIN messages = 1 .. n /\ n # 0 /\ 1 \in DOMAIN messages /\ n \in DOMAIN messages
    <2>1. messages \in Seq(CorpusMessages) /\ messages # <<>>
      BY CorpusFacts
    <2>2. n \in Nat /\ DOMAIN messages = 1 .. n
      BY <2>1, LenProperties
    <2>3. n # 0
      BY <2>1, EmptySeq
    <2>4. QED
      BY <2>2, <2>3
  <1>3. /\ entry.conversation = unit.conversation
        /\ entry.from = messages[1].at /\ entry.to = messages[n].at
        /\ entry.senders = {messages[k].sender : k \in DOMAIN messages}
    BY <1>2 DEF IndexEntry, Last
  <1>4. /\ messages[1].at \in Nat /\ messages[i].at \in Nat /\ messages[n].at \in Nat
        /\ messages[1].at <= messages[i].at /\ messages[i].at <= messages[n].at
    <2>1. 1 <= i /\ i <= n
      BY <1>2
    <2>2. /\ \A k \in DOMAIN messages : messages[k].at \in Nat
          /\ \A k, l \in DOMAIN messages : k <= l => messages[k].at <= messages[l].at
      BY UnitsAssumption
    <2> HIDE DEF messages, n
    <2>3. QED
      BY <1>2, <2>1, <2>2
  <1>5. \A bound \in scope.notBefore \cup scope.notAfter : bound \in Nat
    BY ScopesAssumption
  <1>6. /\ scope.conversations = {} \/ unit.conversation \in scope.conversations
        /\ \A bound \in scope.notBefore : messages[i].at >= bound
        /\ \A bound \in scope.notAfter : messages[i].at <= bound
        /\ scope.senders = {} \/ messages[i].sender \in scope.senders
    BY <1>1 DEF MessageMatches
  <1> HIDE DEF entry, messages, unit, n
  <1>7. \A bound \in scope.notBefore : entry.to >= bound
    BY <1>3, <1>4, <1>5, <1>6
  <1>8. \A bound \in scope.notAfter : entry.from <= bound
    BY <1>3, <1>4, <1>5, <1>6
  <1>9. scope.senders = {} \/ entry.senders \cap scope.senders # {}
    BY <1>3, <1>6
  <1>10. EntryMayMatch(entry, scope)
    BY <1>3, <1>6, <1>7, <1>8, <1>9 DEF EntryMayMatch
  <1>11. QED
    BY <1>10 DEF entry, unit

\* The positions of a unit the scope means
MeantAt(scope, u) ==
  {i \in DOMAIN Units[u].messages :
     KindMatches(Units[u], scope) /\ MessageMatches(Units[u], Units[u].messages[i], scope)}

\* What the scope means, unit by unit
MeantUnits(scope) == [u \in DOMAIN Units |-> Kept(Units[u].messages, MeantAt(scope, u))]

(* The units of a scope hold the messages it means, all and in order.        *)
LEMMA ScopeExact ==
  ASSUME NEW scope \in Scopes
  PROVE  Evidence(scope, 0, Total(scope)) = MeantBy(scope)
  <1>1. MeantBy(scope) = FlattenSeq(MeantUnits(scope))
    BY DEF MeantBy, MeantUnits, MeantAt
  <1>2. Evidence(scope, 0, Total(scope)) = FlattenSeq(MessagesOf(scope))
    <2>1. Total(scope) - 0 = Total(scope) /\ \A u \in 1 .. Total(scope) : 0 + u = u
      BY ScopedFacts
    <2>2. Stretch(scope, 0, Total(scope)) = MessagesOf(scope)
      BY <2>1 DEF Stretch, MessagesOf
    <2>3. Evidence(scope, 0, Total(scope)) = FlattenSeq(Stretch(scope, 0, Total(scope)))
      BY DEF Evidence, Stretch
    <2>4. QED
      BY <2>2, <2>3
  <1>3. CASE SelectsAllEvidence(scope)
    <2>1. \A u \in DOMAIN Units : Kept(Units[u].messages, MeantAt(scope, u)) = Units[u].messages
      <3> TAKE u \in DOMAIN Units
      <3>1. DOMAIN Units[u].messages \subseteq MeantAt(scope, u)
        BY <1>3 DEF MeantAt, SelectsAllEvidence, KindMatches, MessageMatches
      <3>2. QED
        BY <3>1, CorpusFacts, KeptAll
    <2>2. MeantUnits(scope) = [u \in DOMAIN Units |-> Units[u].messages]
      BY <2>1 DEF MeantUnits
    <2>3. MessagesOf(scope) = [u \in DOMAIN Units |-> Units[u].messages]
      BY <1>3, CorpusFacts DEF MessagesOf, Total, ScopedUnits
    <2>4. QED
      BY <1>1, <1>2, <2>2, <2>3
  <1>4. CASE ~ SelectsAllEvidence(scope)
    <2> DEFINE e == [unit \in Chosen(scope) |-> unit.messages]
               s == Selections(scope)
               kept == Kept(s, Matching(scope))
               each == KeptEach(e, s, Matching(scope))
    <2>1. e \in [Chosen(scope) -> Seq(CorpusMessages)]
      BY SelectionMessages DEF Chosen
    <2>2. s \in Seq(Chosen(scope)) /\ Len(s) = Len(Units) /\ kept \in Seq(Chosen(scope))
          /\ ScopedUnits(scope) = kept
      BY <1>4, SelectedUnits DEF ScopedUnits
    <2>3. MessagesOf(scope) = Through(e, kept)
      <3>1. Total(scope) = Len(kept)
        BY <2>2 DEF Total
      <3>2. \A u \in 1 .. Len(kept) : kept[u].messages = e[kept[u]]
        <4>1. \A u \in 1 .. Len(kept) : kept[u] \in Chosen(scope)
          BY <2>2, LenProperties
        <4> HIDE DEF kept
        <4>2. QED
          BY <4>1
      <3> HIDE DEF kept, e
      <3>3. QED
        BY <2>2, <3>1, <3>2 DEF MessagesOf, Through
    <2>4. FlattenSeq(Through(e, kept)) = FlattenSeq(each)
      <3> DEFINE S == CorpusMessages  U == Chosen(scope)  positions == Matching(scope)
      <3>1. e \in [U -> Seq(S)] /\ s \in Seq(U)
        BY <2>1, <2>2
      <3> HIDE DEF e, s, S, U, positions
      <3>2. FlattenSeq(Through(e, Kept(s, positions))) = FlattenSeq(KeptEach(e, s, positions))
        BY <3>1, KeptThrough
      <3>3. QED
        BY <3>2 DEF positions
    <2>5. each = MeantUnits(scope)
      <3>1. Len(s) = Len(Units) /\ DOMAIN Units = 1 .. Len(Units)
        BY <2>2, CorpusFacts
      <3>2. ASSUME NEW u \in DOMAIN Units
            PROVE  (IF u \in Matching(scope) THEN e[s[u]] ELSE <<>>)
                     = Kept(Units[u].messages, MeantAt(scope, u))
        <4>1. CASE u \in Matching(scope)
          <5>1. s[u] = Selection(Units[u], scope) /\ s[u] \in Chosen(scope)
            BY DEF Selections, Chosen
          <5>2. e[s[u]] = Selection(Units[u], scope).messages
            BY <5>1
          <5>3. MeantAt(scope, u) = MessageBitmap(Units[u], scope)
            BY <4>1 DEF Matching, MeantAt, MessageBitmap
          <5> HIDE DEF e, s
          <5>4. QED
            BY <4>1, <5>2, <5>3, SelectionMessages
        <4>2. CASE u \notin Matching(scope)
          <5>1. \/ ~ KindMatches(Units[u], scope)
                \/ MessageBitmap(Units[u], scope) = {}
            BY <4>2, EntrySound DEF Matching
          <5>2. MeantAt(scope, u) = {}
            BY <5>1 DEF MeantAt, MessageBitmap
          <5>3. DOMAIN Units[u].messages \cap MeantAt(scope, u) = {}
            BY <5>2
          <5>4. Kept(Units[u].messages, MeantAt(scope, u)) = <<>>
            BY <5>3, CorpusFacts, KeptNone
          <5>5. QED
            BY <4>2, <5>4
        <4>3. QED
          BY <4>1, <4>2
      <3> HIDE DEF e, s
      <3>3. QED
        BY <3>1, <3>2 DEF MeantUnits, KeptEach
    <2>6. QED
      BY <1>1, <1>2, <2>3, <2>4, <2>5
  <1>5. QED
    BY <1>3, <1>4

-----------------------------------------------------------------------------
(* The cursor and what was reviewed.                                         *)

\* The pages of a batch are those of the units from `next` to its last one.
BatchCovers(scope, next, batch) ==
  /\ batch.last \in next .. Total(scope)
  /\ [p \in DOMAIN batch.pages |-> batch.pages[p].evidence] =
       DeliveryPages(Evidence(scope, next, batch.last))

RunCovers(r) ==
  /\ r.scope \in Scopes /\ r.next \in 0 .. Total(r.scope)
  /\ r.batch # Nothing => BatchCovers(r.scope, r.next, r.batch)

CoverInv ==
  /\ run = Nothing => past.covered = <<>>
  /\ run # Nothing => RunCovers(run) /\ past.covered = Evidence(run.scope, 0, run.next)

(* Nothing is not the content of a state file: no state file is told from    *)
(* one that is there.                                                        *)
NothingIsNoRun == \A r : RunShape(r) => r # Nothing

LEMMA GreatestNumber ==
  ASSUME NEW n \in Nat, NEW T \in SUBSET (0 .. n), T # {}
  PROVE  Max(T) \in T
  <1> DEFINE below == {n - k : k \in T}
  <1>1. below \in SUBSET Nat /\ below # {}
    <2>1. \A k \in T : n - k \in Nat
      OBVIOUS
    <2>2. PICK k \in T : TRUE
      OBVIOUS
    <2>3. QED
      BY <2>1, <2>2
  <1>2. PICK l \in below : \A k \in below : l <= k
    <2> HIDE DEF below
    <2> QED
      BY <1>1, LeastNumber
  <1>3. PICK m \in T : l = n - m
    OBVIOUS
  <1>4. \A k \in T : n - m <= n - k
    BY <1>2, <1>3
  <1>5. \A k \in T : m >= k
    <2> TAKE k \in T
    <2>1. n - m <= n - k /\ k \in Nat /\ m \in Nat
      BY <1>4
    <2>2. QED
      BY <2>1
  <1>6. QED
    BY <1>5 DEF Max

LEMMA BatchEndBounds ==
  ASSUME NEW scope, NEW first \in 0 .. Total(scope), first # Total(scope), NEW bytes, NEW messages
  PROVE  BatchEnd(scope, first, bytes, messages) \in first .. Total(scope)
  <1> DEFINE T == {last \in first + 1 .. Total(scope) :
                     \/ last = first + 1
                     \/ /\ Bytes(Evidence(scope, first, last)) <= bytes
                        /\ Len(Evidence(scope, first, last)) <= messages}
  <1>1. Total(scope) \in Nat /\ first \in Nat /\ first + 1 \in first + 1 .. Total(scope)
    BY ScopedFacts
  <1>2. first + 1 \in T /\ T \in SUBSET (0 .. Total(scope))
    BY <1>1
  <1>3. BatchEnd(scope, first, bytes, messages) = Max(T)
    BY DEF BatchEnd
  <1>4. \A last \in T : last \in first .. Total(scope)
    BY <1>1
  <1> HIDE DEF T
  <1>5. Max(T) \in T
    BY <1>1, <1>2, GreatestNumber
  <1>6. QED
    BY <1>3, <1>4, <1>5

LEMMA NewBatchCovers ==
  ASSUME NEW scope, NEW first, NEW last \in first .. Total(scope), NEW before
  PROVE  BatchCovers(scope, first, NewBatch(scope, first, last, before))
  <1> DEFINE delivery == DeliveryPages(Evidence(scope, first, last))
             pages == [p \in DOMAIN delivery |->
                         [evidence |-> delivery[p], delivered |-> FALSE, review |-> Nothing]]
             batch == NewBatch(scope, first, last, before)
  <1>1. batch.last = last /\ batch.pages = pages
    BY DEF NewBatch
  <1>2. delivery = [p \in DOMAIN delivery |-> delivery[p]]
    BY DEF DeliveryPages
  <1> HIDE DEF delivery, batch
  <1>3. [p \in DOMAIN pages |-> pages[p].evidence] = delivery
    BY <1>2
  <1>4. QED
    BY <1>1, <1>3 DEF BatchCovers, delivery, batch

(* memory next.                                                              *)
Counted(scope) == IF run # Nothing /\ scope # run.scope THEN <<>> ELSE past.covered

LEMMA BoundCovers ==
  ASSUME BatchesInv, CoverInv, NEW scope \in Scopes, MayBind(scope)
  PROVE  LET r == Bound(scope)
         IN  r.scope = scope /\ RunCovers(r) /\ Counted(scope) = Evidence(scope, 0, r.next)
  <1>1. 0 \in 0 .. Total(scope)
    BY ScopedFacts
  <1>2. CASE run = Nothing
    <2>1. Bound(scope) = [scope |-> scope, completed |-> <<>>, format |-> "wiki", next |-> 0,
                          batch |-> Nothing, last |-> Nothing, wiki |-> Nothing]
      BY <1>2 DEF Bound, NewRun
    <2>2. QED
      BY <1>1, <1>2, <2>1, EvidenceNone DEF RunCovers, CoverInv, Counted
  <1>3. CASE run # Nothing /\ run.scope = scope
    BY <1>3 DEF Bound, CoverInv, Counted
  <1>4. CASE run # Nothing /\ run.scope # scope
    <2>1. run.batch = Nothing
      BY <1>4 DEF MayBind, Finished
    <2>2. Bound(scope) = [scope |-> scope, completed |-> Append(run.completed, run.scope),
                          format |-> run.format, next |-> 0, batch |-> run.batch,
                          last |-> Nothing, wiki |-> run.wiki]
      BY <1>4 DEF Bound, BatchesInv, Shapes, RunShape
    <2>3. QED
      BY <1>1, <1>4, <2>1, <2>2, EvidenceNone DEF RunCovers, Counted
  <1>5. QED
    BY <1>2, <1>3, <1>4

LEMMA FormattedCovers ==
  ASSUME NEW r, Continues(r), RunCovers(r), NEW format
  PROVE  LET f == Formatted(r, format)
         IN  f.scope = r.scope /\ f.next = r.next /\ RunCovers(f)
  <1>1. CASE Formatted(r, format) = r
    BY <1>1
  <1>2. CASE Formatted(r, format) = [r EXCEPT !.format = format]
    <2>1. [r EXCEPT !.format = format] =
            [scope |-> r.scope, completed |-> r.completed, format |-> format,
             next |-> r.next, batch |-> r.batch, last |-> r.last, wiki |-> r.wiki]
      BY DEF Continues, RunShape
    <2>2. QED
      BY <1>2, <2>1 DEF RunCovers
  <1>3. QED
    BY <1>1, <1>2 DEF Formatted

LEMMA OpenedCovers ==
  ASSUME NEW r, Continues(r), RunCovers(r), NEW bytes, NEW messages
  PROVE  LET o == Opened(r, bytes, messages)
         IN  o.scope = r.scope /\ o.next = r.next /\ RunCovers(o) /\ RunShape(o)
  <1>1. CASE r.batch # Nothing
    BY <1>1 DEF Opened, Continues
  <1>2. CASE r.batch = Nothing /\ Finished(r)
    <2> DEFINE given == IF r.wiki = Nothing THEN WikiBefore(r) ELSE r.wiki
    <2>1. Opened(r, bytes, messages) = [r EXCEPT !.wiki = given]
      BY <1>2 DEF Opened
    <2> HIDE DEF given
    <2>2. Opened(r, bytes, messages) =
            [scope |-> r.scope, completed |-> r.completed, format |-> r.format,
             next |-> r.next, batch |-> r.batch, last |-> r.last, wiki |-> given]
      BY <2>1 DEF Continues, RunShape
    <2>3. QED
      BY <2>2 DEF RunCovers, RunShape
  <1>3. CASE r.batch = Nothing /\ ~ Finished(r)
    <2> DEFINE bound == IF messages < BatchMessages THEN messages ELSE BatchMessages
               last == BatchEnd(r.scope, r.next, bytes, bound)
               batch == NewBatch(r.scope, r.next, last, WikiBefore(r))
    <2>1. Opened(r, bytes, messages) = [r EXCEPT !.batch = batch]
      BY <1>3 DEF Opened
    <2>2. r.next # Total(r.scope)
      BY <1>3 DEF Finished
    <2> HIDE DEF bound
    <2>3. last \in r.next .. Total(r.scope)
      BY <2>2, BatchEndBounds DEF RunCovers
    <2> HIDE DEF last
    <2>4. BatchCovers(r.scope, r.next, batch)
      BY <2>3, NewBatchCovers
    <2> HIDE DEF batch
    <2>5. Opened(r, bytes, messages) =
            [scope |-> r.scope, completed |-> r.completed, format |-> r.format,
             next |-> r.next, batch |-> batch, last |-> r.last, wiki |-> r.wiki]
      BY <2>1 DEF Continues, RunShape
    <2>6. QED
      BY <2>4, <2>5 DEF RunCovers, RunShape
  <1>4. QED
    BY <1>1, <1>2, <1>3

LEMMA NextBatchCovers ==
  ASSUME NothingIsNoRun, BatchesInv, CoverInv, NextBatch
  PROVE  CoverInv'
  <1>1. NextLeaves
    BY DEF NextBatch, NextLeaves
  <1>2. PICK scope \in Scopes, format \in Formats \cup {Unspecified},
             bytes \in TextBounds, messages \in MessageBounds :
          /\ MayBind(scope)
          /\ \/ run' = Bound(scope)
             \/ run' = Formatted(Bound(scope), format)
             \/ run' = Opened(Formatted(Bound(scope), format), bytes, messages)
    BY DEF NextBatch
  <1> DEFINE bound == Bound(scope)
             formatted == Formatted(bound, format)
             opened == Opened(formatted, bytes, messages)
  <1>3. Continues(bound) /\ Continues(formatted)
    BY <1>2, BoundContinues, FormattedContinues
  <1>4. bound.scope = scope /\ RunCovers(bound) /\ Counted(scope) = Evidence(scope, 0, bound.next)
    BY <1>2, BoundCovers
  <1> HIDE DEF bound
  <1>5. formatted.scope = bound.scope /\ formatted.next = bound.next /\ RunCovers(formatted)
    BY <1>3, <1>4, FormattedCovers
  <1> HIDE DEF formatted
  <1>6. /\ opened.scope = formatted.scope /\ opened.next = formatted.next
        /\ RunCovers(opened) /\ RunShape(opened)
    BY <1>3, <1>5, OpenedCovers
  <1> HIDE DEF opened
  <1>7. /\ run'.scope = scope /\ run'.next = bound.next
        /\ RunCovers(run') /\ RunShape(run')
    BY <1>2, <1>3, <1>4, <1>5, <1>6 DEF bound, formatted, opened, Continues
  <1>8. run' # Nothing
    BY <1>7 DEF NothingIsNoRun
  <1>9. past'.covered = Counted(scope)
    <2> DEFINE covered == IF run # Nothing /\ run'.scope # run.scope THEN <<>> ELSE past.covered
               kept == past.kept \cup Baseline(run')
    <2>1. past' = [past EXCEPT !.covered = covered, !.kept = kept]
      BY <1>1 DEF NextLeaves
    <2>2. covered = Counted(scope)
      BY <1>7 DEF Counted
    <2> HIDE DEF covered, kept
    <2>3. past' = [covered |-> covered, kept |-> kept, latest |-> past.latest]
      BY <2>1 DEF BatchesInv, Shapes
    <2>4. QED
      BY <2>2, <2>3
  <1>10. RunCovers(run)'
    BY <1>7 DEF RunCovers, BatchCovers
  <1>11. past'.covered = Evidence(run'.scope, 0, run'.next)
    BY <1>4, <1>7, <1>9
  <1>12. QED
    BY <1>8, <1>10, <1>11 DEF CoverInv

(* memory page and memory acknowledge: a page keeps its evidence.            *)
LEMMA PageChangeCovers ==
  ASSUME NothingIsNoRun, BatchesInv, CoverInv, Outstanding(run), UNCHANGED past,
         NEW p \in DOMAIN run.batch.pages, NEW page,
         page.evidence = run.batch.pages[p].evidence,
         NEW batch, batch = [run.batch EXCEPT !.pages = [run.batch.pages EXCEPT ![p] = page]],
         run' = [run EXCEPT !.batch = batch]
  PROVE  CoverInv'
  <1> DEFINE old == run.batch.pages
             pages == [run.batch.pages EXCEPT ![p] = page]
  <1>1. BatchShape(run.batch) /\ RunShape(run) /\ run # Nothing
    BY DEF BatchesInv, Shapes, Outstanding
  <1>2. /\ DOMAIN pages = DOMAIN old
        /\ \A q \in DOMAIN old : pages[q].evidence = old[q].evidence
    BY <1>1 DEF BatchShape
  <1>3. batch = [run.batch EXCEPT !.pages = pages]
    OBVIOUS
  <1>4. [q \in DOMAIN pages |-> pages[q].evidence] = [q \in DOMAIN old |-> old[q].evidence]
    BY <1>2
  <1> HIDE DEF pages
  <1>5. batch = [id |-> run.batch.id, first |-> run.batch.first, last |-> run.batch.last,
                 targets |-> run.batch.targets, before |-> run.batch.before, pages |-> pages]
    BY <1>1, <1>3 DEF BatchShape
  <1>6. BatchCovers(run.scope, run.next, batch)
    BY <1>1, <1>4, <1>5 DEF CoverInv, RunCovers, BatchCovers, Outstanding
  <1>7. run' = [scope |-> run.scope, completed |-> run.completed, format |-> run.format,
                next |-> run.next, batch |-> batch, last |-> run.last, wiki |-> run.wiki]
    BY <1>1 DEF RunShape
  <1>8. /\ run'.scope = run.scope /\ run'.next = run.next /\ run'.batch = batch
        /\ RunShape(run')
    BY <1>7 DEF RunShape
  <1>9. run' # Nothing
    BY <1>8 DEF NothingIsNoRun
  <1>10. RunCovers(run)'
    <2>1. RunCovers(run')
      BY <1>1, <1>6, <1>8 DEF CoverInv, RunCovers
    <2>2. QED
      BY <2>1 DEF RunCovers, BatchCovers
  <1>11. past'.covered = Evidence(run'.scope, 0, run'.next)
    BY <1>1, <1>8 DEF CoverInv
  <1>12. QED
    BY <1>9, <1>10, <1>11 DEF CoverInv

LEMMA NextPageCovers ==
  ASSUME NothingIsNoRun, BatchesInv, CoverInv, NEW answered \in BOOLEAN, NextPage(answered)
  PROVE  CoverInv'
  <1>1. PICK p \in First(run.batch) : run' = [run EXCEPT !.batch = MarkDelivered(@, p)]
    BY DEF NextPage
  <1>2. Outstanding(run) /\ UNCHANGED past
    BY DEF NextPage, Outstanding
  <1>3. p \in DOMAIN run.batch.pages
    BY DEF First, Unreviewed
  <1> DEFINE page == [run.batch.pages[p] EXCEPT !.delivered = TRUE]
  <1>4. page.evidence = run.batch.pages[p].evidence
    <2>1. PageShape(run.batch.pages[p])
      BY <1>2, <1>3 DEF BatchesInv, Shapes, BatchShape, Outstanding
    <2>2. page = [evidence |-> run.batch.pages[p].evidence, delivered |-> TRUE,
                  review |-> run.batch.pages[p].review]
      BY <2>1, PageWith
    <2> HIDE DEF page
    <2>3. QED
      BY <2>2
  <1> DEFINE batch == MarkDelivered(run.batch, p)
  <1>5. batch = [run.batch EXCEPT !.pages = [run.batch.pages EXCEPT ![p] = page]]
    BY DEF MarkDelivered
  <1>6. run' = [run EXCEPT !.batch = batch]
    BY <1>1
  <1> HIDE DEF page, batch
  <1>7. QED
    BY <1>2, <1>3, <1>4, <1>5, <1>6, PageChangeCovers

LEMMA AcknowledgeCovers ==
  ASSUME NothingIsNoRun, BatchesInv, CoverInv, AcknowledgePage
  PROVE  CoverInv'
  <1>1. Outstanding(run) /\ UNCHANGED past
    BY DEF AcknowledgePage, Outstanding
  <1>a. PICK tokens \in {{seen}} \cup (IF unanswered THEN {} ELSE {{}}) :
          \E p \in Selected(run.batch, tokens) :
            \E retained \in SUBSET Aliases(run.batch.pages[p].evidence) :
              /\ Reviewable(run.batch, p, retained)
              /\ run' = [run EXCEPT !.batch.pages[p].review = retained]
    BY DEF AcknowledgePage
  <1>2. PICK p, retained :
          /\ Reviewable(run.batch, p, retained)
          /\ run' = [run EXCEPT !.batch.pages[p].review = retained]
    BY <1>a
  <1>3. p \in DOMAIN run.batch.pages
    BY <1>2 DEF Reviewable, First, Unreviewed
  <1> DEFINE page == [run.batch.pages[p] EXCEPT !.review = retained]
  <1>4. page.evidence = run.batch.pages[p].evidence
    <2>1. PageShape(run.batch.pages[p])
      BY <1>1, <1>3 DEF BatchesInv, Shapes, BatchShape, Outstanding
    <2>2. QED
      BY <2>1 DEF PageShape
  <1> DEFINE batch == Reviewed(run.batch, p, retained)
  <1>5. batch = [run.batch EXCEPT !.pages = [run.batch.pages EXCEPT ![p] = page]]
    BY DEF Reviewed
  <1>6. run' = [run EXCEPT !.batch = batch]
    BY <1>2 DEF Reviewed
  <1> HIDE DEF page, batch
  <1>7. QED
    BY <1>1, <1>3, <1>4, <1>5, <1>6, PageChangeCovers

(* memory commit: the pages that were reviewed are those of the batch.       *)
LEMMA CommitWriteCovers ==
  ASSUME NothingIsNoRun, BatchesInv, CoverInv, CommitWrite
  PROVE  CoverInv'
  <1> DEFINE given == IF run.format = "wiki" THEN committing ELSE run.wiki
             covered == past.covered \o FlattenSeq(ReviewedEvidence(run.batch))
             last == run.batch.last
  <1>1. run' = Committed(run) /\ past'.covered = covered
    BY DEF CommitWrite
  <1>2. Outstanding(run) /\ ReviewComplete(run.batch)
    BY DEF CommitWrite, BatchesInv, CommitReady
  <1>3. run # Nothing /\ RunShape(run) /\ RunCovers(run)
        /\ BatchCovers(run.scope, run.next, run.batch)
        /\ past.covered = Evidence(run.scope, 0, run.next)
    BY <1>2 DEF BatchesInv, Shapes, Outstanding, CoverInv, RunCovers
  <1>4. ReviewedEvidence(run.batch) = DeliveryPages(Evidence(run.scope, run.next, last))
    <2>1. ReviewedEvidence(run.batch) = [p \in DOMAIN run.batch.pages |-> run.batch.pages[p].evidence]
      BY <1>2 DEF ReviewedEvidence, ReviewComplete
    <2>2. QED
      BY <1>3, <2>1 DEF BatchCovers
  <1>5. last \in 0 .. Total(run.scope) /\ run.next \in 0 .. last
    BY <1>3, ScopedFacts DEF RunCovers, BatchCovers
  <1>6. covered = Evidence(run.scope, 0, last)
    <2>1. Evidence(run.scope, run.next, last) \in Seq(CorpusMessages)
      BY <1>5, StretchType
    <2>2. FlattenSeq(DeliveryPages(Evidence(run.scope, run.next, last)))
            = Evidence(run.scope, run.next, last)
      BY <2>1, PagesFlatten
    <2>3. Evidence(run.scope, 0, last)
            = Evidence(run.scope, 0, run.next) \o Evidence(run.scope, run.next, last)
      BY <1>5, EvidenceSplit
    <2>4. QED
      BY <1>3, <1>4, <2>2, <2>3
  <1>7. Committed(run) = [run EXCEPT !.next = last, !.batch = Nothing,
                                     !.last = run.batch.id, !.wiki = given]
    BY DEF Committed
  <1> HIDE DEF covered, given, last
  <1>8. run' = [scope |-> run.scope, completed |-> run.completed, format |-> run.format,
                next |-> last, batch |-> Nothing, last |-> run.batch.id, wiki |-> given]
    BY <1>1, <1>3, <1>7 DEF RunShape
  <1>9. run'.scope = run.scope /\ run'.next = last /\ run'.batch = Nothing /\ RunShape(run')
    BY <1>8 DEF RunShape
  <1>10. run' # Nothing
    BY <1>9 DEF NothingIsNoRun
  <1>11. RunCovers(run)'
    <2>1. RunCovers(run')
      BY <1>3, <1>5, <1>9 DEF RunCovers
    <2>2. QED
      BY <2>1 DEF RunCovers, BatchCovers
  <1>12. past'.covered = Evidence(run'.scope, 0, run'.next)
    BY <1>1, <1>6, <1>9
  <1>13. QED
    BY <1>10, <1>11, <1>12 DEF CoverInv

LEMMA CoverStep ==
  ASSUME NothingIsNoRun, BatchesInv, CoverInv, [Next]_vars
  PROVE  CoverInv'
  <1>1. CASE UNCHANGED <<run, past>>
    BY <1>1 DEF CoverInv, RunCovers, BatchCovers
  <1>2. CASE NextBatch
    BY <1>2, NextBatchCovers
  <1>3. CASE \E answered \in BOOLEAN : NextPage(answered)
    BY <1>3, NextPageCovers
  <1>4. CASE AcknowledgePage
    BY <1>4, AcknowledgeCovers
  <1>5. CASE CommitWrite
    BY <1>5, CommitWriteCovers
  <1>6. CASE ClientRestart \/ CommitScan \/ CommitStops \/ EditWiki
    BY <1>1, <1>6 DEF ClientRestart, CommitScan, CommitStops, EditWiki
  <1>7. QED
    BY <1>1, <1>2, <1>3, <1>4, <1>5, <1>6 DEF Next, vars

LEMMA CoverInvariance ==
  ASSUME NothingIsNoRun
  PROVE  Spec => []CoverInv
  <1>1. Init => CoverInv
    BY DEF Init, CoverInv
  <1>2. BatchesInv /\ CoverInv /\ [Next]_vars => CoverInv'
    BY CoverStep
  <1>3. QED
    BY BatchesInvariance, <1>1, <1>2, PTL DEF Spec

LEMMA CoverSkipsNothing ==
  ASSUME CoverInv
  PROVE  NothingSkipped
  <1> SUFFICES ASSUME run # Nothing
               PROVE  /\ IsPrefix(past.covered, MeantBy(run.scope))
                      /\ past.covered = Evidence(run.scope, 0, run.next)
                      /\ Finished(run) => past.covered = MeantBy(run.scope)
    BY DEF NothingSkipped
  <1> DEFINE scope == run.scope
             next == run.next
             total == Total(run.scope)
             a == Evidence(scope, 0, next)
             b == Evidence(scope, next, total)
  <1>1. scope \in Scopes /\ next \in 0 .. total /\ past.covered = a
    BY DEF CoverInv, RunCovers
  <1>2. total \in Nat /\ total \in 0 .. total /\ next \in 0 .. total /\ 0 \in 0 .. next
    BY <1>1, ScopedFacts
  <1>3. Evidence(scope, 0, total) = MeantBy(scope)
    BY <1>1, ScopeExact
  <1>4. Evidence(scope, 0, total) = a \o b
    BY <1>2, EvidenceSplit
  <1>5. a \in Seq(CorpusMessages) /\ b \in Seq(CorpusMessages)
    BY <1>2, StretchType
  <1>6. Finished(run) => past.covered = MeantBy(scope)
    BY <1>1, <1>3 DEF Finished
  <1> HIDE DEF a, b, total, next, scope
  <1>7. IsPrefix(a, a \o b)
    <2>1. Len(a) \in Nat /\ Len(b) \in Nat /\ Len(a \o b) = Len(a) + Len(b)
      BY <1>5, LenProperties, ConcatProperties
    <2>2. Len(a) <= Len(a \o b)
      BY <2>1
    <2>3. \A i \in 1 .. Len(a) : a[i] = (a \o b)[i]
      BY <1>5, <2>1, ConcatProperties
    <2>4. QED
      BY <1>5, <2>1, <2>2, <2>3 DEF IsPrefix
  <1>8. QED
    BY <1>1, <1>3, <1>4, <1>6, <1>7 DEF scope, a, next

(* Nothing behind the cursor of any run was skipped, for any corpus whose    *)
(* units are in order of time: the evidence of all reviewed pages is what    *)
(* the scope means up to the cursor, in order and once each, and all of it   *)
(* when the run reports itself complete, whichever commands were killed,     *)
(* repeated or unanswered.                                                   *)
THEOREM NothingSkippedHolds ==
  ASSUME NothingIsNoRun
  PROVE  Spec => []NothingSkipped
  <1>1. CoverInv => NothingSkipped
    BY CoverSkipsNothing
  <1>2. QED
    BY CoverInvariance, <1>1, PTL
=============================================================================
