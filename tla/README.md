# GreenBubbles: a TLA+ verification project

GreenBubbles reads the WeChat history on its owner's own Mac: it captures the
client's databases, restores them into canonical archives, keeps an encrypted
replica of them, serves that replica and the live databases to local consumers
under a policy, lets a reviewing agent turn the history into a wiki, and can
send a message the owner approved, through an input helper that drives the
client's window. This directory holds TLA+ models of the parts whose
correctness depends on the order of steps: several processes over one file, a
crash between two writes, a reply that never arrives, a reader beside a writer.

Every definition is written from the code. `PROJECT.json` maps each one to the
lines it stands for, lists the runs, the hazards they are aimed at, the finding
and the theorems; for each property it also names a small mutation of a
definition (the operators marked *mutant*) under which TLC finds it violated, so
that no property holds whatever the code does.

    tlc -workers 2 -config MCSendOutbox.cfg MCSendOutbox
    tlapm SendOutboxProof.tla

## The system

| Part | State it keeps | Operations | What makes it correct |
|---|---|---|---|
| Send outbox, `send_outbox.rs` | `outbox.json`: entry in flight, entries parked for reconciliation, spent keys and approvals, completions, rate window, breaker, totals | reserve, mark_attempted, complete, resolve_pending, recover on open; each a locked read-modify-write | one attempt live at a time, no approval attempted twice, no reservation lost |
| Send control plane, `send_adapter.rs`, with the helper `HelperService.swift` / `SendSkill.swift` | staged attachments, capabilities, the helper's serial queue, the journal's send records | execute, reconcile, status, doctor; executeSend | Return pressed once per approval, journaled before it happens, outcomes that match the chat |
| Connector, `connector.rs`, `tools.rs`, `transport.rs` | policy, drafts, hash-chained journal, checkpoint-bound caches, a socket | scoped reads, change stream, drafts, previews, audit of the journal | what a response reads is of one checkpoint, one chain, drafts paired with requests |
| Replica database, `replica.rs` | SQLCipher database: records, coverage, checkpoint, change log, identifier; backups | bootstrap, sync, changes, search, migration, backup, recovery | a sync is the archive or nothing; the change log explains every difference; a partial archive discards nothing it did not read |
| Publication and follower, `follow.rs`, `operator.rs`, `main.rs` | handoff, history of generations, quarantine, follow state, two locks | publish, publish-next, quarantine, restore, follow | an archive is never lost, the last two stay servable, the replica is never taken back, the follower catches up with what its replica takes |
| Change consumer, `examples/change_consumer.rs` | a state file: cursor, conversations, messages | bootstrap, resume, catch up | the copy is the replica but for what the stream still has to tell |
| Personal memory corpora, `personal_memory.rs` | a prepared corpus, and those it extends | prepare, extend | what the policy means, once each, while the client writes |
| Personal memory batches, `personal_memory.rs`; driver `personal-memory-parallel.py` | batch ledger, wiki; shards, project lock | next, page, acknowledge, commit; shards, ticks | everything in the scope read in order, a review only of what was read, notes that cite only what was kept |
| Live queries, `live_query.rs`, `live_attachment.rs` | cursors bound to a query | pages of conversations, messages, searches | no record skipped or shown twice unless a page says so |
| Snapshot capture, `ReadOnlySnapshot.swift`, `SnapshotAcquisitionPlanner.swift` | plan, copies, fingerprints, manifest | discover, plan, verify, clone or copy, retry | each database and its log are of one moment |
| Chain of archives, `operator.rs`, `merge.rs`, `restore.rs`, `acquisition_audit.rs`, `manifest.rs` | snapshots and archives on disk, renamed into place | restore, audit a continuation, merge | what is called fresh is fresh; what could not be read is kept |
| Restoration of records, `restore.rs`, `artifact.rs`, `catalog.rs`, `entities.rs` | none | decode | counts balance |
| Audit, `audit.rs` | none | recompute every invariant of an archive | agrees with what restoration and merge produce |
| Recoverable snapshots, `recoverable_snapshot.rs`, `snapshot_protector.rs` | encrypted generations, protectors | create, rewrap, rekey, quarantine, restore, verify | a generation is retired only under a verified newer one |
| AI exports, `ai_context.rs`, `ai_memory.rs` | none | deterministic renderings | budget and scope |
| Acquisition, history browser, article fetch, packaging | – | – | outside these models |

**How they interact.** Capture feeds restoration; restoration and merge produce
archives, each bound to the snapshot it is of; `operator.rs` publishes an archive
by replacing the handoff file under its lock and then the history beside it; the
follower polls the handoff, audits the archive, applies it to the replica in one
SQLite transaction and writes its follow state, under the follow state's lock but
not the handoff's. The connector reads the replica request by request. A draft
made and approved through the connector is executed by `send_adapter.rs`, which
reserves it in the outbox, journals, asks the helper, and settles; what the
helper leaves undecided is decided later from the replica, so the send path
depends on how far the follower has come. Personal memory prepares its corpus
with live queries, over the client's own databases, and hands it to a reviewing
agent page by page.

**What is hard.** Every command line process may stop between two writes, and
several run at once, with advisory locks around single files only. The client
never stops writing the databases that are copied and queried. The helper
outlives its caller's timeout. Two files that belong together (handoff and
history, replica and follow state, outbox and journal, draft and journal,
staging directory and outbox) are written one after the other. The replica
advances between the requests of one reader. `PROJECT.json` lists these hazards
line by line, with the properties aimed at each, and says of the ones no
property covers why.

## The modules

| Module | Models | Notes |
|---|---|---|
| `SendOutboxState` | the outbox document and its operations as operators | no state: shared by the next two |
| `SendOutbox` | any number of clients, one transaction at a time | the abstract specification of the control plane |
| `SendOutboxProof` | theorems about `SendOutbox` | TLAPS |
| `SendControlPlane` | processes step by step, journal, staging, helper, client, replica, clock | implements `SendOutbox` (`StoreSpec`) |
| `SendControlPlaneProof` | that it does, and its other properties | TLAPS |
| `ReplicaPublication` | publication, quarantine, restoration, one effect on disk a step | |
| `ReplicaFollower` | the follower beside `ReplicaPublication` | extends it; shares handoff and archives |
| `ReplicaFollowerProof` | theorems about the two | TLAPS |
| `ReplicaStore` | the replica database: bootstrap, synchronization, backup, recovery | content of what `ReplicaFollower` applies |
| `ChangeConsumer` | the change stream and its consumer beside `ReplicaStore` | extends it |
| `ChangeConsumerProof` | theorems about the two | TLAPS |
| `Connector` | processes, caches, drafts, journal and its audit | the journal records of a send are in `SendControlPlane` |
| `ConnectorProof` | theorems about `Connector` | TLAPS |
| `CorpusSelection` | selection, episodes, units and their order, as operators | no state |
| `MemoryCorpus` | prepare and extend beside databases that change | extends `CorpusSelection` |
| `MemoryScopes` | the units of a scope, batches and pages, as operators | no state |
| `MemoryBatches` | next, page, acknowledge, commit over a state file and a wiki | extends `MemoryScopes` |
| `MemoryBatchesProof` | theorems about `MemoryBatches` | TLAPS |
| `LiveQuery` | one client paging through a query while the databases change | |
| `LiveQueryProof` | theorems about `LiveQuery` | TLAPS |
| `SnapshotCapture` | the snapshot command beside a SQLite writer | |
| `AcquisitionChain` | audit of continuations, restoration and merge, per source set | extends `SnapshotCapture` |
| `AcquisitionChainProof` | theorems about `AcquisitionChain` | TLAPS |

Each `MC...` module gives the constants of one model for TLC.

### SendOutboxState, SendOutbox

The document is a record with the fields of `SendOutboxState`; `ValidDocument`
is `validate`, and each operation is a guard (`CanReserve`, ...) and the document
it makes (`Reserve`, ...). `Transaction` is the locked read, change, validation
and persist of the code: a document that is not valid or too large is not
written, and the operation fails as a whole. `OpenStep` is the recovery every
command runs when it opens the outbox; it may run at any time, also while the
process that owns the entry in flight is alive, because the code cannot tell.
Sizes are counted per entry (`Bytes`), not per character. `attempts` is a history
variable.

*Run* `outbox`: three keys, two of them of one approval, a window of one clock
unit, maxima 1 and 2, clock readings 0 to 2 in any order (the code's readings
come from several processes), one completion remembered so that the history
forgets, a breaker that opens after two failures. Three keys are enough for a
second key of a spent approval to meet every state the first can be in and for
an unrelated entry to be in flight meanwhile.

### SendControlPlane

Processes run `execute`, `reconcile` or one of the commands that only open the
outbox. A step is one outbox transaction, one journal append or one change of the
staging root. `Begin` reads the clock once, as the code does, and everything a
command decides uses that reading. `RecoverOutbox`, `ReadLive` and `Sweep` are
the opening every command performs; `Precheck` to `JournalReconciliation` are
`execute_with_artifacts` in its order; `Observe` to `ResolveEntry` are
`reconcile`. A call to the helper that times out ends the waiting, never the
helper's work (`Awaited`, `Reply`). `Crash` ends a process at any step.
`HelperStart`, `PressReturn`, `ReleaseFails`, `SkillEnds`, `HelperDies` are the
helper: Return going down and coming up are two events, and when the second
cannot be made the caller is told that nothing was attempted, although the client
may have sent (`halfway`). `Transacts` names what a step may do to the outbox.
`Attest` is `reconcile --observation`, an operator's word in place of the replica.
`BodyOf` is all that reconciliation knows a message by, so two drafts, or a draft
and what the owner sends by hand (`OwnerTypes`), may read the same;
`ReplicaFollows` is the replica learning of a message, later or never. `verdicts`
remembers what was concluded of each key and whether the client had a message of
that very attempt. The conditions on drafts, builds, profiles and screens are one
refusal, which ends a command as a crash does.

*Run* `control_plane`: two processes, two commands, crashes at any step; four keys,
two to an approval and a text, of which the first carries an attachment and may be
vouched for by the operator and the last is a dry run; the owner types one message
that reads like the first two, at any time. A reconciliation begins with a key that is reserved
(`KnownKeys`): with any other it does what `status` does. Return is pressed once for an approval
(`OneReturnPerApproval`), and after the journal knows (`ReturnJournaled`); an entry
closed without reconciliation sees no Return but for a press that failed half-way
(`ClosedUnattempted`); at most one key may still be sent (`OneSendAtATime`) and a
resolved key is quiet (`QuietWhenResolved`), beside the keys reconciliation misjudged;
*sent* is concluded from a message that reads the same and is recent enough
(`SentHasMatch`), not more; every step of the store is one of `SendOutbox`
(`StoreSpec`). `Misjudged` is computed from the verdicts: a key taken for sent on a
message not its own, or on the word of an operator without one, or taken for failed
after a grace that was shorter than a capability's life and the work of the helper.

Two commands are enough for each race of two processes (both between PRECHECK and
reservation, recovery of a live attempt, a reconciliation beside its helper), and for
an attempt, its loss and its reconciliation. The clock is bounded by 2 and a
capability lives one unit: a capability can expire in the queue, be taken in its last
moment, and be waited for until the grace of two units elapses. `validate` accepts a
grace shorter than that; the proofs cover it, and the run has the order the defaults
intend. The sweep of a staged copy that another process has just reserved happens in
the run; no property forbids it, since the code does not (known disagreements).

### ReplicaPublication

Operators build archives, publish them with a generation or from a predecessor
they captured, retire all but the newest into a quarantine and restore them.
Every rename and every atomic replacement of a file is a step of its own, and
`Stop` ends a command between any two. The history and the handoff are reconciled
by the next command as `load_or_reconcile_publication_history` does. An archive's
report, ledgers and seal are one content; an equivalent handoff that is
reformatted and the byte limit of the history are left out.

*Run* `publication`: two operators; the lock admits one command at a time, and
captures and builds happen outside it; two paths, two contents, four generations,
with symmetry on paths and contents. Four generations on two paths make paths
shared by retired and protected publications unavoidable.

### ReplicaFollower

`Poll`, `Load`, `Lock`, `Audit`, `AlreadyApplied`, `Apply`, `Seal` are
`follow_replica_once` and the loop of `replica-follow`; publications,
quarantines and restorations go on between them, because the follower does not
hold the handoff's lock. `Refuse` is an error the code returns, `Fault` a crash;
after either the process is started again.

What a synchronization does to rows is `ReplicaStore`'s; here it has a content
and may refuse one after another (`Refusing`), for the two reasons `ReplicaStore`
gives: the archive lacks what the replica holds of a database it could not read
(`Lossless`), or a row takes the ordinal of one that is still there (`Collides`).

*Runs*: two followers of one replica, one publisher, three generations on two paths
and two contents, of which the replica that holds the first refuses the second but
not the other way round. `follower` adds one crash: the follow state only names
committed checkpoints, and the replica is never taken back. `follower_catches_up`:
followers end up with the current publication, also after publications the replica
refused, unless the binding of their replica was lost (`Unbound`) or the publication
is one that the replica refuses (`Stuck`): such a follower is restarted and refused
again until the next publication. A crash ends a follower as a refusal
does; this run leaves crashes out, since no symmetry may be used for liveness and
the states would be too many.

**Fairness.** Weak fairness of each follower's steps: the loop of
`replica-follow` polls for ever and its supervisor restarts it, and none of its
steps waits for another process except for the lock of the follow state, which is
released by whoever holds it, also by its death. Nothing is asked of the
publisher: it may stop in the middle of any command. The bound on generations
hides one behaviour, a publisher that outpaces the follower for ever.

### ReplicaStore, ChangeConsumer

An archive is what passes the audit: per conversation a list of messages with
ordinals 0, 1, 2, ..., the databases of the source and those it could read.
`Check` is what `synchronize_replica` decides before its transaction (nothing
changed, or a partial archive that lacks what the replica holds); `Commit` is
`reconcile_archive_transactionally`, which writes rows one by one under a unique
index on the ordinals and removes missing rows last, so `Collides` is the
condition under which it fails and rolls back. `Upgrade` and `Recover` are the
backup a migration leaves and the candidate `prepare_replica_recovery` makes of
it; only the specification `RecoverySpec` has them.

The consumer drains the stream to a high water, lists, pages, catches up,
refreshes each changed message and writes its state at the end; each is a request
of its own, and synchronizations commit between any two, and between the
comparison of a page's checkpoint and the selection of its rows, which the code
does in two statements without a transaction. `End` is an error or a stop at
any point.

*Runs.* `change_consumer`: three messages of two conversations in two databases,
seven archives (messages deleted, changed, a conversation renamed, either database
unreadable, a database gone), two processes that synchronize, up to three
checkpoints, a replica replaced once, pages of one record. What the consumer stored is the
replica but for what the stream still tells it, the last change of a message in
the log agrees with the replica, and a synchronization drops no record of a database
it did not read, unless another one committed after its decision (`overtaken`):
the code takes no lock, and that one does drop them (known disagreements).
Pages of one record make every page boundary and every empty page (all records
filtered) happen. `change_consumer_recovered` is the finding below.

Left out: participants, artifacts and cached moments (reconciled like
conversations), search, retention of backups, policies that change while a
consumer runs, and a policy with more conversations than one page of
`listConversations` holds, which the consumer does not page.

### Connector

A process serves one request at a time. `Plan` lists what an operation reads, in
order: straight from the replica or through the caches of the process, which are
cleared when the checkpoint moves (`Refresh`, `Cleared`). `Commit` is the follower
advancing the replica between any two reads. Operations of the connector are
checked against the checkpoint they began with before their reply leaves
(`Moved`); `query` is `ai-query`, a search under the guard of its own, and
`ownerDraft` is `draft-attachment`, which has neither guard nor journal and cannot
be previewed. A draft is a file, then a journal record written under the lock of
the journal after a look at its last line, then the reply; `AppendFails`,
`WriteFails` and `Kill` end any of it, and a refused append takes its draft back.
`AuditRead` to `AuditRelist` are `audit-connector-state`: journal, directory,
journal and directory again, others writing in between. It lists the directory in
one step. A preview shows the stored draft (`ReadDraft`, `shown`), with whatever
source it was read from. What the checks of a policy refuse is one refusal.

*Run* `connector`: two processes, two requests of any kind, two checkpoints of two
sources, one fault, symmetry on the processes. Two requests are enough for a
draft and its preview, for two appends to one chain, and for a request over the
caches another left in the process. A preview of a draft
whose receipt was released is of one source with the draft it shows
(`PreviewOfOneSource`); of a draft whose receipt was withheld it is not (known
disagreements). No fairness: nothing must happen.

### CorpusSelection, MemoryCorpus

`CorpusSelection` is what a preparation computes from rows: months, sessions cut
at gaps, context windows around the account holder's messages (both with the bounds
of a direct chat or of a group, `SessionBounds`), units bounded in
messages and bytes, and the two orders units are published in.
`MemoryCorpus` takes the steps: `BeginPrepare` or `BeginExtend` reads the
inventory of conversations, `Scan` the metadata of one conversation, `Hydrate` the
text of what was selected, again one at a time, `Publish` renames the corpus into
place. `Arrive` and `Vanish` change the databases between any two, a query may
fail, and a month may pass. `Loads` is what a corpus must satisfy to be read or
extended.

*Run* `memory_corpus`: a direct chat, a group and an official account, nine
messages over two months, two of which are not there at first and one of which does
not decode, three policies, one of them with other bounds for groups than for direct chats, and
one that is refused, two corpora, one trouble (a row
that goes or changes, or a query that fails). `SelectionExact` and `FrontierShared` compare the
algorithm with a definition of their own of what a policy and an order mean.
Deadlock is not checked: the bound on corpora ends the behaviour.

### MemoryScopes, MemoryBatches

`MemoryScopes` computes the units a scope selects, from the index first and then
from the messages, the batch the next of them fill and its pages.
`MemoryBatches` has the commands: `NextBatch` creates, continues or rebinds a run
and writes the batch and the targets it may change; `NextPage` delivers a page;
`AcknowledgePage` and the two halves of a commit, `CommitScan` and `CommitWrite`,
with `EditWiki` in between, since the wiki belongs to anyone. Replies are lost
(`answered`), commands are killed before or after their write, and the client may
forget everything (`ClientRestart`); it names a page by its token or as *current*,
the latter only after a `page` that was answered, as the workflow asks.

*Run* `memory_batches`: two units of two conversations, three messages, a scope of
all and one that begins in the middle of the first unit, pages of two messages,
one of what the account holder wrote, which has nothing of the second unit, both
formats, text bounds that give batches of one and of both units, two wikis to
begin with, one rebind. One rebind lets a completed scope meet every state of the
second; a batch of two pages has reviews in part. No fairness.

### LiveQuery

One query of a client: conversations, messages, native search, or the search that
decodes messages conversation by conversation (`Scan`). A page is a request of
its own; within one, each shard is read by its own statement (`ReadShard`), and a
shard that cannot be opened, a row that cannot be decoded, a request that fails and
a reply that is lost are troubles. `Change` is the client's database: messages
arrive, are removed and get their server identifier, which moves their key;
conversations leave the session table. A message that arrives gives its
conversation the present as its timestamp (`Present`, a clock that every change
moves on): timestamps of the table are never given again. `Abandon` ends a request.
A message has a row in its conversation's table and another in the native index
(`row`, `entry`), and each identifies it. The native index has the rows of the messages (its lag is not modelled); contacts, ranked
conversations and attachments are left out.

*Run* `live_query`: six messages of three conversations in two shards, six
requests with limits 1 and 2 and ranges of time, page limit, scan budget and
conversation budget 2, two changes and one trouble. With limits that small every
bound of the scan is the one that ends a page in some state. **Fairness**: weak
fairness of `Page`, a client that goes on asking while there is more; the service
answers each request in bounded time. Deadlock is not checked: a query ends.

### SnapshotCapture, AcquisitionChain

The client is a SQLite writer, known to the code only through its files: it
appends frames to a log, commits, rolls back, checkpoints page by page, begins a
copied log again under a new salt, closes, creates and removes databases. Every
change gives a file a stamp of its own, which stands for the identity, size and
times the code compares; frames are written whole; a copy of one file is one step,
since the code compares its stamp before and after. `Discover`, `Plan`,
`VerifyBefore`, `Baseline`, `CopyDatabase`, `CopyLog`, `CheckGroup`, `Finish` are the
command, which tries again under the same plan when a check fails
(`AttemptFails`); `Manifest` carries the digests of what was not copied.
`Applied` is `wal.rs`, and also what SQLite itself sees.

`AcquisitionChain` adds what becomes of snapshots: `Loads` is the loader of
manifests, `Continues` the audit of a continuation, `Restorable` what could be
read (any part of it may not), `Update` the merge of what was restored into the
archive before it. Snapshots and archives are complete when they appear, so each
of these is one step. The records of a source set are the image its database had.

*Run* `acquisition_chain`: two source sets of two pages; the first changes five
times (its creation, a log, and three of frames, checkpoints and a restart: a
transaction of two frames that is half copied back, or two transactions with a
checkpoint between them), the second is created or removed; two attempts, two
snapshots, a chain of three archives, so that a set goes from fresh to stale and
stays or comes back. Archives are made after the last snapshot, and the client
rests then: they read snapshots only. Symmetry on pages. Deadlock is not checked: the bounds run out.
`FreshCommitted` makes one exception, a log that came and went unseen (below).

## What the runs show

All runs pass but one. `change_consumer_recovered` checks `NothingMissed`, what
`examples/change_consumer.rs` promises, against a replica restored from a backup:
the recovered replica keeps its identifier, so a cursor beyond its change log is
accepted and the sequence numbers it reuses are skipped.

### Known disagreements

Behaviours of the code that a comment, a document or another part of the code
contradicts, found while modelling. The models contain the code's behaviour; where
a property would be violated by one, it names the exception.

- *Send.* When the event that releases Return cannot be made, the press was
  delivered and `SendSkill` reports that nothing was attempted
  (`MacOSInputEffector.swift:86-98`, `SendSkill.swift:418-419`); "Return was never
  pressed" (`send_contract.rs:155`) is then false of the closed entry, which is why
  `ClosedUnattempted` excepts `halfway`. Any outgoing message of the same text, and
  any image or file of the name, resolves an attempt as sent
  (`observe_send_in_replica`), which does not prove "the message exists"
  (`send_contract.rs:324`): `SentHasMatch` says no more than it does, and
  `Misjudged` names the keys. Reconciliation concludes *failed* from a replica that
  has not followed the client since the attempt, so a message that was sent may be
  recorded as provably not sent. A command that read the outbox sweeps a staged
  attachment that another process has reserved since, or is about to
  (`sweep_staging_root`, against `send_adapter.rs:1717`). A crash between the outbox
  and the journal, then a reconciliation, leaves a journal the state audit refuses.
  Near the size ceiling of the outbox a reservation fits but parking it does not. A
  command that started before another opened the rate window reserves with the older
  clock, and one whose PRECHECK admitted an attachment reserves it against the
  general allowance.
- *Replica.* A message deleted before the end of its conversation, or found before
  it, moves ordinals; the row that moves first meets the unique index, and no
  later synchronization succeeds (`Collides`). A follower that stops between the
  first bootstrap and its state, and then meets another publication, is refused
  until someone synchronizes by hand. A second synchronizer that commits between the
  losslessness read and the transaction of the first (`replica-sync` beside
  `replica-follow`) lets a partial archive delete records of a database it did not
  read, although "partial coverage is not deletion" (`REPLICA_OPERATIONS.md:83-89`).
- *Consumer.* The fingerprint it stores is read after the last change and may be
  newer than its records; the listing of conversations is not paged.
- *Connector.* A draft may hold contents of one source and the binding of the next:
  its receipt is withheld as a conflict, but the file stays, and a later preview,
  which looks at the binding alone, shows all of it, against `connector.rs:980-981`
  and `CONNECTOR_API.md:164-167`. An attachment draft made by the owner is never
  journaled, and the state audit refuses the directory from then on. A kill
  between a record and its newline lets the next append share its line. A preview
  is expired when `now > expires`, an audit says so when `now >= expires`. A socket
  is left behind by a process that is killed.
- *Memory.* The files of an extended corpus have mode 0600, which the review
  refuses (`personal_memory.rs:2818` against 5496 and 5670). The coverage of an
  extension forgets the failures of its base.
- *Live queries.* Rows that cannot be decoded use up the limit of their shard: a
  page may say there is no more, or let the cursor pass older rows it never read
  (`CLI_REFERENCE.md:154-155`). Ranked conversations page by offset.
- *Capture.* A log that is created and removed between the two checks of an
  attempt is not noticed, and a database that was checkpointed meanwhile may be
  copied between two of its pages. A set that is reconciled only and changes
  between plan and copy makes a snapshot the audit of its chain refuses. A log
  present at discovery, gone at the plan, back for the copy and gone at the end
  leaves an entry its inventory does not have, which the loader refuses. `wal.rs`
  compares salts but not SQLite's frame checksums, although it says it mirrors
  SQLite's rule (`wal.rs:78-80`): a frame half written into a restarted log is out
  of the model.
- *Recoverable snapshots.* A snapshot is tested after it was moved into place
  (`docs/RECOVERABLE_SNAPSHOTS.md`); a failed test removes what is at the path.

## What is proved

Each theorem holds for any values of the constants that satisfy the module's
assumptions, and those written beside it. Type correctness is proved
(`TypeCorrect`, or as a part of the invariants below), not run, where there is a
proof.

**Send outbox.** `SendOutboxProof`: the document keeps its type, at most one
attempt is live (`SingleFlightHolds`), no approval is attempted twice
(`OneAttemptHolds`), every reserved key is live or has spent its approval
(`ApprovalsSpentHolds`), and a key that left the slot never returns to it
(`NeverRedispatchedHolds`). None is inductive alone. That an approval is not
attempted twice rests on the admission of a reservation, which looks at what is
live and what is spent; so `IInv` adds: live entries were reserved
(`LiveReserved`), the approval in flight is unspent (`FlightUnspent`), a key that
is not in flight has spent its approval (`FlownSpent`), and an unspent approval was
attempted only by the entry in flight (`UnspentUnattempted`). There is a lemma for
each operation and one for each action; an entry leaves the slot in three ways
(completed, parked, closed by recovery), which share `LandingInv`. The totals
(`ReservationsAccountedHolds`) follow: with single flight the live entries are
the slot and the length of the list, so `Totals` counts them without sets, and
every step moves both sides by the same number.

**Control plane.** `SendControlPlaneProof` takes up `SendOutbox` and its proof
under the refinement. `ImplementsStore`: each of the processes' transactions
(`Transacts`) is a step of `SendOutbox`, and every other step stutters; so what
is proved of the store holds of the plane. The rest is `PlaneInv`, in which a
command relies on its place in the code (`CommandSound`), what the helper
queues, works on and has returned belongs to an approval that was tried
(`HelperSound`), and the slot, the closed entries, the settled and the tried
approvals and the journal each agree with how far the commands have come
(`SlotSound` to `JournalSound`). From it:
- Return once per approval (`OneReturnHolds`). An approval that was tried stays
  spent or in flight, whatever its command did after it asked the helper.
- An entry closed without a reconciliation sees no Return, then or later
  (`ClosedUnattemptedHolds`), but for a press whose release failed: only what was
  never marked, or what the helper said it had not attempted, is closed so.
- Return is journaled before it is pressed (`ReturnJournaledHolds`).
- *Sent* is concluded from a message that reads the same and is no older than the
  lookback allows, or from an operator's word (`SentHolds`), whatever the messages
  are.
- A resolved key is quiet (`QuietHolds`) and the helper may still press Return for
  one key at most (`OneSendHolds`), beside the keys reconciliation misjudged. Nothing
  is assumed of the messages or of the order of grace and capability: where two
  messages read the same, or the configured grace is too short, the keys concerned
  are `Misjudged`, and the theorems say that nothing else goes wrong. With the
  configuration the program writes (900 s of grace against 120 s, `main.rs:5794`, and
  the skill's waits of seconds) no key is misjudged as failed. `QuietInv` carries it:
  what can be pressed is a live attempt or misjudged (`PressableMarked`), within a
  time that is counted from its mark (`HelperClock`), and a resolution as failed
  began when the grace was over (`ResolvingSound`), by the one reading of the clock
  it made. `SentSound` says the same of what is taken for sent and its match.

**Publication.** `ReplicaFollowerProof`: `PubInv` is the types, that whoever is
within a command that changes the history holds the lock (`LockHeld`), and that
what a command rests on while it holds it stays true (`AllSound`: its publication
is newer than the handoff, which is its predecessor). From it follow
`ChainUnbrokenHolds`, every increment replaces what it was built on, and
`HandoffGrows`, generations only grow. What was published is in two files, which a
stop leaves apart, and at most one publication of two paths; `LogInv` reads the
two together (`Published`): in order (`PublishedSound`), reconciled but while the
history lags (`Tailed`), what is retired is not among the last two and was found
before it moves (`RetiredSound`), and everything is at its path or in quarantine
(`AllFound`). `NothingLostHolds` and `ProtectedServableHolds` follow, for any
number of operators, paths and generations. The moves are the hard part: a
retirement takes a path to the quarantine of one generation although several
publications share it, and none of the last two may be among them.

**Follower.** The same module composes it: `FollowInv` is `PubInv` with the
follower's types, the lock of the follow state (`StateLockHeld`), that the replica
was given nothing newer than the handoff (`GivenPublished`), and what each follower
rests on between its steps (`AllOffered`). `StateCommittedHolds` and
`NoRollbackHolds` follow for any number of followers and publishers.

**Replica and its consumer.** `ChangeConsumerProof`. However many processes
synchronize, one that no other commit overtook drops no record of a database its
archive did not read and whose source still exists (`UnreadKeptHolds`). The check
for losslessness is made on an earlier read; what carries it to the commit is
`SyncInv`: the replica holds the archive it was last given (`HoldsArchive`), and an
archive that passed is still lossless against it unless another commit came between
(`StillLossless`).

For any number of synchronizers, any archives and any size of pages, the log says
of every message whether the replica holds it (`LogExplainsHolds`), and what the
consumer stored is the replica but for what the stream has still to say
(`NothingMissedHolds`). `ConsumerInv` is the replica's half (`StoreSound`) and a
run's: what the pages have come to is the replica's, or a change of it follows
the cursor (`PagesSound`); what was read from the stream and is still to be
applied is a piece of the log of which no released entry was left out
(`QueueSound`); and with it everything stale is still to come (`ChangesSound`). A
message that is gone is refreshed by a request that finds nothing, and one whose
entry was a removal is removed without asking; that this is right although the
message may be back by then is `LogExplains`, which gives the entry that follows.
A new commit appends to the log exactly what it changed, so whatever it makes
stale is pending at once. A replaced replica has another identifier, and no
cursor resumes. A recovered one has the same identifier and a shorter log: it is
outside `ConsumerSpec`, and `change_consumer_recovered` shows why. Assumed of the
data: identifiers of messages are not those of conversations.

**Connector.** `ConnectorProof`, for any number of processes, requests and
checkpoints. `OneCheckpoint` is about what a response reads from the replica and the
caches; the stored draft a preview shows is `PreviewOfOneSource`, below. `OneCheckpointHolds`: caches hold what was read since their binding
(`CacheSound`), a request reads from caches bound no earlier than it began
(`ReadSound`), and at its end the checkpoint is the one it began with.
`JournalTrueHolds`: the lock of the journal is held during an append
(`ControlSound`), every number is of one request (`NumberSound`), whose record is
there before its reply (`RecordSound`), and without a fault the lines are whole
and linked (`ChainSound`). `DraftsAccountedHolds`: a draft is of the request that
still holds it, or recorded, or a fault hit it (`DraftSound`, `ReviewSound`).
`AuditSoundHolds`, an action property: the audit reads journal, drafts, journal and
drafts while others write, and what it passes is true when it ends, because the
journal only grows and what it compares is what it saw twice (`AuditInv`). The
fifteen kinds of steps (`Opens` to `Begins`) say what an action may change; one
lemma gives each action its kinds, and the parts of the invariant are preserved
kind by kind.

**Memory batches.** `MemoryBatchesProof`: reviews are recorded only for pages that
were read (`ReviewsJudgedHolds`) and stand until their batch is committed
(`ReviewsStandHolds`), the notes on record cite only what was retained
(`OnlyKeptCitedHolds`) and all that was retained last (`LatestKeptCitedHolds`).
The invariant `BatchesInv` says of runs, batches and pages that they are records
(`Shapes`) and how `past`, the notes and the page the client saw relate.

Nothing behind the cursor was skipped (`NothingSkippedHolds`), for any corpus, scope,
page size and bounds. The invariant `CoverInv`, next to `BatchesInv`: what was
reviewed so far is the evidence of the units before the cursor, and the pages of an
outstanding batch are those of the units from the cursor to its end, wherever the
bounds put that end. The rest is about what the operators compute: flattening goes
through concatenation (`FlattenSplit`), the pages of a batch flatten to its messages
(`PagesFlatten`), and the units of a scope hold exactly the messages it means, in
order (`ScopeExact`). The last rests on the index being a safe filter (`EntrySound`):
a unit is excluded by the times of its first and last message, which is sound because
its messages are in order of time; `UnitsAssumption` says so, and the code sorts them
before it cuts them into units (`chronological_metadata_key`). `NothingIsNoRun`, the
hypothesis, says that no state file has the content that stands for no state file.

**Chain of archives.** `AcquisitionChainProof`: an update drops no set the client
still has, keeps the records of what could not be read and calls nothing fresh
that was not (`NothingDroppedHolds`), for any source sets, captures and failures.
The removals of an update are computed from the inventory of the snapshot before,
its records from the archive before; the two meet in `ArchiveSound`: an archive
has records of exactly the sets it includes, and these are in the inventory of the
snapshot it names. `PlanSound` and `ManifestSound` bring it through the capture.

What an archive calls fresh is what one transaction of the client left, not before
the attempt that captured it began (`FreshCommittedHolds`), for any pages, any
interleaving of writes, checkpoints, restarts and closings with the copying, any
retries and any chain of updates. The proof has three layers. Of the client
(`ClientInv`): a database and its log together always hold what was committed last;
each action is shown to keep it, from two facts about `Applied` (a frame that is
not committed is not seen, `UncommittedUnseen`; a page is copied back only where it
has a committed frame). Of time: a stamp is given once, so there is a function `H`
from stamps to files that the files there are agree with (`Recalls`) and that a
step of the client only extends (`HistoryGrows`); `CopyInv` says that there is one,
so the model needs no variable for it. Of the copies: everything after that is told
by stamps. While a set is copied, the stamps it had before its first file was
copied are those of a committed image (`BaselineKnown`), and an entry is such an
image unless a log was left out of it (`EntryKnown`); the second check of the roles
and the comparison of entries with the inventory then rule that out, but for a log
that came and went (`FinishKnown`). A set that is not copied is as it was planned
when the attempt began (`SetKnown`), and an update carries it only if its stamps are those
of the archive before (`UpdateKnown`). The check of a set after it was copied
(`GroupStable`) is not needed for this: the stamps of each copy are compared with
the same baseline.

**Live queries.** `LiveQueryProof`: paging misses nothing that stayed
(`NothingMissedHolds`) and returns nothing twice (`ReturnedOnceHolds`), for any
databases, requests and limits and any changes. A cursor is a key, and keys move:
an identifier that is confirmed and a conversation that is written to only raise
theirs. `LiveInv` says what that leaves of a cursor: what was returned is not older
than it by the keys of now, what stayed and is not returned is older
(`KeysetSound`); for the search over conversations, the same within the cursor's
conversation, and nothing returned beyond it (`FallbackSound`). Within a page,
shards are read one after the other, so what was fetched may have a key that has
grown since (`FetchedSound`), and what the limit cut off a shard's rows is behind a
full page of newer ones (`Behind`, `CoverSound`); a conversation that was scanned
to its end owes nothing (`ScanExhausts`). That a sorted page is a prefix of what it
sorts is proved once of any order (`ListingFacts`) and used for keys and for
identifiers.

With no induction over predicates, the proofs take the least and the greatest of a
set of numbers (the first page without a review, the last publication, the last
entry of a message) from the well-foundedness of finite sets under inclusion
(`LeastNumber`, `LeastMember` and their duals), sorting from the rank of a number
among the members of its set, and induction from the least number outside a set
(`NumberInduction`).

Only model-checked:
- `CatchesUp` and `PagesEnd`: liveness under fairness, beyond this prover, as is
  ENABLED.
- `PreviewOfOneSource` of the connector.
- `OncePerCorpus`, `SelectionExact` and `FrontierShared` of the corpora: they are
  about what recursion over messages and the sorting of units compute for every
  input, with `SelectSeq`, of which the provers know nothing.

## Not modelled

- The decoding of records, the audits that recompute it and the rendering for
  agents: conversions over large data without state of their own.
- How a merge forms conversations, order and relationships over source sets: the
  same, on one immutable archive; their ordinals are in `ReplicaStore`.
- `direct_memory.rs` and the parallel driver; contacts and ranked conversations of
  live queries; the transport, one request at a time over a socket.
- Recoverable snapshots: planned, below.
- Key acquisition, the history browser, the article fetch, packaging: no protocol
  over shared state, or user interface.

## Plan

1. Done: the send outbox and control plane, publication and follower, replica
   store and consumer, the connector, personal memory (corpora, batches), live
   queries, snapshot capture and the chain of archives; the proofs above.
2. `SnapshotGenerations`: creation, quarantine and restoration of generations of
   `recoverable_snapshot.rs` (632-1056), protectors, rewrap and rekey, with stops.
3. The parallel driver over `MemoryBatches`, with its project lock and the lock
   around commits; `direct_memory.rs`.
4. Proofs: `FrontierShared` of `MemoryCorpus`.
