--------------------------- MODULE SnapshotCapture ---------------------------
(***************************************************************************)
(* ReadOnlySnapshot.swift and SnapshotAcquisitionPlanner.swift: the        *)
(* command that copies the client's databases and their write-ahead logs   *)
(* while the client goes on writing them.                                  *)
(*                                                                         *)
(* The client is SQLite: a transaction appends frames to the log, the last *)
(* one commits it, a checkpoint copies committed pages into the database   *)
(* one by one, a log that was copied entirely may begin again under a new  *)
(* salt, and closing the database removes it.  Every change of a file      *)
(* gives it a stamp of its own: the identity, size and times the code      *)
(* compares.  Frames are written whole.  The shared memory of a log is     *)
(* there when the log is and is never read back; it is left out.           *)
(***************************************************************************)
EXTENDS Naturals, Sequences, FiniteSets, FiniteSetsExt, SequencesExt

CONSTANTS
  Source,       \* the source sets: numbers, in the order of their paths
  Page,         \* the pages of a database
  MaxChanges,   \* per source set, bound on the changes of its files
  MaxCommits,   \* per source set, bound on its transactions
  MaxAttempts,  \* maxRetries + 1
  MaxSnapshots, \* bound on the snapshots taken
  Nothing

ASSUME CaptureAssumption ==
  /\ Source \subseteq Nat /\ IsFiniteSet(Source) /\ IsFiniteSet(Page)
  /\ MaxChanges \in [Source -> Nat] /\ MaxCommits \in [Source -> Nat]
  /\ MaxAttempts \in Nat \ {0} /\ MaxSnapshots \in Nat
  /\ Nothing \notin [stamp : Nat, pages : [Page -> Nat]]
  /\ Nothing \notin [stamp : Nat, salt : Nat,
                     frames : Seq([page : Page, version : Nat, salt : Nat, commit : BOOLEAN])]

VARIABLES
  database,  \* per set its file [stamp, pages], or Nothing
  log,       \* per set its log [stamp, salt, frames], or Nothing
  writing,   \* per set where an open transaction appends its next frame, or 0
  committed, \* per set what each transaction left, in order (history)
  changes,   \* per set the changes of its files
  job,       \* the snapshot command
  reopened,  \* the logs created since the attempt began (history)
  snapshots  \* the snapshots with a manifest, in order

client == <<database, log, writing, committed, changes>>
captureVars == <<client, job, reopened, snapshots>>

----------------------------------------------------------------------------
(* wal.rs: what a database and its log hold together *)

Valid(l) == {i \in DOMAIN l.frames : l.frames[i].salt = l.salt}
LastCommit(l) == Max({0} \cup {i \in Valid(l) : l.frames[i].commit})

\* apply_encrypted_wal_with_progress: committed frames over the database
Applied(pages, l) ==
  IF l = Nothing THEN pages
  ELSE LET Frames(p) == {i \in Valid(l) : i <= LastCommit(l) /\ l.frames[i].page = p}
       IN  [p \in Page |-> IF Frames(p) = {} THEN pages[p]
                           ELSE l.frames[Max(Frames(p))].version]

Image(s) == Applied(database[s].pages, log[s])

----------------------------------------------------------------------------
(* The client *)

Present == {s \in Source : database[s] # Nothing}
Busy(s) == changes[s] < MaxChanges[s]

Changed(s) == changes' = [changes EXCEPT ![s] = @ + 1]
Stamp(s) == changes[s] + 1

Backfilled(s) == database[s].pages = Image(s)

CreateDatabase(s) ==
  /\ Busy(s) /\ committed[s] = <<>>
  /\ database' = [database EXCEPT ![s] = [stamp |-> Stamp(s), pages |-> [p \in Page |-> 0]]]
  /\ committed' = [committed EXCEPT ![s] = <<[p \in Page |-> 0]>>]
  /\ Changed(s)
  /\ UNCHANGED <<log, writing, job, reopened, snapshots>>

DeleteDatabase(s) ==
  /\ s \in Present /\ log[s] = Nothing
  /\ database' = [database EXCEPT ![s] = Nothing]
  /\ UNCHANGED <<log, writing, committed, changes, job, reopened, snapshots>>

OpenLog(s) ==
  /\ s \in Present /\ log[s] = Nothing /\ Busy(s)
  /\ log' = [log EXCEPT ![s] = [stamp |-> Stamp(s), salt |-> Stamp(s), frames |-> <<>>]]
  /\ Changed(s)
  /\ reopened' = reopened \cup {s}
  /\ UNCHANGED <<database, writing, committed, job, snapshots>>

\* A transaction begins with its first frame, after the last one committed
Position(s) == IF writing[s] = 0 THEN LastCommit(log[s]) + 1 ELSE writing[s]

AppendFrame(s) == \E p \in Page, last \in BOOLEAN :
  /\ log[s] # Nothing /\ Busy(s)
  /\ Len(committed[s]) <= MaxCommits[s]
  /\ LET at == Position(s)
         frame == [page |-> p, version |-> Len(committed[s]), salt |-> log[s].salt,
                   commit |-> last]
         frames == log[s].frames
         after == [log[s] EXCEPT
                     !.stamp = Stamp(s),
                     !.frames = IF at > Len(frames) THEN Append(frames, frame)
                                ELSE [frames EXCEPT ![at] = frame]]
     IN  /\ log' = [log EXCEPT ![s] = after]
         /\ writing' = [writing EXCEPT ![s] = IF last THEN 0 ELSE at + 1]
         /\ committed' = [committed EXCEPT
              ![s] = IF last THEN Append(@, Applied(database[s].pages, after)) ELSE @]
  /\ Changed(s)
  /\ UNCHANGED <<database, job, reopened, snapshots>>

\* The client gives a transaction up, or is killed and started again
Rollback(s) ==
  /\ writing[s] # 0
  /\ writing' = [writing EXCEPT ![s] = 0]
  /\ UNCHANGED <<database, log, committed, changes, job, reopened, snapshots>>

CheckpointPage(s) == \E p \in Page :
  /\ log[s] # Nothing /\ Busy(s)
  /\ database[s].pages[p] # Image(s)[p]
  /\ database' = [database EXCEPT ![s] = [stamp |-> Stamp(s),
                                          pages |-> [@.pages EXCEPT ![p] = Image(s)[p]]]]
  /\ Changed(s)
  /\ UNCHANGED <<log, writing, committed, job, reopened, snapshots>>

RestartLog(s) ==
  /\ log[s] # Nothing /\ writing[s] = 0 /\ Busy(s)
  /\ Backfilled(s) /\ LastCommit(log[s]) > 0
  /\ log' = [log EXCEPT ![s].stamp = Stamp(s), ![s].salt = Stamp(s)]
  /\ Changed(s)
  /\ UNCHANGED <<database, writing, committed, job, reopened, snapshots>>

CloseDatabase(s) ==
  /\ log[s] # Nothing /\ writing[s] = 0 /\ Backfilled(s)
  /\ log' = [log EXCEPT ![s] = Nothing]
  /\ UNCHANGED <<database, writing, committed, changes, job, reopened, snapshots>>

----------------------------------------------------------------------------
(* DatabaseSetPlanner and SnapshotAcquisitionPlanner *)

\* fingerprint: a file is there with its stamp, or not (0)
StampOf(file) == IF file = Nothing THEN 0 ELSE file.stamp
Files(s) == [database |-> StampOf(database[s]), log |-> StampOf(log[s])]
Roles(files) == {role \in {"database", "log"} : files[role] # 0}

Idle == [phase |-> "idle"]

\* findDatabaseSets: the databases and which of them have a log
Discover ==
  /\ job = Idle /\ Present # {}
  /\ Len(snapshots) < MaxSnapshots
  /\ job' = [phase |-> "found", sets |-> Present, logs |-> {s \in Present : log[s] # Nothing}]
  /\ UNCHANGED <<client, reopened, snapshots>>

NoInventory == [s \in {} |-> Nothing]
InventoryOf(previous) == IF previous = 0 THEN NoInventory ELSE snapshots[previous].inventory

\* metadataEquivalent
Unchanged(inventory, s) == s \in DOMAIN inventory /\ inventory[s] = Files(s)

\* plan: what is copied, and the digests carried from the previous manifest.
\* The set that was modified a short time ago is any of those that are the same.
Plan ==
  /\ job.phase = "found"
  /\ \E previous \in 0 .. Len(snapshots), full \in BOOLEAN,
        recent \in SUBSET job.sets :
       LET before == InventoryOf(previous)
           mode == IF previous = 0 THEN "bootstrap"
                   ELSE IF full THEN "integrityScan" ELSE "incremental"
           same == {s \in job.sets : Unchanged(before, s)}
           changed == IF mode = "incremental" THEN job.sets \ same ELSE job.sets
           reconciliation == IF mode = "incremental" THEN same \cap recent ELSE {}
       IN  /\ previous = 0 => ~full
           /\ recent = reconciliation
           /\ IF job.sets \subseteq Present
              THEN job' = [phase |-> "verify", sets |-> job.sets, logs |-> job.logs,
                           mode |-> mode, attempt |-> 1,
                           previous |-> IF previous = 0 THEN Nothing ELSE before,
                           changed |-> changed, reconciliation |-> reconciliation,
                           deleted |-> DOMAIN before \ job.sets,
                           planned |-> [s \in job.sets |-> Files(s)],
                           carried |-> [s \in job.sets |->
                             {role \in Roles(Files(s)) :
                                s \in DOMAIN before /\ before[s][role] = Files(s)[role]}],
                           began |-> <<>>, todo |-> {}, baseline |-> Nothing,
                           entries |-> NoInventory]
              ELSE job' = Idle
  /\ UNCHANGED <<client, reopened, snapshots>>

Selected(j) == j.changed \cup j.reconciliation

\* (mutant) a selected set may gain a log while it is copied
RolesHoldUnselected(j) == \A s \in j.sets :
  s \in Present /\ (s \in Selected(j) \/ Files(s) = j.planned[s])

\* verifyForSnapshot: every set is looked at once.  A file with its stamp of
\* before is as it was before, and so are all that were found the same.
RolesHold(j) == \A s \in j.sets :
  /\ s \in Present
  /\ IF s \in Selected(j) THEN Roles(Files(s)) = Roles(j.planned[s])
                          ELSE Files(s) = j.planned[s]

----------------------------------------------------------------------------
(* ReadOnlySnapshotter *)

\* The attempt fails: the directory is removed, and the next one has the same plan
AttemptFails ==
  job' = IF job.attempt = MaxAttempts THEN Idle
         ELSE [job EXCEPT !.phase = "verify", !.attempt = @ + 1, !.began = <<>>,
                          !.todo = {}, !.baseline = Nothing, !.entries = NoInventory]

Proceeds(holds, next) == IF holds THEN job' = next ELSE AttemptFails

VerifyBefore ==
  /\ job.phase = "verify"
  /\ Proceeds(RolesHold(job),
              [job EXCEPT !.phase = "set", !.todo = Selected(job),
                          !.began = [s \in job.sets |-> Len(committed[s])]])
  /\ reopened' = {}
  /\ UNCHANGED <<client, snapshots>>

Current == Min(job.todo)
Planned(s) == IF s \in job.logs THEN {"database", "log"} ELSE {"database"}

\* The files of a set are those seen at discovery
Baseline ==
  /\ job.phase = "set" /\ job.todo # {}
  /\ LET s == Current
     IN  Proceeds(Planned(s) \subseteq Roles(Files(s)),
                  [job EXCEPT !.phase = "database", !.baseline = Files(s)])
  /\ UNCHANGED <<client, reopened, snapshots>>

\* cloneOrCopyFromReadOnlyDescriptor: what was copied had one stamp all the time
CopyDatabase ==
  /\ job.phase = "database"
  /\ LET s == Current
     IN  Proceeds(Files(s).database = job.baseline.database,
                  [job EXCEPT !.phase = IF s \in job.logs THEN "log" ELSE "stable",
                              !.entries = [r \in DOMAIN @ \cup {s} |->
                                IF r = s THEN [database |-> database[s], log |-> Nothing]
                                ELSE @[r]]])
  /\ UNCHANGED <<client, reopened, snapshots>>

CopyLog ==
  /\ job.phase = "log"
  /\ LET s == Current
     IN  Proceeds(Files(s).log = job.baseline.log,
                  [job EXCEPT !.phase = "stable", !.entries[s].log = log[s]])
  /\ UNCHANGED <<client, reopened, snapshots>>

\* The files that must be as they were before the first was copied: the
\* database alone when the file system cloned both
GroupStable(s, cloned) ==
  /\ Files(s).database = job.baseline.database
  /\ ~cloned /\ s \in job.logs => Files(s).log = job.baseline.log

CheckGroup == \E cloned \in BOOLEAN :
  /\ job.phase = "stable"
  /\ Proceeds(GroupStable(Current, cloned),
              [job EXCEPT !.phase = "set", !.todo = @ \ {Current}, !.baseline = Nothing])
  /\ UNCHANGED <<client, reopened, snapshots>>

\* finalizedEvidence: the stamps of what was copied, of the plan for the rest
EntryStamps(entry) == [database |-> StampOf(entry.database), log |-> StampOf(entry.log)]

Captured(j, s, role) == s \in DOMAIN j.entries /\ EntryStamps(j.entries[s])[role] # 0

FinalStamp(j, s, role) ==
  IF role \notin Roles(j.planned[s]) THEN 0
  ELSE IF Captured(j, s, role) THEN EntryStamps(j.entries[s])[role]
  ELSE j.planned[s][role]

Digested(j) == \A s \in j.sets : \A role \in Roles(j.planned[s]) :
  Captured(j, s, role) \/ role \in j.carried[s]

Manifest(j) ==
  [mode |-> j.mode, previous |-> j.previous, changed |-> j.changed,
   reconciliation |-> j.reconciliation, deleted |-> j.deleted, entries |-> j.entries,
   inventory |-> [s \in j.sets |-> [database |-> FinalStamp(j, s, "database"),
                                    log |-> FinalStamp(j, s, "log")]],
   began |-> j.began, \* history, as is unseen: the logs nobody planned that came and went
   unseen |-> {s \in reopened \cap j.sets : j.planned[s].log = 0 /\ log[s] = Nothing}]

Finish ==
  /\ job.phase = "set" /\ job.todo = {}
  /\ IF RolesHold(job) /\ Digested(job)
     THEN job' = Idle /\ snapshots' = Append(snapshots, Manifest(job))
     ELSE AttemptFails /\ UNCHANGED snapshots
  /\ UNCHANGED <<client, reopened>>

\* The command is killed, or a file cannot be read or written: what it leaves
\* has no manifest
Killed ==
  /\ job # Idle
  /\ job' = Idle
  /\ UNCHANGED <<client, reopened, snapshots>>

----------------------------------------------------------------------------
CaptureInit ==
  /\ \E there \in SUBSET Source :
       /\ there # {}
       /\ database = [s \in Source |->
            IF s \in there THEN [stamp |-> 1, pages |-> [p \in Page |-> 0]] ELSE Nothing]
       /\ committed = [s \in Source |->
            IF s \in there THEN <<[p \in Page |-> 0]>> ELSE <<>>]
       /\ changes = [s \in Source |-> IF s \in there THEN 1 ELSE 0]
  /\ log = [s \in Source |-> Nothing]
  /\ writing = [s \in Source |-> 0]
  /\ job = Idle
  /\ reopened = {}
  /\ snapshots = <<>>

\* What the client does after the last snapshot is not seen by anything
ClientStep == Len(snapshots) < MaxSnapshots /\ \E s \in Source :
  \/ CreateDatabase(s) \/ DeleteDatabase(s)
  \/ OpenLog(s) \/ AppendFrame(s) \/ Rollback(s)
  \/ CheckpointPage(s) \/ RestartLog(s) \/ CloseDatabase(s)

CaptureStep ==
  \/ Discover \/ Plan \/ VerifyBefore \/ Baseline \/ CopyDatabase \/ CopyLog
  \/ CheckGroup \/ Finish \/ Killed
=============================================================================
