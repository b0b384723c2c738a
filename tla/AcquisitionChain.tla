--------------------------- MODULE AcquisitionChain ---------------------------
(***************************************************************************)
(* From snapshots to archives: the manifest loader (manifest.rs), the      *)
(* audit of a chain of two snapshots (acquisition_audit.rs), restoration   *)
(* and its coverage of databases (restore.rs), the merge of what an update *)
(* restored into the archive before it (merge.rs), in the order of         *)
(* operator.rs.                                                            *)
(*                                                                         *)
(* A snapshot does not change once it has a manifest, and an archive is    *)
(* one directory renamed into place: each command is one step here.  What  *)
(* a database holds is its image, and the records restored from it are     *)
(* that image; how records of several databases form conversations is left *)
(* out.                                                                    *)
(***************************************************************************)
EXTENDS SnapshotCapture

CONSTANTS
  MaxArchives  \* bound on the archives made

ASSUME ChainAssumption == MaxArchives \in Nat

VARIABLES
  archives  \* [snapshot, source, base, fresh, stale, records], in order

chainVars == <<captureVars, archives>>

\* SnapshotAcquisitionEvidence.validate: every role of a selected set was copied
EntriesComplete(m) ==
  /\ DOMAIN m.entries = m.changed \cup m.reconciliation
  /\ \A s \in DOMAIN m.entries : EntryStamps(m.entries[s]) = m.inventory[s]

Loads(m) ==
  /\ EntriesComplete(m)
  /\ m.mode # "incremental" => DOMAIN m.entries = DOMAIN m.inventory
  /\ m.mode = "bootstrap" => m.deleted = {}

\* audit_acquisition_chain
Continues(before, m) ==
  /\ Loads(before) /\ Loads(m)
  /\ m.mode # "bootstrap" /\ m.previous = before.inventory
  /\ m.deleted = DOMAIN before.inventory \ DOMAIN m.inventory
  /\ LET changed == {s \in DOMAIN m.inventory :
           s \notin DOMAIN before.inventory \/ before.inventory[s] # m.inventory[s]}
     IN  /\ m.mode = "incremental" => changed = m.changed
         /\ m.reconciliation \cap changed = {}

\* restoration_database_coverage: what could be read
Restorable(m, unavailable) == DOMAIN m.entries \ unavailable

Restored(m, s) == Applied(m.entries[s].database.pages, m.entries[s].log)

Included(archive) == archive.fresh \cup archive.stale

\* Two bounds: restoring reads nothing but snapshots, so it waits for the last
\* one; and an archive depends on nothing but its base, so there is one chain.
Settled == Len(snapshots) = MaxSnapshots

\* A bootstrap: the archive is what could be read
Bootstrap ==
  /\ Settled /\ archives = <<>> /\ MaxArchives > 0
  /\ \E i \in DOMAIN snapshots : \E unavailable \in SUBSET DOMAIN snapshots[i].entries :
       LET m == snapshots[i]
           fresh == Restorable(m, unavailable)
       IN  /\ Loads(m) /\ m.mode = "bootstrap"
           /\ archives' = Append(archives,
                [snapshot |-> i, source |-> m.inventory, base |-> 0,
                 fresh |-> fresh, stale |-> {},
                 records |-> [s \in fresh |-> Restored(m, s)]])
  /\ UNCHANGED captureVars

\* merge_database_coverage
MergedFresh(archive, m, restored) ==
  (archive.fresh \cap (DOMAIN m.inventory \ DOMAIN m.entries)) \cup restored

MergedStale(archive, m, restored) ==
  LET carried == archive.stale \cap DOMAIN m.inventory
      missed == (DOMAIN m.entries \ restored) \cap Included(archive)
  IN  (carried \cup missed) \ MergedFresh(archive, m, restored)

\* (mutant) what was asked for is replaced, restored or not
ReplacedRequested(m, restored) == DOMAIN m.entries \cup m.deleted

\* merge_messages and its kind: the records of a set are replaced or removed
Replaced(m, restored) == restored \cup m.deleted

MergedRecords(archive, m, restored) ==
  LET kept == DOMAIN archive.records \ Replaced(m, restored)
  IN  [s \in kept \cup restored |->
         IF s \in restored THEN Restored(m, s) ELSE archive.records[s]]

\* merge_incremental_archive, in the order of restore_snapshot_and_publish
Update ==
  /\ Settled /\ Len(archives) < MaxArchives
  /\ \E i, j \in DOMAIN snapshots, a \in {Len(archives)} \ {0} :
       \E unavailable \in SUBSET DOMAIN snapshots[i].entries :
         LET m == snapshots[i]
             restored == Restorable(m, unavailable)
         IN  /\ Continues(snapshots[j], m)
             /\ archives[a].source = m.previous
             /\ archives' = Append(archives,
                  [snapshot |-> i, source |-> m.inventory, base |-> a,
                   fresh |-> MergedFresh(archives[a], m, restored),
                   stale |-> MergedStale(archives[a], m, restored),
                   records |-> MergedRecords(archives[a], m, restored)])
  /\ UNCHANGED captureVars

----------------------------------------------------------------------------
Init == CaptureInit /\ archives = <<>>

Next ==
  \/ ClientStep /\ UNCHANGED archives
  \/ CaptureStep /\ UNCHANGED archives
  \/ Bootstrap
  \/ Update

Spec == Init /\ [][Next]_chainVars

----------------------------------------------------------------------------
(* Properties *)

(* What an archive calls fresh is what one transaction of the client left,  *)
(* not one before the attempt that took the snapshot: no page of a later    *)
(* or an unfinished one, no page of a checkpoint without its log, and       *)
(* nothing carried over from an archive of another source.  A log that came *)
(* and went while no check looked is the exception.                         *)
FreshCommitted == \A a \in DOMAIN archives :
  LET m == snapshots[archives[a].snapshot]
  IN  \A s \in archives[a].fresh \ m.unseen :
        \E k \in m.began[s] .. Len(committed[s]) :
          archives[a].records[s] = committed[s][k]

(* An update loses nothing it could not read: a set that the client still   *)
(* has keeps its records, and the archive calls them fresh only when it     *)
(* has them from the snapshot it names.                                     *)
NothingDropped == \A a \in DOMAIN archives :
  LET archive == archives[a]
      m == snapshots[archive.snapshot]
  IN  /\ DOMAIN archive.records = Included(archive)
      /\ archive.base # 0 =>
           LET base == archives[archive.base]
           IN  \A s \in Included(base) \cap DOMAIN m.inventory :
                 /\ s \in Included(archive)
                 /\ s \in archive.stale => archive.records[s] = base.records[s]
                 /\ s \in archive.fresh \ DOMAIN m.entries => s \in base.fresh
=============================================================================
