------------------------ MODULE AcquisitionChainProof ------------------------
(***************************************************************************)
(* That an update of an archive loses nothing it could not read, for any   *)
(* source sets, any snapshots that were taken of them and any sets that    *)
(* restoration could not read.  What an archive holds is compared with the *)
(* inventory of the snapshot it names, and the removals of an update are   *)
(* computed from the inventory of the snapshot before: the two meet in the *)
(* archive's source, which ArchiveSound relates to both.                   *)
(*                                                                         *)
(* And that what an archive calls fresh was committed by the client since  *)
(* the attempt that captured it began.  The files are copied one by one    *)
(* while they change, so what was copied is told by stamps: a history of   *)
(* the files by their stamps, which some function always is (CopyInv),     *)
(* says what a plan, a copy, an inventory and an archive stand for.        *)
(***************************************************************************)
EXTENDS AcquisitionChain, SequenceTheorems, FiniteSetTheorems, WellFoundedInduction, TLAPS

\* What is in a list, and that it is one
Listed(list) == list \in Seq({list[i] : i \in DOMAIN list})

(* A plan selects from the sets that were discovered.                        *)
PlanSound(j) ==
  j.phase \notin {"idle", "found"} =>
    /\ DOMAIN j = {"phase", "sets", "logs", "mode", "attempt", "previous", "changed",
                   "reconciliation", "deleted", "planned", "carried", "began", "todo",
                   "baseline", "entries"}
    /\ Selected(j) \subseteq j.sets

(* And so does a manifest.                                                   *)
ManifestSound(m) == m.changed \cup m.reconciliation \subseteq DOMAIN m.inventory

(* An archive holds the records of the sets it calls included, and these are *)
(* sets of the snapshot it names.                                            *)
ArchiveSound(archive) ==
  /\ archive.snapshot \in DOMAIN snapshots
  /\ archive.source = snapshots[archive.snapshot].inventory
  /\ DOMAIN archive.records = Included(archive)
  /\ Included(archive) \subseteq DOMAIN archive.source

(* What an update keeps of the archive before it.                            *)
Keeps(base, archive, m) ==
  \A s \in Included(base) \cap DOMAIN m.inventory :
    /\ s \in Included(archive)
    /\ s \in archive.stale => archive.records[s] = base.records[s]
    /\ s \in archive.fresh \ DOMAIN m.entries => s \in base.fresh

ChainInv ==
  /\ Listed(snapshots) /\ Listed(archives)
  /\ PlanSound(job)
  /\ \A i \in DOMAIN snapshots : ManifestSound(snapshots[i])
  /\ \A a \in DOMAIN archives :
       /\ ArchiveSound(archives[a])
       /\ archives[a].base # 0 =>
            /\ archives[a].base \in DOMAIN archives
            /\ Keeps(archives[archives[a].base], archives[a], snapshots[archives[a].snapshot])

-----------------------------------------------------------------------------
LEMMA Appended ==
  ASSUME NEW list, Listed(list), NEW e
  PROVE  /\ Listed(Append(list, e))
         /\ Len(list) \in Nat /\ DOMAIN list = 1 .. Len(list)
         /\ DOMAIN Append(list, e) = 1 .. Len(list) + 1
         /\ \A i \in DOMAIN list : i \in DOMAIN Append(list, e) /\ Append(list, e)[i] = list[i]
         /\ Append(list, e)[Len(list) + 1] = e
         /\ \A i \in DOMAIN Append(list, e) : i \in DOMAIN list \/ i = Len(list) + 1
  <1> DEFINE S == {list[i] : i \in DOMAIN list}
             T == S \cup {e}
             longer == Append(list, e)
             n == Len(list)
  <1>1. list \in Seq(S) /\ S \subseteq T /\ e \in T
    BY DEF Listed
  <1>2. \A i \in DOMAIN list : list[i] \in S
    OBVIOUS
  <1> HIDE DEF S
  <1>3. list \in Seq(T) /\ n \in Nat /\ DOMAIN list = 1 .. n
    BY <1>1, SeqMonotonic, LenProperties
  <1> HIDE DEF T
  <1>4. /\ longer \in Seq(T) /\ Len(longer) = n + 1
        /\ \A i \in 1 .. n : longer[i] = list[i]
        /\ longer[n + 1] = e
    BY <1>1, <1>3
  <1> HIDE DEF longer, n
  <1>5. DOMAIN longer = 1 .. n + 1 /\ \A i \in 1 .. n + 1 : i \in 1 .. n \/ i = n + 1
    BY <1>3, <1>4
  <1>6. \A i \in 1 .. n : i \in 1 .. n + 1
    BY <1>3
  <1>7. Listed(longer)
    <2> DEFINE R == {longer[i] : i \in DOMAIN longer}
    <2>1. longer \in [1 .. n + 1 -> R]
      <3>1. longer = [i \in 1 .. n + 1 |-> longer[i]]
        BY <1>4, <1>5, LenProperties
      <3>2. QED
        BY <1>5, <3>1
    <2>2. n + 1 \in Nat
      BY <1>3
    <2> HIDE DEF R
    <2>3. longer \in Seq(R)
      BY <2>1, <2>2, SeqDef
    <2>4. QED
      BY <2>3 DEF Listed, R
  <1>8. QED
    BY <1>3, <1>4, <1>5, <1>6, <1>7 DEF longer, n

LEMMA EmptyListed == Listed(<<>>)
  BY EmptySeq DEF Listed

(* Snapshots are only added, and an archive goes on naming what it named.    *)
LEMMA SnapshotsGrow ==
  ASSUME ChainInv, archives' = archives, PlanSound(job)',
         \/ snapshots' = snapshots
         \/ \E m : ManifestSound(m) /\ snapshots' = Append(snapshots, m)
  PROVE  ChainInv'
  <1>1. CASE snapshots' = snapshots
    BY <1>1 DEF ChainInv, ArchiveSound
  <1>2. CASE \E m : ManifestSound(m) /\ snapshots' = Append(snapshots, m)
    <2>1. PICK m : ManifestSound(m) /\ snapshots' = Append(snapshots, m)
      BY <1>2
    <2>2. Listed(snapshots)
      BY DEF ChainInv
    <2>3. /\ Listed(snapshots')
          /\ \A i \in DOMAIN snapshots : i \in DOMAIN snapshots' /\ snapshots'[i] = snapshots[i]
          /\ \A i \in DOMAIN snapshots' : i \in DOMAIN snapshots \/ snapshots'[i] = m
      BY <2>1, <2>2, Appended
    <2>4. \A i \in DOMAIN snapshots' : ManifestSound(snapshots'[i])
      BY <2>1, <2>3 DEF ChainInv
    <2>5. ASSUME NEW a \in DOMAIN archives
          PROVE  /\ ArchiveSound(archives[a])'
                 /\ snapshots'[archives[a].snapshot] = snapshots[archives[a].snapshot]
      BY <2>3 DEF ChainInv, ArchiveSound
    <2>6. QED
      BY <2>3, <2>4, <2>5 DEF ChainInv, Listed
  <1>3. QED
    BY <1>1, <1>2

-----------------------------------------------------------------------------
(* The capture: what a plan selected it keeps through its attempts.          *)
LEMMA AttemptFailsSound ==
  ASSUME PlanSound(job), job.phase \notin {"idle", "found"}, AttemptFails
  PROVE  PlanSound(job)'
  <1>1. CASE job' = Idle
    BY <1>1 DEF PlanSound, Idle
  <1>2. CASE job' = [job EXCEPT !.phase = "verify", !.attempt = @ + 1, !.began = <<>>,
                                !.todo = {}, !.baseline = Nothing, !.entries = NoInventory]
    BY <1>2 DEF PlanSound, Selected
  <1>3. QED
    BY <1>1, <1>2 DEF AttemptFails

LEMMA PlanStep ==
  ASSUME Plan
  PROVE  PlanSound(job)'
  <1>1. CASE job' = Idle
    BY <1>1 DEF PlanSound, Idle
  <1>2. CASE job' # Idle
    <2>1. PICK previous \in 0 .. Len(snapshots), full \in BOOLEAN, recent \in SUBSET job.sets :
            LET before == InventoryOf(previous)
                mode == IF previous = 0 THEN "bootstrap"
                        ELSE IF full THEN "integrityScan" ELSE "incremental"
                same == {s \in job.sets : Unchanged(before, s)}
                changed == IF mode = "incremental" THEN job.sets \ same ELSE job.sets
                reconciliation == IF mode = "incremental" THEN same \cap recent ELSE {}
            IN  /\ previous = 0 => ~full
                /\ recent = reconciliation
                /\ IF job.sets \subseteq Present
                   THEN job' = [phase |-> "verify", sets |-> job.sets, logs |-> job.logs,
                                mode |-> mode, attempt |-> 1,
                                previous |-> IF previous = 0 THEN Nothing ELSE before,
                                changed |-> changed, reconciliation |-> reconciliation,
                                deleted |-> DOMAIN before \ job.sets,
                                planned |-> [s \in job.sets |-> Files(s)],
                                carried |-> [s \in job.sets |->
                                  {role \in Roles(Files(s)) :
                                     s \in DOMAIN before /\ before[s][role] = Files(s)[role]}],
                                began |-> <<>>, todo |-> {}, baseline |-> Nothing,
                                entries |-> NoInventory]
                   ELSE job' = Idle
      BY Zenon DEF Plan
    <2> DEFINE before == InventoryOf(previous)
               mode == IF previous = 0 THEN "bootstrap"
                       ELSE IF full THEN "integrityScan" ELSE "incremental"
               same == {s \in job.sets : Unchanged(before, s)}
               changed == IF mode = "incremental" THEN job.sets \ same ELSE job.sets
               reconciliation == IF mode = "incremental" THEN same \cap recent ELSE {}
    <2>2. changed \subseteq job.sets /\ reconciliation \subseteq job.sets
      OBVIOUS
    <2> DEFINE planned == [s \in job.sets |-> Files(s)]
               carried == [s \in job.sets |->
                             {role \in Roles(Files(s)) :
                                s \in DOMAIN before /\ before[s][role] = Files(s)[role]}]
               earlier == IF previous = 0 THEN Nothing ELSE before
               deleted == DOMAIN before \ job.sets
    <2>3. job.sets \subseteq Present
      BY <1>2, <2>1, Zenon
    <2>4. job' = [phase |-> "verify", sets |-> job.sets, logs |-> job.logs,
                  mode |-> mode, attempt |-> 1, previous |-> earlier,
                  changed |-> changed, reconciliation |-> reconciliation,
                  deleted |-> deleted, planned |-> planned, carried |-> carried,
                  began |-> <<>>, todo |-> {}, baseline |-> Nothing,
                  entries |-> NoInventory]
      BY <2>1, <2>3, Zenon
    <2> HIDE DEF before, mode, same, changed, reconciliation, planned, carried, earlier, deleted
    <2>5. /\ DOMAIN job' = {"phase", "sets", "logs", "mode", "attempt", "previous", "changed",
                            "reconciliation", "deleted", "planned", "carried", "began", "todo",
                            "baseline", "entries"}
          /\ job'.sets = job.sets /\ job'.changed = changed
          /\ job'.reconciliation = reconciliation
      BY <2>4
    <2>6. QED
      BY <2>2, <2>5 DEF PlanSound, Selected
  <1>3. QED
    BY <1>1, <1>2

LEMMA CaptureKept ==
  ASSUME PlanSound(job), CaptureStep
  PROVE  /\ PlanSound(job)'
         /\ \/ snapshots' = snapshots
            \/ \E m : ManifestSound(m) /\ snapshots' = Append(snapshots, m)
  <1>1. CASE Discover
    BY <1>1 DEF Discover, PlanSound
  <1>2. CASE Plan
    BY <1>2, PlanStep DEF Plan
  <1>3. CASE VerifyBefore
    BY <1>3, AttemptFailsSound DEF VerifyBefore, Proceeds, PlanSound, Selected
  <1>4. CASE Baseline
    BY <1>4, AttemptFailsSound DEF Baseline, Proceeds, PlanSound, Selected
  <1>5. CASE CopyDatabase
    BY <1>5, AttemptFailsSound DEF CopyDatabase, Proceeds, PlanSound, Selected
  <1>6. CASE CopyLog
    BY <1>6, AttemptFailsSound DEF CopyLog, Proceeds, PlanSound, Selected
  <1>7. CASE CheckGroup
    BY <1>7, AttemptFailsSound DEF CheckGroup, Proceeds, PlanSound, Selected
  <1>8. CASE Finish
    <2>1. Selected(job) \subseteq job.sets
      BY <1>8 DEF Finish, PlanSound
    <2>2. ManifestSound(Manifest(job))
      BY <2>1 DEF ManifestSound, Manifest, Selected
    <2>3. CASE job' = Idle /\ snapshots' = Append(snapshots, Manifest(job))
      BY <2>2, <2>3 DEF PlanSound, Idle
    <2>4. CASE AttemptFails /\ UNCHANGED snapshots
      BY <1>8, <2>4, AttemptFailsSound DEF Finish
    <2>5. QED
      BY <1>8, <2>3, <2>4 DEF Finish
  <1>9. CASE Killed
    BY <1>9 DEF Killed, PlanSound, Idle
  <1>10. QED
    BY <1>1, <1>2, <1>3, <1>4, <1>5, <1>6, <1>7, <1>8, <1>9 DEF CaptureStep

LEMMA ClientKept ==
  ASSUME ClientStep
  PROVE  UNCHANGED <<job, snapshots>>
  <1>1. PICK s \in Source :
          \/ CreateDatabase(s) \/ DeleteDatabase(s)
          \/ OpenLog(s) \/ AppendFrame(s) \/ Rollback(s)
          \/ CheckpointPage(s) \/ RestartLog(s) \/ CloseDatabase(s)
    BY DEF ClientStep
  <1>2. CASE CreateDatabase(s) \/ DeleteDatabase(s)
    BY <1>2 DEF CreateDatabase, DeleteDatabase
  <1>3. CASE OpenLog(s)
    BY <1>3 DEF OpenLog
  <1>4. CASE AppendFrame(s)
    BY <1>4 DEF AppendFrame
  <1>5. CASE Rollback(s) \/ CheckpointPage(s)
    BY <1>5 DEF Rollback, CheckpointPage
  <1>6. CASE RestartLog(s) \/ CloseDatabase(s)
    BY <1>6 DEF RestartLog, CloseDatabase
  <1>7. QED
    BY <1>1, <1>2, <1>3, <1>4, <1>5, <1>6

-----------------------------------------------------------------------------
(* Archives.                                                                 *)
LEMMA ArchivesGrow ==
  ASSUME ChainInv, UNCHANGED captureVars, NEW archive,
         archives' = Append(archives, archive), ArchiveSound(archive),
         archive.base # 0 =>
           /\ archive.base \in DOMAIN archives
           /\ Keeps(archives[archive.base], archive, snapshots[archive.snapshot])
  PROVE  ChainInv'
  <1>1. UNCHANGED <<job, snapshots>>
    BY DEF captureVars
  <1>2. Listed(archives)
    BY DEF ChainInv
  <1>3. /\ Listed(archives')
        /\ \A a \in DOMAIN archives : a \in DOMAIN archives' /\ archives'[a] = archives[a]
        /\ \A a \in DOMAIN archives' : a \in DOMAIN archives \/ archives'[a] = archive
    BY <1>2, Appended
  <1>4. ASSUME NEW a \in DOMAIN archives'
        PROVE  /\ ArchiveSound(archives'[a])
               /\ archives'[a].base # 0 =>
                    /\ archives'[a].base \in DOMAIN archives'
                    /\ Keeps(archives'[archives'[a].base], archives'[a],
                             snapshots[archives'[a].snapshot])
    <2>1. CASE archives'[a] = archive
      BY <1>3, <2>1
    <2>2. CASE a \in DOMAIN archives
      BY <1>3, <2>2 DEF ChainInv
    <2>3. QED
      BY <1>3, <2>1, <2>2
  <1>5. QED
    BY <1>1, <1>3, <1>4 DEF ChainInv, ArchiveSound

LEMMA BootstrapKept ==
  ASSUME ChainInv, Bootstrap
  PROVE  ChainInv'
  <1>1. PICK i \in DOMAIN snapshots : \E unavailable \in SUBSET DOMAIN snapshots[i].entries :
          LET m == snapshots[i]
              fresh == Restorable(m, unavailable)
          IN  /\ Loads(m)
              /\ archives' = Append(archives,
                   [snapshot |-> i, source |-> m.inventory, base |-> 0,
                    fresh |-> fresh, stale |-> {},
                    records |-> [s \in fresh |-> Restored(m, s)]])
    BY DEF Bootstrap
  <1>2. PICK unavailable \in SUBSET DOMAIN snapshots[i].entries :
          LET m == snapshots[i]
              fresh == Restorable(m, unavailable)
          IN  /\ Loads(m)
              /\ archives' = Append(archives,
                   [snapshot |-> i, source |-> m.inventory, base |-> 0,
                    fresh |-> fresh, stale |-> {},
                    records |-> [s \in fresh |-> Restored(m, s)]])
    BY <1>1
  <1> DEFINE m == snapshots[i]
             fresh == Restorable(m, unavailable)
             archive == [snapshot |-> i, source |-> m.inventory, base |-> 0,
                         fresh |-> fresh, stale |-> {},
                         records |-> [s \in fresh |-> Restored(m, s)]]
  <1>3. fresh \subseteq DOMAIN m.inventory
    BY <1>2 DEF Loads, EntriesComplete, ChainInv, ManifestSound, Restorable
  <1>4. archives' = Append(archives, archive) /\ UNCHANGED captureVars
    BY <1>2 DEF Bootstrap
  <1>5. ArchiveSound(archive)
    <2> HIDE DEF fresh
    <2> QED
      BY <1>3 DEF ArchiveSound, Included
  <1>6. archive.base = 0
    OBVIOUS
  <1> HIDE DEF archive
  <1>7. QED
    BY <1>4, <1>5, <1>6, ArchivesGrow

(* The sets of an update are those of the archive before it that the client  *)
(* still has, and those that were restored.                                  *)
LEMMA UpdateKept ==
  ASSUME ChainInv, Update
  PROVE  ChainInv'
  <1>1. PICK i \in DOMAIN snapshots, j \in DOMAIN snapshots, a \in {Len(archives)} \ {0} :
          \E unavailable \in SUBSET DOMAIN snapshots[i].entries :
            LET m == snapshots[i]
                restored == Restorable(m, unavailable)
            IN  /\ Continues(snapshots[j], m)
                /\ archives[a].source = m.previous
                /\ archives' = Append(archives,
                     [snapshot |-> i, source |-> m.inventory, base |-> a,
                      fresh |-> MergedFresh(archives[a], m, restored),
                      stale |-> MergedStale(archives[a], m, restored),
                      records |-> MergedRecords(archives[a], m, restored)])
    BY DEF Update
  <1>2. PICK unavailable \in SUBSET DOMAIN snapshots[i].entries :
          LET m == snapshots[i]
              restored == Restorable(m, unavailable)
          IN  /\ Continues(snapshots[j], m)
              /\ archives[a].source = m.previous
              /\ archives' = Append(archives,
                   [snapshot |-> i, source |-> m.inventory, base |-> a,
                    fresh |-> MergedFresh(archives[a], m, restored),
                    stale |-> MergedStale(archives[a], m, restored),
                    records |-> MergedRecords(archives[a], m, restored)])
    BY <1>1
  <1> DEFINE m == snapshots[i]
             restored == Restorable(m, unavailable)
             base == archives[a]
             archive == [snapshot |-> i, source |-> m.inventory, base |-> a,
                         fresh |-> MergedFresh(base, m, restored),
                         stale |-> MergedStale(base, m, restored),
                         records |-> MergedRecords(base, m, restored)]
  <1>3. a \in DOMAIN archives
    <2>1. Listed(archives)
      BY DEF ChainInv
    <2>2. Len(archives) \in Nat /\ DOMAIN archives = 1 .. Len(archives)
      BY <2>1, Appended
    <2>3. QED
      BY <1>1, <2>2
  <1>4. /\ DOMAIN base.records = Included(base) /\ Included(base) \subseteq DOMAIN base.source
        /\ restored \subseteq DOMAIN m.entries /\ DOMAIN m.entries \subseteq DOMAIN m.inventory
        /\ m.deleted = DOMAIN base.source \ DOMAIN m.inventory
    <2>1. ArchiveSound(base) /\ ManifestSound(m)
      BY <1>3 DEF ChainInv
    <2>2. /\ Loads(m) /\ m.previous = snapshots[j].inventory /\ base.source = m.previous
          /\ m.deleted = DOMAIN snapshots[j].inventory \ DOMAIN m.inventory
      BY <1>2 DEF Continues
    <2>3. QED
      BY <2>1, <2>2 DEF ArchiveSound, ManifestSound, Loads, EntriesComplete, Restorable
  <1>5. /\ archives' = Append(archives, archive) /\ UNCHANGED captureVars
        /\ archive.snapshot = i /\ archive.source = m.inventory /\ archive.base = a
        /\ archive.fresh = MergedFresh(base, m, restored)
        /\ archive.stale = MergedStale(base, m, restored)
        /\ archive.records = MergedRecords(base, m, restored)
    BY <1>2 DEF Update
  <1> HIDE DEF m, restored, base, archive
  <1>6. DOMAIN archive.records = (Included(base) \cap DOMAIN m.inventory) \cup restored
    BY <1>4, <1>5 DEF MergedRecords, Replaced
  <1>7. Included(archive) = (Included(base) \cap DOMAIN m.inventory) \cup restored
    BY <1>4, <1>5 DEF MergedFresh, MergedStale, Included
  <1>8. ArchiveSound(archive)
    BY <1>4, <1>5, <1>6, <1>7 DEF ArchiveSound, m
  <1>9. Keeps(base, archive, m)
    <2> SUFFICES ASSUME NEW s \in Included(base) \cap DOMAIN m.inventory
                 PROVE  /\ s \in Included(archive)
                        /\ s \in archive.stale => archive.records[s] = base.records[s]
                        /\ s \in archive.fresh \ DOMAIN m.entries => s \in base.fresh
      BY DEF Keeps
    <2>1. s \in archive.stale => archive.records[s] = base.records[s]
      <3>1. s \in archive.stale => s \notin restored
        BY <1>5 DEF MergedStale, MergedFresh
      <3>2. s \notin restored => archive.records[s] = base.records[s]
        BY <1>4, <1>5 DEF MergedRecords, Replaced
      <3>3. QED
        BY <3>1, <3>2
    <2>2. s \in archive.fresh \ DOMAIN m.entries => s \in base.fresh
      BY <1>4, <1>5 DEF MergedFresh
    <2>3. QED
      BY <1>7, <2>1, <2>2
  <1>10. QED
    BY <1>3, <1>5, <1>8, <1>9, ArchivesGrow DEF base, m

-----------------------------------------------------------------------------
LEMMA ChainStart == Init => ChainInv
  BY EmptyListed DEF Init, CaptureInit, ChainInv, PlanSound, Idle

LEMMA ChainStep ==
  ASSUME ChainInv, [Next]_chainVars
  PROVE  ChainInv'
  <1>1. PlanSound(job)
    BY DEF ChainInv
  <1>2. CASE ClientStep /\ UNCHANGED archives
    <2>1. PlanSound(job)' /\ snapshots' = snapshots
      BY <1>1, <1>2, ClientKept DEF PlanSound
    <2>2. QED
      BY <1>2, <2>1, SnapshotsGrow
  <1>3. CASE CaptureStep /\ UNCHANGED archives
    BY <1>1, <1>3, CaptureKept, SnapshotsGrow
  <1>4. CASE Bootstrap
    BY <1>4, BootstrapKept
  <1>5. CASE Update
    BY <1>5, UpdateKept
  <1>6. CASE UNCHANGED chainVars
    <2>1. UNCHANGED <<job, snapshots, archives>>
      BY <1>6 DEF chainVars, captureVars
    <2>2. PlanSound(job)'
      BY <1>1, <2>1 DEF PlanSound
    <2>3. QED
      BY <2>1, <2>2, SnapshotsGrow
  <1>7. QED
    BY <1>2, <1>3, <1>4, <1>5, <1>6 DEF Next

(* An archive holds the records of the sets it includes, and each of them    *)
(* belongs to the source of the snapshot it names, whatever was captured     *)
(* and whatever could not be restored.                                       *)
THEOREM ChainInvariance == Spec => []ChainInv
  <1>1. Init => ChainInv
    BY ChainStart
  <1>2. ChainInv /\ [Next]_chainVars => ChainInv'
    BY ChainStep
  <1> QED
    BY <1>1, <1>2, PTL DEF Spec

(* merge_incremental_archive drops no set that the client still has, keeps   *)
(* the records of what could not be read, and calls nothing fresh that the   *)
(* archive before did not, unless it was restored.                           *)
THEOREM NothingDroppedHolds == Spec => []NothingDropped
  <1>1. ChainInv => NothingDropped
    BY DEF ChainInv, ArchiveSound, Keeps, NothingDropped
  <1> QED
    BY <1>1, ChainInvariance, PTL


-----------------------------------------------------------------------------
(* What is called fresh was committed.                                       *)

(* The least and the greatest of a set of numbers: the set that is copied    *)
(* next, the last commit of a log, the frame that counts for a page.         *)
LEMMA LeastNumber ==
  ASSUME NEW T \in SUBSET Nat, T # {}
  PROVE  \E m \in T : \A k \in T : m <= k
  <1> DEFINE initials == {0 .. n : n \in T}
  <1>1. initials # {} /\ initials \subseteq FiniteSubsetsOf(Nat)
    <2>1. \A n \in T : 0 .. n \in SUBSET Nat /\ IsFiniteSet(0 .. n)
      BY FS_Interval
    <2>2. QED
      BY <2>1 DEF FiniteSubsetsOf
  <1>2. PICK least \in initials :
          \A other \in initials : <<other, least>> \notin StrictSubsetOrdering(Nat)
    <2> HIDE DEF initials
    <2> QED
      BY <1>1, FS_StrictSubsetOrderingWellFounded, WFMin
  <1>3. PICK m \in T : least = 0 .. m
    OBVIOUS
  <1>4. ASSUME NEW k \in T, k < m
        PROVE  FALSE
    <2>1. 0 .. k \subseteq 0 .. m /\ m \in 0 .. m /\ m \notin 0 .. k
      BY <1>4
    <2>2. <<0 .. k, 0 .. m>> \in StrictSubsetOrdering(Nat)
      BY <2>1 DEF StrictSubsetOrdering
    <2>3. QED
      BY <1>2, <1>3, <2>2
  <1>5. QED
    BY <1>4

LEMMA MinMember ==
  ASSUME NEW T \in SUBSET Nat, T # {}
  PROVE  Min(T) \in T
  <1>1. \E m \in T : \A k \in T : m <= k
    BY LeastNumber
  <1>2. QED
    BY <1>1 DEF Min

LEMMA MaxMember ==
  ASSUME NEW n \in Nat, NEW T \in SUBSET (0 .. n), T # {}
  PROVE  Max(T) \in T /\ \A k \in T : k <= Max(T)
  <1> DEFINE below == {n - k : k \in T}
  <1>1. below \in SUBSET Nat /\ below # {}
    <2>1. \A k \in T : n - k \in Nat
      OBVIOUS
    <2>2. PICK k \in T : TRUE
      OBVIOUS
    <2>3. QED
      BY <2>1, <2>2
  <1>2. PICK l \in below : \A k \in below : l <= k
    <2> HIDE DEF below
    <2> QED
      BY <1>1, LeastNumber
  <1>3. PICK m \in T : l = n - m
    OBVIOUS
  <1>4. \A k \in T : n - m <= n - k
    BY <1>2, <1>3
  <1>5. \A k \in T : m >= k
    <2> TAKE k \in T
    <2>1. n - m <= n - k /\ k \in Nat /\ m \in Nat
      BY <1>4
    <2>2. QED
      BY <2>1
  <1>6. Max(T) \in T /\ \A k \in T : Max(T) >= k
    BY <1>5 DEF Max
  <1>7. QED
    BY <1>6

(* Files, by the sets the assumption on Nothing names.                       *)
Frame == [page : Page, version : Nat, salt : Nat, commit : BOOLEAN]
DatabaseFile == [stamp : Nat, pages : [Page -> Nat]]
LogFile == [stamp : Nat, salt : Nat, frames : Seq(Frame)]

LEMMA NothingIsNoFile == Nothing \notin DatabaseFile /\ Nothing \notin LogFile
  BY CaptureAssumption DEF Frame, DatabaseFile, LogFile

\* The committed frames of page p
Overlays(l, p) == {i \in Valid(l) : i <= LastCommit(l) /\ l.frames[i].page = p}

LEMMA AppliedOverlays ==
  ASSUME NEW pages, NEW l, l # Nothing
  PROVE  Applied(pages, l) =
           [p \in Page |-> IF Overlays(l, p) = {} THEN pages[p]
                           ELSE l.frames[Max(Overlays(l, p))].version]
  BY DEF Applied, Overlays

LEMMA CommitsLast ==
  ASSUME NEW l \in LogFile
  PROVE  /\ Len(l.frames) \in Nat /\ DOMAIN l.frames = 1 .. Len(l.frames)
         /\ LastCommit(l) \in 0 .. Len(l.frames)
         /\ \A i \in Valid(l) : l.frames[i].commit => i <= LastCommit(l)
  <1> DEFINE n == Len(l.frames)
             T == {0} \cup {i \in Valid(l) : l.frames[i].commit}
  <1>1. n \in Nat /\ DOMAIN l.frames = 1 .. n
    BY DEF LogFile
  <1> HIDE DEF n
  <1>2. T \in SUBSET (0 .. n) /\ T # {}
    BY <1>1 DEF Valid
  <1>3. LastCommit(l) = Max(T)
    BY DEF LastCommit
  <1>4. \A i \in Valid(l) : l.frames[i].commit => i \in T
    OBVIOUS
  <1> HIDE DEF T
  <1>5. Max(T) \in T /\ \A k \in T : k <= Max(T)
    BY <1>1, <1>2, MaxMember
  <1>6. QED
    BY <1>1, <1>2, <1>3, <1>4, <1>5 DEF n

LEMMA OverlaysLast ==
  ASSUME NEW l \in LogFile, NEW p, Overlays(l, p) # {}
  PROVE  /\ Max(Overlays(l, p)) \in DOMAIN l.frames
         /\ Max(Overlays(l, p)) <= LastCommit(l)
  <1>1. /\ Len(l.frames) \in Nat
        /\ Overlays(l, p) \in SUBSET (0 .. Len(l.frames))
        /\ \A i \in Overlays(l, p) : i \in DOMAIN l.frames /\ i <= LastCommit(l)
    BY CommitsLast DEF Overlays, Valid
  <1>2. Max(Overlays(l, p)) \in Overlays(l, p)
    BY <1>1, MaxMember
  <1>3. QED
    BY <1>1, <1>2

LEMMA AppliedType ==
  ASSUME NEW pages \in [Page -> Nat], NEW l \in LogFile \cup {Nothing}
  PROVE  Applied(pages, l) \in [Page -> Nat]
  <1>1. CASE l = Nothing
    BY <1>1 DEF Applied
  <1>2. CASE l # Nothing
    <2>1. l \in LogFile /\ l.frames \in Seq(Frame)
      BY <1>2 DEF LogFile
    <2>2. \A p \in Page : Overlays(l, p) # {} =>
            l.frames[Max(Overlays(l, p))].version \in Nat
      <3> TAKE p \in Page
      <3> HAVE Overlays(l, p) # {}
      <3>1. l.frames[Max(Overlays(l, p))] \in Frame
        BY <2>1, OverlaysLast
      <3>2. QED
        BY <3>1 DEF Frame
    <2>3. QED
      BY <1>2, <2>2, AppliedOverlays
  <1>3. QED
    BY <1>1, <1>2

(* Two logs with the same committed frames.                                  *)
LEMMA AppliedSame ==
  ASSUME NEW pages, NEW l \in LogFile, NEW f \in LogFile,
         \A p \in Page : Overlays(f, p) = Overlays(l, p),
         \A i \in DOMAIN l.frames : i <= LastCommit(l) => f.frames[i] = l.frames[i]
  PROVE  Applied(pages, f) = Applied(pages, l)
  <1>1. \A p \in Page : Overlays(l, p) # {} =>
          f.frames[Max(Overlays(l, p))] = l.frames[Max(Overlays(l, p))]
    BY OverlaysLast
  <1>2. l # Nothing /\ f # Nothing
    BY NothingIsNoFile
  <1>3. QED
    BY <1>1, <1>2, AppliedOverlays

(* A frame that is not committed changes nothing.                            *)
Written(after, frames, at, frame) ==
  after = IF at > Len(frames) THEN Append(frames, frame)
          ELSE [frames EXCEPT ![at] = frame]

LEMMA FrameWritten ==
  ASSUME NEW l \in LogFile, NEW f \in LogFile, NEW frame \in Frame,
         NEW at \in Nat, LastCommit(l) < at, at <= Len(l.frames) + 1,
         Written(f.frames, l.frames, at, frame)
  PROVE  /\ at \in DOMAIN f.frames /\ f.frames[at] = frame
         /\ \A i \in DOMAIN f.frames : i # at =>
              i \in DOMAIN l.frames /\ f.frames[i] = l.frames[i]
         /\ \A i \in DOMAIN l.frames : i \in DOMAIN f.frames
         /\ at <= Len(f.frames)
  <1> DEFINE old == l.frames
             new == f.frames
             n == Len(old)
  <1>1. /\ old \in Seq(Frame) /\ new \in Seq(Frame)
        /\ n \in Nat /\ DOMAIN old = 1 .. n /\ LastCommit(l) \in Nat
        /\ Len(new) \in Nat /\ DOMAIN new = 1 .. Len(new)
    BY CommitsLast DEF LogFile
  <1>2. CASE at > n
    <2>1. at = n + 1 /\ new = Append(old, frame)
      BY <1>1, <1>2 DEF Written
    <2> HIDE DEF old, new, n
    <2>2. /\ Len(new) = n + 1 /\ new[n + 1] = frame
          /\ \A i \in 1 .. n : new[i] = old[i]
      BY <1>1, <2>1 DEF n
    <2>3. QED
      BY <1>1, <2>1, <2>2 DEF old, new, n
  <1>3. CASE ~(at > n)
    <2>1. at \in 1 .. n /\ new = [old EXCEPT ![at] = frame]
      BY <1>1, <1>3 DEF Written
    <2> HIDE DEF old, new, n
    <2>2. /\ DOMAIN new = DOMAIN old /\ new[at] = frame
          /\ \A i \in DOMAIN old : i # at => new[i] = old[i]
      BY <1>1, <2>1
    <2>3. at \in 1 .. Len(new)
      BY <1>1, <2>1, <2>2
    <2>4. QED
      BY <1>1, <2>1, <2>2, <2>3 DEF old, new, n
  <1>4. QED
    BY <1>2, <1>3

LEMMA UncommittedUnseen ==
  ASSUME NEW l \in LogFile, NEW f \in LogFile, NEW frame \in Frame,
         NEW at \in Nat, LastCommit(l) < at, at <= Len(l.frames) + 1,
         Written(f.frames, l.frames, at, frame),
         f.salt = l.salt, ~frame.commit, NEW pages
  PROVE  /\ LastCommit(f) = LastCommit(l)
         /\ Applied(pages, f) = Applied(pages, l)
  <1>1. /\ at \in DOMAIN f.frames /\ f.frames[at] = frame
        /\ \A i \in DOMAIN f.frames : i # at =>
             i \in DOMAIN l.frames /\ f.frames[i] = l.frames[i]
        /\ \A i \in DOMAIN l.frames : i \in DOMAIN f.frames
    BY FrameWritten
  <1>2. LastCommit(l) \in Nat /\ DOMAIN l.frames \subseteq Nat
    BY CommitsLast
  <1>3. \A i \in DOMAIN l.frames : i <= LastCommit(l) =>
          i # at /\ i \in DOMAIN f.frames /\ f.frames[i] = l.frames[i]
    BY <1>1, <1>2
  <1>4. \A i \in Valid(l) : i <= LastCommit(l) => i \in Valid(f) /\ f.frames[i] = l.frames[i]
    BY <1>3 DEF Valid
  <1>5. \A i \in Valid(f) : i # at => i \in Valid(l) /\ f.frames[i] = l.frames[i]
    BY <1>1 DEF Valid
  <1>6. {i \in Valid(f) : f.frames[i].commit} = {i \in Valid(l) : l.frames[i].commit}
    <2>1. \A i \in Valid(l) : l.frames[i].commit => i <= LastCommit(l)
      BY CommitsLast
    <2>2. QED
      BY <1>1, <1>4, <1>5, <2>1
  <1>7. LastCommit(f) = LastCommit(l)
    BY <1>6 DEF LastCommit
  <1>8. \A p : Overlays(f, p) = Overlays(l, p)
    <2> TAKE p
    <2>1. \A i \in Overlays(l, p) : i \in Overlays(f, p)
      BY <1>4, <1>7 DEF Overlays
    <2>2. \A i \in Overlays(f, p) : i # at
      BY <1>2, <1>7 DEF Overlays
    <2>3. \A i \in Overlays(f, p) : i \in Overlays(l, p)
      BY <1>5, <1>7, <2>2 DEF Overlays
    <2>4. QED
      BY <2>1, <2>3
  <1>9. QED
    BY <1>3, <1>7, <1>8, AppliedSame


-----------------------------------------------------------------------------
(* The client.  Database d, its log l, where an open transaction writes, the *)
(* images c it has committed and the number n of changes: what they hold     *)
(* together is what was committed last, and a page that is checkpointed, a   *)
(* frame that is not committed or a log that is gone does not change it.     *)
SetSound(d, l, at, c, n) ==
  /\ n \in Nat /\ at \in Nat
  /\ c \in Seq([Page -> Nat])
  /\ d # Nothing =>
       /\ d \in DatabaseFile /\ d.stamp \in 1 .. n
       /\ Len(c) > 0 /\ Applied(d.pages, l) = c[Len(c)]
  /\ l # Nothing =>
       /\ d # Nothing
       /\ l \in LogFile /\ l.stamp \in 1 .. n /\ l.salt <= n
       /\ \A i \in DOMAIN l.frames : l.frames[i].salt <= n
  /\ at # 0 => /\ l # Nothing
               /\ LastCommit(l) < at /\ at <= Len(l.frames) + 1

ClientDomains ==
  /\ DOMAIN database = Source /\ DOMAIN log = Source /\ DOMAIN writing = Source
  /\ DOMAIN committed = Source /\ DOMAIN changes = Source

SoundAt(s) ==
  SetSound(database[s], log[s], writing[s], committed[s], changes[s])

ClientInv == ClientDomains /\ \A s \in Source : SoundAt(s)

(* A change: one of the files has a new stamp, or is gone.                   *)
Moves(d, l, c, n, d2, l2, c2, n2) ==
  /\ n2 = n \/ n2 = n + 1
  /\ \/ d2 = d
     \/ d2 = Nothing
     \/ l2 = l /\ n2 = n + 1 /\ d2 # Nothing /\ d2.stamp = n2
  /\ \/ l2 = l
     \/ l2 = Nothing
     \/ d2 = d /\ n2 = n + 1 /\ l2 # Nothing /\ l2.stamp = n2
  /\ c2 = c \/ \E image : c2 = Append(c, image)

SetMoves(s) ==
  /\ \A r \in Source : r # s =>
       /\ database'[r] = database[r] /\ log'[r] = log[r] /\ writing'[r] = writing[r]
       /\ committed'[r] = committed[r] /\ changes'[r] = changes[r]
  /\ ClientDomains'
  /\ SoundAt(s)'
  /\ Moves(database[s], log[s], committed[s], changes[s],
           database'[s], log'[s], committed'[s], changes'[s])
  /\ reopened \subseteq reopened'
  /\ log[s] = Nothing /\ log'[s] # Nothing => s \in reopened'

\* f2 is f but for its value x at s
Sets(f2, f, s, x) == \/ f2 = [f EXCEPT ![s] = x]
                     \/ f2 = f /\ x = f[s]

LEMMA SetAlone ==
  ASSUME ClientInv, NEW s \in Source, NEW d, NEW l, NEW at, NEW c, NEW n,
         Sets(database', database, s, d), Sets(log', log, s, l),
         Sets(writing', writing, s, at), Sets(committed', committed, s, c),
         Sets(changes', changes, s, n),
         SetSound(d, l, at, c, n),
         Moves(database[s], log[s], committed[s], changes[s], d, l, c, n),
         reopened \subseteq reopened',
         log[s] = Nothing /\ l # Nothing => s \in reopened'
  PROVE  SetMoves(s)
  <1>1. ASSUME NEW f, NEW f2, NEW x, DOMAIN f = Source, Sets(f2, f, s, x)
        PROVE  /\ DOMAIN f2 = Source /\ f2[s] = x
               /\ \A r \in Source : r # s => f2[r] = f[r]
    BY <1>1 DEF Sets
  <1>2. ClientDomains
    BY DEF ClientInv
  <1>3. /\ DOMAIN database' = Source /\ database'[s] = d
        /\ \A r \in Source : r # s => database'[r] = database[r]
    BY <1>1, <1>2 DEF ClientDomains
  <1>4. /\ DOMAIN log' = Source /\ log'[s] = l
        /\ \A r \in Source : r # s => log'[r] = log[r]
    BY <1>1, <1>2 DEF ClientDomains
  <1>5. /\ DOMAIN writing' = Source /\ writing'[s] = at
        /\ \A r \in Source : r # s => writing'[r] = writing[r]
    BY <1>1, <1>2 DEF ClientDomains
  <1>6. /\ DOMAIN committed' = Source /\ committed'[s] = c
        /\ \A r \in Source : r # s => committed'[r] = committed[r]
    BY <1>1, <1>2 DEF ClientDomains
  <1>7. /\ DOMAIN changes' = Source /\ changes'[s] = n
        /\ \A r \in Source : r # s => changes'[r] = changes[r]
    BY <1>1, <1>2 DEF ClientDomains
  <1>8. SoundAt(s)'
    BY <1>3, <1>4, <1>5, <1>6, <1>7 DEF SoundAt
  <1>9. QED
    BY <1>3, <1>4, <1>5, <1>6, <1>7, <1>8 DEF SetMoves, ClientDomains

\* A new stamp is newer than all before it.
LEMMA ChangedSets ==
  ASSUME NEW s \in Source, Changed(s)
  PROVE  Sets(changes', changes, s, changes[s] + 1)
  BY DEF Changed, Sets

LEMMA EmptyPages ==
  /\ [p \in Page |-> 0] \in [Page -> Nat]
  /\ <<[p \in Page |-> 0]>> \in Seq([Page -> Nat])
  /\ Len(<<[p \in Page |-> 0]>>) = 1
  /\ <<[p \in Page |-> 0]>>[1] = [p \in Page |-> 0]
  /\ <<[p \in Page |-> 0]>> = Append(<<>>, [p \in Page |-> 0])
  <1> DEFINE image == [p \in Page |-> 0]
  <1>1. image \in [Page -> Nat]
    OBVIOUS
  <1> HIDE DEF image
  <1>2. /\ <<image>> \in Seq([Page -> Nat]) /\ Len(<<image>>) = 1
        /\ <<image>>[1] = image /\ <<image>> = Append(<<>>, image)
    BY <1>1
  <1>3. QED
    BY <1>1, <1>2 DEF image

LEMMA CreateDatabaseMoves ==
  ASSUME ClientInv, NEW s \in Source, CreateDatabase(s)
  PROVE  SetMoves(s)
  <1> DEFINE image == [p \in Page |-> 0]
             n == changes[s] + 1
             d == [stamp |-> n, pages |-> image]
  <1>1. SetSound(database[s], log[s], writing[s], committed[s], changes[s])
    BY DEF ClientInv, SoundAt
  <1>2. database[s] = Nothing /\ log[s] = Nothing /\ writing[s] = 0 /\ committed[s] = <<>>
    BY <1>1 DEF CreateDatabase, SetSound
  <1>3. n \in Nat /\ 1 <= n
    BY <1>1 DEF SetSound
  <1>4. /\ image \in [Page -> Nat] /\ <<image>> \in Seq([Page -> Nat])
        /\ Len(<<image>>) = 1 /\ <<image>>[1] = image
        /\ <<image>> = Append(<<>>, image)
    BY EmptyPages
  <1>5. /\ Sets(database', database, s, d) /\ Sets(log', log, s, log[s])
        /\ Sets(writing', writing, s, writing[s])
        /\ Sets(committed', committed, s, <<image>>)
        /\ Sets(changes', changes, s, n) /\ reopened' = reopened
    BY ChangedSets DEF CreateDatabase, Sets, Stamp
  <1> HIDE DEF image, n
  <1>6. d \in DatabaseFile /\ d # Nothing /\ d.stamp = n /\ d.pages = image
    BY <1>3, <1>4, NothingIsNoFile DEF DatabaseFile
  <1> HIDE DEF d
  <1>7. Applied(d.pages, Nothing) = image
    BY <1>6 DEF Applied
  <1>8. SetSound(d, log[s], writing[s], <<image>>, n)
    BY <1>1, <1>2, <1>3, <1>4, <1>6, <1>7 DEF SetSound
  <1>9. Moves(database[s], log[s], committed[s], changes[s], d, log[s], <<image>>, n)
    BY <1>2, <1>4, <1>6 DEF Moves, n
  <1>10. QED
    BY <1>5, <1>8, <1>9, SetAlone

LEMMA DeleteDatabaseMoves ==
  ASSUME ClientInv, NEW s \in Source, DeleteDatabase(s)
  PROVE  SetMoves(s)
  <1>1. SetSound(database[s], log[s], writing[s], committed[s], changes[s])
    BY DEF ClientInv, SoundAt
  <1>2. /\ Sets(database', database, s, Nothing) /\ Sets(log', log, s, log[s])
        /\ Sets(writing', writing, s, writing[s])
        /\ Sets(committed', committed, s, committed[s])
        /\ Sets(changes', changes, s, changes[s]) /\ reopened' = reopened
    BY DEF DeleteDatabase, Sets
  <1>3. SetSound(Nothing, log[s], writing[s], committed[s], changes[s])
    BY <1>1 DEF SetSound, DeleteDatabase
  <1>4. Moves(database[s], log[s], committed[s], changes[s],
              Nothing, log[s], committed[s], changes[s])
    BY DEF Moves
  <1>5. QED
    BY <1>2, <1>3, <1>4, SetAlone

LEMMA RollbackMoves ==
  ASSUME ClientInv, NEW s \in Source, Rollback(s)
  PROVE  SetMoves(s)
  <1>1. SetSound(database[s], log[s], writing[s], committed[s], changes[s])
    BY DEF ClientInv, SoundAt
  <1>2. /\ Sets(database', database, s, database[s]) /\ Sets(log', log, s, log[s])
        /\ Sets(writing', writing, s, 0)
        /\ Sets(committed', committed, s, committed[s])
        /\ Sets(changes', changes, s, changes[s]) /\ reopened' = reopened
    BY DEF Rollback, Sets
  <1>3. SetSound(database[s], log[s], 0, committed[s], changes[s])
    BY <1>1 DEF SetSound
  <1>4. Moves(database[s], log[s], committed[s], changes[s],
              database[s], log[s], committed[s], changes[s])
    BY DEF Moves
  <1>5. QED
    BY <1>1, <1>2, <1>3, <1>4, SetAlone

LEMMA CloseDatabaseMoves ==
  ASSUME ClientInv, NEW s \in Source, CloseDatabase(s)
  PROVE  SetMoves(s)
  <1>1. SetSound(database[s], log[s], writing[s], committed[s], changes[s])
    BY DEF ClientInv, SoundAt
  <1>2. /\ Sets(database', database, s, database[s]) /\ Sets(log', log, s, Nothing)
        /\ Sets(writing', writing, s, writing[s])
        /\ Sets(committed', committed, s, committed[s])
        /\ Sets(changes', changes, s, changes[s]) /\ reopened' = reopened
        /\ writing[s] = 0 /\ log[s] # Nothing
    BY DEF CloseDatabase, Sets
  <1>3. Applied(database[s].pages, Nothing) = Applied(database[s].pages, log[s])
    BY DEF CloseDatabase, Backfilled, Image, Applied
  <1>4. SetSound(database[s], Nothing, writing[s], committed[s], changes[s])
    BY <1>1, <1>2, <1>3 DEF SetSound
  <1>5. Moves(database[s], log[s], committed[s], changes[s],
              database[s], Nothing, committed[s], changes[s])
    BY DEF Moves
  <1>6. QED
    BY <1>2, <1>4, <1>5, SetAlone

\* A log none of whose frames are of its salt
LEMMA NothingValid ==
  ASSUME NEW pages \in [Page -> Nat], NEW l, l # Nothing, Valid(l) = {}
  PROVE  Applied(pages, l) = pages /\ LastCommit(l) = 0
  <1>1. \A p : Overlays(l, p) = {}
    BY DEF Overlays
  <1>2. Applied(pages, l) = pages
    BY <1>1, AppliedOverlays
  <1>3. {0} \cup {i \in Valid(l) : l.frames[i].commit} = {0}
    OBVIOUS
  <1>4. Max({0}) \in {0}
    <2>1. 0 \in Nat /\ {0} \in SUBSET (0 .. 0) /\ {0} # {}
      OBVIOUS
    <2>2. QED
      BY <2>1, MaxMember
  <1>5. QED
    BY <1>2, <1>3, <1>4 DEF LastCommit

LEMMA OpenLogMoves ==
  ASSUME ClientInv, NEW s \in Source, OpenLog(s)
  PROVE  SetMoves(s)
  <1> DEFINE n == changes[s] + 1
             l == [stamp |-> n, salt |-> n, frames |-> <<>>]
  <1>1. SetSound(database[s], log[s], writing[s], committed[s], changes[s])
    BY DEF ClientInv, SoundAt
  <1>2. database[s] # Nothing /\ log[s] = Nothing /\ writing[s] = 0
    BY <1>1 DEF OpenLog, Present, SetSound
  <1>3. n \in Nat /\ 1 <= n /\ n > changes[s]
    BY <1>1 DEF SetSound
  <1>4. /\ Sets(database', database, s, database[s]) /\ Sets(log', log, s, l)
        /\ Sets(writing', writing, s, writing[s])
        /\ Sets(committed', committed, s, committed[s])
        /\ Sets(changes', changes, s, n) /\ reopened' = reopened \cup {s}
    BY ChangedSets DEF OpenLog, Sets, Stamp
  <1> HIDE DEF n
  <1>5. /\ l \in LogFile /\ l # Nothing /\ l.stamp = n /\ l.salt = n
        /\ DOMAIN l.frames = {} /\ Valid(l) = {}
    <2>1. <<>> \in Seq(Frame) /\ DOMAIN <<>> = {}
      OBVIOUS
    <2>2. l \in LogFile /\ DOMAIN l.frames = {}
      BY <1>3, <2>1 DEF LogFile
    <2>3. Valid(l) = {}
      BY <2>2 DEF Valid
    <2>4. QED
      BY <2>2, <2>3, NothingIsNoFile
  <1> HIDE DEF l
  <1>6. database[s] \in DatabaseFile /\ database[s].pages \in [Page -> Nat]
    BY <1>1, <1>2 DEF SetSound, DatabaseFile
  <1>7. Applied(database[s].pages, l) = Applied(database[s].pages, log[s])
    BY <1>2, <1>5, <1>6, NothingValid DEF Applied
  <1>8. SetSound(database[s], l, writing[s], committed[s], n)
    BY <1>1, <1>2, <1>3, <1>5, <1>7 DEF SetSound
  <1>9. Moves(database[s], log[s], committed[s], changes[s],
              database[s], l, committed[s], n)
    BY <1>5 DEF Moves, n
  <1>10. QED
    BY <1>4, <1>8, <1>9, SetAlone

LEMMA RestartLogMoves ==
  ASSUME ClientInv, NEW s \in Source, RestartLog(s)
  PROVE  SetMoves(s)
  <1> DEFINE n == changes[s] + 1
             l == [log[s] EXCEPT !.stamp = n, !.salt = n]
  <1>1. SetSound(database[s], log[s], writing[s], committed[s], changes[s])
    BY DEF ClientInv, SoundAt
  <1>2. /\ database[s] # Nothing /\ log[s] # Nothing /\ writing[s] = 0
        /\ log[s] \in LogFile
    BY <1>1 DEF RestartLog, SetSound
  <1>3. n \in Nat /\ 1 <= n /\ n > changes[s] /\ changes[s] \in Nat
    BY <1>1 DEF SetSound
  <1>4. /\ Sets(database', database, s, database[s])
        /\ Sets(writing', writing, s, writing[s])
        /\ Sets(committed', committed, s, committed[s])
        /\ Sets(changes', changes, s, n) /\ reopened' = reopened
    BY ChangedSets DEF RestartLog, Sets
  <1>5. Sets(log', log, s, l)
    <2>1. s \in DOMAIN log
      BY DEF ClientInv, ClientDomains
    <2>2. QED
      BY <2>1 DEF RestartLog, Sets, Stamp
  <1> HIDE DEF n
  <1>6. /\ l \in LogFile /\ l # Nothing /\ l.stamp = n /\ l.salt = n
        /\ l.frames = log[s].frames
    BY <1>2, <1>3, NothingIsNoFile DEF LogFile
  <1> HIDE DEF l
  <1>7. /\ \A i \in DOMAIN l.frames : l.frames[i].salt <= changes[s]
        /\ \A i \in DOMAIN l.frames : l.frames[i].salt \in Nat
    <2>1. l.frames \in Seq(Frame)
      BY <1>6 DEF LogFile
    <2>2. \A i \in DOMAIN l.frames : l.frames[i] \in Frame
      BY <2>1
    <2>3. QED
      BY <1>1, <1>2, <1>6, <2>2 DEF SetSound, Frame
  <1>8. Valid(l) = {}
    BY <1>3, <1>6, <1>7 DEF Valid
  <1>9. database[s] \in DatabaseFile /\ database[s].pages \in [Page -> Nat]
    BY <1>1, <1>2 DEF SetSound, DatabaseFile
  <1>10. Applied(database[s].pages, l) = Applied(database[s].pages, log[s])
    BY <1>6, <1>8, <1>9, NothingValid DEF RestartLog, Backfilled, Image
  <1>11. \A i \in DOMAIN l.frames : l.frames[i].salt <= n
    BY <1>3, <1>7
  <1>12. SetSound(database[s], l, writing[s], committed[s], n)
    BY <1>1, <1>2, <1>3, <1>6, <1>10, <1>11 DEF SetSound
  <1>13. Moves(database[s], log[s], committed[s], changes[s],
               database[s], l, committed[s], n)
    BY <1>6 DEF Moves, n
  <1>14. QED
    BY <1>2, <1>4, <1>5, <1>12, <1>13, SetAlone


LEMMA CheckpointPageMoves ==
  ASSUME ClientInv, NEW s \in Source, CheckpointPage(s)
  PROVE  SetMoves(s)
  <1> DEFINE n == changes[s] + 1
             image == Applied(database[s].pages, log[s])
  <1>1. SetSound(database[s], log[s], writing[s], committed[s], changes[s])
    BY DEF ClientInv, SoundAt
  <1>2. PICK p \in Page :
          /\ log[s] # Nothing
          /\ database' = [database EXCEPT ![s] =
               [stamp |-> Stamp(s), pages |-> [@.pages EXCEPT ![p] = image[p]]]]
    BY DEF CheckpointPage, Image
  <1> DEFINE pages == [database[s].pages EXCEPT ![p] = image[p]]
             d == [stamp |-> n, pages |-> pages]
  <1>3. /\ n \in Nat /\ 1 <= n /\ n > changes[s]
        /\ database[s] # Nothing /\ database[s].pages \in [Page -> Nat]
        /\ log[s] \in LogFile
    BY <1>1, <1>2 DEF SetSound, DatabaseFile
  <1>4. image \in [Page -> Nat]
    BY <1>3, AppliedType
  <1>5. Sets(database', database, s, d)
    <2>1. s \in DOMAIN database
      BY DEF ClientInv, ClientDomains
    <2>2. QED
      BY <1>2, <2>1 DEF Sets, Stamp
  <1>6. /\ Sets(log', log, s, log[s]) /\ Sets(writing', writing, s, writing[s])
        /\ Sets(committed', committed, s, committed[s])
        /\ Sets(changes', changes, s, n) /\ reopened' = reopened
    BY ChangedSets DEF CheckpointPage, Sets
  <1>7. Applied(pages, log[s]) = image
    <2>1. \A q \in Page : Overlays(log[s], q) = {} => image[q] = database[s].pages[q]
      BY <1>2, AppliedOverlays
    <2>2. \A q \in Page : Overlays(log[s], q) = {} => pages[q] = database[s].pages[q]
      BY <1>3, <2>1
    <2> HIDE DEF pages
    <2>3. QED
      BY <1>2, <2>2, AppliedOverlays
  <1>8. pages \in [Page -> Nat]
    <2>1. image[p] \in Nat
      BY <1>4
    <2> HIDE DEF image
    <2>2. QED
      BY <1>3, <2>1
  <1> HIDE DEF n, pages
  <1>9. d \in DatabaseFile /\ d # Nothing /\ d.stamp = n /\ d.pages = pages
    BY <1>3, <1>8, NothingIsNoFile DEF DatabaseFile
  <1> HIDE DEF d
  <1>10. SetSound(d, log[s], writing[s], committed[s], n)
    <2>1. changes[s] \in Nat /\ changes[s] <= n
      BY <1>1, <1>3 DEF SetSound
    <2>2. \A i \in DOMAIN log[s].frames : log[s].frames[i].salt <= n
      <3>1. \A i \in DOMAIN log[s].frames : log[s].frames[i] \in Frame
        BY <1>3 DEF LogFile
      <3>2. QED
        BY <1>1, <1>2, <1>3, <2>1, <3>1 DEF SetSound, Frame
    <2>3. log[s].stamp \in 1 .. n /\ log[s].salt <= n
      BY <1>1, <1>2, <1>3, <2>1 DEF SetSound, LogFile
    <2>4. Len(committed[s]) > 0 /\ Applied(d.pages, log[s]) = committed[s][Len(committed[s])]
      BY <1>1, <1>3, <1>7, <1>9 DEF SetSound
    <2>5. d.stamp \in 1 .. n
      BY <1>3, <1>9
    <2>6. writing[s] # 0 => LastCommit(log[s]) < writing[s] /\ writing[s] <= Len(log[s].frames) + 1
      BY <1>1 DEF SetSound
    <2>7. writing[s] \in Nat /\ committed[s] \in Seq([Page -> Nat])
      BY <1>1 DEF SetSound
    <2>8. QED
      BY <1>2, <1>3, <1>9, <2>2, <2>3, <2>4, <2>5, <2>6, <2>7 DEF SetSound
  <1>11. Moves(database[s], log[s], committed[s], changes[s],
               d, log[s], committed[s], n)
    BY <1>9 DEF Moves, n
  <1>12. QED
    BY <1>2, <1>5, <1>6, <1>10, <1>11, SetAlone


LEMMA AppendFrameMoves ==
  ASSUME ClientInv, NEW s \in Source, AppendFrame(s)
  PROVE  SetMoves(s)
  <1> DEFINE n == changes[s] + 1
             l == log[s]
             d == database[s]
             c == committed[s]
             at == Position(s)
  <1>1. SetSound(d, l, writing[s], c, changes[s])
    BY DEF ClientInv, SoundAt
  <1>2. PICK p \in Page, last \in BOOLEAN :
          LET frame == [page |-> p, version |-> Len(c), salt |-> l.salt, commit |-> last]
              after == [l EXCEPT
                          !.stamp = Stamp(s),
                          !.frames = IF at > Len(l.frames) THEN Append(l.frames, frame)
                                     ELSE [l.frames EXCEPT ![at] = frame]]
          IN  /\ log' = [log EXCEPT ![s] = after]
              /\ writing' = [writing EXCEPT ![s] = IF last THEN 0 ELSE at + 1]
              /\ committed' = [committed EXCEPT
                   ![s] = IF last THEN Append(@, Applied(d.pages, after)) ELSE @]
    BY DEF AppendFrame
  <1> DEFINE frame == [page |-> p, version |-> Len(c), salt |-> l.salt, commit |-> last]
             frames == IF at > Len(l.frames) THEN Append(l.frames, frame)
                       ELSE [l.frames EXCEPT ![at] = frame]
             f == [l EXCEPT !.stamp = n, !.frames = frames]
             at2 == IF last THEN 0 ELSE at + 1
             c2 == IF last THEN Append(c, Applied(d.pages, f)) ELSE c
  <1>3. l # Nothing /\ UNCHANGED <<database, job, reopened, snapshots>> /\ Changed(s)
    BY DEF AppendFrame
  <1>4. /\ n \in Nat /\ changes[s] \in Nat /\ n > changes[s] /\ 1 <= n
        /\ d # Nothing /\ d \in DatabaseFile /\ d.pages \in [Page -> Nat]
        /\ l \in LogFile /\ l.salt \in Nat /\ l.salt <= n /\ l.frames \in Seq(Frame)
        /\ c \in Seq([Page -> Nat]) /\ Len(c) \in Nat
    <2>1. /\ changes[s] \in Nat /\ d # Nothing /\ d \in DatabaseFile /\ l \in LogFile
          /\ l.salt <= changes[s] /\ c \in Seq([Page -> Nat])
      BY <1>1, <1>3 DEF SetSound
    <2> HIDE DEF l, d, c
    <2>2. l.salt \in Nat /\ l.frames \in Seq(Frame) /\ d.pages \in [Page -> Nat]
      BY <2>1 DEF DatabaseFile, LogFile
    <2>3. QED
      BY <2>1, <2>2
  <1>5. at \in Nat /\ LastCommit(l) < at /\ at <= Len(l.frames) + 1 /\ 1 <= at
    <2>1. LastCommit(l) \in Nat /\ LastCommit(l) <= Len(l.frames) /\ Len(l.frames) \in Nat
      BY <1>4, CommitsLast
    <2>2. QED
      BY <1>1, <1>4, <2>1 DEF SetSound, Position
  <1>6. /\ Sets(database', database, s, d)
        /\ Sets(log', log, s, f) /\ Sets(writing', writing, s, at2)
        /\ Sets(committed', committed, s, c2) /\ Sets(changes', changes, s, n)
    <2>1. s \in DOMAIN committed /\ s \in DOMAIN log
      BY DEF ClientInv, ClientDomains
    <2>2. committed' = [committed EXCEPT ![s] = c2]
      BY <1>2, <2>1 DEF Stamp
    <2>3. log' = [log EXCEPT ![s] = f] /\ writing' = [writing EXCEPT ![s] = at2]
      BY <1>2 DEF Stamp
    <2> HIDE DEF c2, at2, f, at
    <2>4. Sets(changes', changes, s, n)
      BY <1>3, ChangedSets
    <2>5. QED
      BY <1>3, <2>2, <2>3, <2>4 DEF Sets
  <1>7. frame \in Frame /\ frame.salt = l.salt /\ frame.commit = last
    BY <1>4 DEF Frame
  <1>8. Written(frames, l.frames, at, frame)
    BY DEF Written
  <1> HIDE DEF at, frame
  <1>9. frames \in Seq(Frame)
    <2>1. CASE at > Len(l.frames)
      BY <1>4, <1>7, <2>1
    <2>2. CASE ~(at > Len(l.frames))
      <3>1. Len(l.frames) \in Nat /\ at \in 1 .. Len(l.frames)
        BY <1>4, <1>5, <2>2
      <3>2. QED
        BY <1>4, <1>7, <2>2, <3>1
    <2>3. QED
      BY <2>1, <2>2
  <1> HIDE DEF frames, n, l, d, c
  <1>10. /\ f \in LogFile /\ f # Nothing /\ f.stamp = n /\ f.salt = l.salt
         /\ f.frames = frames
    BY <1>4, <1>9, NothingIsNoFile DEF LogFile
  <1> HIDE DEF f
  <1>11. /\ at \in DOMAIN f.frames /\ f.frames[at] = frame
         /\ \A i \in DOMAIN f.frames : i # at =>
              i \in DOMAIN l.frames /\ f.frames[i] = l.frames[i]
         /\ at <= Len(f.frames) /\ Len(f.frames) \in Nat
    BY <1>4, <1>5, <1>7, <1>8, <1>10, FrameWritten DEF LogFile
  <1>12. \A i \in DOMAIN f.frames : f.frames[i].salt <= n
    <2> TAKE i \in DOMAIN f.frames
    <2>1. CASE i = at
      BY <1>4, <1>7, <1>11, <2>1
    <2>2. CASE i # at
      <3>1. i \in DOMAIN l.frames /\ f.frames[i] = l.frames[i]
        BY <1>11, <2>2
      <3>2. l.frames[i].salt <= changes[s] /\ l.frames[i] \in Frame
        BY <1>1, <1>3, <1>4, <3>1 DEF SetSound, l
      <3>3. QED
        BY <1>4, <3>1, <3>2 DEF Frame
    <2>3. QED
      BY <2>1, <2>2
  <1>13. Applied(d.pages, f) \in [Page -> Nat]
    BY <1>4, <1>10, AppliedType
  <1>14. CASE last
    <2>1. at2 = 0 /\ c2 = Append(c, Applied(d.pages, f))
      BY <1>14
    <2> DEFINE image == Applied(d.pages, f)
    <2> HIDE DEF image
    <2>2. c2 \in Seq([Page -> Nat]) /\ Len(c2) > 0 /\ c2[Len(c2)] = image
      BY <1>4, <1>13, <2>1 DEF image
    <2>3. SetSound(d, f, at2, c2, n)
      <3>1. d.stamp \in 1 .. n
        BY <1>1, <1>4 DEF SetSound
      <3>2. QED
        BY <1>4, <1>10, <1>12, <2>1, <2>2, <3>1 DEF SetSound, image
    <2>4. Moves(d, l, c, changes[s], d, f, c2, n)
      BY <1>10, <2>1 DEF Moves, n
    <2>5. QED
      BY <1>3, <1>6, <2>3, <2>4, SetAlone DEF d, l, c
  <1>15. CASE ~last
    <2>1. at2 = at + 1 /\ c2 = c
      BY <1>15
    <2>2. LastCommit(f) = LastCommit(l) /\ Applied(d.pages, f) = Applied(d.pages, l)
      BY <1>4, <1>5, <1>7, <1>8, <1>10, <1>15, UncommittedUnseen
    <2>3. SetSound(d, f, at2, c2, n)
      <3>1. d.stamp \in 1 .. n
        BY <1>1, <1>4 DEF SetSound
      <3>2. Len(c) > 0 /\ Applied(d.pages, l) = c[Len(c)]
        BY <1>1, <1>4 DEF SetSound
      <3>3. LastCommit(f) < at + 1 /\ at + 1 <= Len(f.frames) + 1 /\ at + 1 \in Nat
        BY <1>4, <1>5, <1>11, <2>2, CommitsLast
      <3>4. f.salt <= n /\ f.stamp \in 1 .. n
        BY <1>4, <1>10
      <3>5. QED
        BY <1>4, <1>10, <1>12, <2>1, <2>2, <3>1, <3>2, <3>3, <3>4 DEF SetSound
    <2>4. Moves(d, l, c, changes[s], d, f, c2, n)
      BY <1>10, <2>1 DEF Moves, n
    <2>5. QED
      BY <1>3, <1>6, <2>3, <2>4, SetAlone DEF d, l, c
  <1>16. QED
    BY <1>14, <1>15


LEMMA ClientMoves ==
  ASSUME ClientInv, ClientStep
  PROVE  \E s \in Source : SetMoves(s)
  <1>1. PICK s \in Source :
          \/ CreateDatabase(s) \/ DeleteDatabase(s)
          \/ OpenLog(s) \/ AppendFrame(s) \/ Rollback(s)
          \/ CheckpointPage(s) \/ RestartLog(s) \/ CloseDatabase(s)
    BY DEF ClientStep
  <1>2. QED
    BY <1>1, CreateDatabaseMoves, DeleteDatabaseMoves, OpenLogMoves, AppendFrameMoves,
       RollbackMoves, CheckpointPageMoves, RestartLogMoves, CloseDatabaseMoves

LEMMA ClientStart == Init => ClientInv
  <1> SUFFICES ASSUME Init
               PROVE  ClientInv
    OBVIOUS
  <1> DEFINE image == [p \in Page |-> 0]
             d == [stamp |-> 1, pages |-> image]
  <1>1. PICK there \in SUBSET Source :
          /\ database = [s \in Source |-> IF s \in there THEN d ELSE Nothing]
          /\ committed = [s \in Source |-> IF s \in there THEN <<image>> ELSE <<>>]
          /\ changes = [s \in Source |-> IF s \in there THEN 1 ELSE 0]
    BY DEF Init, CaptureInit
  <1>2. log = [s \in Source |-> Nothing] /\ writing = [s \in Source |-> 0]
    BY DEF Init, CaptureInit
  <1>3. /\ image \in [Page -> Nat] /\ <<image>> \in Seq([Page -> Nat])
        /\ Len(<<image>>) = 1 /\ <<image>>[1] = image
    BY EmptyPages
  <1> HIDE DEF image
  <1>4. d \in DatabaseFile /\ d # Nothing /\ d.stamp = 1 /\ d.pages = image
    BY <1>3, NothingIsNoFile DEF DatabaseFile
  <1> HIDE DEF d
  <1>5. Applied(d.pages, Nothing) = image
    BY <1>4 DEF Applied
  <1>6. SetSound(d, Nothing, 0, <<image>>, 1)
    BY <1>3, <1>4, <1>5 DEF SetSound
  <1>7. SetSound(Nothing, Nothing, 0, <<>>, 0)
    BY DEF SetSound
  <1>8. ClientDomains
    BY <1>1, <1>2 DEF ClientDomains
  <1>9. ASSUME NEW s \in Source
        PROVE  SoundAt(s)
    BY <1>1, <1>2, <1>6, <1>7 DEF SoundAt
  <1>10. QED
    BY <1>8, <1>9 DEF ClientInv

-----------------------------------------------------------------------------
(* The history: what the files of a set held, by their stamps.  A stamp is   *)
(* never given twice, so the stamps of a plan, of a copy or of an inventory  *)
(* say what the files were.                                                  *)
Recalls(H) ==
  /\ DOMAIN H = Source \X Nat
  /\ \A s \in Source :
       /\ H[<<s, 0>>] = Nothing
       /\ H[<<s, StampOf(database[s])>>] = database[s]
       /\ H[<<s, StampOf(log[s])>>] = log[s]

Known(s, stamps) == stamps.database \in 0 .. changes[s] /\ stamps.log \in 0 .. changes[s]

\* The image of the files that had these stamps
ImageAt(H, s, stamps) == Applied(H[<<s, stamps.database>>].pages, H[<<s, stamps.log>>])

\* It is one the client committed, not before transaction number from
Left(H, s, from, stamps) ==
  \E k \in from .. Len(committed[s]) : committed[s][k] = ImageAt(H, s, stamps)

\* A copy is of the files with its stamps
Holds(H, s, entry) ==
  /\ Known(s, EntryStamps(entry))
  /\ H[<<s, StampOf(entry.database)>>] = entry.database
  /\ H[<<s, StampOf(entry.log)>>] = entry.log

(* The client goes on: what was is still known.                              *)
Later(H, H2) == \A s \in Source :
  /\ changes[s] \in Nat /\ changes'[s] \in Nat /\ changes[s] <= changes'[s]
  /\ \A n \in 0 .. changes[s] : H2[<<s, n>>] = H[<<s, n>>]
  /\ Len(committed[s]) \in Nat /\ Len(committed'[s]) \in Nat
  /\ Len(committed[s]) <= Len(committed'[s])
  /\ \A k \in 1 .. Len(committed[s]) : committed'[s][k] = committed[s][k]
  /\ s \in reopened => s \in reopened'
  /\ log[s] = Nothing => log'[s] = Nothing \/ s \in reopened'

LEMMA ClientCounts ==
  ASSUME ClientInv, NEW s \in Source
  PROVE  /\ changes[s] \in Nat /\ Len(committed[s]) \in Nat
         /\ StampOf(database[s]) \in 0 .. changes[s] /\ StampOf(log[s]) \in 0 .. changes[s]
         /\ database[s] # Nothing => StampOf(database[s]) # 0
         /\ log[s] # Nothing => StampOf(log[s]) # 0
         /\ committed[s] \in Seq([Page -> Nat])
  <1>1. SetSound(database[s], log[s], writing[s], committed[s], changes[s])
    BY DEF ClientInv, SoundAt
  <1>2. QED
    BY <1>1 DEF SetSound, StampOf

(* The files there are now hold what was committed last.                     *)
LEMMA FilesNow ==
  ASSUME ClientInv, NEW H, Recalls(H), NEW s \in Source
  PROVE  /\ Known(s, Files(s))
         /\ s \in Present =>
              /\ Len(committed[s]) \in Nat /\ Len(committed[s]) > 0
              /\ ImageAt(H, s, Files(s)) = committed[s][Len(committed[s])]
  <1>1. Known(s, Files(s))
    BY ClientCounts DEF Known, Files
  <1>2. ImageAt(H, s, Files(s)) = Applied(database[s].pages, log[s])
    BY DEF Recalls, ImageAt, Files
  <1>3. SetSound(database[s], log[s], writing[s], committed[s], changes[s])
    BY DEF ClientInv, SoundAt
  <1>4. QED
    BY <1>1, <1>2, <1>3 DEF SetSound, Present


LEMMA ClientInvKept ==
  ASSUME ClientInv, NEW s \in Source, SetMoves(s)
  PROVE  ClientInv'
  <1>1. ASSUME NEW r \in Source
        PROVE  SoundAt(r)'
    <2>1. CASE r = s
      BY <2>1 DEF SetMoves
    <2>2. CASE r # s
      <3>1. SoundAt(r)
        BY DEF ClientInv
      <3>2. /\ database'[r] = database[r] /\ log'[r] = log[r] /\ writing'[r] = writing[r]
            /\ committed'[r] = committed[r] /\ changes'[r] = changes[r]
        BY <2>2 DEF SetMoves
      <3>3. QED
        BY <3>1, <3>2 DEF SoundAt
    <2>3. QED
      BY <2>1, <2>2
  <1>2. QED
    BY <1>1 DEF SetMoves, ClientInv

(* The file that a step of the client changed is added under its new stamp.  *)
LEMMA HistoryGrows ==
  ASSUME ClientInv, NEW s \in Source, SetMoves(s), NEW H, Recalls(H)
  PROVE  \E H2 : Recalls(H2)' /\ Later(H, H2)
  <1> DEFINE n == changes[s]
             d == database[s]
             l == log[s]
             d2 == database'[s]
             l2 == log'[s]
             file == IF d2 # Nothing /\ d2.stamp = n + 1 THEN d2 ELSE l2
  <1>1. changes'[s] \in Nat /\ committed'[s] \in Seq([Page -> Nat])
    <2>1. SoundAt(s)'
      BY DEF SetMoves
    <2>2. QED
      BY <2>1 DEF SoundAt, SetSound
  <1>2. /\ n \in Nat /\ changes'[s] \in Nat
        /\ StampOf(d) \in 0 .. n /\ StampOf(l) \in 0 .. n
    BY <1>1, ClientCounts
  <1>3. Moves(d, l, committed[s], n, d2, l2, committed'[s], changes'[s])
    BY DEF SetMoves
  <1>4. /\ DOMAIN H = Source \X Nat /\ H[<<s, 0>>] = Nothing
        /\ H[<<s, StampOf(d)>>] = d /\ H[<<s, StampOf(l)>>] = l
    BY DEF Recalls
  <1>5. PICK H2 :
          /\ DOMAIN H2 = Source \X Nat /\ H2[<<s, n + 1>>] = file
          /\ \A k \in 0 .. n : H2[<<s, k>>] = H[<<s, k>>]
          /\ \A r \in Source : r # s => \A k \in Nat : H2[<<r, k>>] = H[<<r, k>>]
    <2> DEFINE G == [H EXCEPT ![<<s, n + 1>>] = file]
    <2>1. <<s, n + 1>> \in DOMAIN H /\ \A k \in 0 .. n : k \in Nat /\ k # n + 1
      BY <1>2, <1>4
    <2>2. n \in Nat
      BY <1>2
    <2> HIDE DEF n, file
    <2>3. /\ DOMAIN G = Source \X Nat /\ G[<<s, n + 1>>] = file
          /\ \A k \in 0 .. n : G[<<s, k>>] = H[<<s, k>>]
      BY <1>4, <2>1, <2>2
    <2>4. \A r \in Source : r # s => \A k \in Nat : G[<<r, k>>] = H[<<r, k>>]
      BY <1>4
    <2> HIDE DEF G
    <2>5. QED
      BY <2>3, <2>4
  <1>6. H2[<<s, StampOf(d2)>>] = d2 /\ H2[<<s, StampOf(l2)>>] = l2 /\ H2[<<s, 0>>] = Nothing
    <2>1. StampOf(Nothing) = 0
      BY DEF StampOf
    <2>2. H2[<<s, StampOf(d)>>] = d /\ H2[<<s, StampOf(l)>>] = l /\ H2[<<s, 0>>] = Nothing
      BY <1>2, <1>4, <1>5
    <2>3. CASE l2 = l /\ changes'[s] = n + 1 /\ d2 # Nothing /\ d2.stamp = changes'[s]
      BY <1>5, <2>2, <2>3 DEF StampOf
    <2>4. CASE d2 = d /\ changes'[s] = n + 1 /\ l2 # Nothing /\ l2.stamp = changes'[s]
      <3>1. ~(d2 # Nothing /\ d2.stamp = n + 1)
        BY <1>2, <2>4 DEF StampOf
      <3>2. QED
        BY <1>5, <2>2, <2>4, <3>1 DEF StampOf
    <2>5. CASE (d2 = d \/ d2 = Nothing) /\ (l2 = l \/ l2 = Nothing)
      BY <2>1, <2>2, <2>5
    <2>6. QED
      BY <1>3, <2>3, <2>4, <2>5 DEF Moves
  <1>7. Recalls(H2)'
    <2>1. ASSUME NEW r \in Source, r # s
          PROVE  /\ H2[<<r, 0>>] = Nothing
                 /\ H2[<<r, StampOf(database'[r])>>] = database'[r]
                 /\ H2[<<r, StampOf(log'[r])>>] = log'[r]
      <3>1. database'[r] = database[r] /\ log'[r] = log[r]
        BY <2>1 DEF SetMoves
      <3>2. StampOf(database[r]) \in Nat /\ StampOf(log[r]) \in Nat
        BY ClientCounts
      <3>3. QED
        BY <1>5, <2>1, <3>1, <3>2 DEF Recalls
    <2>2. QED
      BY <1>5, <1>6, <2>1 DEF Recalls, StampOf
  <1>8. Later(H, H2)
    <2>1. ASSUME NEW r \in Source, r # s
          PROVE  /\ changes[r] \in Nat /\ changes'[r] \in Nat /\ changes[r] <= changes'[r]
                 /\ \A k \in 0 .. changes[r] : H2[<<r, k>>] = H[<<r, k>>]
                 /\ Len(committed[r]) \in Nat /\ Len(committed'[r]) \in Nat
                 /\ Len(committed[r]) <= Len(committed'[r])
                 /\ \A k \in 1 .. Len(committed[r]) : committed'[r][k] = committed[r][k]
                 /\ log'[r] = log[r]
      <3>1. /\ changes'[r] = changes[r] /\ committed'[r] = committed[r]
            /\ log'[r] = log[r]
        BY <2>1 DEF SetMoves
      <3>2. changes[r] \in Nat /\ Len(committed[r]) \in Nat
        BY ClientCounts
      <3>3. QED
        BY <1>5, <2>1, <3>1, <3>2
    <2>2. /\ changes[s] \in Nat /\ changes'[s] \in Nat /\ changes[s] <= changes'[s]
          /\ \A k \in 0 .. changes[s] : H2[<<s, k>>] = H[<<s, k>>]
      BY <1>2, <1>3, <1>5 DEF Moves
    <2>3. /\ Len(committed[s]) \in Nat /\ Len(committed'[s]) \in Nat
          /\ Len(committed[s]) <= Len(committed'[s])
          /\ \A k \in 1 .. Len(committed[s]) : committed'[s][k] = committed[s][k]
      <3>1. committed[s] \in Seq([Page -> Nat]) /\ Len(committed[s]) \in Nat
        BY ClientCounts
      <3>2. committed'[s] \in Seq([Page -> Nat]) /\ Len(committed'[s]) \in Nat
        BY <1>1
      <3>3. CASE committed'[s] = committed[s]
        BY <3>1, <3>2, <3>3
      <3>4. CASE \E image : committed'[s] = Append(committed[s], image)
        <4> PICK image : committed'[s] = Append(committed[s], image)
          BY <3>4
        <4> DEFINE c == committed[s]
        <4>1. c \in Seq([Page -> Nat]) /\ Append(c, image) \in Seq([Page -> Nat])
          BY <3>1, <3>2
        <4> HIDE DEF c
        <4>2. Len(Append(c, image)) = Len(c) + 1
          BY <4>1
        <4>3. \A k \in 1 .. Len(c) : Append(c, image)[k] = c[k]
          BY <4>1
        <4>4. QED
          BY <3>1, <3>2, <4>2, <4>3 DEF c
      <3>5. QED
        BY <1>3, <3>3, <3>4 DEF Moves
    <2>4. /\ reopened \subseteq reopened'
          /\ log[s] = Nothing => log'[s] = Nothing \/ s \in reopened'
      BY DEF SetMoves
    <2>5. QED
      BY <2>1, <2>2, <2>3, <2>4 DEF Later
  <1>9. QED
    BY <1>7, <1>8


LEMMA StillKnown ==
  ASSUME NEW H, NEW H2, Later(H, H2), NEW s \in Source, NEW stamps, Known(s, stamps)
  PROVE  /\ Known(s, stamps)'
         /\ H2[<<s, stamps.database>>] = H[<<s, stamps.database>>]
         /\ H2[<<s, stamps.log>>] = H[<<s, stamps.log>>]
         /\ ImageAt(H2, s, stamps) = ImageAt(H, s, stamps)
  BY DEF Later, Known, ImageAt

LEMMA StillCommitted ==
  ASSUME NEW H, NEW H2, Later(H, H2), NEW s \in Source, NEW stamps, Known(s, stamps),
         NEW k \in 1 .. Len(committed[s]), committed[s][k] = ImageAt(H, s, stamps)
  PROVE  k \in 1 .. Len(committed'[s]) /\ committed'[s][k] = ImageAt(H2, s, stamps)
  <1>1. ImageAt(H2, s, stamps) = ImageAt(H, s, stamps)
    BY DEF Later, Known, ImageAt
  <1>2. k \in 1 .. Len(committed'[s]) /\ committed'[s][k] = committed[s][k]
    <2>1. /\ Len(committed[s]) \in Nat /\ Len(committed'[s]) \in Nat
          /\ Len(committed[s]) <= Len(committed'[s])
      BY DEF Later
    <2>2. \A i \in 1 .. Len(committed[s]) : committed'[s][i] = committed[s][i]
      BY Zenon DEF Later
    <2>3. QED
      BY <2>1, <2>2
  <1>3. QED
    BY <1>1, <1>2

LEMMA StillLeft ==
  ASSUME NEW H, NEW H2, Later(H, H2), NEW s \in Source, NEW stamps, Known(s, stamps),
         NEW from \in 1 .. Len(committed[s]), Left(H, s, from, stamps)
  PROVE  from \in 1 .. Len(committed'[s]) /\ Left(H2, s, from, stamps)'
  <1>1. PICK k \in from .. Len(committed[s]) : committed[s][k] = ImageAt(H, s, stamps)
    BY DEF Left
  <1>2. k \in 1 .. Len(committed[s]) /\ k >= from
    OBVIOUS
  <1>3. k \in 1 .. Len(committed'[s]) /\ committed'[s][k] = ImageAt(H2, s, stamps)
    BY <1>1, <1>2, StillCommitted
  <1>4. k \in from .. Len(committed'[s]) /\ from \in 1 .. Len(committed'[s])
    BY <1>2, <1>3 DEF Later
  <1>5. QED
    BY <1>3, <1>4 DEF Left, ImageAt

LEMMA StillHolds ==
  ASSUME NEW H, NEW H2, Later(H, H2), NEW s \in Source, NEW entry, Holds(H, s, entry)
  PROVE  Holds(H2, s, entry)'
  <1>1. Known(s, EntryStamps(entry))
    BY DEF Holds
  <1>2. /\ EntryStamps(entry).database = StampOf(entry.database)
        /\ EntryStamps(entry).log = StampOf(entry.log)
    BY DEF EntryStamps
  <1>3. /\ Known(s, EntryStamps(entry))'
        /\ H2[<<s, StampOf(entry.database)>>] = H[<<s, StampOf(entry.database)>>]
        /\ H2[<<s, StampOf(entry.log)>>] = H[<<s, StampOf(entry.log)>>]
    BY <1>1, <1>2, StillKnown
  <1>4. QED
    BY <1>3 DEF Holds

-----------------------------------------------------------------------------
(* The job.  What it copies of a set was committed since the attempt began,  *)
(* unless its log is copied next, or a log was there that it did not copy:   *)
(* one that was planned, which the manifest will miss, or one that came      *)
(* since.  A set that is not copied is as it was when the attempt began.     *)
PlanKnown(j) ==
  /\ j.sets \subseteq Source
  /\ \A s \in j.sets : Known(s, j.planned[s])

SetKnown(H, j, s) ==
  /\ j.began[s] \in 1 .. Len(committed[s])
  /\ s \in Selected(j) /\ j.planned[s].log = 0 /\ s \notin reopened => log[s] = Nothing
  /\ s \notin Selected(j) => committed[s][j.began[s]] = ImageAt(H, s, j.planned[s])

EntryKnown(H, j, s) ==
  /\ Holds(H, s, j.entries[s])
  /\ \/ j.phase = "log" /\ s = Min(j.todo)
     \/ Left(H, s, j.began[s], EntryStamps(j.entries[s]))
     \/ j.entries[s].log = Nothing /\ (s \in reopened \/ j.planned[s].log # 0)

BaselineKnown(H, j, s) ==
  /\ Known(s, j.baseline)
  /\ Left(H, s, j.began[s], j.baseline)
  /\ j.planned[s].log = 0 /\ s \notin reopened => j.baseline.log = 0
  /\ j.phase = "log" =>
       /\ s \in DOMAIN j.entries /\ DOMAIN j.entries[s] = {"database", "log"}
       /\ StampOf(j.entries[s].database) = j.baseline.database

AttemptKnown(H, j) ==
  /\ j.todo \subseteq Selected(j)
  /\ DOMAIN j.entries \subseteq Selected(j)
  /\ \A s \in j.sets : SetKnown(H, j, s)
  /\ \A s \in DOMAIN j.entries : EntryKnown(H, j, s)
  /\ j.phase # "set" => j.todo # {} /\ BaselineKnown(H, j, Min(j.todo))

JobKnown(H, j) ==
  /\ j.phase = "found" => j.sets \subseteq Source
  /\ j.phase \notin {"idle", "found"} => PlanKnown(j)
  /\ j.phase = "verify" => DOMAIN j.entries = {}
  /\ j.phase \notin {"idle", "found", "verify"} => AttemptKnown(H, j)

LEMMA JobStillKnown ==
  ASSUME NEW H, NEW H2, Later(H, H2), PlanSound(job), JobKnown(H, job), job' = job
  PROVE  JobKnown(H2, job)'
  <1>1. ASSUME job.phase \notin {"idle", "found"}
        PROVE  PlanKnown(job)' /\ Selected(job) \subseteq job.sets /\ job.sets \subseteq Source
    <2>1. PlanKnown(job) /\ Selected(job) \subseteq job.sets
      BY <1>1 DEF JobKnown, PlanSound
    <2>2. ASSUME NEW s \in job.sets
          PROVE  Known(s, job.planned[s])'
      BY <2>1, StillKnown DEF PlanKnown, Known
    <2>3. QED
      BY <2>1, <2>2 DEF PlanKnown
  <1>2. ASSUME job.phase \notin {"idle", "found", "verify"}
        PROVE  AttemptKnown(H2, job)'
    <2>1. AttemptKnown(H, job) /\ Selected(job) \subseteq job.sets /\ job.sets \subseteq Source
      BY <1>1, <1>2 DEF JobKnown
    <2>2. ASSUME NEW s \in job.sets
          PROVE  /\ job.began[s] \in 1 .. Len(committed[s])
                 /\ job.began[s] \in 1 .. Len(committed'[s])
      <3>1. job.began[s] \in 1 .. Len(committed[s]) /\ s \in Source
        BY <2>1 DEF AttemptKnown, SetKnown
      <3>2. QED
        BY <3>1 DEF Later
    <2>3. ASSUME NEW s \in job.sets
          PROVE  SetKnown(H2, job, s)'
      <3>1. SetKnown(H, job, s) /\ s \in Source /\ Known(s, job.planned[s])
        BY <1>2, <2>1 DEF AttemptKnown, JobKnown, PlanKnown
      <3>2. s \notin Selected(job) =>
              committed'[s][job.began[s]] = ImageAt(H2, s, job.planned[s])
        BY <2>2, <3>1, StillCommitted DEF SetKnown
      <3>3. s \notin reopened' => s \notin reopened /\ (log[s] = Nothing => log'[s] = Nothing)
        BY <3>1 DEF Later
      <3>4. QED
        BY <2>2, <3>1, <3>2, <3>3 DEF SetKnown, Selected, ImageAt
    <2>4. ASSUME NEW s \in DOMAIN job.entries
          PROVE  EntryKnown(H2, job, s)'
      <3>1. EntryKnown(H, job, s) /\ s \in Source /\ s \in job.sets
        BY <2>1 DEF AttemptKnown
      <3>2. Holds(H2, s, job.entries[s])' /\ Known(s, EntryStamps(job.entries[s]))
        BY <3>1, StillHolds DEF EntryKnown, Holds
      <3>3. Left(H, s, job.began[s], EntryStamps(job.entries[s])) =>
              Left(H2, s, job.began[s], EntryStamps(job.entries[s]))'
        BY <2>2, <3>1, <3>2, StillLeft DEF Left, EntryStamps, ImageAt
      <3>4. s \in reopened => s \in reopened'
        BY <3>1 DEF Later
      <3>5. QED
        BY <3>1, <3>2, <3>3, <3>4 DEF EntryKnown
    <2>5. ASSUME job.phase # "set"
          PROVE  job.todo # {} /\ BaselineKnown(H2, job, Min(job.todo))'
      <3>1. PICK s : s = Min(job.todo)
        OBVIOUS
      <3>2. job.todo # {} /\ BaselineKnown(H, job, s)
        BY <2>1, <2>5, <3>1 DEF AttemptKnown
      <3>3. s \in job.sets /\ s \in Source
        <4>1. job.todo \in SUBSET Nat /\ job.todo \subseteq job.sets
          BY <2>1, CaptureAssumption DEF AttemptKnown
        <4>2. QED
          BY <2>1, <3>1, <3>2, <4>1, MinMember
      <3>4. PICK stamps, from : stamps = job.baseline /\ from = job.began[s]
        OBVIOUS
      <3>5. /\ Known(s, stamps) /\ Left(H, s, from, stamps)
            /\ from \in 1 .. Len(committed[s])
        BY <2>2, <3>2, <3>3, <3>4 DEF BaselineKnown
      <3>6. Known(s, stamps)' /\ Left(H2, s, from, stamps)'
        BY <3>3, <3>5, StillKnown, StillLeft
      <3>7. Known(s, job.baseline)' /\ Left(H2, s, job.began[s], job.baseline)'
        BY <3>4, <3>6 DEF Known, Left, ImageAt
      <3>8. s \in reopened => s \in reopened'
        BY <3>3 DEF Later
      <3>9. BaselineKnown(H2, job, s)'
        BY <3>2, <3>7, <3>8 DEF BaselineKnown
      <3>10. QED
        BY <3>1, <3>2, <3>9
    <2>6. QED
      BY <2>1, <2>3, <2>4, <2>5 DEF AttemptKnown, Selected
  <1>3. QED
    BY <1>1, <1>2 DEF JobKnown


LEMMA SameClient ==
  ASSUME NEW H, NEW j, JobKnown(H, j), job' = j, UNCHANGED client,
         reopened' = reopened \/ j.phase \in {"idle", "found", "verify"}
  PROVE  JobKnown(H, job)'
  <1>1. UNCHANGED <<log, committed, changes>>
    BY DEF client
  <1>2. ASSUME j.phase \notin {"idle", "found"}
        PROVE  PlanKnown(job)'
    BY <1>1, <1>2 DEF JobKnown, PlanKnown, Known
  <1>3. ASSUME j.phase \notin {"idle", "found", "verify"}
        PROVE  AttemptKnown(H, job)'
    <2>1. AttemptKnown(H, j) /\ reopened' = reopened
      BY <1>3 DEF JobKnown
    <2>2. ASSUME NEW s \in j.sets
          PROVE  SetKnown(H, job, s)'
      BY <1>1, <2>1 DEF AttemptKnown, SetKnown, Selected, ImageAt
    <2>3. ASSUME NEW s \in DOMAIN j.entries
          PROVE  EntryKnown(H, job, s)'
      <3>1. EntryKnown(H, j, s)
        BY <2>1 DEF AttemptKnown
      <3>2. Holds(H, s, job.entries[s])'
        BY <1>1, <3>1 DEF EntryKnown, Holds, Known
      <3>3. Left(H, s, j.began[s], EntryStamps(j.entries[s])) =>
              Left(H, s, job.began[s], EntryStamps(job.entries[s]))'
        BY <1>1 DEF Left, EntryStamps, ImageAt
      <3>4. QED
        BY <2>1, <3>1, <3>2, <3>3 DEF EntryKnown
    <2>4. ASSUME j.phase # "set"
          PROVE  j.todo # {} /\ BaselineKnown(H, job, Min(job.todo))'
      <3>1. j.todo # {} /\ BaselineKnown(H, j, Min(j.todo))
        BY <2>1, <2>4 DEF AttemptKnown
      <3>2. PICK s : s = Min(j.todo)
        OBVIOUS
      <3>3. BaselineKnown(H, job, s)'
        BY <1>1, <2>1, <3>1, <3>2 DEF BaselineKnown, Known, Left, ImageAt
      <3>4. QED
        BY <3>1, <3>2, <3>3
    <2>5. QED
      BY <2>1, <2>2, <2>3, <2>4 DEF AttemptKnown, Selected
  <1>4. QED
    BY <1>2, <1>3 DEF JobKnown

LEMMA AttemptFailsKnown ==
  ASSUME NEW H, PlanSound(job), JobKnown(H, job), job.phase \notin {"idle", "found"},
         AttemptFails, UNCHANGED client
  PROVE  JobKnown(H, job)'
  <1>1. CASE job' = Idle
    BY <1>1 DEF JobKnown, Idle
  <1>2. CASE job' = [job EXCEPT !.phase = "verify", !.attempt = @ + 1, !.began = <<>>,
                                !.todo = {}, !.baseline = Nothing, !.entries = NoInventory]
    <2>1. PICK j : j = job'
      OBVIOUS
    <2>2. /\ j.phase = "verify" /\ j.sets = job.sets /\ j.planned = job.planned
          /\ j.entries = NoInventory
      BY <1>2, <2>1 DEF PlanSound
    <2>3. DOMAIN NoInventory = {}
      BY DEF NoInventory
    <2>4. JobKnown(H, j)
      BY <2>2, <2>3 DEF JobKnown, PlanKnown
    <2>5. QED
      BY <2>1, <2>2, <2>4, SameClient
  <1>3. QED
    BY <1>1, <1>2 DEF AttemptFails

\* The files of a set as they are seen when a step looks at them
LEMMA LooksNow ==
  ASSUME ClientInv, NEW H, Recalls(H), NEW s \in Source, s \in Present,
         NEW from \in 1 .. Len(committed[s])
  PROVE  Known(s, Files(s)) /\ Left(H, s, from, Files(s))
  <1>1. /\ Known(s, Files(s)) /\ Len(committed[s]) \in Nat
        /\ ImageAt(H, s, Files(s)) = committed[s][Len(committed[s])]
    BY FilesNow
  <1>2. Len(committed[s]) \in from .. Len(committed[s])
    BY <1>1
  <1>3. QED
    BY <1>1, <1>2 DEF Left

LEMMA DiscoverKnown ==
  ASSUME NEW H, Discover
  PROVE  JobKnown(H, job)'
  <1>1. job'.phase = "found" /\ job'.sets \subseteq Source
    BY DEF Discover, Present
  <1>2. QED
    BY <1>1 DEF JobKnown

LEMMA PlanKnownAfter ==
  ASSUME NEW H, ClientInv, JobKnown(H, job), Plan
  PROVE  JobKnown(H, job)'
  <1>1. CASE job' = Idle
    BY <1>1 DEF JobKnown, Idle
  <1>2. CASE job' # Idle
    <2>1. /\ job'.phase = "verify" /\ job'.sets = job.sets /\ job'.entries = NoInventory
          /\ job'.planned = [s \in job.sets |-> Files(s)]
      <3>1. PICK previous \in 0 .. Len(snapshots), full \in BOOLEAN,
                 recent \in SUBSET job.sets :
              LET before == InventoryOf(previous)
                  mode == IF previous = 0 THEN "bootstrap"
                          ELSE IF full THEN "integrityScan" ELSE "incremental"
                  same == {s \in job.sets : Unchanged(before, s)}
                  changed == IF mode = "incremental" THEN job.sets \ same ELSE job.sets
                  reconciliation == IF mode = "incremental" THEN same \cap recent ELSE {}
              IN  /\ previous = 0 => ~full
                  /\ recent = reconciliation
                  /\ IF job.sets \subseteq Present
                     THEN job' = [phase |-> "verify", sets |-> job.sets, logs |-> job.logs,
                                  mode |-> mode, attempt |-> 1,
                                  previous |-> IF previous = 0 THEN Nothing ELSE before,
                                  changed |-> changed, reconciliation |-> reconciliation,
                                  deleted |-> DOMAIN before \ job.sets,
                                  planned |-> [s \in job.sets |-> Files(s)],
                                  carried |-> [s \in job.sets |->
                                    {role \in Roles(Files(s)) :
                                       s \in DOMAIN before /\ before[s][role] = Files(s)[role]}],
                                  began |-> <<>>, todo |-> {}, baseline |-> Nothing,
                                  entries |-> NoInventory]
                     ELSE job' = Idle
        BY Zenon DEF Plan
      <3>2. \E logs, mode, earlier, changed, reconciliation, deleted, planned, carried :
              /\ planned = [s \in job.sets |-> Files(s)]
              /\ job' = [phase |-> "verify", sets |-> job.sets, logs |-> logs,
                         mode |-> mode, attempt |-> 1, previous |-> earlier,
                         changed |-> changed, reconciliation |-> reconciliation,
                         deleted |-> deleted, planned |-> planned, carried |-> carried,
                         began |-> <<>>, todo |-> {}, baseline |-> Nothing,
                         entries |-> NoInventory]
        BY <1>2, <3>1, Zenon
      <3>3. QED
        BY <3>2
    <2>2. job.sets \subseteq Source
      BY DEF JobKnown, Plan
    <2>3. \A s \in job.sets : Known(s, Files(s))
      BY <2>2, ClientCounts DEF Known, Files
    <2>4. UNCHANGED client
      BY DEF Plan
    <2>5. PICK j : j = job'
      OBVIOUS
    <2>6. JobKnown(H, j)
      <3>1. \A s \in j.sets : Known(s, j.planned[s])
        BY <2>1, <2>3, <2>5
      <3>2. DOMAIN NoInventory = {}
        BY DEF NoInventory
      <3>3. QED
        BY <2>1, <2>2, <2>5, <3>1, <3>2 DEF JobKnown, PlanKnown
    <2>7. QED
      BY <2>1, <2>4, <2>5, <2>6, SameClient
  <1>3. QED
    BY <1>1, <1>2


Knows(H) == ClientInv /\ Recalls(H) /\ PlanSound(job) /\ JobKnown(H, job)

\* A set that is looked at is there when it has a database
LEMMA LooksPresent ==
  ASSUME NEW s \in Source, Files(s).database # 0
  PROVE  s \in Present
  BY DEF Files, StampOf, Present

LEMMA NoLogThere ==
  ASSUME ClientInv, NEW s \in Source
  PROVE  Files(s).log = 0 <=> log[s] = Nothing
  BY ClientCounts DEF Files, StampOf

LEMMA VerifyBeforeKnown ==
  ASSUME NEW H, Knows(H), VerifyBefore
  PROVE  JobKnown(H, job)'
  <1>1. UNCHANGED client /\ job.phase = "verify" /\ reopened' = {}
    BY DEF VerifyBefore
  <1>2. CASE AttemptFails
    BY <1>1, <1>2, AttemptFailsKnown DEF Knows
  <1>3. CASE RolesHold(job) /\ job' = [job EXCEPT !.phase = "set", !.todo = Selected(job),
                                         !.began = [s \in job.sets |-> Len(committed[s])]]
    <2>1. PICK j : j = job'
      OBVIOUS
    <2>2. PlanKnown(job) /\ DOMAIN job.entries = {} /\ Selected(job) \subseteq job.sets
      BY <1>1 DEF Knows, JobKnown, PlanSound
    <2>3. PICK began : began = [s \in job.sets |-> Len(committed[s])]
      OBVIOUS
    <2>4. /\ j.phase = "set" /\ j.sets = job.sets /\ j.planned = job.planned
          /\ j.entries = job.entries /\ j.todo = Selected(job) /\ j.began = began
          /\ j.changed = job.changed /\ j.reconciliation = job.reconciliation
      BY <1>1, <1>3, <2>1, <2>3 DEF Knows, PlanSound
    <2>5. Selected(j) = Selected(job)
      BY <2>4 DEF Selected
    <2>6. ASSUME NEW s \in j.sets
          PROVE  /\ j.began[s] \in 1 .. Len(committed[s])
                 /\ s \in Selected(j) /\ j.planned[s].log = 0 => log[s] = Nothing
                 /\ s \notin Selected(j) =>
                      committed[s][j.began[s]] = ImageAt(H, s, j.planned[s])
      <3>1. s \in Source /\ s \in Present
        BY <1>3, <2>2, <2>4 DEF PlanKnown, RolesHold
      <3>2. /\ Len(committed[s]) \in Nat /\ Len(committed[s]) > 0
            /\ ImageAt(H, s, Files(s)) = committed[s][Len(committed[s])]
        BY <3>1, FilesNow DEF Knows
      <3>3. j.began[s] = Len(committed[s])
        BY <2>3, <2>4
      <3>4. s \in Selected(j) /\ j.planned[s].log = 0 => log[s] = Nothing
        <4>1. s \in Selected(j) => Roles(Files(s)) = Roles(j.planned[s])
          BY <1>3, <2>4, <2>5 DEF RolesHold
        <4>2. Files(s).log = 0 <=> log[s] = Nothing
          BY <3>1, NoLogThere DEF Knows
        <4>3. QED
          BY <4>1, <4>2 DEF Roles
      <3>5. s \notin Selected(j) => Files(s) = j.planned[s]
        BY <1>3, <2>4, <2>5 DEF RolesHold
      <3>6. QED
        BY <3>2, <3>3, <3>4, <3>5
    <2>7. ASSUME NEW s \in j.sets
          PROVE  SetKnown(H, job, s)'
      BY <1>1, <2>1, <2>6 DEF SetKnown, Selected, ImageAt, client
    <2>8. AttemptKnown(H, job)'
      BY <2>1, <2>2, <2>4, <2>5, <2>7 DEF AttemptKnown, Selected
    <2>9. PlanKnown(job)'
      BY <1>1, <2>1, <2>2, <2>4 DEF PlanKnown, Known, client
    <2>10. QED
      BY <2>1, <2>4, <2>8, <2>9 DEF JobKnown
  <1>4. QED
    BY <1>2, <1>3 DEF VerifyBefore, Proceeds

LEMMA CurrentKnown ==
  ASSUME NEW H, Knows(H), job.phase \notin {"idle", "found", "verify"}, job.todo # {}
  PROVE  /\ Current \in job.todo /\ Current \in Selected(job)
         /\ Current \in job.sets /\ Current \in Source
         /\ SetKnown(H, job, Current)
  <1>1. /\ AttemptKnown(H, job) /\ PlanKnown(job) /\ Selected(job) \subseteq job.sets
    BY DEF Knows, JobKnown, PlanSound
  <1>2. job.todo \in SUBSET Nat /\ job.todo \subseteq Selected(job) /\ job.sets \subseteq Source
    BY <1>1, CaptureAssumption DEF AttemptKnown, PlanKnown
  <1>3. Current \in job.todo
    BY <1>2, MinMember DEF Current
  <1>4. QED
    BY <1>1, <1>2, <1>3 DEF AttemptKnown

(* A step of an attempt keeps the plan and what is known of the sets.        *)
LEMMA AttemptGoesOn ==
  ASSUME NEW H, Knows(H), job.phase \notin {"idle", "found", "verify"},
         UNCHANGED client, reopened' = reopened,
         NEW j, job' = j, j.phase \notin {"idle", "found", "verify"},
         j.sets = job.sets, j.planned = job.planned, j.began = job.began,
         j.changed = job.changed, j.reconciliation = job.reconciliation,
         j.todo \subseteq job.todo, DOMAIN j.entries \subseteq Selected(job),
         \A s \in DOMAIN j.entries : EntryKnown(H, j, s),
         j.phase # "set" => j.todo # {} /\ BaselineKnown(H, j, Min(j.todo))
  PROVE  JobKnown(H, job)'
  <1>1. AttemptKnown(H, job) /\ PlanKnown(job)
    BY DEF Knows, JobKnown
  <1>2. Selected(j) = Selected(job) /\ PlanKnown(j)
    BY <1>1 DEF Selected, PlanKnown
  <1>3. \A s \in j.sets : SetKnown(H, j, s)
    BY <1>1, <1>2 DEF AttemptKnown, SetKnown
  <1>4. AttemptKnown(H, j)
    BY <1>1, <1>2, <1>3 DEF AttemptKnown
  <1>5. JobKnown(H, j)
    BY <1>2, <1>4 DEF JobKnown
  <1>6. QED
    BY <1>5, SameClient

LEMMA BaselineKnownAfter ==
  ASSUME NEW H, Knows(H), Baseline
  PROVE  JobKnown(H, job)'
  <1>1. UNCHANGED client /\ reopened' = reopened /\ job.phase = "set" /\ job.todo # {}
    BY DEF Baseline
  <1>2. CASE AttemptFails
    BY <1>1, <1>2, AttemptFailsKnown DEF Knows
  <1>3. CASE /\ Planned(Current) \subseteq Roles(Files(Current))
             /\ job' = [job EXCEPT !.phase = "database", !.baseline = Files(Current)]
    <2>1. PICK s, j, files : s = Current /\ j = job' /\ files = Files(s)
      OBVIOUS
    <2>2. /\ s \in job.todo /\ s \in Selected(job) /\ s \in job.sets /\ s \in Source
          /\ SetKnown(H, job, s)
      BY <1>1, <2>1, CurrentKnown
    <2>3. s \in Present
      <3>1. Files(s).database # 0
        BY <1>3, <2>1 DEF Planned, Roles
      <3>2. QED
        BY <2>2, <3>1, LooksPresent
    <2>4. AttemptKnown(H, job)
      BY <1>1 DEF Knows, JobKnown
    <2>5. Known(s, files) /\ Left(H, s, job.began[s], files)
      BY <2>1, <2>2, <2>3, LooksNow DEF Knows, SetKnown
    <2>6. job.planned[s].log = 0 /\ s \notin reopened => files.log = 0
      BY <2>1, <2>2, NoLogThere DEF SetKnown, Knows
    <2>7. /\ j.phase = "database" /\ j.baseline = files
          /\ j.sets = job.sets /\ j.planned = job.planned
          /\ j.entries = job.entries /\ j.todo = job.todo /\ j.began = job.began
          /\ j.changed = job.changed /\ j.reconciliation = job.reconciliation
      BY <1>1, <1>3, <2>1 DEF Knows, PlanSound
    <2>8. Min(j.todo) = s /\ BaselineKnown(H, j, s)
      BY <2>1, <2>5, <2>6, <2>7 DEF BaselineKnown, Current
    <2>9. \A r \in DOMAIN j.entries : EntryKnown(H, j, r)
      <3> TAKE r \in DOMAIN j.entries
      <3>1. EntryKnown(H, job, r)
        BY <2>4, <2>7 DEF AttemptKnown
      <3>2. QED
        BY <1>1, <2>7, <3>1 DEF EntryKnown
    <2>10. DOMAIN j.entries \subseteq Selected(job)
      BY <2>4, <2>7 DEF AttemptKnown
    <2>11. QED
      BY <1>1, <2>1, <2>7, <2>8, <2>9, <2>10, AttemptGoesOn
  <1>4. QED
    BY <1>2, <1>3 DEF Baseline, Proceeds

LEMMA CopyDatabaseKnown ==
  ASSUME NEW H, Knows(H), CopyDatabase
  PROVE  JobKnown(H, job)'
  <1>1. UNCHANGED client /\ reopened' = reopened /\ job.phase = "database"
    BY DEF CopyDatabase
  <1>2. CASE AttemptFails
    BY <1>1, <1>2, AttemptFailsKnown DEF Knows
  <1>3. CASE /\ Files(Current).database = job.baseline.database
             /\ job' = [job EXCEPT
                  !.phase = IF Current \in job.logs THEN "log" ELSE "stable",
                  !.entries = [r \in DOMAIN @ \cup {Current} |->
                    IF r = Current THEN [database |-> database[Current], log |-> Nothing]
                    ELSE @[r]]]
    <2>1. PICK s, j, entry : /\ s = Current /\ j = job'
                             /\ entry = [database |-> database[s], log |-> Nothing]
      OBVIOUS
    <2>2. AttemptKnown(H, job)
      BY <1>1 DEF Knows, JobKnown
    <2>3. job.todo # {} /\ BaselineKnown(H, job, s)
      BY <1>1, <2>1, <2>2 DEF AttemptKnown, Current
    <2>4. /\ s \in job.todo /\ s \in Selected(job) /\ s \in job.sets /\ s \in Source
      BY <1>1, <2>1, <2>3, CurrentKnown
    <2>5. /\ j.phase = IF s \in job.logs THEN "log" ELSE "stable"
          /\ j.baseline = job.baseline
          /\ j.sets = job.sets /\ j.planned = job.planned
          /\ j.entries = [r \in DOMAIN job.entries \cup {s} |->
                            IF r = s THEN entry ELSE job.entries[r]]
          /\ j.todo = job.todo /\ j.began = job.began
          /\ j.changed = job.changed /\ j.reconciliation = job.reconciliation
      BY <1>1, <1>3, <2>1 DEF Knows, PlanSound
    <2>6. /\ DOMAIN j.entries = DOMAIN job.entries \cup {s}
          /\ j.entries[s] = entry
          /\ \A r \in DOMAIN job.entries : r # s => j.entries[r] = job.entries[r]
      BY <2>5
    <2>7. /\ DOMAIN entry = {"database", "log"}
          /\ StampOf(entry.database) = job.baseline.database /\ StampOf(entry.log) = 0
          /\ entry.log = Nothing /\ entry.database = database[s]
          /\ EntryStamps(entry).database = job.baseline.database
          /\ EntryStamps(entry).log = 0
      BY <1>3, <2>1 DEF Files, StampOf, EntryStamps
    <2>8. Holds(H, s, entry)
      <3>1. /\ H[<<s, StampOf(database[s])>>] = database[s] /\ H[<<s, 0>>] = Nothing
        BY <2>4 DEF Knows, Recalls
      <3>2. changes[s] \in Nat
        BY <2>4, ClientCounts DEF Knows
      <3>3. Known(s, EntryStamps(entry))
        BY <2>3, <2>7, <3>2 DEF BaselineKnown, Known
      <3>4. QED
        BY <2>7, <3>1, <3>3 DEF Holds
    <2>9. EntryKnown(H, j, s)
      <3>1. CASE s \in job.logs
        BY <2>1, <2>5, <2>6, <2>8, <3>1 DEF EntryKnown, Current
      <3>2. CASE job.planned[s].log # 0 \/ s \in reopened
        BY <2>5, <2>6, <2>7, <2>8, <3>2 DEF EntryKnown
      <3>3. CASE job.planned[s].log = 0 /\ s \notin reopened
        <4>1. job.baseline.log = 0 /\ Left(H, s, job.began[s], job.baseline)
          BY <2>3, <3>3 DEF BaselineKnown
        <4>2. Left(H, s, job.began[s], EntryStamps(entry))
          BY <2>7, <4>1 DEF Left, ImageAt
        <4>3. QED
          BY <2>5, <2>6, <2>8, <4>2 DEF EntryKnown
      <3>4. QED
        BY <3>2, <3>3
    <2>10. ASSUME NEW r \in DOMAIN j.entries
           PROVE  EntryKnown(H, j, r)
      <3>1. CASE r = s
        BY <2>9, <3>1
      <3>2. CASE r # s
        <4>1. r \in DOMAIN job.entries /\ j.entries[r] = job.entries[r]
          BY <2>6, <3>2
        <4>2. EntryKnown(H, job, r)
          BY <2>2, <4>1 DEF AttemptKnown
        <4>3. QED
          BY <1>1, <2>5, <4>1, <4>2 DEF EntryKnown
      <3>3. QED
        BY <3>1, <3>2
    <2>11. Min(j.todo) = s /\ BaselineKnown(H, j, s)
      BY <2>1, <2>3, <2>5, <2>6, <2>7 DEF BaselineKnown, Current
    <2>12. DOMAIN j.entries \subseteq Selected(job)
      BY <2>2, <2>4, <2>6 DEF AttemptKnown
    <2>13. j.phase \notin {"idle", "found", "verify"}
      BY <2>5
    <2>14. QED
      BY <1>1, <2>1, <2>3, <2>5, <2>10, <2>11, <2>12, <2>13, AttemptGoesOn
  <1>4. QED
    BY <1>2, <1>3, Zenon DEF CopyDatabase, Proceeds


LEMMA CopyLogKnown ==
  ASSUME NEW H, Knows(H), CopyLog
  PROVE  JobKnown(H, job)'
  <1>1. UNCHANGED client /\ reopened' = reopened /\ job.phase = "log"
    BY DEF CopyLog
  <1>2. CASE AttemptFails
    BY <1>1, <1>2, AttemptFailsKnown DEF Knows
  <1>3. CASE /\ Files(Current).log = job.baseline.log
             /\ job' = [job EXCEPT !.phase = "stable", !.entries[Current].log = log[Current]]
    <2>1. PICK s, j, entry, copied :
            /\ s = Current /\ j = job'
            /\ copied = job.entries[s]
            /\ entry = [copied EXCEPT !.log = log[s]]
      OBVIOUS
    <2>2. AttemptKnown(H, job)
      BY <1>1 DEF Knows, JobKnown
    <2>3. job.todo # {} /\ BaselineKnown(H, job, s)
      BY <1>1, <2>1, <2>2 DEF AttemptKnown, Current
    <2>4. /\ s \in job.todo /\ s \in Selected(job) /\ s \in job.sets /\ s \in Source
      BY <1>1, <2>1, <2>3, CurrentKnown
    <2>5. /\ s \in DOMAIN job.entries /\ DOMAIN copied = {"database", "log"}
          /\ StampOf(copied.database) = job.baseline.database
      BY <1>1, <2>1, <2>3 DEF BaselineKnown
    <2>6. entry.database = copied.database /\ entry.log = log[s]
      BY <2>1, <2>5
    <2>7. PICK entries : entries = [job.entries EXCEPT ![s] = entry]
      OBVIOUS
    <2>8. /\ j.phase = "stable" /\ j.baseline = job.baseline
          /\ j.sets = job.sets /\ j.planned = job.planned
          /\ j.entries = entries
          /\ j.todo = job.todo /\ j.began = job.began
          /\ j.changed = job.changed /\ j.reconciliation = job.reconciliation
      BY <1>1, <1>3, <2>1, <2>7 DEF Knows, PlanSound
    <2>9. /\ DOMAIN entries = DOMAIN job.entries /\ entries[s] = entry
          /\ \A r \in DOMAIN job.entries : r # s => entries[r] = job.entries[r]
      BY <2>5, <2>7
    <2>10. /\ EntryStamps(entry).database = job.baseline.database
           /\ EntryStamps(entry).log = job.baseline.log
           /\ StampOf(entry.database) = job.baseline.database
           /\ StampOf(entry.log) = job.baseline.log
      BY <1>3, <2>1, <2>5, <2>6 DEF EntryStamps, Files
    <2>11. Holds(H, s, entry)
      <3>1. Holds(H, s, copied)
        BY <2>1, <2>2, <2>5 DEF AttemptKnown, EntryKnown
      <3>2. H[<<s, StampOf(log[s])>>] = log[s]
        BY <2>4 DEF Knows, Recalls
      <3>3. Known(s, EntryStamps(entry))
        BY <2>3, <2>10 DEF BaselineKnown, Known
      <3>4. QED
        BY <2>6, <3>1, <3>2, <3>3 DEF Holds
    <2>12. EntryKnown(H, j, s)
      <3>1. Left(H, s, job.began[s], EntryStamps(entry))
        BY <2>3, <2>10 DEF BaselineKnown, Left, ImageAt
      <3>2. QED
        BY <2>8, <2>9, <2>11, <3>1 DEF EntryKnown
    <2>13. ASSUME NEW r \in DOMAIN j.entries
           PROVE  EntryKnown(H, j, r)
      <3>1. CASE r = s
        BY <2>12, <3>1
      <3>2. CASE r # s
        <4>1. EntryKnown(H, job, r) /\ j.entries[r] = job.entries[r]
          BY <2>2, <2>8, <2>9, <3>2 DEF AttemptKnown
        <4>2. QED
          BY <2>1, <2>8, <3>2, <4>1 DEF EntryKnown, Current
      <3>3. QED
        BY <3>1, <3>2
    <2>14. Min(j.todo) = s /\ BaselineKnown(H, j, s)
      BY <2>1, <2>3, <2>8 DEF BaselineKnown, Current
    <2>15. DOMAIN j.entries \subseteq Selected(job)
      BY <2>2, <2>8, <2>9 DEF AttemptKnown
    <2>16. QED
      BY <1>1, <2>1, <2>3, <2>8, <2>13, <2>14, <2>15, AttemptGoesOn
  <1>4. QED
    BY <1>2, <1>3, Zenon DEF CopyLog, Proceeds

LEMMA CheckGroupKnown ==
  ASSUME NEW H, Knows(H), CheckGroup
  PROVE  JobKnown(H, job)'
  <1>1. UNCHANGED client /\ reopened' = reopened /\ job.phase = "stable"
    BY DEF CheckGroup
  <1>2. CASE AttemptFails
    BY <1>1, <1>2, AttemptFailsKnown DEF Knows
  <1>3. CASE job' = [job EXCEPT !.phase = "set", !.todo = @ \ {Current}, !.baseline = Nothing]
    <2>1. PICK j : j = job'
      OBVIOUS
    <2>2. AttemptKnown(H, job)
      BY <1>1 DEF Knows, JobKnown
    <2>3. /\ j.phase = "set" /\ j.sets = job.sets /\ j.planned = job.planned
          /\ j.entries = job.entries
          /\ j.todo = job.todo \ {Current} /\ j.began = job.began
          /\ j.changed = job.changed /\ j.reconciliation = job.reconciliation
      BY <1>1, <1>3, <2>1 DEF Knows, PlanSound
    <2>4. ASSUME NEW r \in DOMAIN j.entries
          PROVE  EntryKnown(H, j, r)
      <3>1. EntryKnown(H, job, r)
        BY <2>2, <2>3 DEF AttemptKnown
      <3>2. QED
        BY <1>1, <2>3, <3>1 DEF EntryKnown
    <2>5. j.todo \subseteq job.todo /\ DOMAIN j.entries \subseteq Selected(job)
      BY <2>2, <2>3 DEF AttemptKnown
    <2>6. QED
      BY <1>1, <2>1, <2>3, <2>4, <2>5, AttemptGoesOn
  <1>4. QED
    BY <1>2, <1>3, Zenon DEF CheckGroup, Proceeds

LEMMA CaptureKnown ==
  ASSUME NEW H, Knows(H), CaptureStep
  PROVE  JobKnown(H, job)'
  <1>1. CASE Discover
    BY <1>1, DiscoverKnown
  <1>2. CASE Plan
    BY <1>2, PlanKnownAfter DEF Knows
  <1>3. CASE VerifyBefore
    BY <1>3, VerifyBeforeKnown
  <1>4. CASE Baseline
    BY <1>4, BaselineKnownAfter
  <1>5. CASE CopyDatabase
    BY <1>5, CopyDatabaseKnown
  <1>6. CASE CopyLog
    BY <1>6, CopyLogKnown
  <1>7. CASE CheckGroup
    BY <1>7, CheckGroupKnown
  <1>8. CASE Finish
    <2>1. CASE job' = Idle
      BY <2>1 DEF JobKnown, Idle
    <2>2. CASE AttemptFails
      BY <1>8, <2>2, AttemptFailsKnown DEF Knows, Finish
    <2>3. QED
      BY <1>8, <2>1, <2>2 DEF Finish
  <1>9. CASE Killed
    BY <1>9 DEF Killed, JobKnown, Idle
  <1>10. QED
    BY <1>1, <1>2, <1>3, <1>4, <1>5, <1>6, <1>7, <1>8, <1>9 DEF CaptureStep


-----------------------------------------------------------------------------
(* Manifests and archives, by what their inventories say the files were.     *)
SnapshotKnown(H, m) ==
  /\ DOMAIN m.inventory \subseteq Source
  /\ DOMAIN m.entries \subseteq DOMAIN m.inventory
  /\ \A s \in DOMAIN m.inventory :
       /\ Known(s, m.inventory[s])
       /\ m.began[s] \in 1 .. Len(committed[s])
       /\ s \notin m.changed \cup m.reconciliation =>
            committed[s][m.began[s]] = ImageAt(H, s, m.inventory[s])
  /\ \A s \in DOMAIN m.entries :
       /\ Holds(H, s, m.entries[s])
       /\ EntryStamps(m.entries[s]) = m.inventory[s] /\ s \notin m.unseen =>
            Left(H, s, m.began[s], m.inventory[s])

ArchiveKnown(H, archive, m) ==
  \A s \in archive.fresh :
    /\ s \in DOMAIN m.inventory
    /\ archive.records[s] = ImageAt(H, s, m.inventory[s])
    /\ s \notin m.unseen => Left(H, s, m.began[s], m.inventory[s])

LEMMA SnapshotStillKnown ==
  ASSUME NEW H, NEW H2, Later(H, H2), NEW m, SnapshotKnown(H, m)
  PROVE  SnapshotKnown(H2, m)'
  <1>1. ASSUME NEW s \in DOMAIN m.inventory
        PROVE  /\ s \in Source /\ Known(s, m.inventory[s])
               /\ Known(s, m.inventory[s])'
               /\ m.began[s] \in 1 .. Len(committed[s])
               /\ m.began[s] \in 1 .. Len(committed'[s])
               /\ s \notin m.changed \cup m.reconciliation =>
                    committed'[s][m.began[s]] = ImageAt(H2, s, m.inventory[s])
    <2>1. /\ s \in Source /\ Known(s, m.inventory[s])
          /\ m.began[s] \in 1 .. Len(committed[s])
          /\ s \notin m.changed \cup m.reconciliation =>
               committed[s][m.began[s]] = ImageAt(H, s, m.inventory[s])
      BY DEF SnapshotKnown
    <2>2. Known(s, m.inventory[s])'
      BY <2>1, StillKnown
    <2>3. m.began[s] \in 1 .. Len(committed'[s])
      BY <2>1 DEF Later
    <2>4. s \notin m.changed \cup m.reconciliation =>
            committed'[s][m.began[s]] = ImageAt(H2, s, m.inventory[s])
      BY <2>1, StillCommitted
    <2>5. QED
      BY <2>1, <2>2, <2>3, <2>4
  <1>2. ASSUME NEW s \in DOMAIN m.entries
        PROVE  /\ Holds(H2, s, m.entries[s])'
               /\ EntryStamps(m.entries[s]) = m.inventory[s] /\ s \notin m.unseen =>
                    Left(H2, s, m.began[s], m.inventory[s])'
    <2>1. /\ s \in DOMAIN m.inventory /\ Holds(H, s, m.entries[s])
          /\ EntryStamps(m.entries[s]) = m.inventory[s] /\ s \notin m.unseen =>
               Left(H, s, m.began[s], m.inventory[s])
      BY DEF SnapshotKnown
    <2>2. QED
      BY <1>1, <2>1, StillHolds, StillLeft
  <1>3. DOMAIN m.inventory \subseteq Source /\ DOMAIN m.entries \subseteq DOMAIN m.inventory
    BY DEF SnapshotKnown
  <1>4. QED
    BY <1>1, <1>2, <1>3 DEF SnapshotKnown, ImageAt

LEMMA ArchiveStillKnown ==
  ASSUME NEW H, NEW H2, Later(H, H2), NEW m, SnapshotKnown(H, m),
         NEW archive, ArchiveKnown(H, archive, m)
  PROVE  ArchiveKnown(H2, archive, m)'
  <1>1. ASSUME NEW s \in archive.fresh
        PROVE  /\ s \in DOMAIN m.inventory
               /\ archive.records[s] = ImageAt(H2, s, m.inventory[s])
               /\ s \notin m.unseen => Left(H2, s, m.began[s], m.inventory[s])'
    <2>1. /\ s \in DOMAIN m.inventory
          /\ archive.records[s] = ImageAt(H, s, m.inventory[s])
          /\ s \notin m.unseen => Left(H, s, m.began[s], m.inventory[s])
      BY DEF ArchiveKnown
    <2>2. /\ s \in Source /\ Known(s, m.inventory[s])
          /\ m.began[s] \in 1 .. Len(committed[s])
      BY <2>1 DEF SnapshotKnown
    <2>3. ImageAt(H2, s, m.inventory[s]) = ImageAt(H, s, m.inventory[s])
      BY <2>2 DEF Later, Known, ImageAt
    <2>4. s \notin m.unseen => Left(H2, s, m.began[s], m.inventory[s])'
      BY <2>1, <2>2, StillLeft
    <2>5. QED
      BY <2>1, <2>3, <2>4
  <1>2. QED
    BY <1>1 DEF ArchiveKnown, ImageAt

LEMMA SnapshotSame ==
  ASSUME NEW H, NEW m, SnapshotKnown(H, m), UNCHANGED client
  PROVE  SnapshotKnown(H, m)'
  <1>1. UNCHANGED <<committed, changes>>
    BY DEF client
  <1>2. ASSUME NEW s \in DOMAIN m.inventory
        PROVE  /\ Known(s, m.inventory[s])'
               /\ Left(H, s, m.began[s], m.inventory[s]) =>
                    Left(H, s, m.began[s], m.inventory[s])'
    BY <1>1 DEF SnapshotKnown, Known, Left, ImageAt
  <1>3. ASSUME NEW s \in DOMAIN m.entries
        PROVE  Holds(H, s, m.entries[s])'
    BY <1>1 DEF SnapshotKnown, Holds, Known
  <1>4. QED
    BY <1>1, <1>2, <1>3 DEF SnapshotKnown, ImageAt

LEMMA ArchiveSame ==
  ASSUME NEW H, NEW m, NEW archive, ArchiveKnown(H, archive, m), UNCHANGED client
  PROVE  ArchiveKnown(H, archive, m)'
  BY DEF ArchiveKnown, Left, ImageAt, client

(* A manifest is written when the roles of the sets are as they were         *)
(* planned.  An entry whose log was not copied then agrees with the          *)
(* inventory only if no log was planned, and one that came since is gone.    *)
LEMMA FinishKnown ==
  ASSUME NEW H, Knows(H), Finish, RolesHold(job)
  PROVE  SnapshotKnown(H, Manifest(job))
  <1> DEFINE m == Manifest(job)
  <1>1. job.phase = "set" /\ job.todo = {}
    BY DEF Finish
  <1>2. /\ AttemptKnown(H, job) /\ PlanKnown(job)
        /\ Selected(job) \subseteq job.sets /\ job.sets \subseteq Source
    BY <1>1 DEF Knows, JobKnown, PlanSound, PlanKnown
  <1>3. /\ DOMAIN m.inventory = job.sets /\ m.entries = job.entries
        /\ m.began = job.began
        /\ m.changed = job.changed /\ m.reconciliation = job.reconciliation
        /\ \A s \in job.sets : /\ m.inventory[s].database = FinalStamp(job, s, "database")
                               /\ m.inventory[s].log = FinalStamp(job, s, "log")
        /\ \A s \in job.sets :
             s \in reopened /\ job.planned[s].log = 0 /\ log[s] = Nothing => s \in m.unseen
    BY DEF Manifest
  <1> HIDE DEF m
  <1>4. ASSUME NEW s \in job.sets
        PROVE  Known(s, m.inventory[s])
    <2>1. Known(s, job.planned[s]) /\ changes[s] \in Nat
      BY <1>2, ClientCounts DEF PlanKnown, Knows
    <2>2. s \in DOMAIN job.entries => Known(s, EntryStamps(job.entries[s]))
      BY <1>2 DEF AttemptKnown, EntryKnown, Holds
    <2>3. FinalStamp(job, s, "database") \in 0 .. changes[s]
      BY <2>1, <2>2 DEF FinalStamp, Captured, Known
    <2>4. FinalStamp(job, s, "log") \in 0 .. changes[s]
      BY <2>1, <2>2 DEF FinalStamp, Captured, Known
    <2>5. QED
      BY <1>3, <2>3, <2>4 DEF Known
  <1>5. ASSUME NEW s \in job.sets, s \notin Selected(job)
        PROVE  committed[s][job.began[s]] = ImageAt(H, s, m.inventory[s])
    <2>1. s \notin DOMAIN job.entries /\ SetKnown(H, job, s)
      BY <1>2, <1>5 DEF AttemptKnown
    <2>2. /\ FinalStamp(job, s, "database") = job.planned[s].database
          /\ FinalStamp(job, s, "log") = job.planned[s].log
      BY <2>1 DEF FinalStamp, Captured, Roles
    <2>3. QED
      BY <1>3, <1>5, <2>1, <2>2 DEF SetKnown, ImageAt
  <1>6. ASSUME NEW s \in DOMAIN job.entries,
               EntryStamps(job.entries[s]) = m.inventory[s], s \notin m.unseen
        PROVE  Left(H, s, job.began[s], m.inventory[s])
    <2>1. EntryKnown(H, job, s) /\ s \in job.sets /\ s \in Selected(job) /\ s \in Source
      BY <1>2 DEF AttemptKnown
    <2>2. CASE Left(H, s, job.began[s], EntryStamps(job.entries[s]))
      BY <1>6, <2>2
    <2>3. CASE job.entries[s].log = Nothing /\ (s \in reopened \/ job.planned[s].log # 0)
      <3>1. EntryStamps(job.entries[s]).log = 0
        BY <2>3 DEF EntryStamps, StampOf
      <3>2. job.planned[s].log = 0
        <4>1. ~Captured(job, s, "log")
          BY <3>1 DEF Captured, EntryStamps
        <4>2. FinalStamp(job, s, "log") = job.planned[s].log
          BY <4>1 DEF FinalStamp, Roles
        <4>3. QED
          BY <1>3, <1>6, <2>1, <3>1, <4>2
      <3>3. log[s] = Nothing
        <4>1. Roles(Files(s)) = Roles(job.planned[s])
          BY <2>1 DEF RolesHold
        <4>2. Files(s).log = 0
          BY <3>2, <4>1 DEF Roles
        <4>3. QED
          BY <2>1, <4>2, NoLogThere DEF Knows
      <3>4. QED
        BY <1>3, <1>6, <2>1, <2>3, <3>2, <3>3
    <2>4. QED
      BY <1>1, <2>1, <2>2, <2>3 DEF EntryKnown
  <1>7. \A s \in job.sets : job.began[s] \in 1 .. Len(committed[s])
    BY <1>2 DEF AttemptKnown, SetKnown
  <1>8. \A s \in DOMAIN job.entries : Holds(H, s, job.entries[s]) /\ s \in job.sets
    BY <1>2 DEF AttemptKnown, EntryKnown
  <1>9. Selected(job) = m.changed \cup m.reconciliation
    BY <1>3 DEF Selected
  <1>10. SnapshotKnown(H, m)
    BY <1>2, <1>3, <1>4, <1>5, <1>6, <1>7, <1>8, <1>9 DEF SnapshotKnown
  <1>11. QED
    BY <1>10 DEF m


-----------------------------------------------------------------------------
(* What was copied, and what the archives hold of it.                        *)
CopiesKnown(H) ==
  /\ \A i \in DOMAIN snapshots : SnapshotKnown(H, snapshots[i])
  /\ \A a \in DOMAIN archives :
       ArchiveKnown(H, archives[a], snapshots[archives[a].snapshot])

HistoryKnown(H) == Recalls(H) /\ JobKnown(H, job) /\ CopiesKnown(H)

CopyInv == ChainInv /\ ClientInv /\ \E H : HistoryKnown(H)

LEMMA ClientStepKnown ==
  ASSUME ChainInv, ClientInv, NEW H, HistoryKnown(H),
         ClientStep, UNCHANGED archives
  PROVE  ClientInv' /\ \E H2 : HistoryKnown(H2)'
  <1>1. PICK s \in Source : SetMoves(s)
    BY ClientMoves
  <1>2. job' = job /\ snapshots' = snapshots
    BY ClientKept
  <1>3. PICK H2 : Recalls(H2)' /\ Later(H, H2)
    BY <1>1, HistoryGrows DEF HistoryKnown
  <1>4. JobKnown(H2, job)'
    BY <1>2, <1>3, JobStillKnown DEF ChainInv, HistoryKnown
  <1>5. ASSUME NEW i \in DOMAIN snapshots
        PROVE  SnapshotKnown(H2, snapshots[i])'
    <2>1. PICK m : m = snapshots[i]
      OBVIOUS
    <2>2. SnapshotKnown(H, m)
      BY <2>1 DEF HistoryKnown, CopiesKnown
    <2>3. SnapshotKnown(H2, m)'
      BY <1>3, <2>2, SnapshotStillKnown
    <2>4. QED
      BY <1>2, <2>1, <2>3
  <1>6. ASSUME NEW a \in DOMAIN archives
        PROVE  ArchiveKnown(H2, archives[a], snapshots[archives[a].snapshot])'
    <2>1. PICK m, archive : archive = archives[a] /\ m = snapshots[archive.snapshot]
      OBVIOUS
    <2>2. SnapshotKnown(H, m) /\ ArchiveKnown(H, archive, m)
      BY <2>1 DEF HistoryKnown, CopiesKnown, ChainInv, ArchiveSound
    <2>3. ArchiveKnown(H2, archive, m)'
      BY <1>3, <2>2, ArchiveStillKnown
    <2>4. QED
      BY <1>2, <2>1, <2>3
  <1>7. ClientInv'
    BY <1>1, ClientInvKept
  <1>8. HistoryKnown(H2)'
    BY <1>2, <1>3, <1>4, <1>5, <1>6 DEF HistoryKnown, CopiesKnown
  <1>9. QED
    BY <1>7, <1>8

LEMMA SameClientInv ==
  ASSUME ClientInv, UNCHANGED client
  PROVE  ClientInv'
  BY DEF ClientInv, ClientDomains, SoundAt, client

LEMMA SameRecalls ==
  ASSUME NEW H, Recalls(H), UNCHANGED client
  PROVE  Recalls(H)'
  BY DEF Recalls, StampOf, client

\* What capture and restoration leave of it
LEMMA SameCopies ==
  ASSUME ChainInv, NEW H, CopiesKnown(H), UNCHANGED client, UNCHANGED archives,
         \/ snapshots' = snapshots
         \/ \E m : SnapshotKnown(H, m) /\ snapshots' = Append(snapshots, m)
  PROVE  CopiesKnown(H)'
  <1>1. /\ \A i \in DOMAIN snapshots : i \in DOMAIN snapshots' /\ snapshots'[i] = snapshots[i]
        /\ \A i \in DOMAIN snapshots' : SnapshotKnown(H, snapshots'[i])
    <2>1. CASE snapshots' = snapshots
      BY <2>1 DEF CopiesKnown
    <2>2. CASE \E m : SnapshotKnown(H, m) /\ snapshots' = Append(snapshots, m)
      <3>1. PICK m : SnapshotKnown(H, m) /\ snapshots' = Append(snapshots, m)
        BY <2>2
      <3>2. Listed(snapshots)
        BY DEF ChainInv
      <3>3. /\ \A i \in DOMAIN snapshots :
                 i \in DOMAIN snapshots' /\ snapshots'[i] = snapshots[i]
            /\ \A i \in DOMAIN snapshots' : i \in DOMAIN snapshots \/ snapshots'[i] = m
        BY <3>1, <3>2, Appended
      <3>4. QED
        BY <3>1, <3>3 DEF CopiesKnown
    <2>3. QED
      BY <2>1, <2>2
  <1>2. ASSUME NEW i \in DOMAIN snapshots'
        PROVE  SnapshotKnown(H, snapshots[i])'
    <2>1. PICK m : m = snapshots'[i]
      OBVIOUS
    <2>2. SnapshotKnown(H, m)'
      BY <1>1, <2>1, SnapshotSame
    <2>3. QED
      BY <2>1, <2>2
  <1>3. ASSUME NEW a \in DOMAIN archives
        PROVE  ArchiveKnown(H, archives[a], snapshots[archives[a].snapshot])'
    <2>1. PICK m, archive : archive = archives[a] /\ m = snapshots[archive.snapshot]
      OBVIOUS
    <2>2. ArchiveKnown(H, archive, m) /\ m = snapshots'[archive.snapshot]
      BY <1>1, <2>1 DEF CopiesKnown, ChainInv, ArchiveSound
    <2>3. ArchiveKnown(H, archive, m)'
      BY <2>2, ArchiveSame
    <2>4. QED
      BY <2>1, <2>2, <2>3
  <1>4. QED
    BY <1>2, <1>3 DEF CopiesKnown

LEMMA CaptureStepKnown ==
  ASSUME ChainInv, ClientInv, NEW H, HistoryKnown(H),
         CaptureStep, UNCHANGED archives
  PROVE  ClientInv' /\ HistoryKnown(H)'
  <1>1. Knows(H)
    BY DEF Knows, HistoryKnown, ChainInv
  <1>2. UNCHANGED client
    BY DEF CaptureStep, Discover, Plan, VerifyBefore, Baseline, CopyDatabase, CopyLog,
           CheckGroup, Finish, Killed
  <1>3. \/ snapshots' = snapshots
        \/ \E m : SnapshotKnown(H, m) /\ snapshots' = Append(snapshots, m)
    <2>1. CASE Finish
      BY <1>1, <2>1, FinishKnown DEF Finish
    <2>2. CASE ~Finish
      BY <2>2 DEF CaptureStep, Discover, Plan, VerifyBefore, Baseline, CopyDatabase, CopyLog,
                  CheckGroup, Killed
    <2>3. QED
      BY <2>1, <2>2
  <1>4. JobKnown(H, job)'
    BY <1>1, CaptureKnown
  <1>5. CopiesKnown(H)'
    BY <1>2, <1>3, SameCopies DEF HistoryKnown
  <1>6. QED
    BY <1>2, <1>4, <1>5, SameClientInv, SameRecalls DEF HistoryKnown


\* What is restored is the image of the inventory
LEMMA RestoredKnown ==
  ASSUME NEW H, NEW m, SnapshotKnown(H, m), EntriesComplete(m), NEW s \in DOMAIN m.entries
  PROVE  /\ s \in DOMAIN m.inventory
         /\ Restored(m, s) = ImageAt(H, s, m.inventory[s])
         /\ s \notin m.unseen => Left(H, s, m.began[s], m.inventory[s])
  <1>1. /\ s \in DOMAIN m.inventory /\ Holds(H, s, m.entries[s])
        /\ EntryStamps(m.entries[s]) = m.inventory[s]
        /\ s \notin m.unseen => Left(H, s, m.began[s], m.inventory[s])
    BY DEF SnapshotKnown, EntriesComplete
  <1>2. /\ m.inventory[s].database = StampOf(m.entries[s].database)
        /\ m.inventory[s].log = StampOf(m.entries[s].log)
    <2>1. /\ EntryStamps(m.entries[s]).database = StampOf(m.entries[s].database)
          /\ EntryStamps(m.entries[s]).log = StampOf(m.entries[s].log)
      BY DEF EntryStamps
    <2>2. QED
      BY <1>1, <2>1
  <1>3. Restored(m, s) = ImageAt(H, s, m.inventory[s])
    BY <1>1, <1>2 DEF Holds, Restored, ImageAt
  <1>4. QED
    BY <1>1, <1>3

LEMMA ArchiveAdded ==
  ASSUME ChainInv, ClientInv, NEW H, HistoryKnown(H), UNCHANGED captureVars,
         NEW archive, archives' = Append(archives, archive),
         ArchiveKnown(H, archive, snapshots[archive.snapshot])
  PROVE  ClientInv' /\ HistoryKnown(H)'
  <1>1. UNCHANGED client /\ UNCHANGED <<job, reopened, snapshots>>
    BY DEF captureVars
  <1>2. ClientInv' /\ Recalls(H)'
    BY <1>1, SameClientInv, SameRecalls DEF HistoryKnown
  <1>3. JobKnown(H, job)'
    <2>1. PICK j : j = job
      OBVIOUS
    <2>2. JobKnown(H, j) /\ job' = j
      BY <1>1, <2>1 DEF HistoryKnown
    <2>3. QED
      BY <1>1, <2>2, SameClient
  <1>4. ASSUME NEW i \in DOMAIN snapshots
        PROVE  SnapshotKnown(H, snapshots[i])'
    <2>1. PICK m : m = snapshots[i]
      OBVIOUS
    <2>2. SnapshotKnown(H, m)'
      BY <1>1, <2>1, SnapshotSame DEF HistoryKnown, CopiesKnown
    <2>3. QED
      BY <1>1, <2>1, <2>2
  <1>5. \A a \in DOMAIN archives' :
          \/ archives'[a] = archive
          \/ a \in DOMAIN archives /\ archives'[a] = archives[a]
    <2>1. Listed(archives)
      BY DEF ChainInv
    <2>2. QED
      BY <2>1, Appended
  <1>6. ASSUME NEW a \in DOMAIN archives'
        PROVE  ArchiveKnown(H, archives[a], snapshots[archives[a].snapshot])'
    <2>1. PICK m, b : b = archives'[a] /\ m = snapshots[b.snapshot]
      OBVIOUS
    <2>2. ArchiveKnown(H, b, m)
      BY <1>5, <2>1 DEF HistoryKnown, CopiesKnown
    <2>3. ArchiveKnown(H, b, m)'
      BY <1>1, <2>2, ArchiveSame
    <2>4. QED
      BY <1>1, <2>1, <2>3
  <1>7. CopiesKnown(H)'
    BY <1>1, <1>4, <1>6 DEF CopiesKnown
  <1>8. QED
    BY <1>2, <1>3, <1>7 DEF HistoryKnown

LEMMA BootstrapKnown ==
  ASSUME ChainInv, ClientInv, NEW H, HistoryKnown(H), Bootstrap
  PROVE  ClientInv' /\ HistoryKnown(H)'
  <1>1. PICK i \in DOMAIN snapshots : \E unavailable \in SUBSET DOMAIN snapshots[i].entries :
          LET m == snapshots[i]
              fresh == Restorable(m, unavailable)
          IN  /\ Loads(m)
              /\ archives' = Append(archives,
                   [snapshot |-> i, source |-> m.inventory, base |-> 0,
                    fresh |-> fresh, stale |-> {},
                    records |-> [s \in fresh |-> Restored(m, s)]])
    BY DEF Bootstrap
  <1>2. PICK unavailable \in SUBSET DOMAIN snapshots[i].entries :
          LET m == snapshots[i]
              fresh == Restorable(m, unavailable)
          IN  /\ Loads(m)
              /\ archives' = Append(archives,
                   [snapshot |-> i, source |-> m.inventory, base |-> 0,
                    fresh |-> fresh, stale |-> {},
                    records |-> [s \in fresh |-> Restored(m, s)]])
    BY <1>1
  <1>3. PICK m, fresh, records, archive :
          /\ m = snapshots[i] /\ fresh = Restorable(m, unavailable)
          /\ records = [s \in fresh |-> Restored(m, s)]
          /\ archive = [snapshot |-> i, source |-> m.inventory, base |-> 0,
                        fresh |-> fresh, stale |-> {}, records |-> records]
    OBVIOUS
  <1>4. archives' = Append(archives, archive) /\ UNCHANGED captureVars /\ EntriesComplete(m)
    BY <1>2, <1>3 DEF Bootstrap, Loads
  <1>5. fresh \subseteq DOMAIN m.entries
    BY <1>3 DEF Restorable
  <1>6. SnapshotKnown(H, m)
    BY <1>3 DEF HistoryKnown, CopiesKnown
  <1>7. archive.snapshot = i /\ archive.fresh = fresh /\ archive.records = records
    BY <1>3
  <1>8. ArchiveKnown(H, archive, m)
    <2> SUFFICES ASSUME NEW s \in fresh
                 PROVE  /\ s \in DOMAIN m.inventory
                        /\ records[s] = ImageAt(H, s, m.inventory[s])
                        /\ s \notin m.unseen => Left(H, s, m.began[s], m.inventory[s])
      BY <1>7 DEF ArchiveKnown
    <2>1. records[s] = Restored(m, s) /\ s \in DOMAIN m.entries
      BY <1>3, <1>5
    <2>2. QED
      BY <1>4, <1>6, <2>1, RestoredKnown
  <1>9. QED
    BY <1>3, <1>4, <1>7, <1>8, ArchiveAdded

(* What an update carries is fresh in the archive before it, and the set is  *)
(* in its inventory with the stamps it had in the inventory of that archive. *)
LEMMA UpdateKnown ==
  ASSUME ChainInv, ClientInv, NEW H, HistoryKnown(H), Update
  PROVE  ClientInv' /\ HistoryKnown(H)'
  <1>1. PICK i \in DOMAIN snapshots, j \in DOMAIN snapshots, a \in {Len(archives)} \ {0} :
          \E unavailable \in SUBSET DOMAIN snapshots[i].entries :
            LET m == snapshots[i]
                restored == Restorable(m, unavailable)
            IN  /\ Continues(snapshots[j], m)
                /\ archives[a].source = m.previous
                /\ archives' = Append(archives,
                     [snapshot |-> i, source |-> m.inventory, base |-> a,
                      fresh |-> MergedFresh(archives[a], m, restored),
                      stale |-> MergedStale(archives[a], m, restored),
                      records |-> MergedRecords(archives[a], m, restored)])
    BY DEF Update
  <1>2. PICK unavailable \in SUBSET DOMAIN snapshots[i].entries :
          LET m == snapshots[i]
              restored == Restorable(m, unavailable)
          IN  /\ Continues(snapshots[j], m)
              /\ archives[a].source = m.previous
              /\ archives' = Append(archives,
                   [snapshot |-> i, source |-> m.inventory, base |-> a,
                    fresh |-> MergedFresh(archives[a], m, restored),
                    stale |-> MergedStale(archives[a], m, restored),
                    records |-> MergedRecords(archives[a], m, restored)])
    BY <1>1
  <1>3. a \in DOMAIN archives
    <2>1. Listed(archives)
      BY DEF ChainInv
    <2>2. Len(archives) \in Nat /\ DOMAIN archives = 1 .. Len(archives)
      BY <2>1, Appended
    <2>3. QED
      BY <1>1, <2>2
  <1>4. PICK m, before, base, restored, archive :
          /\ m = snapshots[i] /\ before = snapshots[j] /\ base = archives[a]
          /\ restored = Restorable(m, unavailable)
          /\ archive = [snapshot |-> i, source |-> m.inventory, base |-> a,
                        fresh |-> MergedFresh(base, m, restored),
                        stale |-> MergedStale(base, m, restored),
                        records |-> MergedRecords(base, m, restored)]
    OBVIOUS
  <1>5. /\ Continues(before, m) /\ base.source = m.previous
        /\ archives' = Append(archives, archive) /\ UNCHANGED captureVars
    BY <1>2, <1>4 DEF Update
  <1>6. /\ archive.snapshot = i /\ archive.fresh = MergedFresh(base, m, restored)
        /\ archive.records = MergedRecords(base, m, restored)
    BY <1>4
  <1>7. /\ EntriesComplete(m) /\ base.source = before.inventory
        /\ m.deleted = DOMAIN before.inventory \ DOMAIN m.inventory
        /\ restored \subseteq DOMAIN m.entries
    BY <1>4, <1>5 DEF Continues, Loads, Restorable
  <1>8. SnapshotKnown(H, m)
    BY <1>4 DEF HistoryKnown, CopiesKnown
  <1>9. ASSUME NEW s \in restored
        PROVE  /\ s \in DOMAIN m.inventory
               /\ archive.records[s] = ImageAt(H, s, m.inventory[s])
               /\ s \notin m.unseen => Left(H, s, m.began[s], m.inventory[s])
    <2>1. archive.records[s] = Restored(m, s) /\ s \in DOMAIN m.entries
      BY <1>6, <1>7 DEF MergedRecords
    <2>2. QED
      BY <1>7, <1>8, <2>1, RestoredKnown
  <1>10. ASSUME NEW s \in base.fresh, s \in DOMAIN m.inventory, s \notin DOMAIN m.entries
         PROVE  /\ archive.records[s] = ImageAt(H, s, m.inventory[s])
                /\ Left(H, s, m.began[s], m.inventory[s])
    <2>1. /\ m.mode = "incremental" /\ s \notin m.changed \cup m.reconciliation
          /\ s \in DOMAIN before.inventory /\ before.inventory[s] = m.inventory[s]
      BY <1>5, <1>10 DEF Continues, Loads, EntriesComplete
    <2>2. Left(H, s, m.began[s], m.inventory[s])
      <3>1. /\ s \in Source /\ m.began[s] \in 1 .. Len(committed[s])
            /\ committed[s][m.began[s]] = ImageAt(H, s, m.inventory[s])
        BY <1>8, <1>10, <2>1 DEF SnapshotKnown
      <3>2. m.began[s] \in m.began[s] .. Len(committed[s])
        BY <3>1
      <3>3. QED
        BY <3>1, <3>2 DEF Left
    <2>3. base.records[s] = ImageAt(H, s, m.inventory[s])
      <3>1. /\ ArchiveKnown(H, base, snapshots[base.snapshot])
            /\ base.source = snapshots[base.snapshot].inventory
        BY <1>3, <1>4 DEF HistoryKnown, CopiesKnown, ChainInv, ArchiveSound
      <3>2. base.records[s] = ImageAt(H, s, base.source[s])
        BY <1>10, <3>1 DEF ArchiveKnown
      <3>3. QED
        BY <1>7, <2>1, <3>2
    <2>4. archive.records[s] = base.records[s]
      <3>1. s \in DOMAIN base.records
        BY <1>3, <1>4, <1>10 DEF ChainInv, ArchiveSound, Included
      <3>2. s \notin restored /\ s \notin m.deleted
        BY <1>7, <1>10
      <3>3. QED
        BY <1>6, <3>1, <3>2 DEF MergedRecords, Replaced
    <2>5. QED
      BY <2>2, <2>3, <2>4
  <1>11. ArchiveKnown(H, archive, m)
    <2> SUFFICES ASSUME NEW s \in archive.fresh
                 PROVE  /\ s \in DOMAIN m.inventory
                        /\ archive.records[s] = ImageAt(H, s, m.inventory[s])
                        /\ s \notin m.unseen => Left(H, s, m.began[s], m.inventory[s])
      BY DEF ArchiveKnown
    <2>1. CASE s \in restored
      BY <1>9, <2>1
    <2>2. CASE s \notin restored
      BY <1>6, <1>10, <2>2 DEF MergedFresh
    <2>3. QED
      BY <2>1, <2>2
  <1>12. QED
    BY <1>4, <1>5, <1>6, <1>11, ArchiveAdded

LEMMA HistoryStart ==
  ASSUME Init
  PROVE  \E H : HistoryKnown(H)
  <1> DEFINE H == [x \in Source \X Nat |-> IF x[2] = 1 THEN database[x[1]] ELSE Nothing]
  <1>1. PICK there \in SUBSET Source :
          database = [s \in Source |->
            IF s \in there THEN [stamp |-> 1, pages |-> [p \in Page |-> 0]] ELSE Nothing]
    BY DEF Init, CaptureInit
  <1>2. /\ log = [s \in Source |-> Nothing]
        /\ job = Idle /\ snapshots = <<>> /\ archives = <<>>
    BY DEF Init, CaptureInit
  <1>3. /\ DOMAIN H = Source \X Nat
        /\ \A s \in Source : H[<<s, 0>>] = Nothing /\ H[<<s, 1>>] = database[s]
    OBVIOUS
  <1> HIDE DEF H
  <1>4. \A s \in Source : StampOf(database[s]) = 1 \/ database[s] = Nothing
    BY <1>1 DEF StampOf
  <1>5. Recalls(H)
    BY <1>2, <1>3, <1>4 DEF Recalls, StampOf
  <1>6. JobKnown(H, job) /\ CopiesKnown(H)
    BY <1>2 DEF JobKnown, Idle, CopiesKnown
  <1>7. QED
    BY <1>5, <1>6 DEF HistoryKnown

LEMMA CopyStep ==
  ASSUME CopyInv, [Next]_chainVars
  PROVE  CopyInv'
  <1>1. ChainInv'
    BY ChainStep DEF CopyInv
  <1>2. PICK H : HistoryKnown(H)
    BY DEF CopyInv
  <1>3. ChainInv /\ ClientInv
    BY DEF CopyInv
  <1>4. CASE ClientStep /\ UNCHANGED archives
    BY <1>1, <1>2, <1>3, <1>4, ClientStepKnown DEF CopyInv
  <1>5. CASE CaptureStep /\ UNCHANGED archives
    <2>1. ClientInv' /\ HistoryKnown(H)'
      BY <1>2, <1>3, <1>5, CaptureStepKnown
    <2>2. QED
      BY <1>1, <2>1 DEF CopyInv
  <1>6. CASE Bootstrap
    <2>1. ClientInv' /\ HistoryKnown(H)'
      BY <1>2, <1>3, <1>6, BootstrapKnown
    <2>2. QED
      BY <1>1, <2>1 DEF CopyInv
  <1>7. CASE Update
    <2>1. ClientInv' /\ HistoryKnown(H)'
      BY <1>2, <1>3, <1>7, UpdateKnown
    <2>2. QED
      BY <1>1, <2>1 DEF CopyInv
  <1>8. CASE UNCHANGED chainVars
    <2>1. UNCHANGED client /\ UNCHANGED <<job, reopened, snapshots, archives>>
      BY <1>8 DEF chainVars, captureVars
    <2>2. ClientInv' /\ Recalls(H)'
      BY <1>2, <1>3, <2>1, SameClientInv, SameRecalls DEF HistoryKnown
    <2>3. JobKnown(H, job)'
      <3>1. PICK j : j = job
        OBVIOUS
      <3>2. JobKnown(H, j) /\ job' = j
        BY <1>2, <2>1, <3>1 DEF HistoryKnown
      <3>3. QED
        BY <2>1, <3>2, SameClient
    <2>4. CopiesKnown(H)'
      BY <1>2, <1>3, <2>1, SameCopies DEF HistoryKnown
    <2>5. HistoryKnown(H)'
      BY <2>2, <2>3, <2>4 DEF HistoryKnown
    <2>6. QED
      BY <1>1, <2>2, <2>5 DEF CopyInv
  <1>9. QED
    BY <1>4, <1>5, <1>6, <1>7, <1>8 DEF Next

(* What the client's files hold together is what it committed last, and     *)
(* every plan, copy, manifest and archive names files the client had: the   *)
(* ones with the stamps it recorded.                                        *)
THEOREM CopyInvariance == Spec => []CopyInv
  <1>1. Init => CopyInv
    BY ChainStart, ClientStart, HistoryStart DEF CopyInv
  <1>2. CopyInv /\ [Next]_chainVars => CopyInv'
    BY CopyStep
  <1>3. QED
    BY <1>1, <1>2, PTL DEF Spec

(* restore_snapshot_and_publish calls fresh only what one transaction of the *)
(* client left, not before the attempt that took the snapshot began: for any *)
(* sets and pages, any order in which the client writes, checkpoints and     *)
(* restarts its logs while they are copied, any retries and any updates.     *)
THEOREM FreshCommittedHolds == Spec => []FreshCommitted
  <1>1. ASSUME CopyInv
        PROVE  FreshCommitted
    <2>1. PICK H : HistoryKnown(H)
      BY <1>1 DEF CopyInv
    <2>2. ASSUME NEW a \in DOMAIN archives,
                 NEW s \in archives[a].fresh \ snapshots[archives[a].snapshot].unseen
          PROVE  \E k \in snapshots[archives[a].snapshot].began[s] .. Len(committed[s]) :
                   archives[a].records[s] = committed[s][k]
      BY <2>1, <2>2 DEF HistoryKnown, CopiesKnown, ArchiveKnown, Left
    <2>3. QED
      BY <2>2 DEF FreshCommitted
  <1>2. CopyInv => FreshCommitted
    BY <1>1
  <1>3. QED
    BY <1>2, CopyInvariance, PTL
=============================================================================
