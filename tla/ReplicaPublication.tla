------------------------- MODULE ReplicaPublication -------------------------
(***************************************************************************)
(* The publication side of follow.rs: archives are built, published        *)
(* through one handoff file with a history of generations beside it,       *)
(* retired into a quarantine and restored from it.                         *)
(*                                                                         *)
(* The handoff lock admits one command at a time; what a command does      *)
(* under it is a sequence of steps, each with one effect on disk (a        *)
(* rename or an atomic replacement of a file), and a crash, or an error    *)
(* the code returns, may end the command between any two of them.          *)
(* Archives are immutable; their report, ledgers and seal are one Content. *)
(* A generation is published once, so it stands for the digest of its      *)
(* handoff too.                                                            *)
(***************************************************************************)
EXTENDS Naturals, Sequences, FiniteSets, SequencesExt

CONSTANTS
  Process,        \* command-line processes
  Path,           \* canonical archive directories
  Content,        \* what an archive can contain
  Nothing,        \* no archive, no handoff, no process
  Retained,       \* quarantine_directory = None
  Retentions,     \* --retain-publications
  MaxGeneration,  \* bound on the generations published
  MaxHistory      \* MAX_PUBLICATION_HISTORY_ENTRIES

Generation == 1 .. MaxGeneration

Publication == [generation : Generation, path : Path, content : Content]

Entry == [publication : Publication, location : Generation \cup {Retained}]

ASSUME PublicationAssumption ==
  /\ MaxGeneration \in Nat /\ MaxHistory \in Nat
  /\ Retentions \subseteq Nat \ {0, 1}
  /\ Nothing \notin Content \cup Process \cup Publication
  /\ Retained \notin Generation

VARIABLES
  archives,    \* the archive at each path
  quarantine,  \* the archive in each quarantine location, which is named
               \* after the latest generation of what it holds
  handoff,     \* the handoff file
  history,     \* <handoff>.generations.json
  holder,      \* who holds the handoff lock
  proc         \* what each process is doing

diskVars == <<archives, quarantine, handoff, history>>
pubVars == <<diskVars, holder, proc>>

Idle == [pc |-> "idle", predecessor |-> Nothing, path |-> Nothing,
         generation |-> 0, retired |-> {}]

Command ==
  [pc : {"idle", "captured", "built", "publish", "record", "check", "retire",
         "mark", "restore", "clear"},
   predecessor : Publication \cup {Nothing}, path : Path \cup {Nothing},
   generation : Nat, retired : SUBSET Path]

PubInit ==
  /\ archives = [path \in Path |-> Nothing]
  /\ quarantine = [g \in Generation |-> Nothing]
  /\ handoff = Nothing
  /\ history = <<>>
  /\ holder = Nothing
  /\ proc = [p \in Process |-> Idle]

-----------------------------------------------------------------------------
(* The history.                                                              *)

\* publication_path_groups: the entries that share one archive
Group(h, path) == {i \in DOMAIN h : h[i].publication.path = path}

PublishedPaths(h) == {h[i].publication.path : i \in DOMAIN h}

\* reject_reused_mutated_archive_path
ReusedMutated(h, publication) ==
  \E i \in Group(h, publication.path) : h[i].publication.content # publication.content

\* group_location; the entries of a group agree in a valid history.
LocationOf(h, path) == h[CHOOSE i \in Group(h, path) : TRUE].location

ContentOf(h, path) == h[CHOOSE i \in Group(h, path) : TRUE].publication.content

\* group_quarantine_path: named after the latest publication of the group
QuarantineOf(h, path) ==
  LET latest == CHOOSE i \in Group(h, path) : \A j \in Group(h, path) : j <= i
  IN  h[latest].publication.generation

\* validate_publication_history
ValidHistory(h) ==
  /\ Len(h) <= MaxHistory
  /\ \A i, j \in DOMAIN h :
       /\ i < j => h[i].publication.generation < h[j].publication.generation
       /\ h[i].publication.path = h[j].publication.path
            => /\ h[i].publication.content = h[j].publication.content
               /\ h[i].location = h[j].location

Recorded(h, publication) == Append(h, [publication |-> publication, location |-> Retained])

\* The history ends with the current handoff.
ExactTail(h, current) ==
  h # <<>> /\ Last(h) = [publication |-> current, location |-> Retained]

\* load_or_reconcile_publication_history: a publication that was interrupted
\* after its handoff was written is recorded first.
Reconciled(h, current) ==
  IF current = Nothing \/ ExactTail(h, current) THEN h ELSE Recorded(h, current)

CanReconcile(h, current) ==
  /\ current = Nothing => h = <<>>
  /\ (current # Nothing /\ ~ExactTail(h, current)) =>
       /\ h # <<>> => Last(h).publication.generation < current.generation
       /\ ~ReusedMutated(h, current)
  /\ ValidHistory(h) /\ ValidHistory(Reconciled(h, current))

Relocated(h, path, location) ==
  [i \in DOMAIN h |-> IF h[i].publication.path = path
                      THEN [h[i] EXCEPT !.location = location] ELSE h[i]]

-----------------------------------------------------------------------------
(* The handoff lock.                                                         *)

\* ControlLock::acquire, and the history reconciled and saved under it
Acquire(p, command) ==
  /\ holder = Nothing
  /\ CanReconcile(history, handoff)
  /\ holder' = p
  /\ history' = Reconciled(history, handoff)
  /\ proc' = [proc EXCEPT ![p] = command]
  /\ UNCHANGED <<archives, quarantine, handoff>>

Release(p) ==
  /\ holder' = Nothing
  /\ proc' = [proc EXCEPT ![p] = Idle]

\* An error or a crash ends a command anywhere; the lock goes with it.
Stop(p) ==
  /\ proc[p] # Idle
  /\ proc' = [proc EXCEPT ![p] = Idle]
  /\ holder' = IF holder = p THEN Nothing ELSE holder
  /\ UNCHANGED diskVars

-----------------------------------------------------------------------------
(* Publication.                                                              *)

\* verify_handoff_archive
Verified(publication) == archives[publication.path] = publication.content

\* capture_publication_predecessor
Capture(p) ==
  /\ proc[p] = Idle /\ holder = Nothing
  /\ handoff # Nothing => Verified(handoff)
  /\ proc' = [proc EXCEPT ![p] = [Idle EXCEPT !.pc = "captured", !.predecessor = handoff]]
  /\ UNCHANGED <<diskVars, holder>>

\* restore_snapshot_and_publish builds its archive at a path that is free; so
\* does a restoration of its own.
Build(p, path, content) ==
  /\ archives[path] = Nothing
  /\ archives' = [archives EXCEPT ![path] = content]
  /\ \/ /\ proc[p].pc = "captured"
        /\ proc' = [proc EXCEPT ![p].pc = "built", ![p].path = path]
     \/ proc[p] = Idle /\ UNCHANGED proc
  /\ UNCHANGED <<quarantine, handoff, history, holder>>

\* publish_replica_handoff: a generation of the operator's choice
StartPublish(p, path, generation) ==
  /\ proc[p] = Idle
  /\ handoff # Nothing => generation > handoff.generation
  /\ Acquire(p, [Idle EXCEPT !.pc = "publish", !.path = path,
                             !.generation = generation])

\* Mutant: the predecessor is not compared under the lock.
StartPublishNextBlind(p) ==
  LET generation == IF handoff = Nothing THEN 1 ELSE handoff.generation + 1 IN
  /\ proc[p].pc = "built"
  /\ generation \in Generation
  /\ Acquire(p, [proc[p] EXCEPT !.pc = "publish", !.generation = generation])

\* publish_replica_handoff_next_if_current
StartPublishNext(p) ==
  LET generation == IF handoff = Nothing THEN 1 ELSE handoff.generation + 1 IN
  /\ proc[p].pc = "built"
  /\ handoff = proc[p].predecessor
  /\ handoff # Nothing => Verified(handoff)
  /\ generation \in Generation
  /\ Acquire(p, [proc[p] EXCEPT !.pc = "publish", !.generation = generation])

WriteHandoff(p) ==
  LET publication == [generation |-> proc[p].generation, path |-> proc[p].path,
                      content |-> archives[proc[p].path]] IN
  /\ proc[p].pc = "publish"
  /\ archives[proc[p].path] # Nothing
  /\ ~ReusedMutated(history, publication)
  /\ Len(history) < MaxHistory
  /\ handoff' = publication
  /\ proc' = [proc EXCEPT ![p].pc = "record"]
  /\ UNCHANGED <<archives, quarantine, history, holder>>

\* The handoff is already written when the history is found invalid.
RecordPublication(p) ==
  /\ proc[p].pc = "record"
  /\ history' = IF ValidHistory(Recorded(history, handoff))
                THEN Recorded(history, handoff) ELSE history
  /\ Release(p)
  /\ UNCHANGED <<archives, quarantine, handoff>>

-----------------------------------------------------------------------------
(* quarantine_retired_replica_archives                                       *)

\* Mutant: the last `retain` archives, not publications, are protected.
ProtectedCurrent(h, retain) == {h[i].publication.path : i \in {Len(h)}}

\* The paths of the last `retain` publications
ProtectedPaths(h, retain) ==
  {h[i].publication.path : i \in {j \in DOMAIN h : j + retain > Len(h)}}

\* Every other published path holds nothing but retired publications.
RetiredPaths(h, retain) == PublishedPaths(h) \ ProtectedPaths(h, retain)

IsQuarantined(h, path) == LocationOf(h, path) # Retained

\* verify_quarantined_group at the group's location
InQuarantine(h, path) ==
  /\ archives[path] = Nothing
  /\ quarantine[QuarantineOf(h, path)] = ContentOf(h, path)

\* Still at its path and free to move
AtPath(h, path) ==
  /\ archives[path] = ContentOf(h, path)
  /\ quarantine[QuarantineOf(h, path)] = Nothing

StartQuarantine(p, retain) ==
  LET h == Reconciled(history, handoff) IN
  /\ proc[p] = Idle /\ handoff # Nothing
  /\ \A path \in ProtectedPaths(h, retain) :
       ~IsQuarantined(h, path) /\ archives[path] = ContentOf(h, path)
  /\ Acquire(p, [Idle EXCEPT !.pc = "check", !.retired = RetiredPaths(h, retain)])

\* A move whose record was lost is recorded ...
RepairRecord(p, path) ==
  /\ proc[p].pc = "check" /\ path \in proc[p].retired
  /\ ~IsQuarantined(history, path) /\ InQuarantine(history, path)
  /\ history' = Relocated(history, path, QuarantineOf(history, path))
  /\ UNCHANGED <<archives, quarantine, handoff, holder, proc>>

\* ... and every retired archive must be found, before any of them moves.
CheckRetired(p) ==
  /\ proc[p].pc = "check"
  /\ \A path \in proc[p].retired :
       IF IsQuarantined(history, path)
       THEN /\ LocationOf(history, path) = QuarantineOf(history, path)
            /\ InQuarantine(history, path)
       ELSE AtPath(history, path)
  /\ proc' = [proc EXCEPT ![p].pc = "retire",
                          ![p].retired = {path \in @ : ~IsQuarantined(history, path)}]
  /\ UNCHANGED <<diskVars, holder>>

MoveToQuarantine(p, path) ==
  /\ proc[p].pc = "retire" /\ path \in proc[p].retired
  /\ archives' = [archives EXCEPT ![path] = Nothing]
  /\ quarantine' = [quarantine EXCEPT ![QuarantineOf(history, path)] = archives[path]]
  /\ proc' = [proc EXCEPT ![p].pc = "mark", ![p].path = path, ![p].retired = @ \ {path}]
  /\ UNCHANGED <<handoff, history, holder>>

MarkQuarantined(p) ==
  /\ proc[p].pc = "mark"
  /\ InQuarantine(history, proc[p].path)
  /\ history' = Relocated(history, proc[p].path, QuarantineOf(history, proc[p].path))
  /\ proc' = [proc EXCEPT ![p].pc = "retire", ![p].path = Nothing]
  /\ UNCHANGED <<archives, quarantine, handoff, holder>>

FinishQuarantine(p) ==
  /\ proc[p].pc = "retire"
  /\ proc[p].retired = {}
  /\ Release(p)
  /\ UNCHANGED diskVars

-----------------------------------------------------------------------------
(* restore_quarantined_replica_archive                                       *)

StartRestore(p, generation) ==
  LET h == Reconciled(history, handoff) IN
  /\ proc[p] = Idle /\ handoff # Nothing
  /\ \E i \in DOMAIN h :
       LET path == h[i].publication.path IN
       /\ h[i].publication.generation = generation
       /\ LocationOf(h, path) = QuarantineOf(h, path)
       /\ Acquire(p, [Idle EXCEPT !.pc = "restore", !.path = path])

\* Mutant: the copy in quarantine replaces whatever is at the path.
MoveBackOver(p) ==
  LET path == proc[p].path  location == QuarantineOf(history, path) IN
  /\ proc[p].pc = "restore"
  /\ archives' = [archives EXCEPT ![path] = quarantine[location]]
  /\ quarantine' = [quarantine EXCEPT ![location] = Nothing]
  /\ proc' = [proc EXCEPT ![p].pc = "clear"]
  /\ UNCHANGED <<handoff, history, holder>>

\* The archive returns to its path, unless an earlier restoration got so far.
MoveBack(p) ==
  LET path == proc[p].path  location == QuarantineOf(history, path) IN
  /\ proc[p].pc = "restore"
  /\ \/ /\ InQuarantine(history, path)
        /\ archives' = [archives EXCEPT ![path] = quarantine[location]]
        /\ quarantine' = [quarantine EXCEPT ![location] = Nothing]
     \/ AtPath(history, path) /\ UNCHANGED <<archives, quarantine>>
  /\ proc' = [proc EXCEPT ![p].pc = "clear"]
  /\ UNCHANGED <<handoff, history, holder>>

ClearQuarantine(p) ==
  /\ proc[p].pc = "clear"
  /\ history' = Relocated(history, proc[p].path, Retained)
  /\ Release(p)
  /\ UNCHANGED <<archives, quarantine, handoff>>

-----------------------------------------------------------------------------
PubStep(p) ==
  \/ Capture(p) \/ StartPublishNext(p) \/ WriteHandoff(p) \/ RecordPublication(p)
  \/ \E path \in Path, content \in Content : Build(p, path, content)
  \/ \E path \in Path, generation \in Generation : StartPublish(p, path, generation)
  \/ \E retain \in Retentions : StartQuarantine(p, retain)
  \/ \E path \in Path : RepairRecord(p, path) \/ MoveToQuarantine(p, path)
  \/ CheckRetired(p) \/ MarkQuarantined(p) \/ FinishQuarantine(p)
  \/ \E generation \in Generation : StartRestore(p, generation)
  \/ MoveBack(p) \/ ClearQuarantine(p)
  \/ Stop(p)

PubNext == \E p \in Process : PubStep(p)

PubSpec == PubInit /\ [][PubNext]_pubVars

-----------------------------------------------------------------------------
(* What was published, as the two files tell it.                             *)
Log ==
  LET recorded == [i \in DOMAIN history |-> history[i].publication] IN
  IF handoff = Nothing \/ (history # <<>> /\ Last(recorded) = handoff)
  THEN recorded ELSE Append(recorded, handoff)

(* GreenBubbles never deletes an archive it published: through every         *)
(* quarantine, restoration and crash it is at its path or in quarantine.     *)
NothingLost ==
  \A i \in DOMAIN Log :
    \/ archives[Log[i].path] = Log[i].content
    \/ \E g \in Generation : quarantine[g] = Log[i].content
         /\ \E j \in DOMAIN Log : Log[j].generation = g /\ Log[j].path = Log[i].path

(* The current publication and the one before it are always protected: the   *)
(* follower finds them at the path they were published with.                 *)
ProtectedServable ==
  \A i \in DOMAIN Log : i + 2 > Len(Log) => Verified(Log[i])

(* A prepared archive replaces exactly the publication it was merged from:   *)
(* no publication in between is lost to the chain of increments.             *)
ChainUnbroken ==
  [][\A p \in Process :
       (proc[p].predecessor # Nothing /\ proc[p].pc = "publish" /\ handoff' # handoff)
         => handoff = proc[p].predecessor]_pubVars
=============================================================================
