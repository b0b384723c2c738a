------------------------ MODULE ReplicaFollowerProof ------------------------
(***************************************************************************)
(* Theorems about ReplicaPublication and the ReplicaFollower that extends  *)
(* it, for any processes, paths, contents and bounds.                      *)
(*                                                                         *)
(* The publication: the types of its state, that its lock excludes, that   *)
(* an increment replaces what it was built on, that the generations of the *)
(* handoff only grow, which the follower rests on, that nothing published  *)
(* is ever lost, and that what is protected stays where the follower looks *)
(* for it.                                                                 *)
(*                                                                         *)
(* The follower, beside any number of publishers: the follow state claims  *)
(* only what the replica committed, and the replica is never taken back to *)
(* an older publication.  Both rest on the publisher's handoff and on the  *)
(* lock of the follow state: what a follower decided when it took the lock *)
(* stays true until it releases it.                                        *)
(***************************************************************************)
EXTENDS ReplicaFollower, FiniteSetTheorems, SequenceTheorems,
        WellFoundedInduction, TLAPS

-----------------------------------------------------------------------------
(* The least and the greatest member of a set of numbers: retirement goes    *)
(* by the last publication of a path, and the proofs need that there is one. *)
(* Both follow from finite sets being well-founded under inclusion, which is *)
(* induction for provers that do not instantiate predicates.                 *)

(* A set of numbers that is not empty has a least member.                   *)
LEMMA LeastNumber ==
  ASSUME NEW T \in SUBSET Nat, T # {}
  PROVE  \E m \in T : \A k \in T : m <= k
  <1> DEFINE intervals == {0 .. n : n \in T}
  <1>1. intervals \subseteq FiniteSubsetsOf(Nat) /\ intervals # {}
    <2>1. \A n \in T : IsFiniteSet(0 .. n) /\ 0 .. n \in SUBSET Nat
      BY FS_Interval
    <2>2. QED
      BY <2>1 DEF FiniteSubsetsOf
  <1>2. PICK x \in intervals : \A y \in intervals : <<y, x>> \notin StrictSubsetOrdering(Nat)
    <2> HIDE DEF intervals
    <2>1. IsWellFoundedOn(StrictSubsetOrdering(Nat), FiniteSubsetsOf(Nat))
      BY FS_StrictSubsetOrderingWellFounded
    <2>2. QED
      BY <1>1, <2>1, WFMin
  <1>3. PICK m \in T : x = 0 .. m
    OBVIOUS
  <1>4. \A k \in T : m <= k
    <2> SUFFICES ASSUME NEW k \in T, k < m PROVE FALSE
      OBVIOUS
    <2>1. 0 .. k \in SUBSET Nat /\ 0 .. m \in SUBSET Nat /\ 0 .. k \subseteq 0 .. m
      OBVIOUS
    <2>2. m \in 0 .. m /\ m \notin 0 .. k
      OBVIOUS
    <2>3. <<0 .. k, 0 .. m>> \in StrictSubsetOrdering(Nat)
      BY <2>1, <2>2 DEF StrictSubsetOrdering
    <2>4. QED
      BY <1>2, <1>3, <2>3
  <1>5. QED
    BY <1>4

(* A set of numbers that is not empty and has a bound has a greatest member. *)
LEMMA GreatestNumber ==
  ASSUME NEW n \in Nat, NEW T \in SUBSET (0 .. n), T # {}
  PROVE  \E m \in T : \A k \in T : k <= m
  <1> DEFINE below == {n - k : k \in T}
  <1>1. below \in SUBSET Nat /\ below # {}
    <2>1. \A k \in T : n - k \in Nat
      OBVIOUS
    <2>2. PICK k \in T : TRUE
      OBVIOUS
    <2>3. QED
      BY <2>1, <2>2
  <1>2. PICK l \in below : \A k \in below : l <= k
    <2> HIDE DEF below
    <2> QED
      BY <1>1, LeastNumber
  <1>3. PICK m \in T : l = n - m
    OBVIOUS
  <1>4. \A k \in T : n - m <= n - k
    BY <1>2, <1>3
  <1>5. \A k \in T : k <= m
    <2> TAKE k \in T
    <2>1. n - m <= n - k /\ k \in Nat /\ m \in Nat
      BY <1>4
    <2>2. QED
      BY <2>1
  <1>6. QED
    BY <1>5

-----------------------------------------------------------------------------

PubTypeOK ==
  /\ archives \in [Path -> Content \cup {Nothing}]
  /\ quarantine \in [Generation -> Content \cup {Nothing}]
  /\ handoff \in Publication \cup {Nothing}
  /\ history \in Seq(Entry)
  /\ holder \in Process \cup {Nothing}
  /\ proc \in [Process -> Command]

\* The commands that hold the handoff lock
Locked == {"publish", "record", "check", "retire", "mark", "restore", "clear"}

(* Whoever is within a command that changes the history holds the lock.      *)
LockHeld == \A p \in Process : proc[p].pc \in Locked => holder = p

(* What a command rests on while it holds the lock: its publication is newer *)
(* than the handoff, which is its predecessor, and what it retires or        *)
(* restores was published.  An increment that is built knows where.          *)
Sound(command, current, h) ==
  /\ command.pc \in {"built", "publish"} => command.path \in Path
  /\ command.pc = "publish" =>
       /\ command.generation \in Generation
       /\ current # Nothing => command.generation > current.generation
       /\ command.predecessor # Nothing => current = command.predecessor
  /\ command.pc = "record" => current # Nothing
  /\ command.pc \in {"check", "retire", "mark"} => command.retired \subseteq PublishedPaths(h)
  /\ command.pc \in {"mark", "restore", "clear"} => command.path \in PublishedPaths(h)

AllSound == \A p \in Process : Sound(proc[p], handoff, history)

PubInv == PubTypeOK /\ LockHeld /\ AllSound

\* Publications replace one another by newer ones.
HandoffStep ==
  handoff' # handoff =>
    /\ handoff' \in Publication
    /\ handoff # Nothing => handoff'.generation > handoff.generation

\* An increment replaces the publication it was built on.
ChainStep ==
  \A p \in Process :
    (proc[p].predecessor # Nothing /\ proc[p].pc = "publish" /\ handoff' # handoff)
      => handoff = proc[p].predecessor

-----------------------------------------------------------------------------
(* The history.                                                              *)

LEMMA EntryTypes ==
  ASSUME NEW h \in Seq(Entry), NEW i \in DOMAIN h
  PROVE  /\ h[i] \in Entry
         /\ h[i].publication \in Publication
         /\ h[i].publication.path \in Path
         /\ h[i].publication.generation \in Generation
         /\ h[i].publication.content \in Content
         /\ h[i].location \in Generation \cup {Retained}
  <1>1. h[i] \in Entry
    OBVIOUS
  <1>2. h[i].publication \in Publication /\ h[i].location \in Generation \cup {Retained}
    BY <1>1 DEF Entry
  <1>3. QED
    BY <1>1, <1>2 DEF Publication

LEMMA PublishedTypes ==
  ASSUME NEW h \in Seq(Entry)
  PROVE  PublishedPaths(h) \subseteq Path
  BY EntryTypes DEF PublishedPaths

LEMMA RecordedTypes ==
  ASSUME NEW h \in Seq(Entry), NEW publication \in Publication
  PROVE  /\ Recorded(h, publication) \in Seq(Entry)
         /\ PublishedPaths(h) \subseteq PublishedPaths(Recorded(h, publication))
         /\ publication.path \in PublishedPaths(Recorded(h, publication))
  <1> DEFINE e == [publication |-> publication, location |-> Retained]
  <1>1. e \in Entry /\ Recorded(h, publication) = Append(h, e)
    BY DEF Entry, Recorded
  <1>2. /\ Append(h, e) \in Seq(Entry)
        /\ DOMAIN h \subseteq DOMAIN Append(h, e)
        /\ \A i \in DOMAIN h : Append(h, e)[i] = h[i]
        /\ Len(h) + 1 \in DOMAIN Append(h, e) /\ Append(h, e)[Len(h) + 1] = e
    BY <1>1
  <1>3. PublishedPaths(h) \subseteq PublishedPaths(Append(h, e))
    BY <1>2 DEF PublishedPaths
  <1>4. publication.path \in PublishedPaths(Append(h, e))
    BY <1>2 DEF PublishedPaths
  <1>5. QED
    BY <1>1, <1>2, <1>3, <1>4

LEMMA RelocatedTypes ==
  ASSUME NEW h \in Seq(Entry), NEW path, NEW location \in Generation \cup {Retained}
  PROVE  /\ Relocated(h, path, location) \in Seq(Entry)
         /\ PublishedPaths(Relocated(h, path, location)) = PublishedPaths(h)
  <1> DEFINE moved(i) == IF h[i].publication.path = path
                         THEN [h[i] EXCEPT !.location = location] ELSE h[i]
  <1>1. \A i \in DOMAIN h : moved(i) \in Entry /\ moved(i).publication = h[i].publication
    <2> TAKE i \in DOMAIN h
    <2>1. h[i] \in Entry
      OBVIOUS
    <2>2. QED
      BY <2>1 DEF Entry
  <1>2. Relocated(h, path, location) = [i \in DOMAIN h |-> moved(i)]
    BY DEF Relocated
  <1>3. PICK n \in Nat : DOMAIN h = 1 .. n
    OBVIOUS
  <1>4. Relocated(h, path, location) \in [1 .. n -> Entry]
    BY <1>1, <1>2, <1>3
  <1>5. Relocated(h, path, location) \in Seq(Entry)
    BY <1>4, SeqDef
  <1>6. PublishedPaths(Relocated(h, path, location)) = PublishedPaths(h)
    BY <1>1, <1>2 DEF PublishedPaths
  <1>7. QED
    BY <1>5, <1>6

(* A published path is in quarantine under the generation that published it  *)
(* last.                                                                     *)
LEMMA QuarantineOfType ==
  ASSUME NEW h \in Seq(Entry), NEW path \in PublishedPaths(h)
  PROVE  QuarantineOf(h, path) \in Generation
  <1> DEFINE group == Group(h, path)
  <1>1. group \in SUBSET (0 .. Len(h)) /\ group # {}
    BY DEF Group, PublishedPaths
  <1>2. \E i \in group : \A j \in group : j <= i
    <2> HIDE DEF group
    <2>1. Len(h) \in Nat
      OBVIOUS
    <2>2. QED
      BY <1>1, <2>1, GreatestNumber
  <1>3. PICK latest \in DOMAIN h : QuarantineOf(h, path) = h[latest].publication.generation
    BY <1>2 DEF QuarantineOf, Group
  <1>4. QED
    BY <1>3, EntryTypes

LEMMA ContentOfType ==
  ASSUME NEW h \in Seq(Entry), NEW path \in PublishedPaths(h)
  PROVE  ContentOf(h, path) \in Content
  <1>1. Group(h, path) # {} /\ Group(h, path) \subseteq DOMAIN h
    BY DEF Group, PublishedPaths
  <1>2. PICK i \in DOMAIN h : ContentOf(h, path) = h[i].publication.content
    BY <1>1 DEF ContentOf
  <1>3. QED
    BY <1>2, EntryTypes

-----------------------------------------------------------------------------
(* Steps of one process.                                                     *)

LEMMA IdleType == Idle \in Command /\ Idle.pc = "idle"
  BY DEF Idle, Command

LEMMA InitPub == PubInit => PubInv
  <1> SUFFICES ASSUME PubInit PROVE PubInv
    OBVIOUS
  <1>1. PubTypeOK
    BY IdleType DEF PubInit, PubTypeOK
  <1>2. LockHeld /\ AllSound
    BY IdleType DEF PubInit, LockHeld, Locked, AllSound, Sound
  <1>3. QED
    BY <1>1, <1>2 DEF PubInv

(* What keeps the invariant whatever process p does: it is sound afterwards, *)
(* holds the lock if it has to, takes it from nobody, and writes the handoff *)
(* only under it.                                                            *)
LEMMA StepInv ==
  ASSUME PubInv, PubTypeOK', NEW p \in Process,
         \A q \in Process \ {p} : proc'[q] = proc[q] /\ (holder = q => holder' = q),
         proc'[p].pc \in Locked => holder' = p,
         Sound(proc'[p], handoff', history'),
         handoff' = handoff \/ proc[p].pc = "publish",
         PublishedPaths(history) \subseteq PublishedPaths(history')
  PROVE  PubInv'
  <1>1. LockHeld'
    BY DEF PubInv, LockHeld
  <1>2. ASSUME NEW q \in Process \ {p} PROVE Sound(proc'[q], handoff', history')
    <2>1. proc'[q] = proc[q] /\ Sound(proc[q], handoff, history)
      BY DEF PubInv, AllSound
    <2>2. CASE handoff' = handoff
      BY <2>1, <2>2 DEF Sound
    <2>3. CASE proc[p].pc = "publish"
      <3>1. proc[q].pc \notin Locked
        BY <2>3 DEF PubInv, LockHeld, Locked
      <3>2. QED
        BY <2>1, <3>1 DEF Sound, Locked
    <2>4. QED
      BY <2>2, <2>3
  <1>3. AllSound'
    BY <1>2 DEF AllSound
  <1>4. QED
    BY <1>1, <1>3 DEF PubInv

\* What every step is shown to do
Kept == PubInv' /\ HandoffStep /\ ChainStep

(* A step that leaves the handoff alone and passes StepInv.                  *)
LEMMA QuietStep ==
  ASSUME PubInv, PubTypeOK', NEW p \in Process, handoff' = handoff,
         \A q \in Process \ {p} : proc'[q] = proc[q] /\ (holder = q => holder' = q),
         proc'[p].pc \in Locked => holder' = p,
         Sound(proc'[p], handoff, history'),
         PublishedPaths(history) \subseteq PublishedPaths(history')
  PROVE  Kept
  <1>1. PubInv'
    BY StepInv
  <1>2. QED
    BY <1>1 DEF Kept, HandoffStep, ChainStep

(* A process that takes up a command under the lock, which was free; the     *)
(* history is reconciled before the command does anything.                   *)
LEMMA AcquireKeeps ==
  ASSUME PubInv, NEW p \in Process, NEW command \in Command, Acquire(p, command),
         Sound(command, handoff, Reconciled(history, handoff))
  PROVE  Kept
  <1>1. /\ holder = Nothing /\ holder' = p
        /\ proc' = [proc EXCEPT ![p] = command]
        /\ history' = Reconciled(history, handoff)
        /\ UNCHANGED <<archives, quarantine, handoff>>
    BY DEF Acquire
  <1>2. /\ history' \in Seq(Entry)
        /\ PublishedPaths(history) \subseteq PublishedPaths(history')
    <2>1. CASE history' = history
      BY <2>1 DEF PubInv, PubTypeOK
    <2>2. CASE handoff # Nothing /\ history' = Recorded(history, handoff)
      BY <2>2, RecordedTypes DEF PubInv, PubTypeOK
    <2>3. QED
      BY <1>1, <2>1, <2>2 DEF Reconciled
  <1>3. PubTypeOK'
    BY <1>1, <1>2 DEF PubInv, PubTypeOK
  <1>4. proc'[p] = command /\ \A q \in Process \ {p} : proc'[q] = proc[q] /\ holder # q
    BY <1>1, PublicationAssumption DEF PubInv, PubTypeOK
  <1>5. QED
    BY <1>1, <1>2, <1>3, <1>4, QuietStep

(* What a reconciled history holds for a handoff: its path among others.     *)
LEMMA ReconciledTypes ==
  ASSUME PubInv
  PROVE  Reconciled(history, handoff) \in Seq(Entry)
  <1>1. CASE handoff # Nothing /\ Reconciled(history, handoff) = Recorded(history, handoff)
    BY <1>1, RecordedTypes DEF PubInv, PubTypeOK
  <1>2. CASE Reconciled(history, handoff) = history
    BY <1>2 DEF PubInv, PubTypeOK
  <1>3. QED
    BY <1>1, <1>2 DEF Reconciled

(* A process that ends its command, whatever it was.                         *)
LEMMA EndKeeps ==
  ASSUME PubInv, NEW p \in Process, UNCHANGED <<archives, quarantine, handoff>>,
         proc' = [proc EXCEPT ![p] = Idle],
         holder' \in Process \cup {Nothing},
         \A q \in Process \ {p} : holder = q => holder' = q,
         history' \in Seq(Entry),
         PublishedPaths(history) \subseteq PublishedPaths(history')
  PROVE  Kept
  <1>1. /\ proc' \in [Process -> Command] /\ proc'[p] = Idle
        /\ \A q \in Process \ {p} : proc'[q] = proc[q]
    BY IdleType DEF PubInv, PubTypeOK
  <1>2. PubTypeOK'
    BY <1>1 DEF PubInv, PubTypeOK
  <1>3. Sound(proc'[p], handoff, history') /\ proc'[p].pc \notin Locked
    BY <1>1, IdleType DEF Sound, Locked
  <1>4. QED
    BY <1>1, <1>2, <1>3, QuietStep

-----------------------------------------------------------------------------
(* Publication.                                                              *)

LEMMA CaptureKeeps ==
  ASSUME PubInv, NEW p \in Process, Capture(p)
  PROVE  Kept
  <1> DEFINE captured == [Idle EXCEPT !.pc = "captured", !.predecessor = handoff]
  <1>1. captured \in Command /\ captured.pc = "captured"
    BY DEF PubInv, PubTypeOK, Idle, Command
  <1>2. proc' = [proc EXCEPT ![p] = captured] /\ UNCHANGED <<diskVars, holder>>
    BY DEF Capture
  <1>3. /\ PubTypeOK' /\ proc'[p] = captured
        /\ \A q \in Process \ {p} : proc'[q] = proc[q]
    BY <1>1, <1>2 DEF PubInv, PubTypeOK, diskVars
  <1>4. Sound(captured, handoff, history')
    BY <1>1 DEF Sound
  <1>5. QED
    BY <1>1, <1>2, <1>3, <1>4, QuietStep DEF Locked, diskVars

LEMMA BuildKeeps ==
  ASSUME PubInv, NEW p \in Process, NEW path \in Path, NEW content \in Content,
         Build(p, path, content)
  PROVE  Kept
  <1>1. /\ archives' = [archives EXCEPT ![path] = content]
        /\ UNCHANGED <<quarantine, handoff, history, holder>>
    BY DEF Build
  <1>2. CASE UNCHANGED proc
    <2>1. PubTypeOK'
      BY <1>1, <1>2 DEF PubInv, PubTypeOK
    <2>2. QED
      BY <1>1, <1>2, <2>1, QuietStep DEF PubInv, LockHeld, AllSound
  <1>3. CASE /\ proc[p].pc = "captured"
             /\ proc' = [proc EXCEPT ![p].pc = "built", ![p].path = path]
    <2>1. /\ proc'[p] \in Command /\ proc'[p].pc = "built" /\ proc'[p].path = path
          /\ \A q \in Process \ {p} : proc'[q] = proc[q]
      BY <1>3 DEF PubInv, PubTypeOK, Command
    <2>2. PubTypeOK'
      BY <1>1, <1>3, <2>1 DEF PubInv, PubTypeOK
    <2>3. Sound(proc'[p], handoff, history') /\ proc'[p].pc \notin Locked
      BY <2>1 DEF Sound, Locked
    <2>4. QED
      BY <1>1, <2>1, <2>2, <2>3, QuietStep
  <1>4. QED
    BY <1>2, <1>3 DEF Build

LEMMA StartPublishKeeps ==
  ASSUME PubInv, NEW p \in Process, NEW path \in Path, NEW generation \in Generation,
         StartPublish(p, path, generation)
  PROVE  Kept
  <1> DEFINE command == [Idle EXCEPT !.pc = "publish", !.path = path,
                                     !.generation = generation]
  <1>1. /\ command.pc = "publish" /\ command.path = path
        /\ command.generation = generation /\ command.predecessor = Nothing
    BY DEF Idle
  <1>2. command \in Command
    <2>1. generation \in Nat
      BY PublicationAssumption DEF Generation
    <2>2. QED
      BY <2>1 DEF Idle, Command
  <1>3. /\ Acquire(p, command)
        /\ handoff # Nothing => command.generation > handoff.generation
    BY <1>1 DEF StartPublish
  <1>4. Sound(command, handoff, Reconciled(history, handoff))
    <2> HIDE DEF command
    <2> QED
      BY <1>1, <1>3 DEF Sound
  <1>5. QED
    BY <1>2, <1>3, <1>4, AcquireKeeps

LEMMA StartPublishNextKeeps ==
  ASSUME PubInv, NEW p \in Process, StartPublishNext(p)
  PROVE  Kept
  <1> DEFINE generation == IF handoff = Nothing THEN 1 ELSE handoff.generation + 1
             command == [proc[p] EXCEPT !.pc = "publish", !.generation = generation]
  <1>1. /\ generation \in Generation /\ Acquire(p, command)
        /\ handoff = proc[p].predecessor /\ proc[p].path \in Path
    BY DEF StartPublishNext, PubInv, AllSound, Sound
  <1>2. handoff # Nothing => generation > handoff.generation
    BY PublicationAssumption DEF PubInv, PubTypeOK, Publication, Generation
  <1>3. proc[p] \in Command /\ generation \in Nat
    BY <1>1, PublicationAssumption DEF PubInv, PubTypeOK, Generation
  <1> HIDE DEF generation
  <1>4. /\ command \in Command /\ command.pc = "publish"
        /\ command.path = proc[p].path /\ command.generation = generation
        /\ command.predecessor = proc[p].predecessor
    BY <1>3 DEF Command
  <1> HIDE DEF command
  <1>5. Sound(command, handoff, Reconciled(history, handoff))
    BY <1>1, <1>2, <1>4 DEF Sound
  <1>6. QED
    BY <1>1, <1>4, <1>5, AcquireKeeps

LEMMA WriteHandoffKeeps ==
  ASSUME PubInv, NEW p \in Process, WriteHandoff(p)
  PROVE  Kept
  <1> DEFINE publication == [generation |-> proc[p].generation, path |-> proc[p].path,
                             content |-> archives[proc[p].path]]
  <1>1. /\ proc[p].pc = "publish" /\ archives[proc[p].path] # Nothing
        /\ handoff' = publication /\ proc' = [proc EXCEPT ![p].pc = "record"]
        /\ UNCHANGED <<archives, quarantine, history, holder>>
    BY DEF WriteHandoff
  <1>2. /\ proc[p].path \in Path /\ proc[p].generation \in Generation
        /\ handoff # Nothing => proc[p].generation > handoff.generation
        /\ proc[p].predecessor # Nothing => handoff = proc[p].predecessor
    BY <1>1 DEF PubInv, AllSound, Sound
  <1>3. publication \in Publication /\ publication.generation = proc[p].generation
    BY <1>1, <1>2 DEF PubInv, PubTypeOK, Publication
  <1>4. \A q \in Process \ {p} : proc[q].pc \notin Locked
    BY <1>1 DEF PubInv, LockHeld, Locked
  <1>5. /\ proc' \in [Process -> Command] /\ proc'[p].pc = "record"
        /\ \A q \in Process \ {p} : proc'[q] = proc[q]
    <2>1. proc[p] \in Command /\ proc \in [Process -> Command]
      BY DEF PubInv, PubTypeOK
    <2>2. [proc[p] EXCEPT !.pc = "record"] \in Command
      BY <2>1 DEF Command
    <2>3. [proc[p] EXCEPT !.pc = "record"].pc = "record"
      BY <2>1 DEF Command
    <2>4. QED
      BY <1>1, <2>1, <2>2, <2>3
  <1>6. PubTypeOK' /\ handoff' # Nothing
    BY <1>1, <1>3, <1>5, PublicationAssumption DEF PubInv, PubTypeOK
  <1>7. Sound(proc'[p], handoff', history')
    BY <1>5, <1>6 DEF Sound
  <1>8. PubInv'
    BY <1>1, <1>5, <1>6, <1>7, StepInv DEF PubInv, LockHeld, Locked
  <1>9. HandoffStep
    BY <1>1, <1>2, <1>3 DEF HandoffStep
  <1>10. ChainStep
    BY <1>2, <1>4 DEF ChainStep, Locked
  <1>11. QED
    BY <1>8, <1>9, <1>10 DEF Kept

LEMMA RecordKeeps ==
  ASSUME PubInv, NEW p \in Process, RecordPublication(p)
  PROVE  Kept
  <1>1. /\ proc[p].pc = "record" /\ holder' = Nothing
        /\ proc' = [proc EXCEPT ![p] = Idle]
        /\ history' \in {history, Recorded(history, handoff)}
        /\ UNCHANGED <<archives, quarantine, handoff>>
    BY DEF RecordPublication, Release
  <1>2. handoff \in Publication /\ history \in Seq(Entry) /\ holder = p
    BY <1>1 DEF PubInv, PubTypeOK, AllSound, Sound, LockHeld, Locked
  <1>3. history' \in Seq(Entry) /\ PublishedPaths(history) \subseteq PublishedPaths(history')
    BY <1>1, <1>2, RecordedTypes
  <1>4. QED
    BY <1>1, <1>2, <1>3, EndKeeps
-----------------------------------------------------------------------------
(* Quarantine and restoration.                                               *)

\* The commands that read the history without changing its paths
LEMMA HolderHistory ==
  ASSUME PubInv, NEW p \in Process, proc[p].pc \in Locked
  PROVE  holder = p /\ history \in Seq(Entry)
  BY DEF PubInv, PubTypeOK, LockHeld

LEMMA StartQuarantineKeeps ==
  ASSUME PubInv, NEW p \in Process, NEW retain, StartQuarantine(p, retain)
  PROVE  Kept
  <1> DEFINE h == Reconciled(history, handoff)
             command == [Idle EXCEPT !.pc = "check", !.retired = RetiredPaths(h, retain)]
  <1>1. Acquire(p, command)
    BY DEF StartQuarantine
  <1>2. RetiredPaths(h, retain) \subseteq PublishedPaths(h) /\ PublishedPaths(h) \subseteq Path
    BY ReconciledTypes, PublishedTypes DEF RetiredPaths
  <1> HIDE DEF h
  <1>3. /\ command \in Command /\ command.pc = "check"
        /\ command.retired = RetiredPaths(h, retain)
    BY <1>2 DEF Idle, Command
  <1> HIDE DEF command
  <1>4. Sound(command, handoff, h)
    BY <1>2, <1>3 DEF Sound
  <1>5. QED
    BY <1>1, <1>3, <1>4, AcquireKeeps DEF h

LEMMA StartRestoreKeeps ==
  ASSUME PubInv, NEW p \in Process, NEW generation, StartRestore(p, generation)
  PROVE  Kept
  <1> DEFINE h == Reconciled(history, handoff)
  <1>1. PICK i \in DOMAIN h :
          Acquire(p, [Idle EXCEPT !.pc = "restore", !.path = h[i].publication.path])
    BY DEF StartRestore
  <1> DEFINE command == [Idle EXCEPT !.pc = "restore", !.path = h[i].publication.path]
  <1>2. h[i].publication.path \in PublishedPaths(h) /\ PublishedPaths(h) \subseteq Path
    BY ReconciledTypes, PublishedTypes DEF PublishedPaths
  <1> HIDE DEF h
  <1>3. /\ command \in Command /\ command.pc = "restore"
        /\ command.path = h[i].publication.path
    BY <1>2 DEF Idle, Command
  <1>4. Sound(command, handoff, h)
    <2> HIDE DEF command
    <2> QED
      BY <1>2, <1>3 DEF Sound
  <1>5. QED
    BY <1>1, <1>3, <1>4, AcquireKeeps DEF h

LEMMA RepairKeeps ==
  ASSUME PubInv, NEW p \in Process, NEW path \in Path, RepairRecord(p, path)
  PROVE  Kept
  <1>1. /\ proc[p].pc = "check" /\ path \in proc[p].retired
        /\ history' = Relocated(history, path, QuarantineOf(history, path))
        /\ UNCHANGED <<archives, quarantine, handoff, holder, proc>>
    BY DEF RepairRecord
  <1>2. holder = p /\ history \in Seq(Entry) /\ path \in PublishedPaths(history)
    BY <1>1, HolderHistory DEF PubInv, AllSound, Sound, Locked
  <1>3. history' \in Seq(Entry) /\ PublishedPaths(history') = PublishedPaths(history)
    BY <1>1, <1>2, QuarantineOfType, RelocatedTypes
  <1>4. PubTypeOK'
    BY <1>1, <1>3 DEF PubInv, PubTypeOK
  <1>5. Sound(proc'[p], handoff, history')
    BY <1>1, <1>3 DEF PubInv, AllSound, Sound
  <1>6. QED
    BY <1>1, <1>2, <1>3, <1>4, <1>5, QuietStep

LEMMA CheckKeeps ==
  ASSUME PubInv, NEW p \in Process, CheckRetired(p)
  PROVE  Kept
  <1> DEFINE retired == {path \in proc[p].retired : ~IsQuarantined(history, path)}
  <1>1. /\ proc[p].pc = "check" /\ UNCHANGED <<diskVars, holder>>
        /\ proc' = [proc EXCEPT ![p].pc = "retire", ![p].retired = retired]
    BY DEF CheckRetired
  <1>2. holder = p /\ proc[p].retired \subseteq PublishedPaths(history)
    BY <1>1, HolderHistory DEF PubInv, AllSound, Sound, Locked
  <1>3. retired \in SUBSET Path /\ retired \subseteq PublishedPaths(history)
    BY <1>2, PublishedTypes DEF PubInv, PubTypeOK
  <1> HIDE DEF retired
  <1>4. /\ proc' \in [Process -> Command]
        /\ proc'[p].pc = "retire" /\ proc'[p].retired = retired
        /\ \A q \in Process \ {p} : proc'[q] = proc[q]
    <2>1. proc \in [Process -> Command] /\ proc[p] \in Command
      BY DEF PubInv, PubTypeOK
    <2>2. /\ [proc[p] EXCEPT !.pc = "retire", !.retired = retired] \in Command
          /\ [proc[p] EXCEPT !.pc = "retire", !.retired = retired].pc = "retire"
          /\ [proc[p] EXCEPT !.pc = "retire", !.retired = retired].retired = retired
      BY <1>3, <2>1 DEF Command
    <2>3. QED
      BY <1>1, <2>1, <2>2
  <1>5. PubTypeOK' /\ UNCHANGED <<handoff, history, holder>>
    BY <1>1, <1>4 DEF PubInv, PubTypeOK, diskVars
  <1>6. Sound(proc'[p], handoff, history')
    BY <1>3, <1>4, <1>5 DEF Sound
  <1>7. QED
    BY <1>2, <1>4, <1>5, <1>6, QuietStep
LEMMA MoveToQuarantineKeeps ==
  ASSUME PubInv, NEW p \in Process, NEW path \in Path, MoveToQuarantine(p, path)
  PROVE  Kept
  <1> DEFINE command == [proc[p] EXCEPT !.pc = "mark", !.path = path,
                                        !.retired = proc[p].retired \ {path}]
  <1>1. /\ proc[p].pc = "retire" /\ path \in proc[p].retired
        /\ archives' = [archives EXCEPT ![path] = Nothing]
        /\ quarantine' = [quarantine EXCEPT ![QuarantineOf(history, path)] = archives[path]]
        /\ proc' = [proc EXCEPT ![p] = command]
        /\ UNCHANGED <<handoff, history, holder>>
    BY DEF MoveToQuarantine
  <1>2. /\ holder = p /\ path \in PublishedPaths(history)
        /\ proc[p].retired \subseteq PublishedPaths(history)
    BY <1>1, HolderHistory DEF PubInv, AllSound, Sound, Locked
  <1>3. /\ command \in Command /\ command.pc = "mark" /\ command.path = path
        /\ command.retired \subseteq proc[p].retired
    <2>1. proc[p] \in Command
      BY DEF PubInv, PubTypeOK
    <2>2. QED
      BY <2>1 DEF Command
  <1> HIDE DEF command
  <1>4. /\ proc' \in [Process -> Command] /\ proc'[p] = command
        /\ \A q \in Process \ {p} : proc'[q] = proc[q]
    BY <1>1, <1>3 DEF PubInv, PubTypeOK
  <1>5. PubTypeOK'
    BY <1>1, <1>4 DEF PubInv, PubTypeOK
  <1>6. Sound(proc'[p], handoff, history')
    BY <1>1, <1>2, <1>3, <1>4 DEF Sound
  <1>7. QED
    BY <1>1, <1>2, <1>4, <1>5, <1>6, QuietStep

LEMMA MarkKeeps ==
  ASSUME PubInv, NEW p \in Process, MarkQuarantined(p)
  PROVE  Kept
  <1> DEFINE path == proc[p].path
             command == [proc[p] EXCEPT !.pc = "retire", !.path = Nothing]
  <1>1. /\ proc[p].pc = "mark"
        /\ history' = Relocated(history, path, QuarantineOf(history, path))
        /\ proc' = [proc EXCEPT ![p] = command]
        /\ UNCHANGED <<archives, quarantine, handoff, holder>>
    BY DEF MarkQuarantined
  <1>2. holder = p /\ history \in Seq(Entry) /\ path \in PublishedPaths(history)
    BY <1>1, HolderHistory DEF PubInv, AllSound, Sound, Locked
  <1>3. history' \in Seq(Entry) /\ PublishedPaths(history') = PublishedPaths(history)
    BY <1>1, <1>2, QuarantineOfType, RelocatedTypes
  <1>4. command \in Command /\ command.pc = "retire" /\ command.retired = proc[p].retired
    <2>1. proc[p] \in Command
      BY DEF PubInv, PubTypeOK
    <2>2. QED
      BY <2>1 DEF Command
  <1> HIDE DEF command
  <1>5. /\ proc' \in [Process -> Command] /\ proc'[p] = command
        /\ \A q \in Process \ {p} : proc'[q] = proc[q]
    BY <1>1, <1>4 DEF PubInv, PubTypeOK
  <1>6. PubTypeOK'
    BY <1>1, <1>3, <1>5 DEF PubInv, PubTypeOK
  <1>7. Sound(proc'[p], handoff, history')
    <2>1. proc[p].retired \subseteq PublishedPaths(history)
      BY <1>1 DEF PubInv, AllSound, Sound
    <2>2. QED
      BY <1>3, <1>4, <1>5, <2>1 DEF Sound
  <1>8. QED
    BY <1>1, <1>2, <1>3, <1>5, <1>6, <1>7, QuietStep

LEMMA MoveBackKeeps ==
  ASSUME PubInv, NEW p \in Process, MoveBack(p)
  PROVE  Kept
  <1> DEFINE path == proc[p].path
             location == QuarantineOf(history, path)
             command == [proc[p] EXCEPT !.pc = "clear"]
  <1>1. /\ proc[p].pc = "restore" /\ proc' = [proc EXCEPT ![p] = command]
        /\ \/ /\ quarantine[location] = ContentOf(history, path)
              /\ archives' = [archives EXCEPT ![path] = quarantine[location]]
              /\ quarantine' = [quarantine EXCEPT ![location] = Nothing]
           \/ UNCHANGED <<archives, quarantine>>
        /\ UNCHANGED <<handoff, history, holder>>
    BY DEF MoveBack, InQuarantine
  <1>2. holder = p /\ history \in Seq(Entry) /\ path \in PublishedPaths(history)
    BY <1>1, HolderHistory DEF PubInv, AllSound, Sound, Locked
  <1>3. ContentOf(history, path) \in Content
    BY <1>2, ContentOfType
  <1>4. command \in Command /\ command.pc = "clear" /\ command.path = path
    <2>1. proc[p] \in Command
      BY DEF PubInv, PubTypeOK
    <2>2. QED
      BY <2>1 DEF Command
  <1> HIDE DEF command
  <1>5. /\ proc' \in [Process -> Command] /\ proc'[p] = command
        /\ \A q \in Process \ {p} : proc'[q] = proc[q]
    BY <1>1, <1>4 DEF PubInv, PubTypeOK
  <1>6. PubTypeOK'
    <2> HIDE DEF location, path
    <2> QED
      BY <1>1, <1>3, <1>5 DEF PubInv, PubTypeOK
  <1>7. Sound(proc'[p], handoff, history')
    BY <1>1, <1>2, <1>4, <1>5 DEF Sound
  <1>8. QED
    BY <1>1, <1>2, <1>5, <1>6, <1>7, QuietStep

LEMMA ClearKeeps ==
  ASSUME PubInv, NEW p \in Process, ClearQuarantine(p)
  PROVE  Kept
  <1>1. /\ proc[p].pc = "clear" /\ holder' = Nothing
        /\ history' = Relocated(history, proc[p].path, Retained)
        /\ proc' = [proc EXCEPT ![p] = Idle]
        /\ UNCHANGED <<archives, quarantine, handoff>>
    BY DEF ClearQuarantine, Release
  <1>2. holder = p /\ history \in Seq(Entry)
    BY <1>1, HolderHistory DEF Locked
  <1>3. history' \in Seq(Entry) /\ PublishedPaths(history') = PublishedPaths(history)
    BY <1>1, <1>2, RelocatedTypes
  <1>4. QED
    BY <1>1, <1>2, <1>3, EndKeeps

LEMMA FinishKeeps ==
  ASSUME PubInv, NEW p \in Process, FinishQuarantine(p)
  PROVE  Kept
  <1>1. /\ proc[p].pc = "retire" /\ holder' = Nothing
        /\ proc' = [proc EXCEPT ![p] = Idle] /\ UNCHANGED diskVars
    BY DEF FinishQuarantine, Release
  <1>2. holder = p /\ history \in Seq(Entry)
    BY <1>1, HolderHistory DEF Locked
  <1>3. QED
    BY <1>1, <1>2, EndKeeps DEF diskVars

LEMMA StopKeeps ==
  ASSUME PubInv, NEW p \in Process, Stop(p)
  PROVE  Kept
  <1>1. /\ proc' = [proc EXCEPT ![p] = Idle] /\ UNCHANGED diskVars
        /\ holder' = IF holder = p THEN Nothing ELSE holder
    BY DEF Stop
  <1>2. /\ holder' \in Process \cup {Nothing} /\ history \in Seq(Entry)
        /\ \A q \in Process \ {p} : holder = q => holder' = q
    BY <1>1 DEF PubInv, PubTypeOK
  <1>3. QED
    BY <1>1, <1>2, EndKeeps DEF diskVars

-----------------------------------------------------------------------------
(* Every step of the publishers, and every step of others that leaves their  *)
(* files and processes alone, keeps the invariant.                           *)
LEMMA PubStepKeeps ==
  ASSUME PubInv, [PubNext]_pubVars
  PROVE  Kept
  <1>1. CASE UNCHANGED pubVars
    BY <1>1 DEF pubVars, diskVars, Kept, PubInv, PubTypeOK, LockHeld, AllSound,
       HandoffStep, ChainStep
  <1>2. ASSUME NEW p \in Process, PubStep(p) PROVE Kept
    <2>1. CASE Capture(p) \/ StartPublishNext(p) \/ WriteHandoff(p) \/ RecordPublication(p)
      BY <2>1, CaptureKeeps, StartPublishNextKeeps, WriteHandoffKeeps, RecordKeeps
    <2>2. CASE \E path \in Path, content \in Content : Build(p, path, content)
      BY <2>2, BuildKeeps
    <2>3. CASE \E path \in Path, generation \in Generation : StartPublish(p, path, generation)
      BY <2>3, StartPublishKeeps
    <2>4. CASE \E retain \in Retentions : StartQuarantine(p, retain)
      BY <2>4, StartQuarantineKeeps
    <2>5. CASE \E path \in Path : RepairRecord(p, path) \/ MoveToQuarantine(p, path)
      BY <2>5, RepairKeeps, MoveToQuarantineKeeps
    <2>6. CASE CheckRetired(p) \/ MarkQuarantined(p) \/ FinishQuarantine(p)
      BY <2>6, CheckKeeps, MarkKeeps, FinishKeeps
    <2>7. CASE \E generation \in Generation : StartRestore(p, generation)
      BY <2>7, StartRestoreKeeps
    <2>8. CASE MoveBack(p) \/ ClearQuarantine(p) \/ Stop(p)
      BY <2>8, MoveBackKeeps, ClearKeeps, StopKeeps
    <2>9. QED
      BY <1>2, <2>1, <2>2, <2>3, <2>4, <2>5, <2>6, <2>7, <2>8 DEF PubStep
  <1>3. QED
    BY <1>1, <1>2 DEF PubNext

(* The disk and the commands keep their shape, and one command at a time     *)
(* holds the lock, whatever is published, retired, restored or stopped.      *)
THEOREM PublicationInvariance == PubSpec => []PubInv
  <1>1. PubInv /\ [PubNext]_pubVars => PubInv'
    BY PubStepKeeps DEF Kept
  <1>2. QED
    BY InitPub, <1>1, PTL DEF PubSpec

(* A prepared archive replaces exactly the publication it was merged from:   *)
(* the comparison under the lock still holds when the handoff is written.    *)
THEOREM ChainUnbrokenHolds == PubSpec => ChainUnbroken
  <1>1. PubInv /\ [PubNext]_pubVars => ChainStep
    BY PubStepKeeps DEF Kept
  <1>2. ChainUnbroken <=> [][ChainStep]_pubVars
    BY PTL DEF ChainUnbroken, ChainStep
  <1>3. QED
    BY PublicationInvariance, <1>1, <1>2, PTL DEF PubSpec

(* The generation of the handoff only grows, so a follower that compares     *)
(* generations is never offered an older publication as a newer one.         *)
THEOREM HandoffGrows == PubSpec => [][HandoffStep]_pubVars
  <1>1. PubInv /\ [PubNext]_pubVars => HandoffStep
    BY PubStepKeeps DEF Kept
  <1>2. QED
    BY PublicationInvariance, <1>1, PTL DEF PubSpec


-----------------------------------------------------------------------------
(* What was published, and where it is.                                      *)

\* What the two files tell, in whatever order
Published ==
  {history[i].publication : i \in DOMAIN history} \cup ({handoff} \ {Nothing})

\* The last publication and the one before it
Recent ==
  {a \in Published :
     \A b, c \in Published :
       b.generation > a.generation /\ c.generation > a.generation => b = c}

RecentPaths == {a.path : a \in Recent}

\* The paths whose archive may move to quarantine
PathsFound == {path \in PublishedPaths(history) : AtPath(history, path)}

HistoryTailed ==
  \/ handoff = Nothing
  \/ history # <<>> /\ Last(history).publication = handoff

Ordered(h) ==
  \A i, j \in DOMAIN h :
    i < j => h[i].publication.generation < h[j].publication.generation

\* Generations order the publications, and a path has one content.
PublishedSound ==
  /\ \A a, b \in Published :
       /\ a.path = b.path => a.content = b.content
       /\ a.generation = b.generation => a = b
  /\ Ordered(history)
  /\ handoff = Nothing => history = <<>>
  /\ handoff # Nothing => \A a \in Published : a.generation <= handoff.generation

\* The history of a command is reconciled until it writes the handoff.
Tailed ==
  \A p \in Process : proc[p].pc \in Locked \ {"record"} => HistoryTailed

\* What is retired is not recent, and once it was checked is at its path until
\* it moves.
RetiredSound ==
  \A p \in Process :
    /\ proc[p].pc \in {"check", "retire", "mark"} =>
         proc[p].retired \cap RecentPaths = {}
    /\ proc[p].pc \in {"retire", "mark"} => proc[p].retired \subseteq PathsFound

\* Everything published is at its path or in quarantine, the recent at its path.
AllFound ==
  /\ \A a \in Published :
       \/ archives[a.path] = a.content
       \/ \E b \in Published :
            b.path = a.path /\ quarantine[b.generation] = a.content
  /\ \A a \in Recent : archives[a.path] = a.content

LogInv == PublishedSound /\ Tailed /\ RetiredSound /\ AllFound

LEMMA PublishedType ==
  ASSUME PubTypeOK, NEW a \in Published
  PROVE  /\ a \in Publication
         /\ a.path \in Path /\ a.content \in Content /\ a.generation \in Generation
  <1>1. a \in Publication
    BY EntryTypes DEF PubTypeOK, Published
  <1>2. QED
    BY <1>1 DEF Publication

\* The entries of f publish what those of h do.
SamePublications(h, f) ==
  /\ DOMAIN f = DOMAIN h
  /\ \A i \in DOMAIN h : f[i].publication = h[i].publication

LEMMA RelocatedSame ==
  ASSUME NEW h \in Seq(Entry), NEW path, NEW location \in Generation \cup {Retained}
  PROVE  SamePublications(h, Relocated(h, path, location))
  <1> DEFINE moved(i) == IF h[i].publication.path = path
                         THEN [h[i] EXCEPT !.location = location] ELSE h[i]
  <1>1. ASSUME NEW i \in DOMAIN h
        PROVE  moved(i).publication = h[i].publication
    <2>1. h[i] \in Entry
      OBVIOUS
    <2>2. QED
      BY <2>1 DEF Entry
  <1>2. Relocated(h, path, location) = [i \in DOMAIN h |-> moved(i)]
    BY DEF Relocated
  <1> HIDE DEF moved
  <1>3. QED
    BY <1>1, <1>2 DEF SamePublications

LEMMA SameGroups ==
  ASSUME NEW h \in Seq(Entry), NEW f, SamePublications(h, f),
         NEW path \in PublishedPaths(h)
  PROVE  /\ QuarantineOf(f, path) = QuarantineOf(h, path)
         /\ ContentOf(f, path) = ContentOf(h, path)
         /\ PublishedPaths(f) = PublishedPaths(h)
  <1> DEFINE group == Group(h, path)
             any == CHOOSE i \in group : TRUE
             latest == CHOOSE i \in group : \A j \in group : j <= i
  <1>1. Group(f, path) = group
    BY DEF SamePublications, Group
  <1>2. group \in SUBSET (0 .. Len(h)) /\ group # {} /\ group \subseteq DOMAIN h
    BY DEF Group, PublishedPaths
  <1>3. /\ QuarantineOf(f, path) = f[latest].publication.generation
        /\ QuarantineOf(h, path) = h[latest].publication.generation
        /\ ContentOf(f, path) = f[any].publication.content
        /\ ContentOf(h, path) = h[any].publication.content
    BY <1>1 DEF QuarantineOf, ContentOf
  <1> HIDE DEF group
  <1>4. any \in DOMAIN h
    BY <1>2
  <1>5. latest \in DOMAIN h
    <2>1. Len(h) \in Nat
      OBVIOUS
    <2>2. \E i \in group : \A j \in group : j <= i
      BY <1>2, <2>1, GreatestNumber
    <2>3. QED
      BY <1>2, <2>2
  <1> HIDE DEF any, latest
  <1>6. QED
    BY <1>3, <1>4, <1>5 DEF SamePublications, PublishedPaths

(* The group of a path is that of publications with its content, and it is   *)
(* kept in quarantine under the generation of one of them.                   *)
LEMMA GroupPublications ==
  ASSUME PubInv, NEW path \in PublishedPaths(history)
  PROVE  /\ \E a \in Published :
              a.path = path /\ ContentOf(history, path) = a.content
         /\ \E b \in Published :
              b.path = path /\ QuarantineOf(history, path) = b.generation
  <1> DEFINE group == Group(history, path)
  <1>1. /\ group \in SUBSET (0 .. Len(history)) /\ group # {}
        /\ history \in Seq(Entry)
        /\ \A i \in group : /\ history[i].publication \in Published
                            /\ history[i].publication.path = path
    <2>1. history \in Seq(Entry)
      BY DEF PubInv, PubTypeOK
    <2>2. group \in SUBSET (0 .. Len(history)) /\ group # {}
      BY <2>1 DEF Group, PublishedPaths
    <2>3. QED
      BY <2>1, <2>2 DEF Group, Published
  <1>2. \E i \in group : ContentOf(history, path) = history[i].publication.content
    BY <1>1 DEF ContentOf
  <1>3. \E i \in group : \A j \in group : j <= i
    <2> HIDE DEF group
    <2>1. Len(history) \in Nat
      BY <1>1
    <2>2. QED
      BY <1>1, <2>1, GreatestNumber
  <1>4. \E i \in group : QuarantineOf(history, path) = history[i].publication.generation
    BY <1>3 DEF QuarantineOf
  <1>5. QED
    BY <1>1, <1>2, <1>4

-----------------------------------------------------------------------------
(* What a step does to what was published.                                   *)

\* A step that writes no publication and touches no archive.
LEMMA DiskSame ==
  ASSUME PubInv, PubInv', PublishedSound, AllFound,
         UNCHANGED <<archives, quarantine, handoff>>,
         SamePublications(history, history')
  PROVE  /\ RecentPaths' = RecentPaths /\ PathsFound' = PathsFound
         /\ PublishedSound' /\ AllFound'
         /\ HistoryTailed => HistoryTailed'
  <1>1. history \in Seq(Entry) /\ history' \in Seq(Entry)
    BY DEF PubInv, PubTypeOK
  <1>2. /\ DOMAIN history' = DOMAIN history
        /\ \A i \in DOMAIN history : history'[i].publication = history[i].publication
    BY DEF SamePublications
  <1>3. Published' = Published
    BY <1>2 DEF Published
  <1>4. Recent' = Recent
    BY <1>3 DEF Recent
  <1>5. RecentPaths' = RecentPaths
    BY <1>4 DEF RecentPaths
  <1>6. Len(history') = Len(history) /\ Len(history) \in Nat
    BY <1>1, <1>2
  <1>7. history # <<>> => history' # <<>> /\ Len(history) \in DOMAIN history
    BY <1>1, <1>2
  <1>8. Ordered(history')
    BY <1>2 DEF PublishedSound, Ordered
  <1>9. handoff' = Nothing => history' = <<>>
    BY <1>1, <1>2, <1>6 DEF PublishedSound
  <1>10. PublishedSound'
    BY <1>3, <1>8, <1>9 DEF PublishedSound
  <1>11. AllFound'
    BY <1>3, <1>4 DEF AllFound
  <1>12. HistoryTailed => HistoryTailed'
    BY <1>2, <1>6, <1>7 DEF HistoryTailed, Last
  <1>13. PathsFound' = PathsFound
    <2>1. PublishedPaths(history') = PublishedPaths(history)
      BY <1>2 DEF PublishedPaths
    <2>2. ASSUME NEW path \in PublishedPaths(history)
          PROVE  (/\ archives'[path] = ContentOf(history', path)
                  /\ quarantine'[QuarantineOf(history', path)] = Nothing)
                 <=> AtPath(history, path)
      <3>1. /\ QuarantineOf(history', path) = QuarantineOf(history, path)
            /\ ContentOf(history', path) = ContentOf(history, path)
        BY <1>1, SameGroups
      <3>2. QED
        BY <3>1 DEF AtPath
    <2>3. QED
      BY <2>1, <2>2 DEF PathsFound, AtPath
  <1>14. QED
    BY <1>5, <1>10, <1>11, <1>12, <1>13

\* A step of the process that holds the lock then.
LEMMA HolderLog ==
  ASSUME PublishedSound', AllFound', NEW p \in Process,
         \A q \in Process \ {p} : proc'[q].pc \notin Locked,
         proc'[p].pc \in Locked \ {"record"} => HistoryTailed',
         proc'[p].pc \in {"check", "retire", "mark"} =>
           proc'[p].retired \cap RecentPaths' = {},
         proc'[p].pc \in {"retire", "mark"} => proc'[p].retired \subseteq PathsFound'
  PROVE  LogInv'
  <1>1. Tailed'
    BY DEF Tailed
  <1>2. RetiredSound'
    BY DEF RetiredSound, Locked
  <1>3. QED
    BY <1>1, <1>2 DEF LogInv

\* A step of a process that does not.
LEMMA AsideLog ==
  ASSUME LogInv, PublishedSound', AllFound', HistoryTailed => HistoryTailed',
         RecentPaths' = RecentPaths, PathsFound \subseteq PathsFound',
         \A q \in Process : proc'[q] = proc[q] \/ proc'[q].pc \notin Locked
  PROVE  LogInv'
  <1>1. ASSUME NEW q \in Process
        PROVE  /\ proc'[q].pc \in Locked \ {"record"} => HistoryTailed'
               /\ proc'[q].pc \in {"check", "retire", "mark"} =>
                    proc'[q].retired \cap RecentPaths' = {}
               /\ proc'[q].pc \in {"retire", "mark"} =>
                    proc'[q].retired \subseteq PathsFound'
    <2>1. CASE proc'[q].pc \notin Locked
      BY <2>1 DEF Locked
    <2>2. CASE proc'[q] = proc[q]
      BY <2>2 DEF LogInv, Tailed, RetiredSound
    <2>3. QED
      BY <2>1, <2>2
  <1>2. QED
    BY <1>1 DEF LogInv, Tailed, RetiredSound

\* A publication is recorded, as the one the handoff has already.
LEMMA RecordedLog ==
  ASSUME PubInv, PublishedSound, AllFound, handoff # Nothing,
         UNCHANGED <<archives, quarantine, handoff>>,
         history' = Recorded(history, handoff), ValidHistory(history')
  PROVE  PublishedSound' /\ AllFound' /\ HistoryTailed' /\ RecentPaths' = RecentPaths
  <1> DEFINE e == [publication |-> handoff, location |-> Retained]
  <1>1. history \in Seq(Entry) /\ e \in Entry /\ history' = Append(history, e)
    BY DEF PubInv, PubTypeOK, Recorded, Entry
  <1>2. /\ DOMAIN history \subseteq DOMAIN history'
        /\ \A i \in DOMAIN history : history'[i] = history[i]
        /\ Len(history') \in DOMAIN history' /\ history'[Len(history')] = e
        /\ \A i \in DOMAIN history' : i \in DOMAIN history \/ i = Len(history')
        /\ history' # <<>>
    BY <1>1
  <1>3. e.publication = handoff
    OBVIOUS
  <1> HIDE DEF e
  <1>4. Published' = Published
    BY <1>2, <1>3 DEF Published
  <1>5. Recent' = Recent
    BY <1>4 DEF Recent
  <1>6. RecentPaths' = RecentPaths
    BY <1>5 DEF RecentPaths
  <1>7. Ordered(history')
    BY DEF ValidHistory, Ordered
  <1>8. PublishedSound'
    BY <1>4, <1>7 DEF PublishedSound
  <1>9. AllFound'
    BY <1>4, <1>5 DEF AllFound
  <1>10. HistoryTailed'
    BY <1>2, <1>3 DEF HistoryTailed, Last
  <1>11. QED
    BY <1>6, <1>8, <1>9, <1>10

\* A command takes the lock: its history ends with the handoff.
LEMMA AcquireLog ==
  ASSUME PubInv, PubInv', LogInv, NEW p \in Process, NEW command \in Command,
         Acquire(p, command)
  PROVE  /\ PublishedSound' /\ AllFound' /\ HistoryTailed'
         /\ RecentPaths' = RecentPaths
         /\ proc'[p] = command
         /\ \A q \in Process \ {p} : proc'[q].pc \notin Locked
  <1>1. /\ holder' = p /\ proc' = [proc EXCEPT ![p] = command]
        /\ history' = Reconciled(history, handoff)
        /\ CanReconcile(history, handoff)
        /\ UNCHANGED <<archives, quarantine, handoff>>
        /\ PublishedSound /\ AllFound
    BY DEF Acquire, LogInv
  <1>2. /\ proc'[p] = command
        /\ \A q \in Process \ {p} : proc'[q].pc \notin Locked
    BY <1>1 DEF PubInv, PubTypeOK, LockHeld
  <1>3. CASE handoff # Nothing /\ history' = Recorded(history, handoff)
    BY <1>1, <1>2, <1>3, RecordedLog DEF CanReconcile
  <1>4. CASE /\ history' = history
             /\ handoff = Nothing \/ ExactTail(history, handoff)
    <2>1. SamePublications(history, history')
      BY <1>4 DEF SamePublications
    <2>2. HistoryTailed
      <3>1. CASE handoff = Nothing
        BY <3>1 DEF HistoryTailed
      <3>2. CASE ExactTail(history, handoff)
        BY <3>2 DEF HistoryTailed, ExactTail
      <3>3. QED
        BY <1>4, <3>1, <3>2
    <2>3. QED
      BY <1>1, <1>2, <2>1, <2>2, DiskSame
  <1>5. QED
    BY <1>1, <1>3, <1>4 DEF Reconciled


-----------------------------------------------------------------------------
(* Step by step.                                                             *)

\* Of three publications in a row, the first is not recent.
LEMMA RetiredNotRecent ==
  ASSUME NEW h \in Seq(Entry), Ordered(h), NEW retain \in Retentions,
         NEW i \in DOMAIN h, h[i].publication.path \in RetiredPaths(h, retain)
  PROVE  \E j, k \in DOMAIN h :
           /\ h[j].publication.generation > h[i].publication.generation
           /\ h[k].publication.generation > h[i].publication.generation
           /\ h[j].publication # h[k].publication
  <1>1. retain \in Nat /\ retain >= 2
    BY PublicationAssumption
  <1>2. ~(i + retain > Len(h))
    BY DEF RetiredPaths, ProtectedPaths
  <1>3. i + 1 \in DOMAIN h /\ i + 2 \in DOMAIN h
    BY <1>1, <1>2
  <1>4. \A j \in DOMAIN h : h[j].publication.generation \in Nat
    BY EntryTypes, PublicationAssumption DEF Generation
  <1>5. /\ h[i].publication.generation < h[i + 1].publication.generation
        /\ h[i].publication.generation < h[i + 2].publication.generation
        /\ h[i + 1].publication.generation < h[i + 2].publication.generation
    BY <1>3 DEF Ordered
  <1>6. QED
    BY <1>3, <1>4, <1>5

LEMMA CaptureLog ==
  ASSUME PubInv, PubInv', LogInv, NEW p \in Process, Capture(p)
  PROVE  LogInv'
  <1> DEFINE captured == [Idle EXCEPT !.pc = "captured", !.predecessor = handoff]
  <1>1. /\ UNCHANGED <<archives, quarantine, handoff, history>>
        /\ proc' = [proc EXCEPT ![p] = captured]
    BY DEF Capture, diskVars
  <1>2. captured.pc \notin Locked
    BY DEF Idle, Locked
  <1>3. \A q \in Process : proc'[q] = proc[q] \/ proc'[q].pc \notin Locked
    BY <1>1, <1>2 DEF PubInv, PubTypeOK
  <1>4. SamePublications(history, history')
    BY <1>1 DEF SamePublications
  <1>5. QED
    BY <1>1, <1>3, <1>4, DiskSame, AsideLog DEF LogInv

LEMMA StopLog ==
  ASSUME PubInv, PubInv', LogInv, NEW p \in Process, Stop(p)
  PROVE  LogInv'
  <1>1. /\ UNCHANGED <<archives, quarantine, handoff, history>>
        /\ proc' = [proc EXCEPT ![p] = Idle]
    BY DEF Stop, diskVars
  <1>2. \A q \in Process : proc'[q] = proc[q] \/ proc'[q].pc \notin Locked
    BY <1>1, IdleType DEF PubInv, PubTypeOK, Locked
  <1>3. SamePublications(history, history')
    BY <1>1 DEF SamePublications
  <1>4. QED
    BY <1>1, <1>2, <1>3, DiskSame, AsideLog DEF LogInv

LEMMA BuildLog ==
  ASSUME PubInv, PubInv', LogInv, NEW p \in Process, NEW path \in Path,
         NEW content \in Content, Build(p, path, content)
  PROVE  LogInv'
  <1>1. /\ archives[path] = Nothing /\ archives' = [archives EXCEPT ![path] = content]
        /\ UNCHANGED <<quarantine, handoff, history, holder>>
        /\ \/ /\ proc[p].pc = "captured"
              /\ proc' = [proc EXCEPT ![p].pc = "built", ![p].path = path]
           \/ UNCHANGED proc
        /\ PubTypeOK /\ history \in Seq(Entry)
    BY DEF Build, PubInv, PubTypeOK
  <1>2. \A q \in Process : proc'[q] = proc[q] \/ proc'[q].pc \notin Locked
    BY <1>1 DEF PubTypeOK, Command, Locked
  <1>3. /\ Published' = Published /\ Recent' = Recent /\ RecentPaths' = RecentPaths
        /\ HistoryTailed' = HistoryTailed /\ PublishedSound'
    BY <1>1 DEF Published, Recent, RecentPaths, HistoryTailed, PublishedSound, LogInv
  <1>4. \A other \in Path : archives[other] \in Content => archives'[other] = archives[other]
    BY <1>1, PublicationAssumption DEF PubTypeOK
  <1>5. AllFound'
    BY <1>1, <1>3, <1>4, PublishedType DEF AllFound, LogInv, Recent
  <1>6. PathsFound \subseteq PathsFound'
    BY <1>1, <1>4, ContentOfType, PublishedTypes DEF PathsFound, AtPath
  <1>7. QED
    BY <1>2, <1>3, <1>5, <1>6, AsideLog

LEMMA StartLog ==
  ASSUME PubInv, PubInv', LogInv, NEW p \in Process, NEW command \in Command,
         Acquire(p, command), command.pc \in {"publish", "restore"}
  PROVE  LogInv'
  BY AcquireLog, HolderLog

LEMMA StartQuarantineLog ==
  ASSUME PubInv, PubInv', LogInv, NEW p \in Process, NEW retain \in Retentions,
         StartQuarantine(p, retain)
  PROVE  LogInv'
  <1> DEFINE h == Reconciled(history, handoff)
             command == [Idle EXCEPT !.pc = "check", !.retired = RetiredPaths(h, retain)]
  <1>1. Acquire(p, command) /\ history' = h
    BY DEF StartQuarantine, Acquire
  <1>2. RetiredPaths(h, retain) \subseteq Path
    BY ReconciledTypes, PublishedTypes DEF RetiredPaths
  <1> HIDE DEF h
  <1>3. /\ command \in Command /\ command.pc = "check"
        /\ command.retired = RetiredPaths(history', retain)
    BY <1>1, <1>2 DEF Idle, Command
  <1> HIDE DEF command
  <1>4. /\ PublishedSound' /\ AllFound' /\ HistoryTailed'
        /\ proc'[p] = command
        /\ \A q \in Process \ {p} : proc'[q].pc \notin Locked
    BY <1>1, <1>3, AcquireLog
  <1>5. ASSUME NEW a \in Recent' PROVE a.path \notin RetiredPaths(history', retain)
    <2>1. history' \in Seq(Entry) /\ Ordered(history') /\ Len(history') \in Nat
      BY <1>4 DEF PubInv, PubTypeOK, PublishedSound
    <2>2. a \in Published'
      BY DEF Recent
    <2>3. PICK i \in DOMAIN history' : history'[i].publication = a
      <3>1. CASE handoff' = Nothing
        BY <2>2, <3>1 DEF Published
      <3>2. CASE handoff' # Nothing
        <4>1. history' # <<>> /\ history'[Len(history')].publication = handoff'
          BY <1>4, <3>2 DEF HistoryTailed, Last
        <4>2. Len(history') \in DOMAIN history'
          BY <2>1, <4>1
        <4>3. QED
          BY <2>2, <4>1, <4>2 DEF Published
      <3>3. QED
        BY <3>1, <3>2
    <2>4. ASSUME a.path \in RetiredPaths(history', retain)
          PROVE  FALSE
      <3>1. PICK j, k \in DOMAIN history' :
              /\ history'[j].publication.generation > a.generation
              /\ history'[k].publication.generation > a.generation
              /\ history'[j].publication # history'[k].publication
        BY <2>1, <2>3, <2>4, RetiredNotRecent
      <3>2. history'[j].publication \in Published' /\ history'[k].publication \in Published'
        BY DEF Published
      <3>3. QED
        BY <3>1, <3>2 DEF Recent
    <2>5. QED
      BY <2>4
  <1>6. proc'[p].retired \cap RecentPaths' = {}
    BY <1>3, <1>4, <1>5 DEF RecentPaths
  <1>7. QED
    BY <1>3, <1>4, <1>6, HolderLog


LEMMA StartRestoreLog ==
  ASSUME PubInv, PubInv', LogInv, NEW p \in Process, NEW generation,
         StartRestore(p, generation)
  PROVE  LogInv'
  <1> DEFINE h == Reconciled(history, handoff)
  <1>1. PICK i \in DOMAIN h :
          Acquire(p, [Idle EXCEPT !.pc = "restore", !.path = h[i].publication.path])
    BY DEF StartRestore
  <1> DEFINE command == [Idle EXCEPT !.pc = "restore", !.path = h[i].publication.path]
  <1>2. h[i].publication.path \in Path
    BY ReconciledTypes, EntryTypes
  <1> HIDE DEF h
  <1>3. command \in Command /\ command.pc = "restore"
    BY <1>2 DEF Idle, Command
  <1> HIDE DEF command
  <1>4. QED
    BY <1>1, <1>3, StartLog DEF command

LEMMA StartPublishLog ==
  ASSUME PubInv, PubInv', LogInv, NEW p \in Process, NEW path \in Path,
         NEW generation \in Generation, StartPublish(p, path, generation)
  PROVE  LogInv'
  <1> DEFINE command == [Idle EXCEPT !.pc = "publish", !.path = path,
                                     !.generation = generation]
  <1>1. Acquire(p, command)
    BY DEF StartPublish
  <1>2. generation \in Nat
    BY PublicationAssumption DEF Generation
  <1>3. command \in Command /\ command.pc = "publish"
    BY <1>2 DEF Idle, Command
  <1> HIDE DEF command
  <1>4. QED
    BY <1>1, <1>3, StartLog

LEMMA StartPublishNextLog ==
  ASSUME PubInv, PubInv', LogInv, NEW p \in Process, StartPublishNext(p)
  PROVE  LogInv'
  <1> DEFINE generation == IF handoff = Nothing THEN 1 ELSE handoff.generation + 1
             command == [proc[p] EXCEPT !.pc = "publish", !.generation = generation]
  <1>1. generation \in Generation /\ Acquire(p, command)
    BY DEF StartPublishNext
  <1>2. proc[p] \in Command /\ generation \in Nat
    BY <1>1, PublicationAssumption DEF PubInv, PubTypeOK, Generation
  <1> HIDE DEF generation
  <1>3. command \in Command /\ command.pc = "publish"
    BY <1>2 DEF Command
  <1> HIDE DEF command
  <1>4. QED
    BY <1>1, <1>3, StartLog

\* The other commands have nothing of the lock.
LEMMA OthersFree ==
  ASSUME PubInv, NEW p \in Process, proc[p].pc \in Locked
  PROVE  \A q \in Process \ {p} : proc[q].pc \notin Locked
  BY DEF PubInv, LockHeld

LEMMA WriteHandoffLog ==
  ASSUME PubInv, PubInv', LogInv, NEW p \in Process, WriteHandoff(p)
  PROVE  LogInv'
  <1> DEFINE n == [generation |-> proc[p].generation, path |-> proc[p].path,
                   content |-> archives[proc[p].path]]
  <1>1. /\ proc[p].pc = "publish" /\ ~ReusedMutated(history, n) /\ handoff' = n
        /\ proc' = [proc EXCEPT ![p].pc = "record"]
        /\ UNCHANGED <<archives, quarantine, history>>
        /\ archives[n.path] = n.content /\ n.generation = proc[p].generation
    BY DEF WriteHandoff
  <1> HIDE DEF n
  <1>2. /\ n \in Publication /\ n # Nothing
        /\ handoff # Nothing => n.generation > handoff.generation
    BY <1>1, PublicationAssumption DEF PubInv, PubTypeOK, AllSound, Sound
  <1>3. /\ proc'[p].pc = "record"
        /\ \A q \in Process \ {p} : proc'[q].pc \notin Locked
    BY <1>1, OthersFree DEF PubInv, PubTypeOK, Command, Locked
  <1>4. HistoryTailed /\ PublishedSound /\ AllFound
    BY <1>1 DEF LogInv, Tailed, Locked
  <1>5. Published = {history[i].publication : i \in DOMAIN history}
    <2>1. CASE handoff = Nothing
      BY <2>1 DEF Published
    <2>2. CASE handoff # Nothing
      <3>1. Len(history) \in DOMAIN history /\ history[Len(history)].publication = handoff
        BY <1>4, <2>2 DEF HistoryTailed, Last, PubInv, PubTypeOK
      <3>2. QED
        BY <3>1 DEF Published
    <2>3. QED
      BY <2>1, <2>2
  <1>6. Published' = Published \cup {n}
    BY <1>1, <1>2, <1>5 DEF Published
  <1>7. \A a \in Published : a.generation \in Nat
    BY PublishedType, PublicationAssumption DEF PubInv, Generation
  <1>8. /\ n.generation \in Nat
        /\ handoff # Nothing => handoff.generation \in Nat
    BY <1>2, PublicationAssumption DEF PubInv, PubTypeOK, Publication, Generation
  <1>9. \A a \in Published : a.generation < n.generation
    <2>1. CASE handoff = Nothing
      <3>1. DOMAIN <<>> = {}
        OBVIOUS
      <3>2. QED
        BY <1>4, <1>5, <2>1, <3>1 DEF PublishedSound
    <2>2. CASE handoff # Nothing
      BY <1>2, <1>4, <1>7, <1>8, <2>2 DEF PublishedSound
    <2>3. QED
      BY <2>1, <2>2
  <1>10. \A a \in Published : a.path = n.path => a.content = n.content
    BY <1>1, <1>5 DEF ReusedMutated, Group
  <1>11. PublishedSound'
    <2>1. \A a, b \in Published' : /\ a.path = b.path => a.content = b.content
                                   /\ a.generation = b.generation => a = b
      BY <1>4, <1>6, <1>7, <1>9, <1>10 DEF PublishedSound
    <2>2. \A a \in Published' : a.generation <= handoff'.generation
      BY <1>1, <1>6, <1>7, <1>8, <1>9
    <2>3. Ordered(history')
      BY <1>1, <1>4 DEF PublishedSound
    <2>4. QED
      BY <1>1, <1>2, <2>1, <2>2, <2>3 DEF PublishedSound
  <1>12. Recent' \subseteq Recent \cup {n}
    BY <1>6 DEF Recent
  <1>13. AllFound'
    BY <1>1, <1>4, <1>6, <1>12 DEF AllFound
  <1>14. QED
    BY <1>3, <1>11, <1>13, HolderLog

LEMMA RecordLog ==
  ASSUME PubInv, PubInv', LogInv, NEW p \in Process, RecordPublication(p)
  PROVE  LogInv'
  <1>1. /\ proc[p].pc = "record" /\ proc' = [proc EXCEPT ![p] = Idle]
        /\ UNCHANGED <<archives, quarantine, handoff>>
        /\ \/ history' = history
           \/ /\ history' = Recorded(history, handoff)
              /\ ValidHistory(history')
    BY DEF RecordPublication, Release
  <1>2. handoff # Nothing
    BY <1>1 DEF PubInv, AllSound, Sound
  <1>3. PublishedSound' /\ AllFound'
    <2>1. CASE history' = history
      BY <1>1, <2>1, DiskSame DEF SamePublications, LogInv
    <2>2. CASE history' = Recorded(history, handoff) /\ ValidHistory(history')
      BY <1>1, <1>2, <2>2, RecordedLog DEF LogInv
    <2>3. QED
      BY <1>1, <2>1, <2>2
  <1>4. proc'[p].pc = "idle" /\ \A q \in Process \ {p} : proc'[q].pc \notin Locked
    BY <1>1, IdleType, OthersFree DEF PubInv, PubTypeOK, Locked
  <1>5. QED
    BY <1>3, <1>4, HolderLog DEF Locked

\* A step of the holder that relocates entries, or touches no file at all.
LEMMA RelocatingLog ==
  ASSUME PubInv, PubInv', LogInv, NEW p \in Process,
         proc[p].pc \in Locked \ {"record"}, SamePublications(history, history'),
         UNCHANGED <<archives, quarantine, handoff>>,
         \A q \in Process \ {p} : proc'[q] = proc[q],
         proc'[p].pc \in {"check", "retire", "mark"} =>
           /\ proc[p].pc \in {"check", "retire", "mark"}
           /\ proc'[p].retired \subseteq proc[p].retired,
         proc'[p].pc \in {"retire", "mark"} =>
           proc[p].pc \in {"retire", "mark"} \/ proc'[p].retired \subseteq PathsFound
  PROVE  LogInv'
  <1>1. /\ RecentPaths' = RecentPaths /\ PathsFound' = PathsFound
        /\ PublishedSound' /\ AllFound'
        /\ HistoryTailed => HistoryTailed'
    BY DiskSame DEF LogInv
  <1>2. HistoryTailed /\ \A q \in Process \ {p} : proc'[q].pc \notin Locked
    BY OthersFree DEF LogInv, Tailed
  <1>3. proc'[p].pc \in {"check", "retire", "mark"} =>
          proc'[p].retired \cap RecentPaths' = {}
    BY <1>1 DEF LogInv, RetiredSound
  <1>4. proc'[p].pc \in {"retire", "mark"} => proc'[p].retired \subseteq PathsFound'
    BY <1>1 DEF LogInv, RetiredSound
  <1>5. QED
    BY <1>1, <1>2, <1>3, <1>4, HolderLog


LEMMA RepairLog ==
  ASSUME PubInv, PubInv', LogInv, NEW p \in Process, NEW path \in Path,
         RepairRecord(p, path)
  PROVE  LogInv'
  <1>1. /\ proc[p].pc = "check" /\ path \in proc[p].retired
        /\ history' = Relocated(history, path, QuarantineOf(history, path))
        /\ UNCHANGED <<archives, quarantine, handoff, proc>>
        /\ history \in Seq(Entry)
    BY DEF RepairRecord, PubInv, PubTypeOK
  <1>2. path \in PublishedPaths(history)
    BY <1>1 DEF PubInv, AllSound, Sound
  <1>3. SamePublications(history, history')
    BY <1>1, <1>2, QuarantineOfType, RelocatedSame
  <1>4. QED
    BY <1>1, <1>3, RelocatingLog DEF Locked

LEMMA CheckLog ==
  ASSUME PubInv, PubInv', LogInv, NEW p \in Process, CheckRetired(p)
  PROVE  LogInv'
  <1> DEFINE retired == {path \in proc[p].retired : ~IsQuarantined(history, path)}
  <1>1. /\ proc[p].pc = "check"
        /\ UNCHANGED <<archives, quarantine, handoff, history>>
        /\ proc' = [proc EXCEPT ![p].pc = "retire", ![p].retired = retired]
        /\ \A path \in retired : AtPath(history, path)
    BY DEF CheckRetired, diskVars
  <1>2. retired \subseteq PathsFound
    BY <1>1 DEF PubInv, AllSound, Sound, PathsFound
  <1> HIDE DEF retired
  <1>3. /\ proc'[p].pc = "retire" /\ proc'[p].retired = retired
        /\ \A q \in Process \ {p} : proc'[q] = proc[q]
    BY <1>1 DEF PubInv, PubTypeOK, Command
  <1>4. retired \subseteq proc[p].retired
    BY DEF retired
  <1>5. SamePublications(history, history')
    BY <1>1 DEF SamePublications
  <1>6. QED
    BY <1>1, <1>2, <1>3, <1>4, <1>5, RelocatingLog DEF Locked

LEMMA MarkLog ==
  ASSUME PubInv, PubInv', LogInv, NEW p \in Process, MarkQuarantined(p)
  PROVE  LogInv'
  <1> DEFINE path == proc[p].path
  <1>1. /\ proc[p].pc = "mark"
        /\ history' = Relocated(history, path, QuarantineOf(history, path))
        /\ proc' = [proc EXCEPT ![p].pc = "retire", ![p].path = Nothing]
        /\ UNCHANGED <<archives, quarantine, handoff>>
        /\ history \in Seq(Entry)
    BY DEF MarkQuarantined, PubInv, PubTypeOK
  <1>2. path \in PublishedPaths(history)
    BY <1>1 DEF PubInv, AllSound, Sound
  <1>3. SamePublications(history, history')
    BY <1>1, <1>2, QuarantineOfType, RelocatedSame
  <1>4. /\ proc'[p].pc = "retire" /\ proc'[p].retired = proc[p].retired
        /\ \A q \in Process \ {p} : proc'[q] = proc[q]
    BY <1>1 DEF PubInv, PubTypeOK, Command
  <1>5. QED
    BY <1>1, <1>3, <1>4, RelocatingLog DEF Locked

LEMMA ClearLog ==
  ASSUME PubInv, PubInv', LogInv, NEW p \in Process, ClearQuarantine(p)
  PROVE  LogInv'
  <1>1. /\ proc[p].pc = "clear"
        /\ history' = Relocated(history, proc[p].path, Retained)
        /\ proc' = [proc EXCEPT ![p] = Idle]
        /\ UNCHANGED <<archives, quarantine, handoff>>
        /\ history \in Seq(Entry)
    BY DEF ClearQuarantine, Release, PubInv, PubTypeOK
  <1>2. SamePublications(history, history')
    BY <1>1, RelocatedSame
  <1>3. proc'[p].pc = "idle" /\ \A q \in Process \ {p} : proc'[q] = proc[q]
    BY <1>1, IdleType DEF PubInv, PubTypeOK
  <1>4. QED
    BY <1>1, <1>2, <1>3, RelocatingLog DEF Locked

LEMMA FinishLog ==
  ASSUME PubInv, PubInv', LogInv, NEW p \in Process, FinishQuarantine(p)
  PROVE  LogInv'
  <1>1. /\ proc[p].pc = "retire" /\ proc' = [proc EXCEPT ![p] = Idle]
        /\ UNCHANGED <<archives, quarantine, handoff, history>>
    BY DEF FinishQuarantine, Release, diskVars
  <1>2. proc'[p].pc = "idle" /\ \A q \in Process \ {p} : proc'[q] = proc[q]
    BY <1>1, IdleType DEF PubInv, PubTypeOK
  <1>3. SamePublications(history, history')
    BY <1>1 DEF SamePublications
  <1>4. QED
    BY <1>1, <1>2, <1>3, RelocatingLog DEF Locked

LEMMA MoveToQuarantineLog ==
  ASSUME PubInv, PubInv', LogInv, NEW p \in Process, NEW path \in Path,
         MoveToQuarantine(p, path)
  PROVE  LogInv'
  <1> DEFINE location == QuarantineOf(history, path)
             content == ContentOf(history, path)
             command == [proc[p] EXCEPT !.pc = "mark", !.path = path,
                                        !.retired = proc[p].retired \ {path}]
  <1>1. /\ proc[p].pc = "retire" /\ path \in proc[p].retired
        /\ archives' = [archives EXCEPT ![path] = Nothing]
        /\ quarantine' = [quarantine EXCEPT ![location] = archives[path]]
        /\ proc' = [proc EXCEPT ![p] = command]
        /\ UNCHANGED <<handoff, history>>
        /\ PubTypeOK /\ PublishedSound /\ AllFound /\ HistoryTailed
    BY DEF MoveToQuarantine, PubInv, LogInv, Tailed, Locked
  <1>2. /\ path \in PublishedPaths(history) /\ archives[path] = content
        /\ quarantine[location] = Nothing /\ path \notin RecentPaths
        /\ proc[p].retired \subseteq PathsFound
        /\ proc[p].retired \cap RecentPaths = {}
    BY <1>1 DEF LogInv, RetiredSound, PathsFound, AtPath
  <1>3. PICK a \in Published : a.path = path /\ content = a.content
    BY <1>2, GroupPublications
  <1>4. PICK b \in Published : b.path = path /\ location = b.generation
    BY <1>2, GroupPublications
  <1>5. location \in Generation /\ content \in Content
    BY <1>1, <1>2, QuarantineOfType, ContentOfType DEF PubTypeOK
  <1> HIDE DEF location, content
  <1>6. /\ archives'[path] = Nothing
        /\ \A other \in Path \ {path} : archives'[other] = archives[other]
        /\ quarantine'[location] = content
        /\ \A g \in Generation \ {location} : quarantine'[g] = quarantine[g]
    BY <1>1, <1>2, <1>5 DEF PubTypeOK
  <1>7. /\ Published' = Published /\ Recent' = Recent /\ RecentPaths' = RecentPaths
        /\ HistoryTailed' /\ PublishedSound'
    BY <1>1 DEF Published, Recent, RecentPaths, HistoryTailed, PublishedSound
  <1>8. AllFound'
    <2>1. ASSUME NEW c \in Published
          PROVE  \/ archives'[c.path] = c.content
                 \/ \E d \in Published :
                      d.path = c.path /\ quarantine'[d.generation] = c.content
      <3>1. CASE c.path = path
        <4>1. c.content = content
          BY <1>1, <1>3, <3>1 DEF PublishedSound
        <4>2. QED
          BY <1>4, <1>6, <3>1, <4>1
      <3>2. CASE c.path # path
        <4>1. c.path \in Path /\ c.content \in Content
          BY <1>1, PublishedType
        <4>2. CASE archives[c.path] = c.content
          BY <1>6, <3>2, <4>1, <4>2
        <4>3. CASE archives[c.path] # c.content
          <5>1. PICK d \in Published :
                  d.path = c.path /\ quarantine[d.generation] = c.content
            BY <1>1, <4>3 DEF AllFound
          <5>2. d.generation \in Generation /\ d.generation # location
            BY <1>1, <1>2, <4>1, <5>1, PublishedType, PublicationAssumption
          <5>3. QED
            BY <1>6, <5>1, <5>2
        <4>4. QED
          BY <4>2, <4>3
      <3>3. QED
        BY <3>1, <3>2
    <2>2. ASSUME NEW c \in Recent PROVE archives'[c.path] = c.content
      <3>1. c.path # path /\ c.path \in Path
        BY <1>1, <1>2, PublishedType DEF RecentPaths, Recent
      <3>2. QED
        BY <1>1, <1>6, <3>1 DEF AllFound
    <2>3. QED
      BY <1>7, <2>1, <2>2 DEF AllFound
  <1>9. /\ command.pc = "mark" /\ command.retired = proc[p].retired \ {path}
        /\ proc'[p] = command /\ \A q \in Process \ {p} : proc'[q].pc \notin Locked
    BY <1>1, OthersFree DEF PubTypeOK, Command, Locked
  <1>10. PathsFound \ {path} \subseteq PathsFound'
    <2>1. ASSUME NEW other \in PathsFound \ {path}
          PROVE  /\ other \in PublishedPaths(history)
                 /\ archives'[other] = ContentOf(history, other)
                 /\ quarantine'[QuarantineOf(history, other)] = Nothing
      <3>1. /\ other \in PublishedPaths(history) /\ other \in Path
            /\ archives[other] = ContentOf(history, other)
            /\ quarantine[QuarantineOf(history, other)] = Nothing
        BY <1>1, PublishedTypes DEF PathsFound, AtPath, PubTypeOK
      <3>2. PICK d \in Published :
              d.path = other /\ QuarantineOf(history, other) = d.generation
        BY <3>1, GroupPublications
      <3>3. d.generation # location
        BY <1>1, <1>4, <3>2 DEF PublishedSound
      <3>4. QED
        BY <1>1, <1>6, <3>1, <3>2, <3>3, PublishedType
    <2>2. QED
      BY <1>1, <2>1 DEF PathsFound, AtPath
  <1>11. proc'[p].retired \subseteq PathsFound' /\ proc'[p].retired \cap RecentPaths' = {}
    BY <1>2, <1>7, <1>9, <1>10
  <1>12. QED
    BY <1>7, <1>8, <1>9, <1>11, HolderLog


LEMMA MoveBackLog ==
  ASSUME PubInv, PubInv', LogInv, NEW p \in Process, MoveBack(p)
  PROVE  LogInv'
  <1> DEFINE path == proc[p].path
             location == QuarantineOf(history, path)
             content == ContentOf(history, path)
  <1>1. /\ proc[p].pc = "restore" /\ proc' = [proc EXCEPT ![p].pc = "clear"]
        /\ UNCHANGED <<handoff, history>>
        /\ \/ UNCHANGED <<archives, quarantine>>
           \/ /\ quarantine[location] = content
              /\ archives' = [archives EXCEPT ![path] = quarantine[location]]
              /\ quarantine' = [quarantine EXCEPT ![location] = Nothing]
        /\ PubTypeOK /\ PublishedSound /\ AllFound /\ HistoryTailed
    BY DEF MoveBack, InQuarantine, PubInv, LogInv, Tailed, Locked
  <1>2. path \in PublishedPaths(history) /\ path \in Path
    BY <1>1, PublishedTypes DEF PubInv, PubTypeOK, AllSound, Sound
  <1>3. PICK a \in Published : a.path = path /\ content = a.content
    BY <1>2, GroupPublications
  <1>4. PICK b \in Published : b.path = path /\ location = b.generation
    BY <1>2, GroupPublications
  <1>5. location \in Generation /\ content \in Content
    BY <1>1, <1>2, QuarantineOfType, ContentOfType DEF PubTypeOK
  <1>6. /\ proc'[p].pc = "clear"
        /\ \A q \in Process \ {p} : proc'[q].pc \notin Locked
    BY <1>1, OthersFree DEF PubTypeOK, Command, Locked
  <1>7. /\ Published' = Published /\ Recent' = Recent
        /\ HistoryTailed' /\ PublishedSound'
    BY <1>1 DEF Published, Recent, HistoryTailed, PublishedSound
  <1>8. CASE UNCHANGED <<archives, quarantine>>
    <2>1. AllFound'
      BY <1>1, <1>7, <1>8 DEF AllFound
    <2>2. QED
      BY <1>6, <1>7, <2>1, HolderLog
  <1>9. CASE /\ quarantine[location] = content
             /\ archives' = [archives EXCEPT ![path] = quarantine[location]]
             /\ quarantine' = [quarantine EXCEPT ![location] = Nothing]
    <2> HIDE DEF location, content, path
    <2>1. /\ archives'[path] = content
          /\ \A other \in Path \ {path} : archives'[other] = archives[other]
          /\ \A g \in Generation \ {location} : quarantine'[g] = quarantine[g]
      BY <1>1, <1>2, <1>5, <1>9 DEF PubTypeOK
    <2>2. ASSUME NEW c \in Published
          PROVE  /\ \/ archives'[c.path] = c.content
                    \/ \E d \in Published :
                         d.path = c.path /\ quarantine'[d.generation] = c.content
                 /\ archives[c.path] = c.content => archives'[c.path] = c.content
      <3>1. CASE c.path = path
        <4>1. c.content = content
          BY <1>1, <1>3, <3>1 DEF PublishedSound
        <4>2. QED
          BY <2>1, <3>1, <4>1
      <3>2. CASE c.path # path
        <4>1. c.path \in Path /\ archives'[c.path] = archives[c.path]
          BY <1>1, <2>1, <3>2, PublishedType
        <4>2. CASE archives[c.path] = c.content
          BY <4>1, <4>2
        <4>3. CASE archives[c.path] # c.content
          <5>1. PICK d \in Published :
                  d.path = c.path /\ quarantine[d.generation] = c.content
            BY <1>1, <4>3 DEF AllFound
          <5>2. d.generation \in Generation /\ d.generation # location
            BY <1>1, <1>4, <3>2, <5>1, PublishedType DEF PublishedSound
          <5>3. QED
            BY <2>1, <4>3, <5>1, <5>2
        <4>4. QED
          BY <4>2, <4>3
      <3>3. QED
        BY <3>1, <3>2
    <2>3. AllFound'
      BY <1>1, <1>7, <2>2 DEF AllFound, Recent
    <2>4. QED
      BY <1>6, <1>7, <2>3, HolderLog
  <1>10. QED
    BY <1>1, <1>8, <1>9

LEMMA InitLog == PubInit => LogInv
  <1> SUFFICES ASSUME PubInit PROVE LogInv
    OBVIOUS
  <1>1. Published = {} /\ handoff = Nothing /\ history = <<>>
        /\ \A p \in Process : proc[p].pc = "idle"
    BY IdleType DEF PubInit, Published
  <1>2. Recent = {} /\ DOMAIN history = {}
    BY <1>1 DEF Recent
  <1>3. QED
    BY <1>1, <1>2 DEF LogInv, PublishedSound, Ordered, Tailed, RetiredSound,
       AllFound, Locked

LEMMA LogNext ==
  ASSUME PubInv, PubInv', LogInv, [PubNext]_pubVars
  PROVE  LogInv'
  <1>1. CASE UNCHANGED pubVars
    <2>1. /\ UNCHANGED <<archives, quarantine, handoff, history, proc>>
          /\ SamePublications(history, history')
      BY <1>1 DEF pubVars, diskVars, SamePublications
    <2>2. QED
      BY <2>1, DiskSame, AsideLog DEF LogInv
  <1>2. ASSUME NEW p \in Process, PubStep(p) PROVE LogInv'
    <2>1. CASE Capture(p) \/ StartPublishNext(p) \/ WriteHandoff(p) \/ RecordPublication(p)
      BY <2>1, CaptureLog, StartPublishNextLog, WriteHandoffLog, RecordLog
    <2>2. CASE \E path \in Path, content \in Content : Build(p, path, content)
      BY <2>2, BuildLog
    <2>3. CASE \E path \in Path, generation \in Generation : StartPublish(p, path, generation)
      BY <2>3, StartPublishLog
    <2>4. CASE \E retain \in Retentions : StartQuarantine(p, retain)
      BY <2>4, StartQuarantineLog
    <2>5. CASE \E path \in Path : RepairRecord(p, path) \/ MoveToQuarantine(p, path)
      BY <2>5, RepairLog, MoveToQuarantineLog
    <2>6. CASE CheckRetired(p) \/ MarkQuarantined(p) \/ FinishQuarantine(p)
      BY <2>6, CheckLog, MarkLog, FinishLog
    <2>7. CASE \E generation \in Generation : StartRestore(p, generation)
      BY <2>7, StartRestoreLog
    <2>8. CASE MoveBack(p) \/ ClearQuarantine(p) \/ Stop(p)
      BY <2>8, MoveBackLog, ClearLog, StopLog
    <2>9. QED
      BY <1>2, <2>1, <2>2, <2>3, <2>4, <2>5, <2>6, <2>7, <2>8 DEF PubStep
  <1>3. QED
    BY <1>1, <1>2 DEF PubNext

(* What the two files tell is sound, and everything they name is found,      *)
(* whatever is published, retired, restored or stopped halfway.              *)
THEOREM LogInvariance == PubSpec => []LogInv
  <1>1. PubInv /\ PubInv' /\ LogInv /\ [PubNext]_pubVars => LogInv'
    BY LogNext
  <1>2. QED
    BY InitLog, <1>1, PublicationInvariance, PTL DEF PubSpec

-----------------------------------------------------------------------------
(* The log in order.                                                         *)

LEMMA LogOrdered ==
  ASSUME PubInv, PublishedSound
  PROVE  /\ Log \in Seq(Publication)
         /\ \A i \in DOMAIN Log : Log[i] \in Published
         /\ \A a \in Published : \E i \in DOMAIN Log : Log[i] = a
         /\ \A i, j \in DOMAIN Log : i < j => Log[i].generation < Log[j].generation
  <1> DEFINE recorded == [i \in DOMAIN history |-> history[i].publication]
  <1>1. history \in Seq(Entry) /\ handoff \in Publication \cup {Nothing}
    BY DEF PubInv, PubTypeOK
  <1>2. /\ recorded \in Seq(Publication) /\ DOMAIN recorded = DOMAIN history
        /\ \A i \in DOMAIN history : recorded[i] = history[i].publication
        /\ Len(recorded) = Len(history)
    <2>1. PICK n \in Nat : DOMAIN history = 1 .. n
      BY <1>1
    <2>2. recorded \in [1 .. n -> Publication]
      BY <1>1, <2>1, EntryTypes
    <2>3. recorded \in Seq(Publication)
      BY <2>2, SeqDef
    <2>4. QED
      BY <1>1, <2>3
  <1> HIDE DEF recorded
  <1>3. \A i, j \in DOMAIN recorded : i < j => recorded[i].generation < recorded[j].generation
    BY <1>2 DEF PublishedSound, Ordered
  <1>4. CASE handoff = Nothing \/ (history # <<>> /\ Last(recorded) = handoff)
    <2>1. Log = recorded
      BY <1>4 DEF Log, recorded
    <2>2. Published = {recorded[i] : i \in DOMAIN recorded}
      <3>1. CASE handoff = Nothing
        BY <1>2, <3>1 DEF Published
      <3>2. CASE history # <<>> /\ Last(recorded) = handoff
        <4>1. Len(history) \in DOMAIN history /\ history[Len(history)].publication = handoff
          BY <1>1, <1>2, <3>2 DEF Last
        <4>2. QED
          BY <1>2, <4>1 DEF Published
      <3>3. QED
        BY <1>4, <3>1, <3>2
    <2>3. QED
      BY <1>2, <1>3, <2>1, <2>2
  <1>5. CASE handoff # Nothing /\ ~(history # <<>> /\ Last(recorded) = handoff)
    <2>1. Log = Append(recorded, handoff) /\ handoff \in Publication
      BY <1>1, <1>5 DEF Log, recorded
    <2>2. /\ Log \in Seq(Publication) /\ DOMAIN Log = 1 .. Len(recorded) + 1
          /\ \A i \in DOMAIN recorded : i \in DOMAIN Log /\ Log[i] = recorded[i]
          /\ Len(recorded) + 1 \in DOMAIN Log /\ Log[Len(recorded) + 1] = handoff
          /\ \A i \in DOMAIN Log : i \in DOMAIN recorded \/ i = Len(recorded) + 1
      BY <1>2, <2>1
    <2>3. Published = {recorded[i] : i \in DOMAIN recorded} \cup {handoff}
      BY <1>2, <1>5 DEF Published
    <2>4. ASSUME NEW i \in DOMAIN recorded
          PROVE  recorded[i].generation < handoff.generation
      <3>1. recorded[i] \in Published /\ handoff \in Published
        BY <2>3
      <3>2. recorded[i].generation <= handoff.generation
        BY <1>5, <3>1 DEF PublishedSound
      <3>3. recorded[i].generation \in Nat /\ handoff.generation \in Nat
        BY <3>1, PublishedType, PublicationAssumption DEF PubInv, Generation
      <3>4. ASSUME recorded[i].generation = handoff.generation
            PROVE  FALSE
        <4>1. recorded[i] = handoff
          BY <3>1, <3>4 DEF PublishedSound
        <4>2. i # Len(recorded)
          BY <1>2, <1>5, <4>1 DEF Last
        <4>3. i < Len(recorded) /\ Len(recorded) \in DOMAIN recorded
          BY <1>2, <4>2
        <4>4. recorded[i].generation < recorded[Len(recorded)].generation
                /\ recorded[Len(recorded)] \in Published
          BY <1>3, <2>3, <4>3
        <4>5. /\ recorded[Len(recorded)].generation <= handoff.generation
              /\ recorded[Len(recorded)].generation \in Nat
          BY <1>5, <4>4, PublishedType, PublicationAssumption
             DEF PublishedSound, PubInv, Generation
        <4>6. QED
          BY <3>3, <3>4, <4>4, <4>5
      <3>5. QED
        BY <3>2, <3>3, <3>4
    <2>5. ASSUME NEW i \in DOMAIN Log, NEW j \in DOMAIN Log, i < j
          PROVE  Log[i].generation < Log[j].generation
      <3>1. i \in DOMAIN recorded
        BY <1>2, <2>2, <2>5
      <3>2. CASE j \in DOMAIN recorded
        BY <1>3, <2>2, <2>5, <3>1, <3>2
      <3>3. CASE j = Len(recorded) + 1
        BY <2>2, <2>4, <3>1, <3>3
      <3>4. QED
        BY <2>2, <3>2, <3>3
    <2>6. QED
      BY <2>2, <2>3, <2>5
  <1>6. QED
    BY <1>4, <1>5

(* GreenBubbles never deletes an archive it published: whatever quarantine,  *)
(* restoration, publication or stop comes between, every publication the two *)
(* files name has its archive at its path or in quarantine.                  *)
THEOREM NothingLostHolds == PubSpec => []NothingLost
  <1>1. PubInv /\ LogInv => NothingLost
    <2> SUFFICES ASSUME PubInv, LogInv, NEW i \in DOMAIN Log
                 PROVE  \/ archives[Log[i].path] = Log[i].content
                        \/ \E g \in Generation : quarantine[g] = Log[i].content
                             /\ \E j \in DOMAIN Log : /\ Log[j].generation = g
                                                      /\ Log[j].path = Log[i].path
      BY DEF NothingLost
    <2>1. Log[i] \in Published /\ \A a \in Published : \E j \in DOMAIN Log : Log[j] = a
      BY LogOrdered DEF LogInv
    <2>2. CASE archives[Log[i].path] = Log[i].content
      BY <2>2
    <2>3. CASE archives[Log[i].path] # Log[i].content
      <3>1. PICK b \in Published :
              b.path = Log[i].path /\ quarantine[b.generation] = Log[i].content
        BY <2>1, <2>3 DEF LogInv, AllFound
      <3>2. b.generation \in Generation
        BY PublishedType DEF PubInv
      <3>3. QED
        BY <2>1, <3>1, <3>2
    <2>4. QED
      BY <2>2, <2>3
  <1>2. QED
    BY <1>1, PublicationInvariance, LogInvariance, PTL

(* The current publication and the one before it are at the paths they were  *)
(* published with, where a follower looks for them: nothing that retires or  *)
(* restores archives takes them away, not even for a moment.                 *)
THEOREM ProtectedServableHolds == PubSpec => []ProtectedServable
  <1>1. PubInv /\ LogInv => ProtectedServable
    <2> SUFFICES ASSUME PubInv, LogInv, NEW i \in DOMAIN Log, i + 2 > Len(Log)
                 PROVE  Verified(Log[i])
      BY DEF ProtectedServable
    <2>1. /\ Log \in Seq(Publication) /\ Log[i] \in Published
          /\ \A a \in Published : \E j \in DOMAIN Log : Log[j] = a
          /\ \A j, k \in DOMAIN Log : j < k => Log[j].generation < Log[k].generation
      BY LogOrdered DEF LogInv
    <2>2. ASSUME NEW j \in DOMAIN Log PROVE Log[j].generation \in Nat
      <3>1. Log[j] \in Published
        BY LogOrdered DEF LogInv
      <3>2. QED
        BY <3>1, PublishedType, PublicationAssumption DEF PubInv, Generation
    <2>3. ASSUME NEW b \in Published, b.generation > Log[i].generation
          PROVE  b = Log[i + 1]
      <3>1. PICK j \in DOMAIN Log : Log[j] = b
        BY <2>1
      <3>2. ~(j < i) /\ j # i
        BY <2>1, <2>2, <2>3, <3>1
      <3>3. j = i + 1
        BY <2>1, <3>2
      <3>4. QED
        BY <3>1, <3>3
    <2>4. Log[i] \in Recent
      BY <2>1, <2>3 DEF Recent
    <2>5. QED
      BY <2>4 DEF LogInv, AllFound, Verified
  <1>2. QED
    BY <1>1, PublicationInvariance, LogInvariance, PTL

-----------------------------------------------------------------------------
(* The follower beside the publication.                                     *)

\* The followers that hold the lock of the follow state
Applying == {"locked", "bootstrap", "synchronize", "seal"}

FollowTypeOK ==
  /\ replica \in Checkpoint \cup {Nothing}
  /\ followState \in FollowState \cup {Nothing}
  /\ follower \in [Follower -> Working]
  /\ newest \in Nat

StateLockHeld == \A f \in Follower : follower[f].pc \in Applying => stateHolder = f

\* The replica was given nothing newer than the handoff.
GivenPublished == newest > 0 => handoff # Nothing /\ newest <= handoff.generation

(* What a follower rests on, `current` being the handoff, `given` the        *)
(* generation of the replica and `base` the replica: it works on a former    *)
(* handoff, under the lock on one that is not older than the replica, and    *)
(* it seals exactly what the replica was given.                              *)
Offered(work, current, given, base) ==
  /\ work.pc # "idle" => current # Nothing
  /\ work.pc \in Applying \cup {"loaded"} =>
       work.publication \in Publication /\ work.publication.generation <= current.generation
  /\ work.pc \in Applying => given <= work.publication.generation
  /\ work.pc = "seal" => given = work.publication.generation /\ base # Nothing

AllOffered == \A f \in Follower : Offered(follower[f], handoff, newest, replica)

FollowInv ==
  /\ PubInv /\ FollowTypeOK /\ StateLockHeld
  /\ GivenPublished /\ AllOffered /\ StateCommitted

FollowKept == FollowInv' /\ newest' >= newest

-----------------------------------------------------------------------------
LEMMA PublicationFields ==
  ASSUME NEW publication \in Publication
  PROVE  /\ publication.generation \in Nat /\ publication.generation > 0
         /\ publication.generation \in Generation
         /\ publication.content \in Content
  BY PublicationAssumption DEF Publication, Generation

LEMMA InitFollow == FollowInit => FollowInv
  <1>1. FollowInit => PubInv
    BY InitPub DEF FollowInit
  <1>2. Started \in Working /\ Started.pc = "idle"
    BY DEF Started, Working
  <1> HIDE DEF Started
  <1>3. FollowInit => FollowTypeOK /\ StateLockHeld /\ GivenPublished /\ StateCommitted
    BY <1>2 DEF FollowInit, FollowTypeOK, StateLockHeld, Applying, GivenPublished,
       StateCommitted
  <1>4. FollowInit => AllOffered
    BY <1>2 DEF FollowInit, AllOffered, Offered, Applying
  <1>5. QED
    BY <1>1, <1>3, <1>4 DEF FollowInv

(* The publisher works on: handoffs are replaced by newer ones, and nothing  *)
(* a follower rests on is disturbed.                                         *)
LEMMA PublisherKeeps ==
  ASSUME FollowInv, PubNext, UNCHANGED followVars
  PROVE  FollowKept
  <1>1. PubInv' /\ HandoffStep
    BY PubStepKeeps DEF FollowInv, Kept
  <1>2. UNCHANGED <<replica, followState, stateHolder, follower, newest>>
    BY DEF followVars
  <1>3. handoff # Nothing =>
          /\ handoff' # Nothing /\ handoff.generation \in Nat /\ handoff'.generation \in Nat
          /\ handoff.generation <= handoff'.generation
    <2>1. handoff \in Publication \cup {Nothing}
      BY DEF FollowInv, PubInv, PubTypeOK
    <2>2. CASE handoff' = handoff
      BY <2>1, <2>2, PublicationFields
    <2>3. CASE handoff' # handoff
      BY <1>1, <2>1, <2>3, PublicationFields, PublicationAssumption DEF HandoffStep
    <2>4. QED
      BY <2>2, <2>3
  <1>4. GivenPublished'
    BY <1>2, <1>3 DEF FollowInv, FollowTypeOK, GivenPublished
  <1>5. AllOffered'
    <2> SUFFICES ASSUME NEW f \in Follower
                 PROVE  Offered(follower[f], handoff, newest, replica)'
      BY DEF AllOffered
    <2>1. Offered(follower[f], handoff, newest, replica)
      BY DEF FollowInv, AllOffered
    <2>2. follower[f].publication \in Publication => follower[f].publication.generation \in Nat
      BY PublicationFields
    <2>3. QED
      BY <1>2, <1>3, <2>1, <2>2 DEF Offered, Applying
  <1>6. FollowTypeOK' /\ StateLockHeld' /\ StateCommitted' /\ newest' >= newest
    BY <1>2 DEF FollowInv, FollowTypeOK, StateLockHeld, StateCommitted
  <1>7. QED
    BY <1>1, <1>4, <1>5, <1>6 DEF FollowInv, FollowKept

(* What a step of one follower must leave true                               *)
LEMMA FollowerMoves ==
  ASSUME FollowInv, NEW f \in Follower, NEW work \in Working, UNCHANGED pubVars,
         follower' = [follower EXCEPT ![f] = work],
         work.pc \in Applying => stateHolder' = f,
         \A g \in Follower \ {f} : stateHolder = g => stateHolder' = g,
         Offered(work, handoff, newest', replica'),
         newest' \in Nat, replica' \in Checkpoint \cup {Nothing},
         followState' \in FollowState \cup {Nothing},
         \/ UNCHANGED <<newest, replica>>
         \/ follower[f].pc \in Applying /\ newest' = follower[f].publication.generation,
         StateCommitted'
  PROVE  FollowKept
  <1>1. UNCHANGED <<archives, quarantine, handoff, history, holder, proc>>
    BY DEF pubVars, diskVars
  <1>2. PubInv'
    BY <1>1 DEF FollowInv, PubInv, PubTypeOK, LockHeld, AllSound
  <1>3. /\ follower' \in [Follower -> Working] /\ follower'[f] = work
        /\ \A g \in Follower \ {f} : follower'[g] = follower[g]
    BY DEF FollowInv, FollowTypeOK
  <1>4. FollowTypeOK'
    BY <1>3 DEF FollowTypeOK
  <1>5. StateLockHeld'
    BY <1>3 DEF FollowInv, StateLockHeld
  <1>6. newest' >= newest /\ GivenPublished'
    <2>1. newest \in Nat /\ GivenPublished /\ Offered(follower[f], handoff, newest, replica)
      BY DEF FollowInv, FollowTypeOK, AllOffered
    <2>2. CASE UNCHANGED newest
      BY <1>1, <2>1, <2>2 DEF GivenPublished
    <2>3. CASE follower[f].pc \in Applying /\ newest' = follower[f].publication.generation
      BY <1>1, <2>1, <2>3 DEF GivenPublished, Offered, Applying
    <2>4. QED
      BY <2>2, <2>3
  <1>7. AllOffered'
    <2> SUFFICES ASSUME NEW g \in Follower
                 PROVE  Offered(follower'[g], handoff', newest', replica')
      BY DEF AllOffered
    <2>1. CASE g = f
      BY <1>1, <1>3, <2>1
    <2>2. CASE g # f /\ UNCHANGED <<newest, replica>>
      BY <1>1, <1>3, <2>2 DEF FollowInv, AllOffered
    <2>3. CASE g # f /\ follower[f].pc \in Applying
      <3>1. follower[g].pc \notin Applying
        BY <2>3 DEF FollowInv, StateLockHeld
      <3>2. QED
        BY <1>1, <1>3, <2>3, <3>1 DEF FollowInv, AllOffered, Offered, Applying
    <2>4. QED
      BY <2>1, <2>2, <2>3
  <1>8. QED
    BY <1>2, <1>4, <1>5, <1>6, <1>7 DEF FollowInv, FollowKept

\* A step that leaves the replica, its generation and the state alone
LEMMA ReplicaKept ==
  ASSUME FollowInv, UNCHANGED <<replica, followState, newest>>
  PROVE  /\ newest' \in Nat /\ replica' \in Checkpoint \cup {Nothing}
         /\ followState' \in FollowState \cup {Nothing}
         /\ StateCommitted'
  BY DEF FollowInv, FollowTypeOK, StateCommitted

\* A follower that ends, in whatever way, rests on nothing.
LEMMA EndsKeeps ==
  ASSUME FollowInv, NEW f \in Follower, NEW seen \in Publication \cup {Nothing},
         follower' = [follower EXCEPT ![f] = [Started EXCEPT !.seen = seen]],
         \A g \in Follower \ {f} : stateHolder = g => stateHolder' = g,
         UNCHANGED pubVars, UNCHANGED <<newest, replica>>,
         followState' \in FollowState \cup {Nothing}, StateCommitted'
  PROVE  FollowKept
  <1> DEFINE work == [Started EXCEPT !.seen = seen]
  <1>1. work \in Working /\ work.pc = "idle"
    BY DEF Started, Working
  <1> HIDE DEF work
  <1>2. Offered(work, handoff, newest', replica')
    BY <1>1 DEF Offered, Applying
  <1>3. newest' \in Nat /\ replica' \in Checkpoint \cup {Nothing}
    BY DEF FollowInv, FollowTypeOK
  <1>4. follower' = [follower EXCEPT ![f] = work]
    BY DEF work
  <1>5. work.pc \notin Applying
    BY <1>1 DEF Applying
  <1>6. QED
    BY <1>1, <1>2, <1>3, <1>4, <1>5, FollowerMoves

-----------------------------------------------------------------------------
(* The steps of a follower.                                                  *)

LEMMA PollKeeps ==
  ASSUME FollowInv, NEW f \in Follower, Poll(f)
  PROVE  FollowKept
  <1> DEFINE work == [follower[f] EXCEPT !.pc = "polled", !.marker = handoff]
  <1>1. /\ follower' = [follower EXCEPT ![f] = work] /\ handoff # Nothing
        /\ UNCHANGED <<pubVars, replica, followState, stateHolder, newest>>
    BY DEF Poll
  <1>2. follower[f] \in Working /\ handoff \in Publication
    BY <1>1 DEF FollowInv, FollowTypeOK, PubInv, PubTypeOK
  <1>3. work \in Working /\ work.pc = "polled"
    BY <1>2 DEF Working
  <1> HIDE DEF work
  <1>4. Offered(work, handoff, newest', replica') /\ work.pc \notin Applying
    BY <1>1, <1>3 DEF Offered, Applying
  <1>5. QED
    BY <1>1, <1>3, <1>4, ReplicaKept, FollowerMoves

LEMMA LoadKeeps ==
  ASSUME FollowInv, NEW f \in Follower, Load(f)
  PROVE  FollowKept
  <1> DEFINE work == [follower[f] EXCEPT !.pc = "loaded", !.publication = handoff]
  <1>1. /\ follower' = [follower EXCEPT ![f] = work] /\ follower[f].pc = "polled"
        /\ UNCHANGED <<pubVars, replica, followState, stateHolder, newest>>
    BY DEF Load
  <1>2. follower[f] \in Working /\ handoff \in Publication
    BY <1>1 DEF FollowInv, FollowTypeOK, PubInv, PubTypeOK, AllOffered, Offered
  <1>3. work \in Working /\ work.pc = "loaded" /\ work.publication = handoff
    BY <1>2 DEF Working
  <1> HIDE DEF work
  <1>4. Offered(work, handoff, newest', replica') /\ work.pc \notin Applying
    BY <1>1, <1>2, <1>3, PublicationFields, PublicationAssumption DEF Offered, Applying
  <1>5. QED
    BY <1>1, <1>3, <1>4, ReplicaKept, FollowerMoves

LEMMA LockKeeps ==
  ASSUME FollowInv, NEW f \in Follower, Lock(f)
  PROVE  FollowKept
  <1> DEFINE work == [follower[f] EXCEPT !.pc = "locked"]
  <1>1. /\ follower' = [follower EXCEPT ![f] = work] /\ follower[f].pc = "loaded"
        /\ handoff = follower[f].publication
        /\ stateHolder = Nothing /\ stateHolder' = f
        /\ UNCHANGED <<pubVars, replica, followState, newest>>
    BY DEF Lock
  <1>2. follower[f] \in Working /\ Offered(follower[f], handoff, newest, replica)
    BY DEF FollowInv, FollowTypeOK, AllOffered
  <1>3. work \in Working /\ work.pc = "locked" /\ work.publication = handoff
    BY <1>1, <1>2 DEF Working
  <1> HIDE DEF work
  <1>4. handoff \in Publication /\ handoff # Nothing
    BY <1>1, <1>2, PublicationAssumption DEF Offered, Applying
  <1>5. newest \in Nat /\ newest <= handoff.generation
    BY <1>4, PublicationFields DEF FollowInv, FollowTypeOK, GivenPublished
  <1>6. Offered(work, handoff, newest', replica')
    BY <1>1, <1>3, <1>4, <1>5, PublicationFields DEF Offered, Applying
  <1>7. \A g \in Follower \ {f} : stateHolder = g => stateHolder' = g
    BY <1>1, FollowerAssumption
  <1>8. QED
    BY <1>1, <1>3, <1>6, <1>7, ReplicaKept, FollowerMoves

LEMMA AuditKeeps ==
  ASSUME FollowInv, NEW f \in Follower, Audit(f)
  PROVE  FollowKept
  <1> DEFINE publication == follower[f].publication
             decision == Decision(publication)
             work == [follower[f] EXCEPT !.pc = decision]
  <1>1. /\ follower' = [follower EXCEPT ![f] = work] /\ follower[f].pc = "locked"
        /\ decision \in {"bootstrap", "synchronize", "seal"}
        /\ newest' = IF decision = "seal" THEN publication.generation ELSE newest
        /\ UNCHANGED <<pubVars, replica, followState, stateHolder>>
    BY DEF Audit
  <1>2. follower[f] \in Working /\ Offered(follower[f], handoff, newest, replica)
    BY DEF FollowInv, FollowTypeOK, AllOffered
  <1>3. decision = "seal" => replica # Nothing /\ followState = Nothing
    BY DEF Decision
  <1> HIDE DEF decision
  <1>4. work \in Working /\ work.pc = decision /\ work.publication = publication
    BY <1>1, <1>2 DEF Working
  <1>5. stateHolder' = f
    BY <1>1 DEF FollowInv, StateLockHeld, Applying
  <1> HIDE DEF work
  <1>6. /\ publication \in Publication /\ publication.generation \in Nat /\ newest \in Nat
        /\ newest <= publication.generation /\ publication.generation <= handoff.generation
        /\ handoff # Nothing
    BY <1>1, <1>2, PublicationFields DEF FollowInv, FollowTypeOK, Offered, Applying
  <1>7. newest' \in Nat /\ newest' <= publication.generation
    BY <1>1, <1>6
  <1>8. Offered(work, handoff, newest', replica')
    BY <1>1, <1>3, <1>4, <1>6, <1>7 DEF Offered, Applying
  <1>9. /\ replica' \in Checkpoint \cup {Nothing} /\ followState' \in FollowState \cup {Nothing}
        /\ StateCommitted'
    <2>1. CASE decision = "seal"
      BY <1>1, <1>3, <2>1 DEF FollowInv, FollowTypeOK, StateCommitted
    <2>2. CASE decision # "seal"
      BY <1>1, <2>2, ReplicaKept
    <2>3. QED
      BY <2>1, <2>2
  <1>10. \/ UNCHANGED <<newest, replica>>
         \/ follower[f].pc \in Applying /\ newest' = follower[f].publication.generation
    BY <1>1 DEF Applying
  <1>11. \A g \in Follower \ {f} : stateHolder = g => stateHolder' = g
    BY <1>1
  <1>12. QED
    BY <1>1, <1>4, <1>5, <1>7, <1>8, <1>9, <1>10, <1>11, FollowerMoves

LEMMA ApplyKeeps ==
  ASSUME FollowInv, NEW f \in Follower, Apply(f)
  PROVE  FollowKept
  <1> DEFINE publication == follower[f].publication
             work == [follower[f] EXCEPT !.pc = "seal"]
  <1>1. /\ follower[f].pc \in {"bootstrap", "synchronize"}
        /\ replica' = Applied(publication.content)
        /\ newest' = publication.generation
        /\ follower' = [follower EXCEPT ![f] = work]
        /\ UNCHANGED <<pubVars, followState, stateHolder>>
    BY DEF Apply
  <1>2. follower[f] \in Working /\ Offered(follower[f], handoff, newest, replica)
    BY DEF FollowInv, FollowTypeOK, AllOffered
  <1>3. work \in Working /\ work.pc = "seal" /\ work.publication = publication
    BY <1>2 DEF Working
  <1>4. stateHolder' = f
    BY <1>1 DEF FollowInv, StateLockHeld, Applying
  <1> HIDE DEF work
  <1>5. /\ publication \in Publication /\ publication.generation \in Nat /\ newest \in Nat
        /\ newest <= publication.generation /\ publication.generation <= handoff.generation
        /\ handoff # Nothing /\ publication.content \in Content
    BY <1>1, <1>2, PublicationFields DEF FollowInv, FollowTypeOK, Offered, Applying
  <1> HIDE DEF publication
  <1>6. /\ replica' \in Checkpoint
        /\ replica # Nothing =>
             \/ replica' = replica
             \/ /\ replica.revision \in Nat /\ replica'.revision = replica.revision + 1
    <2>1. replica \in Checkpoint \cup {Nothing}
      BY DEF FollowInv, FollowTypeOK
    <2>2. CASE replica = Nothing
      BY <1>1, <1>5, <2>2 DEF Applied, Checkpoint
    <2>3. CASE replica # Nothing /\ replica.content = publication.content
      BY <1>1, <2>1, <2>3 DEF Applied
    <2>4. CASE replica # Nothing /\ replica.content # publication.content
      <3>1. replica' = [content |-> publication.content, revision |-> replica.revision + 1]
        BY <1>1, <2>4 DEF Applied
      <3>2. replica.revision \in Nat
        BY <2>1, <2>4 DEF Checkpoint
      <3>3. QED
        BY <1>5, <3>1, <3>2 DEF Checkpoint
    <2>5. QED
      BY <2>2, <2>3, <2>4
  <1>7. replica' # Nothing
    BY <1>6, FollowerAssumption
  <1>8. Offered(work, handoff, newest', replica')
    BY <1>1, <1>3, <1>5, <1>7 DEF Offered, Applying
  <1>9. StateCommitted'
    <2> SUFFICES ASSUME followState # Nothing
                 PROVE  /\ followState.generation <= newest'
                        /\ followState.revision <= replica'.revision
                        /\ followState.revision = replica'.revision
                             => followState.content = replica'.content
      BY <1>1, <1>7 DEF StateCommitted
    <2>1. followState \in FollowState /\ followState.generation \in Nat
          /\ followState.revision \in Nat
      BY PublicationAssumption DEF FollowInv, FollowTypeOK, FollowState, Generation
    <2>2. /\ replica # Nothing /\ followState.generation <= newest
          /\ followState.revision <= replica.revision
          /\ followState.revision = replica.revision => followState.content = replica.content
      BY DEF FollowInv, StateCommitted
    <2>3. QED
      BY <1>1, <1>5, <1>6, <2>1, <2>2
  <1>10. followState' \in FollowState \cup {Nothing}
    BY <1>1 DEF FollowInv, FollowTypeOK
  <1>11. follower[f].pc \in Applying /\ newest' = follower[f].publication.generation
    BY <1>1 DEF Applying, publication
  <1>12. \A g \in Follower \ {f} : stateHolder = g => stateHolder' = g
    BY <1>1
  <1>13. newest' \in Nat
    BY <1>1, <1>5
  <1>14. QED
    BY <1>1, <1>3, <1>4, <1>6, <1>8, <1>9, <1>10, <1>11, <1>12, <1>13, FollowerMoves

LEMMA SealKeeps ==
  ASSUME FollowInv, NEW f \in Follower, Seal(f)
  PROVE  FollowKept
  <1> DEFINE publication == follower[f].publication
  <1>1. /\ follower[f].pc = "seal" /\ stateHolder' = Nothing
        /\ followState' = [generation |-> publication.generation,
                           content |-> replica.content, revision |-> replica.revision]
        /\ follower' = [follower EXCEPT ![f] = [Started EXCEPT !.seen = follower[f].marker]]
        /\ UNCHANGED <<pubVars, replica, newest>>
    BY DEF Seal, Finished, Sealed
  <1>2. /\ replica \in Checkpoint /\ newest = publication.generation
        /\ publication \in Publication /\ stateHolder = f
    BY <1>1 DEF FollowInv, FollowTypeOK, AllOffered, Offered, Applying, StateLockHeld
  <1>3. publication.generation \in Generation /\ publication.generation \in Nat
    BY <1>2, PublicationFields
  <1>4. /\ followState' \in FollowState /\ followState'.generation = publication.generation
        /\ followState'.content = replica.content /\ followState'.revision = replica.revision
    BY <1>1, <1>2, <1>3 DEF FollowState, Checkpoint
  <1>5. StateCommitted'
    <2>1. replica # Nothing /\ replica.revision \in Nat
      BY <1>2, FollowerAssumption DEF Checkpoint
    <2>2. QED
      BY <1>1, <1>2, <1>3, <1>4, <2>1 DEF StateCommitted
  <1>6. follower[f].marker \in Publication \cup {Nothing}
    BY DEF FollowInv, FollowTypeOK, Working
  <1>7. \A g \in Follower \ {f} : stateHolder = g => stateHolder' = g
    BY <1>2
  <1>8. QED
    BY <1>1, <1>4, <1>5, <1>6, <1>7, EndsKeeps

LEMMA AlreadyAppliedKeeps ==
  ASSUME FollowInv, NEW f \in Follower, AlreadyApplied(f)
  PROVE  FollowKept
  <1>1. /\ follower[f].pc = "locked" /\ stateHolder' = Nothing
        /\ follower' = [follower EXCEPT ![f] = [Started EXCEPT !.seen = follower[f].marker]]
        /\ UNCHANGED <<pubVars, replica, followState, newest>>
    BY DEF AlreadyApplied, Finished
  <1>2. stateHolder = f /\ follower[f].marker \in Publication \cup {Nothing}
    BY <1>1 DEF FollowInv, FollowTypeOK, Working, StateLockHeld, Applying
  <1>3. \A g \in Follower \ {f} : stateHolder = g => stateHolder' = g
    BY <1>2
  <1>4. QED
    BY <1>1, <1>2, <1>3, ReplicaKept, EndsKeeps

LEMMA ExitsKeeps ==
  ASSUME FollowInv, NEW f \in Follower, Exits(f)
  PROVE  FollowKept
  <1>1. /\ follower' = [follower EXCEPT ![f] = Started]
        /\ stateHolder' = IF stateHolder = f THEN Nothing ELSE stateHolder
        /\ UNCHANGED <<pubVars, replica, followState, newest>>
    BY DEF Exits
  <1>2. Started = [Started EXCEPT !.seen = Nothing]
    BY DEF Started
  <1>3. \A g \in Follower \ {f} : stateHolder = g => stateHolder' = g
    BY <1>1
  <1>4. QED
    BY <1>1, <1>2, <1>3, ReplicaKept, EndsKeeps

-----------------------------------------------------------------------------
LEMMA FollowStepKeeps ==
  ASSUME FollowInv, [FollowNext]_allVars
  PROVE  FollowKept
  <1>1. CASE UNCHANGED allVars
    <2>1. UNCHANGED pubVars /\ UNCHANGED followVars
      BY <1>1 DEF allVars
    <2>2. PubInv'
      BY <2>1 DEF FollowInv, PubInv, PubTypeOK, LockHeld, AllSound, pubVars, diskVars
    <2>3. QED
      BY <2>1, <2>2 DEF FollowKept, FollowInv, FollowTypeOK, StateLockHeld,
         GivenPublished, AllOffered, StateCommitted, pubVars, diskVars, followVars
  <1>2. CASE PubNext /\ UNCHANGED followVars
    BY <1>2, PublisherKeeps
  <1>3. ASSUME NEW f \in Follower, FollowStep(f) \/ Fault(f) PROVE FollowKept
    <2>1. CASE Refuse(f) \/ Fault(f)
      BY <2>1, ExitsKeeps DEF Refuse, Fault
    <2>2. QED
      BY <1>3, <2>1, PollKeeps, LoadKeeps, LockKeeps, AuditKeeps, AlreadyAppliedKeeps,
         ApplyKeeps, SealKeeps DEF FollowStep
  <1>4. QED
    BY <1>1, <1>2, <1>3 DEF FollowNext

(* What a follower works on was published, under its lock nothing older than *)
(* what the replica holds, and the follow state claims only what committed.  *)
THEOREM FollowInvariance == FollowSpec => []FollowInv
  <1>1. FollowInv /\ [FollowNext]_allVars => FollowInv'
    BY FollowStepKeeps DEF FollowKept
  <1>2. QED
    BY InitFollow, <1>1, PTL DEF FollowSpec

(* A follow state names a checkpoint the replica committed, whichever steps  *)
(* of publishers and followers a crash falls between.                        *)
THEOREM StateCommittedHolds == FollowSpec => []StateCommitted
  <1>1. FollowInv => StateCommitted
    BY DEF FollowInv
  <1>2. QED
    BY FollowInvariance, <1>1, PTL

(* A replica never goes back to an older publication, however many followers *)
(* apply to it and whatever is published between their decision and commit.  *)
THEOREM NoRollbackHolds == FollowSpec => NoRollback
  <1>1. FollowInv /\ [FollowNext]_allVars => newest' >= newest
    BY FollowStepKeeps DEF FollowKept
  <1>2. NoRollback <=> [][newest' >= newest]_allVars
    BY PTL DEF NoRollback
  <1>3. QED
    BY FollowInvariance, <1>1, <1>2, PTL DEF FollowSpec
=============================================================================
