------------------------- MODULE ChangeConsumerProof -------------------------
(***************************************************************************)
(* Theorems about ReplicaStore and ChangeConsumer, for any messages,       *)
(* databases, archives, pages and synchronizers: what a synchronization    *)
(* may discard, that the change log explains the replica, and that a       *)
(* consumer misses nothing.                                                *)
(***************************************************************************)
EXTENDS ChangeConsumer, FiniteSetTheorems, SequenceTheorems, TLAPS

-----------------------------------------------------------------------------
(* Losslessness is decided before the transaction that relies on it; what    *)
(* carries it over is that nobody else replaced the archive of the replica   *)
(* in between, which StillLossless says of all who were not overtaken.       *)

(* The replica holds the records of the archive it was last given.           *)
HoldsArchive ==
  store # Nothing =>
    /\ DOMAIN store = {"id", "records", "names", "archive", "checkpoint", "log"}
    /\ store.archive \in Restored
    /\ DOMAIN store.records = DOMAIN store.archive.texts

(* The archive a synchronization is about to apply is still lossless, unless *)
(* another one was applied since that was decided.                           *)
StillLossless ==
  \A s \in Syncer :
    syncer[s] # Nothing =>
      /\ syncer[s] \in Restored
      /\ s \notin overtaken => store # Nothing /\ Lossless(store.archive, syncer[s])

SyncInv ==
  /\ DOMAIN syncer = Syncer
  /\ HoldsArchive
  /\ StillLossless

\* The step part of UnreadKept
UnreadKeptStep == \A s \in Syncer \ overtaken : Commit(s) => DropsOnlyRead

(* A record is in an archive only if its database is.                        *)
LEMMA RecordsRead ==
  ASSUME NEW a \in Restored, NEW m \in DOMAIN a.texts
  PROVE  m \in Message /\ ShardOf[m] \in a.included
  BY RestoredAssumption DEF Archive, Functions

(* A lossless archive drops only what was read or is gone.                   *)
LEMMA LosslessDrops ==
  ASSUME NEW a \in Restored, NEW b \in Restored, Lossless(a, b),
         NEW m \in DOMAIN a.texts
  PROVE  ShardOf[m] \in b.included \/ ShardOf[m] \notin b.inventory
  <1>1. ShardOf[m] \in a.included
    BY RecordsRead
  <1>2. CASE b.included = b.inventory
    BY <1>2
  <1>3. CASE b.included # b.inventory
    BY <1>1, <1>3 DEF Lossless
  <1> QED
    BY <1>2, <1>3

LEMMA RecordsOfDomain ==
  ASSUME NEW a
  PROVE  DOMAIN RecordsOf(a) = DOMAIN a.texts
  BY DEF RecordsOf

LEMMA ReconciledDomain ==
  ASSUME NEW old, NEW new
  PROVE  DOMAIN Reconciled(old, new) = DOMAIN new
  BY DEF Reconciled

(* A synchronization leaves the archive it applied, with its records.        *)
LEMMA AppliedHolds ==
  ASSUME NEW st, NEW a \in Restored,
         DOMAIN st = {"id", "records", "names", "archive", "checkpoint", "log"}
  PROVE  /\ DOMAIN Applied(st, a) = DOMAIN st
         /\ Applied(st, a).archive = a
         /\ DOMAIN Applied(st, a).records = DOMAIN a.texts
  <1>1. DOMAIN Reconciled(st.records, RecordsOf(a)) = DOMAIN a.texts
    BY RecordsOfDomain, ReconciledDomain
  <1> QED
    BY <1>1 DEF Applied

LEMMA SyncInit == StoreInit => SyncInv
  BY DEF StoreInit, SyncInv, HoldsArchive, StillLossless

LEMMA BootstrapSync ==
  ASSUME SyncInv, NEW a \in Restored, Bootstrap(a)
  PROVE  SyncInv'
  <1>1. HoldsArchive'
    BY RecordsOfDomain DEF Bootstrap, HoldsArchive
  <1>2. StillLossless'
    BY DEF SyncInv, Bootstrap, StillLossless
  <1> QED
    BY <1>1, <1>2 DEF SyncInv, Bootstrap

LEMMA CheckSync ==
  ASSUME SyncInv, NEW s \in Syncer, NEW a \in Restored, Check(s, a)
  PROVE  SyncInv'
  <1>1. DOMAIN syncer' = Syncer
    BY DEF SyncInv, Check
  <1>2. HoldsArchive'
    BY DEF SyncInv, Check, HoldsArchive
  <1>3. StillLossless'
    BY DEF SyncInv, Check, StillLossless
  <1> QED
    BY <1>1, <1>2, <1>3 DEF SyncInv

(* What a commit finds and leaves.                                           *)
LEMMA CommitApplies ==
  ASSUME SyncInv, NEW s \in Syncer, Commit(s)
  PROVE  /\ store # Nothing /\ store.archive \in Restored /\ syncer[s] \in Restored
         /\ DOMAIN store.records = DOMAIN store.archive.texts
         /\ DOMAIN store' = {"id", "records", "names", "archive", "checkpoint", "log"}
         /\ store'.archive = syncer[s]
         /\ DOMAIN store'.records = DOMAIN syncer[s].texts
  <1>1. /\ store # Nothing /\ syncer[s] \in Restored
        /\ store' = Applied(store, syncer[s])
    BY DEF SyncInv, StillLossless, Commit
  <1>2. /\ store.archive \in Restored
        /\ DOMAIN store = {"id", "records", "names", "archive", "checkpoint", "log"}
        /\ DOMAIN store.records = DOMAIN store.archive.texts
    BY <1>1 DEF SyncInv, HoldsArchive
  <1> QED
    BY <1>1, <1>2, AppliedHolds

LEMMA CommitSync ==
  ASSUME SyncInv, NEW s \in Syncer, Commit(s)
  PROVE  SyncInv'
  <1>1. HoldsArchive'
    BY CommitApplies DEF HoldsArchive
  <1>2. ASSUME NEW t \in Syncer, syncer'[t] # Nothing
        PROVE  syncer'[t] \in Restored /\ t \in overtaken'
    BY <1>2 DEF SyncInv, StillLossless, Commit
  <1>3. StillLossless'
    BY <1>2 DEF StillLossless
  <1>4. DOMAIN syncer' = Syncer
    BY DEF SyncInv, Commit
  <1> QED
    BY <1>1, <1>3, <1>4 DEF SyncInv

(* The step a decision that still holds is needed for.                       *)
LEMMA CommitKeeps ==
  ASSUME SyncInv
  PROVE  UnreadKeptStep
  <1> SUFFICES ASSUME NEW s \in Syncer \ overtaken, Commit(s),
                      NEW m \in DOMAIN store.records \ DOMAIN store'.records
               PROVE  \/ ShardOf[m] \in store'.archive.included
                      \/ ShardOf[m] \notin store'.archive.inventory
    BY DEF UnreadKeptStep, DropsOnlyRead
  <1>1. Lossless(store.archive, syncer[s])
    BY DEF SyncInv, StillLossless, Commit
  <1> QED
    BY <1>1, CommitApplies, LosslessDrops

LEMMA RollbackSync ==
  ASSUME SyncInv, NEW s \in Syncer, Rollback(s)
  PROVE  SyncInv'
  <1>1. HoldsArchive'
    BY DEF SyncInv, Rollback, HoldsArchive
  <1>2. DOMAIN syncer' = Syncer /\ StillLossless'
    BY DEF SyncInv, Rollback, StillLossless
  <1> QED
    BY <1>1, <1>2 DEF SyncInv

LEMMA RemoveSync ==
  ASSUME SyncInv, Remove
  PROVE  SyncInv'
  BY DEF SyncInv, Remove, AllStopped, HoldsArchive, StillLossless

(* A step that leaves the replica alone.                                     *)
LEMMA IdleSync ==
  ASSUME SyncInv, UNCHANGED storeVars
  PROVE  SyncInv'
  BY DEF SyncInv, storeVars, HoldsArchive, StillLossless

LEMMA StepSync ==
  ASSUME SyncInv, [Synchronizing \/ Replacing]_storeVars
  PROVE  SyncInv'
  <1>1. CASE \E s \in Syncer, a \in Restored : Check(s, a)
    BY <1>1, CheckSync
  <1>2. CASE \E s \in Syncer : Commit(s)
    BY <1>2, CommitSync
  <1>3. CASE \E s \in Syncer : Rollback(s)
    BY <1>3, RollbackSync
  <1>4. CASE \E a \in Restored : Bootstrap(a)
    BY <1>4, BootstrapSync
  <1>5. CASE Remove
    BY <1>5, RemoveSync
  <1>6. CASE UNCHANGED storeVars
    BY <1>6, IdleSync
  <1> QED
    BY <1>1, <1>2, <1>3, <1>4, <1>5, <1>6 DEF Synchronizing, Replacing

(* However many synchronize, one that no other commit overtook since its     *)
(* decision drops no records of a database that it did not read and that the *)
(* source still has, although that decision is over when its transaction     *)
(* begins.                                                                   *)
THEOREM UnreadKeptHolds == StoreSpec => UnreadKept
  <1>1. StoreInit => SyncInv
    BY SyncInit
  <1>2. SyncInv /\ [Synchronizing \/ Replacing]_storeVars => SyncInv'
    BY StepSync
  <1>3. SyncInv => [UnreadKeptStep]_storeVars
    BY CommitKeeps
  <1>4. UnreadKept <=> [][UnreadKeptStep]_storeVars
    BY PTL DEF UnreadKept, UnreadKeptStep
  <1> QED
    BY <1>1, <1>2, <1>3, <1>4, PTL DEF StoreSpec

-----------------------------------------------------------------------------
(* The consumer beside any number of synchronizers.                          *)

(* The replica is the archive it was last given, and its log says of every   *)
(* message what became of it.                                                *)
StoreSound ==
  /\ replicas \in Nat
  /\ DOMAIN syncer = Syncer
  /\ \A s \in Syncer : syncer[s] # Nothing => syncer[s] \in Restored
  /\ store # Nothing =>
       /\ DOMAIN store = {"id", "records", "names", "archive", "checkpoint", "log"}
       /\ store.archive \in Restored
       /\ store.records = RecordsOf(store.archive) /\ store.names = store.archive.names
       /\ store.id \in 1 .. replicas /\ store.checkpoint \in Nat
       /\ store.log \in Seq(Change)

\* A cursor is of a replica that was made, and not beyond the log of the one
\* that is there.
CursorSound(state) ==
  /\ DOMAIN state.cursor = {"id", "after"}
  /\ state.cursor.id \in 1 .. replicas /\ state.cursor.after \in Nat
  /\ Resumable(state.cursor) => state.cursor.after <= Len(store.log)

\* The parts of a copy
WholeState(state) == DOMAIN state = {"cursor", "names", "messages"}

MessageKnown(state, m) == Same(state.messages, m) \/ Pending(state, m)
NameKnown(state, c) == state.names[c] = store.names[c] \/ Pending(state, c)

\* A message that the pages have come to
Passed(m) ==
  \/ Home[m] \notin run.left
  \/ run.page # Nothing /\ run.page.conversation = Home[m] /\ m <= run.page.after

\* A change that was read and is still to be applied
Queued(entity) == \E k \in DOMAIN run.todo : run.todo[k].entity = entity

(* While pages are read: what they came to is the replica's, and of the rest *)
(* there is nothing yet, but for what the stream will tell.                  *)
PagesSound ==
  /\ \A m \in Message : Home[m] \in Authorized =>
       \/ Pending(run.state, m)
       \/ Passed(m) /\ Same(run.state.messages, m)
       \/ ~Passed(m) /\ m \notin DOMAIN run.state.messages
  /\ \A c \in Authorized : NameKnown(run.state, c)

(* While changes are applied: what is not the replica's is still to come, in *)
(* the stream or among the changes at hand, or is listed again.              *)
ChangesSound ==
  /\ \A m \in Message : Home[m] \in Authorized =>
       MessageKnown(run.state, m) \/ Queued(m)
  /\ \A c \in Authorized : NameKnown(run.state, c) \/ Queued(c) \/ run.refresh

(* The changes at hand are of the log, and none after one of them is         *)
(* skipped.                                                                  *)
QueueSound ==
  \A k \in DOMAIN run.todo :
    \E i \in 1 .. run.state.cursor.after :
      /\ store.log[i] = run.todo[k]
      /\ \A j \in i + 1 .. run.state.cursor.after :
           Released(store.log[j]) => \E l \in k + 1 .. Len(run.todo) : run.todo[l] = store.log[j]

(* The parts of a run, whatever replica it reads.                            *)
RunShape ==
  /\ DOMAIN run = {"pc", "state", "left", "page", "todo", "refresh"}
  /\ run.pc \in {"list", "page", "select", "changes", "apply", "relist", "write"}
  /\ run.pc = "list" => DOMAIN run.state = {"cursor"} /\ run.page = Nothing
  /\ run.pc # "list" => WholeState(run.state)
  /\ CursorSound(run.state)
  /\ run.todo \in Seq(Change)
  /\ run.pc = "apply" <=> run.todo # <<>>
  /\ run.pc \in {"list", "page", "select"} => run.refresh = FALSE
  /\ run.left \subseteq Authorized

(* The page that is read.                                                    *)
PageShape ==
  /\ run.pc = "select" => run.page # Nothing
  /\ run.page # Nothing =>
       /\ run.page \in [id : Nat, checkpoint : Nat, after : Nat, conversation : Authorized]
       /\ run.page.conversation \in run.left

RunSound ==
  run # Nothing =>
    /\ RunShape
    /\ Resumable(run.state.cursor) =>
         /\ run.pc \in {"page", "select"} => PageShape /\ PagesSound
         /\ run.pc \in {"changes", "apply"} => ChangesSound /\ QueueSound
         /\ run.pc \in {"relist", "write"} =>
              \A m \in Message : Home[m] \in Authorized => MessageKnown(run.state, m)
         /\ run.pc = "write" => \A c \in Authorized : NameKnown(run.state, c)

StoredSound ==
  stored # Nothing =>
    WholeState(stored) /\ CursorSound(stored)

ConsumerInv ==
  StoreSound /\ LogExplains /\ RunSound /\ StoredSound /\ NothingMissed


-----------------------------------------------------------------------------
(* Sorted lists the members of a finite set of numbers.  The rank of a       *)
(* member is the number of smaller ones: it is injective, and so it takes    *)
(* all values below the cardinality.                                         *)
Rank(S, m) == Cardinality({k \in S : k < m})

LEMMA RankGrows ==
  ASSUME NEW S \in SUBSET Nat, IsFiniteSet(S)
  PROVE  /\ Cardinality(S) \in Nat
         /\ \A m \in S : Rank(S, m) \in 0 .. Cardinality(S) - 1
         /\ \A m, k \in S : m < k => Rank(S, m) < Rank(S, k)
  <1>1. Cardinality(S) \in Nat
    BY FS_CardinalityType
  <1>2. ASSUME NEW m \in S
        PROVE  /\ IsFiniteSet({k \in S : k < m}) /\ Rank(S, m) \in Nat
               /\ Rank(S, m) <= Cardinality(S) - 1
    <2>1. {k \in S : k < m} \in SUBSET S /\ m \notin {k \in S : k < m}
      OBVIOUS
    <2>2. /\ IsFiniteSet({k \in S : k < m}) /\ Cardinality({k \in S : k < m}) \in Nat
          /\ Cardinality({k \in S : k < m}) <= Cardinality(S)
          /\ Cardinality({k \in S : k < m}) # Cardinality(S)
      BY <2>1, FS_Subset, FS_CardinalityType
    <2>3. QED
      BY <1>1, <2>2 DEF Rank
  <1>4. ASSUME NEW m \in S PROVE Rank(S, m) \in 0 .. Cardinality(S) - 1
    <2>1. Rank(S, m) \in Nat /\ Rank(S, m) <= Cardinality(S) - 1
      BY <1>2
    <2>2. QED
      BY <1>1, <2>1
  <1>3. ASSUME NEW m \in S, NEW k \in S, m < k PROVE Rank(S, m) < Rank(S, k)
    <2>1. /\ {l \in S : l < m} \in SUBSET {l \in S : l < k}
          /\ m \in {l \in S : l < k} /\ m \notin {l \in S : l < m}
      <3>1. m \in Nat /\ k \in Nat /\ \A l \in S : l \in Nat
        OBVIOUS
      <3>2. \A l \in S : l < m => l < k
        BY <1>3, <3>1
      <3>3. ~(m < m)
        BY <3>1
      <3>4. QED
        BY <1>3, <3>2, <3>3
    <2>2. IsFiniteSet({l \in S : l < k})
      BY <1>2
    <2>3. /\ Cardinality({l \in S : l < m}) <= Cardinality({l \in S : l < k})
          /\ Cardinality({l \in S : l < m}) # Cardinality({l \in S : l < k})
      BY <2>1, <2>2, FS_Subset
    <2>4. QED
      BY <1>2, <2>3 DEF Rank
  <1>5. QED
    BY <1>1, <1>3, <1>4

LEMMA RankTaken ==
  ASSUME NEW S \in SUBSET Nat, IsFiniteSet(S), NEW r \in 0 .. Cardinality(S) - 1
  PROVE  \E m \in S : Rank(S, m) = r
  <1> DEFINE f == [m \in S |-> Rank(S, m)]
             T == 0 .. Cardinality(S) - 1
  <1>1. Cardinality(S) \in Nat
    BY RankGrows
  <1>2. IsFiniteSet(T) /\ Cardinality(T) = Cardinality(S)
    BY <1>1, FS_Interval
  <1>3. f \in Injection(S, T)
    <2>1. f \in [S -> T]
      BY RankGrows
    <2>2. \A m, k \in S : f[m] = f[k] => m = k
      <3>1. ASSUME NEW m \in S, NEW k \in S, f[m] = f[k] PROVE m = k
        <4>1. m \in Nat /\ k \in Nat /\ Rank(S, m) = Rank(S, k) /\ Rank(S, m) \in Nat
          BY <1>1, <3>1, RankGrows
        <4>2. ~(m < k) /\ ~(k < m)
          BY <4>1, RankGrows
        <4>3. QED
          BY <4>1, <4>2
      <3>2. QED
        BY <3>1
    <2>3. QED
      BY <2>1, <2>2 DEF Injection, IsInjective
  <1>4. f \in Surjection(S, T)
    <2> HIDE DEF f, T
    <2> QED
      BY <1>2, <1>3, FS_Injection
  <1>5. QED
    BY <1>4 DEF Surjection

LEMMA SortedFacts ==
  ASSUME NEW S \in SUBSET Nat, IsFiniteSet(S)
  PROVE  /\ Cardinality(S) \in Nat
         /\ Sorted(S) \in [1 .. Cardinality(S) -> S]
         /\ \A m \in S : \E i \in 1 .. Cardinality(S) : Sorted(S)[i] = m
         /\ \A i, j \in 1 .. Cardinality(S) : i < j => Sorted(S)[i] < Sorted(S)[j]
  <1>1. Cardinality(S) \in Nat
    BY RankGrows
  <1>2. ASSUME NEW i \in 1 .. Cardinality(S)
        PROVE  Sorted(S)[i] \in S /\ Rank(S, Sorted(S)[i]) = i - 1
    <2>1. \E m \in S : Cardinality({k \in S : k < m}) = i - 1
      <3>1. i - 1 \in 0 .. Cardinality(S) - 1
        BY <1>1
      <3>2. QED
        BY <3>1, RankTaken DEF Rank
    <2>2. Sorted(S)[i] = CHOOSE m \in S : Cardinality({k \in S : k < m}) = i - 1
      BY DEF Sorted
    <2>3. QED
      BY <2>1, <2>2 DEF Rank
  <1>3. Sorted(S) \in [1 .. Cardinality(S) -> S]
    BY <1>2 DEF Sorted
  <1>4. ASSUME NEW m \in S PROVE \E i \in 1 .. Cardinality(S) : Sorted(S)[i] = m
    <2>1. Rank(S, m) \in 0 .. Cardinality(S) - 1
      BY RankGrows
    <2> DEFINE i == Rank(S, m) + 1
    <2>2. i \in 1 .. Cardinality(S) /\ i - 1 = Rank(S, m)
      BY <1>1, <2>1
    <2>3. Sorted(S)[i] \in S /\ Rank(S, Sorted(S)[i]) = Rank(S, m)
      BY <1>2, <2>2
    <2> HIDE DEF i
    <2>4. /\ Sorted(S)[i] < m => Rank(S, Sorted(S)[i]) < Rank(S, m)
          /\ m < Sorted(S)[i] => Rank(S, m) < Rank(S, Sorted(S)[i])
      BY <2>3, RankGrows
    <2>5. Sorted(S)[i] \in Nat /\ m \in Nat /\ Rank(S, m) \in Nat
      <3>1. Rank(S, m) \in Nat
        BY <1>1, <2>1
      <3>2. QED
        BY <2>3, <3>1
    <2>6. Sorted(S)[i] = m
      BY <2>3, <2>4, <2>5
    <2>7. QED
      BY <2>2, <2>6
  <1>5. ASSUME NEW i \in 1 .. Cardinality(S), NEW j \in 1 .. Cardinality(S), i < j
        PROVE  Sorted(S)[i] < Sorted(S)[j]
    <2>1. /\ Sorted(S)[i] \in S /\ Rank(S, Sorted(S)[i]) = i - 1
          /\ Sorted(S)[j] \in S /\ Rank(S, Sorted(S)[j]) = j - 1
      BY <1>2
    <2>2. Sorted(S)[i] # Sorted(S)[j]
      BY <1>5, <2>1
    <2>3. ~(Sorted(S)[j] < Sorted(S)[i])
      <3>1. Sorted(S)[j] < Sorted(S)[i] => j - 1 < i - 1
        BY <2>1, RankGrows
      <3>2. QED
        BY <1>5, <3>1
    <2>4. Sorted(S)[i] \in Nat /\ Sorted(S)[j] \in Nat
      BY <2>1
    <2>5. QED
      BY <2>2, <2>3, <2>4
  <1>6. QED
    BY <1>1, <1>3, <1>4, <1>5

LEMMA LeastMember ==
  ASSUME NEW S \in SUBSET Nat, IsFiniteSet(S), S # {}
  PROVE  \E m \in S : \A k \in S : m <= k
  <1>1. Cardinality(S) \in Nat /\ Cardinality(S) # 0
    BY FS_CardinalityType, FS_EmptySet
  <1>2. 1 \in 1 .. Cardinality(S)
    BY <1>1
  <1>3. \A k \in S : Sorted(S)[1] <= k
    <2>1. ASSUME NEW k \in S PROVE Sorted(S)[1] <= k
      <3>1. PICK i \in 1 .. Cardinality(S) : Sorted(S)[i] = k
        BY SortedFacts
      <3>2. Sorted(S)[1] \in Nat /\ (1 < i => Sorted(S)[1] < Sorted(S)[i])
        BY <1>2, SortedFacts
      <3>3. QED
        BY <1>1, <3>1, <3>2
    <2>2. QED
      BY <2>1
  <1>4. Sorted(S)[1] \in S
    BY <1>2, SortedFacts
  <1>5. QED
    BY <1>3, <1>4

LEMMA GreatestMember ==
  ASSUME NEW S \in SUBSET Nat, IsFiniteSet(S), S # {}
  PROVE  Max(S) \in S /\ \A k \in S : k <= Max(S)
  <1> DEFINE n == Cardinality(S)
  <1>1. n \in Nat /\ n # 0
    BY FS_CardinalityType, FS_EmptySet
  <1>2. n \in 1 .. n
    BY <1>1
  <1>3. \A k \in S : k <= Sorted(S)[n]
    <2>1. ASSUME NEW k \in S PROVE k <= Sorted(S)[n]
      <3>1. PICK i \in 1 .. n : Sorted(S)[i] = k
        BY SortedFacts
      <3>2. Sorted(S)[n] \in Nat /\ (i < n => Sorted(S)[i] < Sorted(S)[n])
        BY <1>2, SortedFacts
      <3>3. QED
        BY <1>1, <3>1, <3>2
    <2>2. QED
      BY <2>1
  <1>4. Sorted(S)[n] \in S
    BY <1>2, SortedFacts
  <1>5. \E x \in S : \A y \in S : x >= y
    BY <1>3, <1>4
  <1>6. Max(S) \in S /\ \A y \in S : Max(S) >= y
    BY <1>5 DEF Max
  <1>7. QED
    BY <1>6


-----------------------------------------------------------------------------
(* The change records of a synchronization.                                  *)
LEMMA ArchiveFacts ==
  ASSUME NEW a \in Restored
  PROVE  /\ DOMAIN a.texts \in SUBSET Message /\ DOMAIN a.texts \in SUBSET Nat
         /\ IsFiniteSet(DOMAIN a.texts)
  <1>1. DOMAIN a.texts \in SUBSET Message
    BY RestoredAssumption DEF Archive, Functions
  <1>2. QED
    BY <1>1, StoreAssumption, FS_Subset

LEMMA ListSeq ==
  ASSUME NEW S, NEW n \in Nat, NEW f \in [1 .. n -> S]
  PROVE  f \in Seq(S) /\ Len(f) = n /\ DOMAIN f = 1 .. n
  <1>1. f \in Seq(S)
    BY SeqDef
  <1>2. QED
    BY <1>1

\* What is written over a row is what the archive has.
LEMMA ReconciledRecords ==
  ASSUME NEW old, NEW a
  PROVE  Reconciled(old, RecordsOf(a)) = RecordsOf(a)
  <1>1. \A m \in DOMAIN RecordsOf(a) :
          (IF Differs(old, RecordsOf(a), m) THEN RecordsOf(a)[m] ELSE old[m]) = RecordsOf(a)[m]
    BY DEF Differs
  <1>2. RecordsOf(a) = [m \in DOMAIN RecordsOf(a) |-> RecordsOf(a)[m]]
    BY DEF RecordsOf
  <1>3. QED
    BY <1>1, <1>2 DEF Reconciled

LEMMA ConversationFacts ==
  ASSUME NEW old, NEW new
  PROVE  /\ ConversationChanges(old, new) \in Seq(Change)
         /\ \A i \in DOMAIN ConversationChanges(old, new) :
              ConversationChanges(old, new)[i].entity \in Conversation
         /\ \A c \in Conversation : old[c] # new[c] =>
              \E i \in DOMAIN ConversationChanges(old, new) :
                ConversationChanges(old, new)[i].entity = c
  <1> DEFINE renamed == {c \in Conversation : old[c] # new[c]}
             n == Cardinality(renamed)
             Lists(f) == \A c \in renamed : \E i \in DOMAIN f : f[i] = c
             order == CHOOSE f \in [1 .. n -> renamed] : Lists(f)
  <1>1. IsFiniteSet(renamed)
    BY StoreAssumption, FS_Subset
  <1>2. n \in Nat /\ \E f \in [1 .. n -> renamed] : Lists(f)
    <2>1. n \in Nat /\ ExistsBijection(1 .. n, renamed)
      BY <1>1, FS_CardinalityType
    <2>2. PICK f : f \in Bijection(1 .. n, renamed)
      BY <2>1 DEF ExistsBijection
    <2>3. f \in [1 .. n -> renamed] /\ \A c \in renamed : \E i \in 1 .. n : f[i] = c
      BY <2>2 DEF Bijection, Surjection
    <2>4. QED
      BY <2>1, <2>3
  <1>3. order \in [1 .. n -> renamed] /\ Lists(order)
    BY <1>2
  <1>4. ConversationChanges(old, new) = [i \in DOMAIN order |-> [kind |-> "changed", entity |-> order[i]]]
    BY DEF ConversationChanges
  <1> HIDE DEF n, order
  <1>5. DOMAIN order = 1 .. n /\ \A i \in 1 .. n : order[i] \in Conversation
    BY <1>3
  <1>6. \A i \in 1 .. n : [kind |-> "changed", entity |-> order[i]] \in Change
    BY <1>5 DEF Change
  <1>7. ConversationChanges(old, new) \in [1 .. n -> Change]
    BY <1>4, <1>5, <1>6
  <1>8. ConversationChanges(old, new) \in Seq(Change) /\ DOMAIN ConversationChanges(old, new) = 1 .. n
    BY <1>2, <1>7, ListSeq
  <1>9. \A i \in 1 .. n : ConversationChanges(old, new)[i].entity = order[i]
    BY <1>4, <1>5
  <1>10. \A c \in Conversation : old[c] # new[c] => \E i \in 1 .. n : order[i] = c
    BY <1>3, <1>5
  <1>11. QED
    BY <1>5, <1>8, <1>9, <1>10

\* The records of one sorted set
LEMMA ListedFacts ==
  ASSUME NEW S \in SUBSET Message, NEW kind \in [S -> {"added", "changed", "removed"}], NEW list,
         list = [i \in DOMAIN Sorted(S) |->
                   [kind |-> kind[Sorted(S)[i]], entity |-> Sorted(S)[i]]]
  PROVE  /\ list \in Seq(Change)
         /\ \A i \in DOMAIN list : list[i].entity \in S /\ list[i].kind = kind[list[i].entity]
         /\ \A m \in S : \E i \in DOMAIN list : list[i].entity = m
  <1> DEFINE n == Cardinality(S)
  <1>1. /\ n \in Nat /\ Sorted(S) \in [1 .. n -> S]
        /\ \A m \in S : \E i \in 1 .. n : Sorted(S)[i] = m
    <2>1. S \in SUBSET Nat /\ IsFiniteSet(S)
      BY StoreAssumption, FS_Subset
    <2>2. QED
      BY <2>1, SortedFacts
  <1>2. list = [i \in 1 .. n |-> [kind |-> kind[Sorted(S)[i]], entity |-> Sorted(S)[i]]]
    BY <1>1
  <1> HIDE DEF n
  <1>3. \A i \in 1 .. n : Sorted(S)[i] \in S
    BY <1>1
  <1>4. \A i \in 1 .. n : [kind |-> kind[Sorted(S)[i]], entity |-> Sorted(S)[i]] \in Change
    BY <1>3 DEF Change
  <1>5. list \in [1 .. n -> Change]
    BY <1>2, <1>4
  <1>6. list \in Seq(Change) /\ DOMAIN list = 1 .. n
    BY <1>1, <1>5, ListSeq
  <1>7. \A i \in 1 .. n : list[i].entity = Sorted(S)[i] /\ list[i].kind = kind[Sorted(S)[i]]
    BY <1>2
  <1>8. QED
    BY <1>1, <1>3, <1>6, <1>7

\* One log after another
LEMMA Concatenated ==
  ASSUME NEW S, NEW s \in Seq(S), NEW t \in Seq(S)
  PROVE  /\ s \o t \in Seq(S) /\ Len(s \o t) = Len(s) + Len(t)
         /\ \A i \in 1 .. Len(s) : (s \o t)[i] = s[i]
         /\ \A i \in 1 .. Len(t) : (s \o t)[Len(s) + i] = t[i]
         /\ \A i \in Len(s) + 1 .. Len(s) + Len(t) : i - Len(s) \in 1 .. Len(t) /\ (s \o t)[i] = t[i - Len(s)]
  OBVIOUS

LEMMA MessageFacts ==
  ASSUME NEW old, NEW new, DOMAIN old \in SUBSET Message, DOMAIN new \in SUBSET Message
  PROVE  /\ MessageChanges(old, new) \in Seq(Change)
         /\ \A i \in DOMAIN MessageChanges(old, new) :
              LET change == MessageChanges(old, new)[i]
              IN  /\ change.entity \in Message
                  /\ change.kind = "removed" <=> change.entity \notin DOMAIN new
         /\ \A m \in Message :
              \/ \E i \in DOMAIN MessageChanges(old, new) : MessageChanges(old, new)[i].entity = m
              \/ /\ m \in DOMAIN old <=> m \in DOMAIN new
                 /\ m \in DOMAIN old => old[m] = new[m]
  <1> DEFINE written == {m \in DOMAIN new : Differs(old, new, m)}
             missing == DOMAIN old \ DOMAIN new
             first == [i \in DOMAIN Sorted(written) |->
                         [kind |-> IF Sorted(written)[i] \in DOMAIN old THEN "changed" ELSE "added",
                          entity |-> Sorted(written)[i]]]
             second == [i \in DOMAIN Sorted(missing) |->
                          [kind |-> "removed", entity |-> Sorted(missing)[i]]]
             all == first \o second
  <1>1. MessageChanges(old, new) = all
    BY DEF MessageChanges
  <1>2. /\ first \in Seq(Change)
        /\ \A i \in DOMAIN first : first[i].entity \in written /\ first[i].kind # "removed"
        /\ \A m \in written : \E i \in DOMAIN first : first[i].entity = m
    <2> DEFINE kind == [m \in written |-> IF m \in DOMAIN old THEN "changed" ELSE "added"]
    <2>1. kind \in [written -> {"added", "changed", "removed"}] /\ \A m \in written : kind[m] # "removed"
      OBVIOUS
    <2>2. written \in SUBSET Message
      OBVIOUS
    <2>3. \A i \in DOMAIN Sorted(written) : Sorted(written)[i] \in written
      <3>1. written \in SUBSET Nat /\ IsFiniteSet(written)
        BY <2>2, StoreAssumption, FS_Subset
      <3> HIDE DEF written
      <3>2. QED
        BY <3>1, SortedFacts
    <2>4. first = [i \in DOMAIN Sorted(written) |->
                     [kind |-> kind[Sorted(written)[i]], entity |-> Sorted(written)[i]]]
      BY <2>3
    <2> HIDE DEF written, first, kind
    <2>5. /\ first \in Seq(Change)
          /\ \A i \in DOMAIN first : first[i].entity \in written /\ first[i].kind = kind[first[i].entity]
          /\ \A m \in written : \E i \in DOMAIN first : first[i].entity = m
      BY <2>1, <2>2, <2>4, ListedFacts
    <2>6. QED
      BY <2>1, <2>5
  <1>3. /\ second \in Seq(Change)
        /\ \A i \in DOMAIN second : second[i].entity \in missing /\ second[i].kind = "removed"
        /\ \A m \in missing : \E i \in DOMAIN second : second[i].entity = m
    <2> DEFINE kind == [m \in missing |-> "removed"]
    <2>1. kind \in [missing -> {"added", "changed", "removed"}] /\ \A m \in missing : kind[m] = "removed"
      OBVIOUS
    <2>2. missing \in SUBSET Message
      OBVIOUS
    <2>3. \A i \in DOMAIN Sorted(missing) : Sorted(missing)[i] \in missing
      <3>1. missing \in SUBSET Nat /\ IsFiniteSet(missing)
        BY <2>2, StoreAssumption, FS_Subset
      <3> HIDE DEF missing
      <3>2. QED
        BY <3>1, SortedFacts
    <2>4. second = [i \in DOMAIN Sorted(missing) |->
                     [kind |-> kind[Sorted(missing)[i]], entity |-> Sorted(missing)[i]]]
      BY <2>3
    <2> HIDE DEF missing, second, kind
    <2>5. /\ second \in Seq(Change)
          /\ \A i \in DOMAIN second : second[i].entity \in missing /\ second[i].kind = kind[second[i].entity]
          /\ \A m \in missing : \E i \in DOMAIN second : second[i].entity = m
      BY <2>1, <2>2, <2>4, ListedFacts
    <2>6. QED
      BY <2>1, <2>5
  <1>4. \A m \in Message :
          \/ m \in written \/ m \in missing
          \/ /\ m \in DOMAIN old <=> m \in DOMAIN new
             /\ m \in DOMAIN old => old[m] = new[m]
    BY DEF Differs
  <1>5. /\ written \subseteq DOMAIN new /\ written \subseteq Message
        /\ missing \subseteq Message /\ missing \cap DOMAIN new = {}
    OBVIOUS
  <1> HIDE DEF written, missing, first, second
  <1>6. /\ all \in Seq(Change) /\ DOMAIN all = 1 .. Len(first) + Len(second)
        /\ \A i \in 1 .. Len(first) : all[i] = first[i]
        /\ \A i \in 1 .. Len(second) : all[Len(first) + i] = second[i]
        /\ \A i \in Len(first) + 1 .. Len(first) + Len(second) :
             i - Len(first) \in 1 .. Len(second) /\ all[i] = second[i - Len(first)]
    BY <1>2, <1>3, Concatenated
  <1>7. /\ DOMAIN first = 1 .. Len(first) /\ Len(first) \in Nat
        /\ DOMAIN second = 1 .. Len(second) /\ Len(second) \in Nat
    BY <1>2, <1>3
  <1> HIDE DEF all
  <1>8. ASSUME NEW i \in DOMAIN all
        PROVE  /\ all[i].entity \in Message
               /\ all[i].kind = "removed" <=> all[i].entity \notin DOMAIN new
    <2>1. i \in 1 .. Len(first) \/ i \in Len(first) + 1 .. Len(first) + Len(second)
      BY <1>6, <1>7
    <2>2. CASE i \in 1 .. Len(first)
      BY <1>2, <1>5, <1>6, <1>7, <2>2
    <2>3. CASE i \in Len(first) + 1 .. Len(first) + Len(second)
      <3>1. i - Len(first) \in DOMAIN second /\ all[i] = second[i - Len(first)]
        BY <1>6, <1>7, <2>3
      <3>2. QED
        BY <1>3, <1>5, <3>1
    <2>4. QED
      BY <2>1, <2>2, <2>3
  <1>9. ASSUME NEW m \in written PROVE \E i \in DOMAIN all : all[i].entity = m
    <2>1. PICK i \in 1 .. Len(first) : first[i].entity = m
      BY <1>2, <1>7
    <2>2. i \in DOMAIN all /\ all[i] = first[i]
      BY <1>6, <1>7
    <2>3. QED
      BY <2>1, <2>2
  <1>10. ASSUME NEW m \in missing PROVE \E i \in DOMAIN all : all[i].entity = m
    <2>1. PICK i \in 1 .. Len(second) : second[i].entity = m
      BY <1>3, <1>7
    <2>2. Len(first) + i \in DOMAIN all /\ all[Len(first) + i] = second[i]
      BY <1>6, <1>7
    <2>3. QED
      BY <2>1, <2>2
  <1>11. QED
    BY <1>1, <1>4, <1>6, <1>8, <1>9, <1>10


-----------------------------------------------------------------------------
(* How the replica changes: what is new in it is in the log after all that   *)
(* was there before.                                                         *)
Extends ==
  /\ store # Nothing /\ store'.id = store.id
  /\ Len(store.log) <= Len(store'.log)
  /\ \A i \in 1 .. Len(store.log) : store'.log[i] = store.log[i]
  /\ \A m \in Message :
       \/ \E i \in Len(store.log) + 1 .. Len(store'.log) : store'.log[i].entity = m
       \/ /\ m \in DOMAIN store'.records <=> m \in DOMAIN store.records
          /\ m \in DOMAIN store.records => store'.records[m] = store.records[m]
  /\ \A c \in Conversation :
       \/ store'.names[c] = store.names[c]
       \/ \E i \in Len(store.log) + 1 .. Len(store'.log) : store'.log[i].entity = c

\* What the log says last of a message
Explains(records, log) ==
  \A m \in Message, i \in DOMAIN log :
    /\ log[i].entity = m
    /\ \A j \in i + 1 .. Len(log) : log[j].entity # m
    => (log[i].kind = "removed" <=> m \notin DOMAIN records)

LEMMA ExplainsMore ==
  ASSUME NEW log \in Seq(Change), NEW more \in Seq(Change), NEW old, NEW new, NEW message,
         DOMAIN old \in SUBSET Message, DOMAIN new \in SUBSET Message, Explains(old, log),
         \A i \in DOMAIN more : more[i].entity \in Conversation,
         message = MessageChanges(old, new)
  PROVE  Explains(new, (log \o more) \o message)
  <1> DEFINE all == (log \o more) \o message
             before == Len(log) + Len(more)
  <1>1. /\ message \in Seq(Change)
        /\ \A i \in DOMAIN message :
             /\ message[i].entity \in Message
             /\ message[i].kind = "removed" <=> message[i].entity \notin DOMAIN new
        /\ \A m \in Message :
             \/ \E i \in DOMAIN message : message[i].entity = m
             \/ m \in DOMAIN old <=> m \in DOMAIN new
    BY MessageFacts
  <1>2. /\ Len(log) \in Nat /\ Len(more) \in Nat /\ Len(message) \in Nat
        /\ DOMAIN message = 1 .. Len(message) /\ DOMAIN more = 1 .. Len(more)
        /\ DOMAIN log = 1 .. Len(log)
    BY <1>1
  <1>3. /\ log \o more \in Seq(Change) /\ Len(log \o more) = before
        /\ \A i \in 1 .. Len(log) : (log \o more)[i] = log[i]
        /\ \A i \in Len(log) + 1 .. before : i - Len(log) \in DOMAIN more /\ (log \o more)[i] = more[i - Len(log)]
    BY <1>2, Concatenated
  <1>4. /\ all \in Seq(Change) /\ Len(all) = before + Len(message)
        /\ \A i \in 1 .. before : all[i] = (log \o more)[i]
        /\ \A i \in 1 .. Len(message) : all[before + i] = message[i]
        /\ \A i \in before + 1 .. before + Len(message) :
             i - before \in DOMAIN message /\ all[i] = message[i - before]
    BY <1>1, <1>2, <1>3, Concatenated
  <1>5. DOMAIN all = 1 .. before + Len(message) /\ before \in Nat
    BY <1>2, <1>4
  <1> HIDE DEF all
  <1> SUFFICES ASSUME NEW m \in Message, NEW i \in DOMAIN all, all[i].entity = m,
                      \A j \in i + 1 .. Len(all) : all[j].entity # m
               PROVE  all[i].kind = "removed" <=> m \notin DOMAIN new
    BY DEF all, Explains
  <1>6. CASE i \in before + 1 .. before + Len(message)
    BY <1>1, <1>4, <1>6
  <1>7. CASE i \in 1 .. before
    <2>1. i \in 1 .. Len(log)
      <3>1. CASE i \in Len(log) + 1 .. before
        <4>1. all[i].entity \in Conversation
          BY <1>3, <1>4, <1>7, <3>1
        <4>2. QED
          BY <4>1, StoreAssumption
      <3>2. QED
        BY <1>2, <1>7, <3>1
    <2>2. all[i] = log[i]
      BY <1>3, <1>4, <1>7, <2>1
    <2>3. \A j \in i + 1 .. Len(log) : log[j].entity # m
      <3>1. ASSUME NEW j \in i + 1 .. Len(log) PROVE log[j].entity # m
        <4>1. j \in 1 .. Len(log) /\ j \in 1 .. before /\ j \in i + 1 .. Len(all)
          BY <1>2, <1>4, <1>7, <3>1
        <4>2. all[j] = log[j]
          BY <1>3, <1>4, <4>1
        <4>3. QED
          BY <4>1, <4>2
      <3>2. QED
        BY <3>1
    <2>4. ~ \E k \in DOMAIN message : message[k].entity = m
      <3>1. ASSUME NEW k \in DOMAIN message PROVE message[k].entity # m
        <4>1. before + k \in i + 1 .. Len(all) /\ all[before + k] = message[k]
          BY <1>2, <1>4, <1>5, <1>7
        <4>2. QED
          BY <4>1
      <3>2. QED
        BY <3>1
    <2>5. m \in DOMAIN old <=> m \in DOMAIN new
      BY <1>1, <2>4
    <2>6. log[i].kind = "removed" <=> m \notin DOMAIN old
      BY <1>2, <2>1, <2>2, <2>3 DEF Explains
    <2>7. QED
      BY <2>2, <2>5, <2>6
  <1>8. QED
    BY <1>2, <1>5, <1>6, <1>7

\* A synchronization extends the replica and its log.
LEMMA CommitExtends ==
  ASSUME StoreSound, LogExplains, NEW s \in Syncer, Commit(s)
  PROVE  StoreSound' /\ LogExplains' /\ Extends
  <1> DEFINE a == syncer[s]
             conversation == ConversationChanges(store.names, a.names)
             message == MessageChanges(store.records, RecordsOf(a))
             log == (store.log \o conversation) \o message
  <1>1. /\ store # Nothing /\ a \in Restored /\ store' = Applied(store, a)
        /\ store.archive \in Restored
        /\ DOMAIN store = {"id", "records", "names", "archive", "checkpoint", "log"}
        /\ store.records = RecordsOf(store.archive)
        /\ store.log \in Seq(Change) /\ store.checkpoint \in Nat /\ store.id \in 1 .. replicas
        /\ replicas' = replicas
    BY DEF Commit, StoreSound
  <1>2. /\ DOMAIN store.records \in SUBSET Message /\ DOMAIN RecordsOf(a) \in SUBSET Message
    BY <1>1, ArchiveFacts, RecordsOfDomain
  <1>3. Reconciled(store.records, RecordsOf(a)) = RecordsOf(a)
    BY ReconciledRecords
  <1>4. conversation \in Seq(Change) /\ message \in Seq(Change)
    BY <1>2, ConversationFacts, MessageFacts
  <1>6. /\ DOMAIN store' = DOMAIN store /\ store'.id = store.id
        /\ store'.records = RecordsOf(a) /\ store'.names = a.names /\ store'.archive = a
        /\ store'.checkpoint = store.checkpoint + 1
        /\ store'.log = log
    <2>1. /\ DOMAIN store' = DOMAIN store /\ store'.id = store.id
          /\ store'.records = Reconciled(store.records, RecordsOf(a))
          /\ store'.names = a.names /\ store'.archive = a
          /\ store'.checkpoint = store.checkpoint + 1
          /\ store'.log = store.log \o conversation \o message
      <3> HIDE DEF a, conversation, message
      <3> QED
        BY <1>1 DEF Applied, a, conversation, message
    <2>2. store.log \o conversation \o message = log
      OBVIOUS
    <2> HIDE DEF a, conversation, message, log
    <2>3. QED
      BY <1>3, <2>1, <2>2
  <1>7. /\ \A i \in DOMAIN conversation : conversation[i].entity \in Conversation
        /\ \A c \in Conversation :
             store.names[c] # a.names[c] => \E i \in DOMAIN conversation : conversation[i].entity = c
    <2> HIDE DEF a
    <2> QED
      BY ConversationFacts
  <1>8. /\ Len(store.log) \in Nat /\ Len(conversation) \in Nat /\ Len(message) \in Nat
        /\ DOMAIN conversation = 1 .. Len(conversation) /\ DOMAIN message = 1 .. Len(message)
    BY <1>1, <1>4
  <1> DEFINE before == Len(store.log) + Len(conversation)
  <1>9. /\ store.log \o conversation \in Seq(Change) /\ Len(store.log \o conversation) = before
        /\ \A i \in 1 .. Len(store.log) : (store.log \o conversation)[i] = store.log[i]
        /\ \A i \in 1 .. Len(conversation) :
             (store.log \o conversation)[Len(store.log) + i] = conversation[i]
    BY <1>1, <1>4, Concatenated
  <1>10. /\ log \in Seq(Change) /\ Len(log) = before + Len(message)
         /\ \A i \in 1 .. before : log[i] = (store.log \o conversation)[i]
         /\ \A i \in 1 .. Len(message) : log[before + i] = message[i]
    <2> DEFINE begun == store.log \o conversation
    <2>1. begun \in Seq(Change) /\ Len(begun) = before /\ log = begun \o message
      BY <1>9
    <2> HIDE DEF a, conversation, message, begun, log, before
    <2>2. /\ begun \o message \in Seq(Change) /\ Len(begun \o message) = Len(begun) + Len(message)
          /\ \A i \in 1 .. Len(begun) : (begun \o message)[i] = begun[i]
          /\ \A i \in 1 .. Len(message) : (begun \o message)[Len(begun) + i] = message[i]
      <3>1. begun \in Seq(Change)
        BY <2>1
      <3>2. message \in Seq(Change)
        BY <1>4
      <3>3. QED
        BY <3>1, <3>2, Concatenated
    <2>3. /\ log \in Seq(Change) /\ Len(log) = before + Len(message)
          /\ \A i \in 1 .. before : log[i] = begun[i]
          /\ \A i \in 1 .. Len(message) : log[before + i] = message[i]
      BY <2>1, <2>2
    <2>4. QED
      BY <2>3 DEF begun
  <1>11. LogExplains'
    <2>1. Explains(store.records, store.log)
      BY <1>1 DEF LogExplains, Explains
    <2>2. Explains(RecordsOf(a), log)
      <3> HIDE DEF conversation
      <3>1. QED
        BY <1>1, <1>2, <1>4, <1>7, <2>1, ExplainsMore
    <2>3. Explains(store'.records, store'.log)
      BY <1>6, <2>2
    <2>4. QED
      BY <2>3 DEF LogExplains, Explains
  <1>12. StoreSound'
    <2>1. syncer' = [syncer EXCEPT ![s] = Nothing] /\ DOMAIN syncer = Syncer
      BY DEF Commit, StoreSound
    <2>2. DOMAIN syncer' = Syncer /\ \A t \in Syncer : syncer'[t] # Nothing => syncer'[t] \in Restored
      BY <2>1 DEF StoreSound
    <2> HIDE DEF a, log
    <2>3. QED
      BY <1>1, <1>6, <1>10, <2>2 DEF StoreSound
  <1>13. ASSUME NEW m \in Message
         PROVE  \/ \E i \in Len(store.log) + 1 .. Len(log) : log[i].entity = m
                \/ /\ m \in DOMAIN store'.records <=> m \in DOMAIN store.records
                   /\ m \in DOMAIN store.records => store'.records[m] = store.records[m]
    <2>1. CASE \E i \in DOMAIN message : message[i].entity = m
      <3>1. PICK i \in 1 .. Len(message) : message[i].entity = m
        BY <1>8, <2>1
      <3> HIDE DEF log, message, conversation
      <3>2. before + i \in Len(store.log) + 1 .. Len(log) /\ log[before + i] = message[i]
        BY <1>8, <1>10
      <3>3. QED
        BY <3>1, <3>2
    <2>2. CASE ~ \E i \in DOMAIN message : message[i].entity = m
      <3>1. /\ m \in DOMAIN store.records <=> m \in DOMAIN RecordsOf(a)
            /\ m \in DOMAIN store.records => store.records[m] = RecordsOf(a)[m]
        BY <1>2, <2>2, MessageFacts
      <3>2. QED
        BY <1>6, <3>1
    <2>3. QED
      BY <2>1, <2>2
  <1>14. ASSUME NEW c \in Conversation
         PROVE  \/ store'.names[c] = store.names[c]
                \/ \E i \in Len(store.log) + 1 .. Len(log) : log[i].entity = c
    <2>1. CASE \E i \in DOMAIN conversation : conversation[i].entity = c
      <3>1. PICK i \in 1 .. Len(conversation) : conversation[i].entity = c
        BY <1>8, <2>1
      <3> HIDE DEF log, message, conversation
      <3>2. /\ Len(store.log) + i \in Len(store.log) + 1 .. Len(log)
            /\ Len(store.log) + i \in 1 .. before
        BY <1>8, <1>10
      <3>3. log[Len(store.log) + i] = conversation[i]
        BY <1>9, <1>10, <3>2
      <3>4. QED
        BY <3>1, <3>2, <3>3
    <2>2. CASE ~ \E i \in DOMAIN conversation : conversation[i].entity = c
      <3>1. store.names[c] = a.names[c]
        <4> HIDE DEF a, conversation
        <4> QED
          BY <1>7, <2>2
      <3>2. QED
        BY <1>6, <3>1
    <2>3. QED
      BY <2>1, <2>2
  <1>15. \A i \in 1 .. Len(store.log) : log[i] = store.log[i]
    <2> HIDE DEF log, message, conversation
    <2>1. \A i \in 1 .. Len(store.log) : i \in 1 .. before
      BY <1>8
    <2>2. QED
      BY <1>9, <1>10, <2>1
  <1>16. Len(store.log) <= Len(log)
    <2> HIDE DEF log, message, conversation
    <2> QED
      BY <1>8, <1>10
  <1>17. Extends
    <2> HIDE DEF log
    <2> QED
      BY <1>1, <1>6, <1>13, <1>14, <1>15, <1>16 DEF Extends
  <1>18. QED
    BY <1>11, <1>12, <1>17

\* What any step does to the replica: nothing, a synchronization, its removal,
\* or a new one, whose identifier no cursor has.
StoreMoves ==
  /\ replicas <= replicas'
  /\ store' = store \/ Extends \/ store' = Nothing \/ store'.id = replicas + 1

LEMMA BootstrapMoves ==
  ASSUME StoreSound, NEW a \in Restored, Bootstrap(a)
  PROVE  StoreSound' /\ LogExplains' /\ StoreMoves
  <1>1. /\ replicas \in Nat /\ replicas' = replicas + 1 /\ syncer' = syncer
        /\ DOMAIN store' = {"id", "records", "names", "archive", "checkpoint", "log"}
        /\ store'.id = replicas + 1 /\ store'.records = RecordsOf(a) /\ store'.names = a.names
        /\ store'.archive = a /\ store'.checkpoint = 1
        /\ store'.log = <<[kind |-> "bootstrap", entity |-> Nothing]>>
    BY DEF Bootstrap, StoreSound
  <1>2. store'.log \in Seq(Change)
    BY <1>1 DEF Change
  <1>3. StoreSound'
    BY <1>1, <1>2 DEF StoreSound
  <1>4. \A i \in DOMAIN store'.log : store'.log[i].entity = Nothing
    BY <1>1
  <1>5. LogExplains'
    BY <1>4, StoreAssumption DEF LogExplains
  <1>6. replicas <= replicas'
    BY <1>1
  <1>7. QED
    BY <1>1, <1>3, <1>5, <1>6 DEF StoreMoves

LEMMA StoreStep ==
  ASSUME StoreSound, LogExplains, [ConsumerNext]_vars
  PROVE  StoreSound' /\ LogExplains' /\ StoreMoves
  <1>1. CASE UNCHANGED storeVars
    <2>1. UNCHANGED <<store, syncer, replicas>>
      BY <1>1 DEF storeVars
    <2>2. replicas <= replicas'
      BY <2>1 DEF StoreSound
    <2>3. StoreSound' /\ LogExplains'
      BY <2>1 DEF StoreSound, LogExplains
    <2>4. QED
      BY <2>1, <2>2, <2>3 DEF StoreMoves
  <1>2. CASE \E s \in Syncer, a \in Restored : Check(s, a)
    <2>1. PICK s \in Syncer, a \in Restored : Check(s, a)
      BY <1>2
    <2>2. /\ UNCHANGED <<store, replicas>> /\ syncer' = [syncer EXCEPT ![s] = a]
      BY <2>1 DEF Check
    <2>3. replicas <= replicas'
      BY <2>2 DEF StoreSound
    <2>4. StoreSound' /\ LogExplains'
      BY <2>2 DEF StoreSound, LogExplains
    <2>5. QED
      BY <2>2, <2>3, <2>4 DEF StoreMoves
  <1>3. CASE \E s \in Syncer : Commit(s)
    <2>1. replicas <= replicas'
      BY <1>3 DEF Commit, StoreSound
    <2>2. QED
      BY <1>3, <2>1, CommitExtends DEF StoreMoves
  <1>4. CASE \E s \in Syncer : Rollback(s)
    <2>1. PICK s \in Syncer : Rollback(s)
      BY <1>4
    <2>2. /\ UNCHANGED <<store, replicas>> /\ syncer' = [syncer EXCEPT ![s] = Nothing]
      BY <2>1 DEF Rollback
    <2>3. replicas <= replicas'
      BY <2>2 DEF StoreSound
    <2>4. StoreSound' /\ LogExplains'
      BY <2>2 DEF StoreSound, LogExplains
    <2>5. QED
      BY <2>2, <2>3, <2>4 DEF StoreMoves
  <1>5. CASE \E a \in Restored : Bootstrap(a)
    BY <1>5, BootstrapMoves
  <1>6. CASE Remove
    <2>1. store' = Nothing /\ UNCHANGED <<replicas, syncer>>
      BY <1>6 DEF Remove
    <2>2. replicas <= replicas'
      BY <2>1 DEF StoreSound
    <2>3. StoreSound' /\ LogExplains'
      BY <2>1 DEF StoreSound, LogExplains
    <2>4. QED
      BY <2>1, <2>2, <2>3 DEF StoreMoves
  <1>7. QED
    BY <1>1, <1>2, <1>3, <1>4, <1>5, <1>6
       DEF ConsumerNext, Synchronizing, Replacing, vars, Begin, List, OpenPage, SelectPage,
           Resume, GetChanges, ApplyChange, Relist, Write, End

-----------------------------------------------------------------------------
(* What a synchronization leaves of what was known of a message or a         *)
(* conversation: it is as it was, or the log says more of it.                *)
PendingIn(st, after, entity) == \E i \in DOMAIN st.log : i > after /\ st.log[i].entity = entity

SameIn(st, messages, m) ==
  /\ m \in DOMAIN messages <=> m \in DOMAIN st.records
  /\ m \in DOMAIN messages => messages[m] = st.records[m]

LEMMA PendingKept ==
  ASSUME StoreSound, StoreSound', store # Nothing, store' # Nothing, store' = store \/ Extends,
         NEW after \in Nat, NEW entity, PendingIn(store, after, entity)
  PROVE  PendingIn(store', after, entity)
  <1>1. CASE store' = store
    BY <1>1
  <1>2. CASE Extends
    <2>1. /\ store.log \in Seq(Change) /\ store'.log \in Seq(Change)
          /\ Len(store.log) \in Nat /\ Len(store'.log) \in Nat
          /\ DOMAIN store.log = 1 .. Len(store.log) /\ DOMAIN store'.log = 1 .. Len(store'.log)
      BY DEF StoreSound
    <2>2. PICK i \in DOMAIN store.log : i > after /\ store.log[i].entity = entity
      BY DEF PendingIn
    <2>3. i \in DOMAIN store'.log /\ store'.log[i] = store.log[i]
      BY <1>2, <2>1 DEF Extends
    <2>4. QED
      BY <2>2, <2>3 DEF PendingIn
  <1>3. QED
    BY <1>1, <1>2

LEMMA PendingFresh ==
  ASSUME StoreSound, StoreSound', store # Nothing, store' # Nothing,
         NEW after \in Nat, after <= Len(store.log), NEW entity,
         NEW i \in Len(store.log) + 1 .. Len(store'.log), store'.log[i].entity = entity
  PROVE  PendingIn(store', after, entity)
  <1>1. /\ store.log \in Seq(Change) /\ store'.log \in Seq(Change)
        /\ Len(store.log) \in Nat /\ Len(store'.log) \in Nat
        /\ DOMAIN store'.log = 1 .. Len(store'.log)
    BY DEF StoreSound
  <1>2. i \in DOMAIN store'.log /\ i > after
    BY <1>1
  <1>3. QED
    BY <1>2 DEF PendingIn

LEMMA SameKept ==
  ASSUME StoreSound, StoreSound', store # Nothing, store' # Nothing, store' = store \/ Extends,
         NEW after \in Nat, after <= Len(store.log), NEW messages, NEW m \in Message,
         SameIn(store, messages, m)
  PROVE  SameIn(store', messages, m) \/ PendingIn(store', after, m)
  <1>1. CASE store' = store
    BY <1>1
  <1>2. CASE Extends
    <2>1. CASE \E i \in Len(store.log) + 1 .. Len(store'.log) : store'.log[i].entity = m
      BY <2>1, PendingFresh
    <2>2. CASE /\ m \in DOMAIN store'.records <=> m \in DOMAIN store.records
               /\ m \in DOMAIN store.records => store'.records[m] = store.records[m]
      BY <2>2 DEF SameIn
    <2>3. QED
      BY <1>2, <2>1, <2>2 DEF Extends
  <1>3. QED
    BY <1>1, <1>2

LEMMA NameKept ==
  ASSUME StoreSound, StoreSound', store # Nothing, store' # Nothing, store' = store \/ Extends,
         NEW after \in Nat, after <= Len(store.log), NEW name, NEW c \in Conversation,
         name = store.names[c]
  PROVE  name = store'.names[c] \/ PendingIn(store', after, c)
  <1>1. CASE store' = store
    BY <1>1
  <1>2. CASE Extends
    <2>1. CASE \E i \in Len(store.log) + 1 .. Len(store'.log) : store'.log[i].entity = c
      BY <2>1, PendingFresh
    <2>2. CASE store'.names[c] = store.names[c]
      BY <2>2
    <2>3. QED
      BY <1>2, <2>1, <2>2 DEF Extends
  <1>3. QED
    BY <1>1, <1>2

(* A cursor that can be resumed after a step could be before it.             *)
LEMMA CursorKept ==
  ASSUME StoreSound, StoreSound', StoreMoves, NEW cursor,
         cursor.id \in 1 .. replicas, cursor.after \in Nat,
         store # Nothing /\ cursor.id = store.id => cursor.after <= Len(store.log)
  PROVE  /\ cursor.id \in 1 .. replicas'
         /\ store' # Nothing /\ cursor.id = store'.id =>
              /\ store # Nothing /\ cursor.id = store.id
              /\ store' = store \/ Extends
              /\ cursor.after <= Len(store.log) /\ cursor.after <= Len(store'.log)
              /\ \A i \in 1 .. cursor.after : store'.log[i] = store.log[i]
  <1>1. replicas \in Nat /\ replicas' \in Nat /\ replicas <= replicas'
    BY DEF StoreSound, StoreMoves
  <1>2. cursor.id \in 1 .. replicas' /\ cursor.id # replicas + 1
    BY <1>1
  <1>3. SUFFICES ASSUME store' # Nothing, cursor.id = store'.id
                 PROVE  /\ store # Nothing /\ cursor.id = store.id
                        /\ store' = store \/ Extends
                        /\ cursor.after <= Len(store.log) /\ cursor.after <= Len(store'.log)
                        /\ \A i \in 1 .. cursor.after : store'.log[i] = store.log[i]
    BY <1>2
  <1>4. store' = store \/ Extends
    BY <1>2, <1>3 DEF StoreMoves
  <1>5. store # Nothing /\ cursor.id = store.id
    BY <1>3, <1>4 DEF Extends
  <1>6. cursor.after <= Len(store.log)
    BY <1>5
  <1>7. Len(store.log) \in Nat /\ Len(store'.log) \in Nat
    BY <1>3, <1>5 DEF StoreSound
  <1>8. CASE store' = store
    BY <1>4, <1>5, <1>6, <1>8
  <1>9. CASE Extends
    <2>1. Len(store.log) <= Len(store'.log)
      BY <1>9 DEF Extends
    <2>2. cursor.after <= Len(store'.log)
      BY <1>6, <1>7, <2>1
    <2>3. \A i \in 1 .. cursor.after : i \in 1 .. Len(store.log)
      BY <1>6, <1>7
    <2>4. \A i \in 1 .. cursor.after : store'.log[i] = store.log[i]
      BY <1>9, <2>3 DEF Extends
    <2>5. QED
      BY <1>4, <1>5, <1>6, <2>2, <2>4
  <1>10. QED
    BY <1>4, <1>8, <1>9

(* A step of the replica leaves what was read of it in order.                *)
LEMMA RunKept ==
  ASSUME StoreSound, StoreSound', StoreMoves, RunSound, run' = run
  PROVE  RunSound'
  <1> SUFFICES ASSUME run # Nothing PROVE RunSound'
    BY DEF RunSound
  <1> DEFINE cursor == run.state.cursor
             messages == run.state.messages
  <1>1. /\ RunShape /\ cursor.id \in 1 .. replicas /\ cursor.after \in Nat
        /\ DOMAIN cursor = {"id", "after"}
        /\ store # Nothing /\ cursor.id = store.id => cursor.after <= Len(store.log)
    BY DEF RunSound, RunShape, CursorSound, Resumable
  <1>2. /\ cursor.id \in 1 .. replicas'
        /\ store' # Nothing /\ cursor.id = store'.id =>
             /\ store # Nothing /\ cursor.id = store.id
             /\ store' = store \/ Extends
             /\ cursor.after <= Len(store.log) /\ cursor.after <= Len(store'.log)
             /\ \A i \in 1 .. cursor.after : store'.log[i] = store.log[i]
    <2> HIDE DEF cursor
    <2> QED
      BY <1>1, CursorKept
  <1>3. RunShape'
    <2>1. CursorSound(run.state)'
      BY <1>1, <1>2 DEF CursorSound, Resumable
    <2>2. QED
      BY <1>1, <2>1 DEF RunShape, WholeState
  <1>4. SUFFICES ASSUME store' # Nothing, cursor.id = store'.id
                 PROVE  /\ run.pc \in {"page", "select"} => PageShape' /\ PagesSound'
                        /\ run.pc \in {"changes", "apply"} => ChangesSound' /\ QueueSound'
                        /\ run.pc \in {"relist", "write"} =>
                             \A m \in Message :
                               Home[m] \in Authorized => MessageKnown(run.state, m)'
                        /\ run.pc = "write" =>
                             \A c \in Authorized : NameKnown(run.state, c)'
    BY <1>3 DEF RunSound, Resumable
  <1>5. /\ store # Nothing /\ Resumable(run.state.cursor)
        /\ store' = store \/ Extends
        /\ cursor.after <= Len(store.log)
        /\ \A i \in 1 .. cursor.after : store'.log[i] = store.log[i]
    BY <1>2, <1>4 DEF Resumable
  <1>6. ASSUME NEW entity, PendingIn(store, cursor.after, entity)
        PROVE  PendingIn(store', cursor.after, entity)
    <2> HIDE DEF cursor
    <2> QED
      BY <1>1, <1>4, <1>5, <1>6, PendingKept
  <1>7. ASSUME NEW m \in Message, SameIn(store, messages, m)
        PROVE  SameIn(store', messages, m) \/ PendingIn(store', cursor.after, m)
    <2> HIDE DEF cursor, messages
    <2> QED
      BY <1>1, <1>4, <1>5, <1>7, SameKept
  <1>8. ASSUME NEW c \in Authorized, NameKnown(run.state, c) PROVE NameKnown(run.state, c)'
    <2>1. CASE Pending(run.state, c)
      <3>1. PendingIn(store, cursor.after, c)
        BY <2>1 DEF Pending, PendingIn
      <3>2. PendingIn(store', cursor.after, c)
        BY <1>6, <3>1
      <3>3. QED
        BY <3>2 DEF NameKnown, Pending, PendingIn
    <2>2. CASE run.state.names[c] = store.names[c]
      <3>1. c \in Conversation
        BY ConsumerAssumption
      <3>2. run.state.names[c] = store'.names[c] \/ PendingIn(store', cursor.after, c)
        <4> HIDE DEF cursor
        <4> QED
          BY <1>1, <1>4, <1>5, <2>2, <3>1, NameKept
      <3>3. QED
        BY <3>2 DEF NameKnown, Pending, PendingIn
    <2>3. QED
      BY <1>8, <2>1, <2>2 DEF NameKnown
  <1>9. ASSUME NEW m \in Message, Pending(run.state, m) PROVE Pending(run.state, m)'
    <2>1. PendingIn(store, cursor.after, m)
      BY <1>9 DEF Pending, PendingIn
    <2>2. PendingIn(store', cursor.after, m)
      BY <1>6, <2>1
    <2>3. QED
      BY <2>2 DEF Pending, PendingIn
  <1>10. ASSUME NEW m \in Message, Same(run.state.messages, m)
         PROVE  Same(run.state.messages, m)' \/ Pending(run.state, m)'
    <2>1. SameIn(store, messages, m)
      BY <1>10 DEF Same, SameIn
    <2>2. SameIn(store', messages, m) \/ PendingIn(store', cursor.after, m)
      BY <1>7, <2>1
    <2>3. QED
      BY <2>2 DEF Same, SameIn, Pending, PendingIn
  <1>11. ASSUME NEW m \in Message, MessageKnown(run.state, m) PROVE MessageKnown(run.state, m)'
    BY <1>9, <1>10, <1>11 DEF MessageKnown
  <1>12. ASSUME run.pc \in {"page", "select"} PROVE PageShape' /\ PagesSound'
    <2>1. PageShape /\ PagesSound
      BY <1>5, <1>12 DEF RunSound
    <2>2. PageShape'
      BY <2>1 DEF PageShape
    <2>3. ASSUME NEW m \in Message, Home[m] \in Authorized
          PROVE  \/ Pending(run.state, m)'
                 \/ Passed(m)' /\ Same(run.state.messages, m)'
                 \/ ~Passed(m)' /\ m \notin DOMAIN run'.state.messages
      <3>1. Passed(m)' <=> Passed(m)
        BY DEF Passed
      <3>2. \/ Pending(run.state, m)
            \/ Passed(m) /\ Same(run.state.messages, m)
            \/ ~Passed(m) /\ m \notin DOMAIN run.state.messages
        BY <2>1, <2>3 DEF PagesSound
      <3>3. QED
        BY <1>9, <1>10, <3>1, <3>2
    <2>4. ASSUME NEW c \in Authorized PROVE NameKnown(run.state, c)'
      BY <1>8, <2>1 DEF PagesSound
    <2>5. QED
      BY <2>2, <2>3, <2>4 DEF PagesSound
  <1>13. ASSUME run.pc \in {"changes", "apply"} PROVE ChangesSound' /\ QueueSound'
    <2>1. ChangesSound /\ QueueSound
      BY <1>5, <1>13 DEF RunSound
    <2>2. \A entity : Queued(entity)' <=> Queued(entity)
      BY DEF Queued
    <2>3. ASSUME NEW m \in Message, Home[m] \in Authorized
          PROVE  MessageKnown(run.state, m)' \/ Queued(m)'
      BY <1>11, <2>1, <2>2, <2>3 DEF ChangesSound
    <2>4. ASSUME NEW c \in Authorized
          PROVE  NameKnown(run.state, c)' \/ Queued(c)' \/ run'.refresh
      BY <1>8, <2>1, <2>2 DEF ChangesSound
    <2>5. QueueSound'
      <3>1. \A k \in DOMAIN run.todo :
              \E i \in 1 .. cursor.after :
                /\ store'.log[i] = run.todo[k]
                /\ \A j \in i + 1 .. cursor.after :
                     Released(store'.log[j]) =>
                       \E l \in k + 1 .. Len(run.todo) : run.todo[l] = store'.log[j]
        <4> SUFFICES ASSUME NEW k \in DOMAIN run.todo
                     PROVE  \E i \in 1 .. cursor.after :
                              /\ store'.log[i] = run.todo[k]
                              /\ \A j \in i + 1 .. cursor.after :
                                   Released(store'.log[j]) =>
                                     \E l \in k + 1 .. Len(run.todo) : run.todo[l] = store'.log[j]
          OBVIOUS
        <4>1. PICK i \in 1 .. cursor.after :
                /\ store.log[i] = run.todo[k]
                /\ \A j \in i + 1 .. cursor.after :
                     Released(store.log[j]) =>
                       \E l \in k + 1 .. Len(run.todo) : run.todo[l] = store.log[j]
          BY <2>1 DEF QueueSound
        <4>2. \A j \in i + 1 .. cursor.after : j \in 1 .. cursor.after
          BY <1>1
        <4>3. QED
          BY <1>5, <4>1, <4>2
      <3>2. QED
        BY <3>1 DEF QueueSound, Released
    <2>6. QED
      BY <2>3, <2>4, <2>5 DEF ChangesSound
  <1>14. ASSUME run.pc \in {"relist", "write"}, NEW m \in Message, Home[m] \in Authorized
         PROVE  MessageKnown(run.state, m)'
    BY <1>5, <1>11, <1>14 DEF RunSound
  <1>15. ASSUME run.pc = "write", NEW c \in Authorized PROVE NameKnown(run.state, c)'
    BY <1>5, <1>8, <1>15 DEF RunSound
  <1>16. QED
    BY <1>12, <1>13, <1>14, <1>15

(* And of the stored copy.                                                   *)
LEMMA StoredKept ==
  ASSUME StoreSound, StoreSound', StoreMoves, StoredSound, NothingMissed, stored' = stored
  PROVE  StoredSound' /\ NothingMissed'
  <1> SUFFICES ASSUME stored # Nothing PROVE StoredSound' /\ NothingMissed'
    BY DEF StoredSound, NothingMissed
  <1> DEFINE cursor == stored.cursor
             messages == stored.messages
  <1>1. /\ WholeState(stored) /\ cursor.id \in 1 .. replicas /\ cursor.after \in Nat
        /\ DOMAIN cursor = {"id", "after"}
        /\ store # Nothing /\ cursor.id = store.id => cursor.after <= Len(store.log)
    BY DEF StoredSound, CursorSound, Resumable
  <1>2. /\ cursor.id \in 1 .. replicas'
        /\ store' # Nothing /\ cursor.id = store'.id =>
             /\ store # Nothing /\ cursor.id = store.id
             /\ store' = store \/ Extends
             /\ cursor.after <= Len(store.log) /\ cursor.after <= Len(store'.log)
             /\ \A i \in 1 .. cursor.after : store'.log[i] = store.log[i]
    <2> HIDE DEF cursor
    <2> QED
      BY <1>1, CursorKept
  <1>3. StoredSound'
    BY <1>1, <1>2 DEF StoredSound, WholeState, CursorSound, Resumable
  <1>4. SUFFICES ASSUME store' # Nothing, cursor.id = store'.id
                 PROVE  /\ \A m \in Message :
                             Home[m] \in Authorized =>
                               SameIn(store', messages, m) \/ PendingIn(store', cursor.after, m)
                        /\ \A c \in Authorized :
                             stored.names[c] = store'.names[c] \/ PendingIn(store', cursor.after, c)
    BY <1>3 DEF NothingMissed, Resumable, Same, SameIn, Pending, PendingIn
  <1>5. /\ store # Nothing /\ cursor.after <= Len(store.log)
        /\ store' = store \/ Extends
        /\ \A m \in Message : Home[m] \in Authorized =>
             SameIn(store, messages, m) \/ PendingIn(store, cursor.after, m)
        /\ \A c \in Authorized :
             stored.names[c] = store.names[c] \/ PendingIn(store, cursor.after, c)
    BY <1>2, <1>4 DEF NothingMissed, Resumable, Same, SameIn, Pending, PendingIn
  <1> HIDE DEF cursor, messages
  <1>6. ASSUME NEW m \in Message, Home[m] \in Authorized
        PROVE  SameIn(store', messages, m) \/ PendingIn(store', cursor.after, m)
    BY <1>1, <1>4, <1>5, <1>6, PendingKept, SameKept
  <1>7. ASSUME NEW c \in Authorized
        PROVE  stored.names[c] = store'.names[c] \/ PendingIn(store', cursor.after, c)
    BY <1>1, <1>4, <1>5, PendingKept, NameKept, ConsumerAssumption
  <1>8. QED
    BY <1>6, <1>7

-----------------------------------------------------------------------------
(* The steps of a run.                                                       *)
LEMMA BeginSound ==
  ASSUME StoreSound, Begin
  PROVE  RunSound'
  <1>1. /\ store # Nothing /\ UNCHANGED <<store, replicas>>
        /\ run' = [pc |-> "list", left |-> {}, page |-> Nothing, todo |-> <<>>, refresh |-> FALSE,
                   state |-> [cursor |-> [id |-> store.id, after |-> Len(store.log)]]]
    BY DEF Begin, storeVars
  <1>2. Len(store.log) \in Nat /\ store.id \in 1 .. replicas
    BY <1>1 DEF StoreSound
  <1>3. CursorSound(run.state)'
    BY <1>1, <1>2 DEF CursorSound, Resumable
  <1>4. RunShape'
    BY <1>1, <1>3 DEF RunShape
  <1>5. run'.pc = "list"
    BY <1>1
  <1>6. QED
    BY <1>4, <1>5 DEF RunSound

LEMMA ListSound ==
  ASSUME StoreSound, RunSound, List
  PROVE  RunSound'
  <1>1. /\ run # Nothing /\ run.pc = "list" /\ UNCHANGED <<store, replicas>> /\ RunShape
        /\ run' = [run EXCEPT !.pc = "page", !.left = Authorized,
                              !.state = [cursor |-> @.cursor, names |-> AuthorizedNames,
                                         messages |-> <<>>]]
    BY DEF List, RunSound, storeVars
  <1>2. /\ DOMAIN run' = {"pc", "state", "left", "page", "todo", "refresh"}
        /\ run'.pc = "page" /\ run'.left = Authorized /\ run'.page = Nothing
        /\ run'.todo = run.todo /\ run'.refresh = FALSE /\ run.todo = <<>>
        /\ run'.state = [cursor |-> run.state.cursor, names |-> AuthorizedNames, messages |-> <<>>]
    BY <1>1 DEF RunShape
  <1>3. CursorSound(run.state)'
    BY <1>1, <1>2 DEF RunShape, CursorSound, Resumable
  <1>4. RunShape'
    BY <1>1, <1>2, <1>3 DEF RunShape, WholeState
  <1>5. PageShape'
    BY <1>2 DEF PageShape
  <1>6. PagesSound'
    <2>1. \A m \in Message : Home[m] \in Authorized =>
            ~Passed(m)' /\ m \notin DOMAIN run'.state.messages
      BY <1>2 DEF Passed
    <2>2. \A c \in Authorized : run'.state.names[c] = store'.names[c]
      BY <1>1, <1>2 DEF AuthorizedNames
    <2>3. QED
      BY <2>1, <2>2 DEF PagesSound, NameKnown
  <1>7. QED
    BY <1>2, <1>4, <1>5, <1>6 DEF RunSound

LEMMA OpenPageSound ==
  ASSUME StoreSound, RunSound, NEW c \in Authorized, OpenPage(c)
  PROVE  RunSound'
  <1> DEFINE opened == [id |-> store.id, checkpoint |-> store.checkpoint,
                        after |-> IF run.page = Nothing THEN 0 ELSE run.page.after,
                        conversation |-> c]
  <1>1. /\ run # Nothing /\ run.pc = "page" /\ c \in run.left /\ store # Nothing
        /\ run.page # Nothing => run.page.conversation = c
        /\ UNCHANGED <<store, replicas>> /\ RunShape
        /\ run' = [run EXCEPT !.pc = "select", !.page = opened]
    BY DEF OpenPage, RunSound, storeVars
  <1>2. /\ DOMAIN run' = {"pc", "state", "left", "page", "todo", "refresh"}
        /\ run'.pc = "select" /\ run'.left = run.left /\ run'.page = opened
        /\ run'.todo = run.todo /\ run'.refresh = run.refresh /\ run'.state = run.state
    BY <1>1 DEF RunShape
  <1>3. CursorSound(run.state)'
    BY <1>1, <1>2 DEF RunShape, CursorSound, Resumable
  <1>4. RunShape'
    BY <1>1, <1>2, <1>3 DEF RunShape, WholeState
  <1>5. SUFFICES ASSUME Resumable(run.state.cursor)'
                 PROVE  PageShape' /\ PagesSound'
    BY <1>2, <1>4 DEF RunSound
  <1>6. PageShape /\ PagesSound
    <2>1. Resumable(run.state.cursor)
      BY <1>1, <1>2, <1>5 DEF Resumable
    <2>2. QED
      BY <1>1, <2>1 DEF RunSound
  <1>7. PageShape'
    <2>1. store.id \in Nat /\ store.checkpoint \in Nat
      BY <1>1 DEF StoreSound
    <2>2. run.page # Nothing => run.page.after \in Nat
      BY <1>6 DEF PageShape
    <2>3. opened \in [id : Nat, checkpoint : Nat, after : Nat, conversation : Authorized]
      BY <2>1, <2>2
    <2>4. opened.conversation = c
      OBVIOUS
    <2> HIDE DEF opened
    <2>5. QED
      BY <1>1, <1>2, <2>3, <2>4, ConsumerAssumption DEF PageShape
  <1>8. ASSUME NEW m \in Message PROVE Passed(m)' <=> Passed(m)
    <2>1. m \in Nat \ {0}
      BY StoreAssumption
    <2>2. run'.page # Nothing /\ run'.page.conversation = c /\ run'.left = run.left
      BY <1>1, <1>2, <1>7 DEF PageShape
    <2>3. CASE run.page = Nothing
      <3>1. run'.page.after = 0
        BY <1>2, <2>3
      <3>2. ~ (m <= run'.page.after)
        BY <2>1, <3>1
      <3>3. QED
        BY <2>2, <2>3, <3>2 DEF Passed
    <2>4. CASE run.page # Nothing
      <3>1. run'.page.after = run.page.after
        BY <1>2, <2>4
      <3>2. QED
        BY <1>1, <2>2, <2>4, <3>1 DEF Passed
    <2>5. QED
      BY <2>3, <2>4
  <1>9. PagesSound'
    <2>1. \A m \in Message :
            /\ Pending(run.state, m)' <=> Pending(run.state, m)
            /\ Same(run.state.messages, m)' <=> Same(run.state.messages, m)
      BY <1>1, <1>2 DEF Pending, Same
    <2>2. \A d \in Authorized : NameKnown(run.state, d)' <=> NameKnown(run.state, d)
      BY <1>1, <1>2 DEF NameKnown, Pending
    <2>3. QED
      BY <1>2, <1>6, <1>8, <2>1, <2>2 DEF PagesSound
  <1>10. QED
    BY <1>7, <1>9

LEMMA ResumeSound ==
  ASSUME StoreSound, StoredSound, NothingMissed, Resume
  PROVE  RunSound'
  <1>1. /\ stored # Nothing /\ UNCHANGED <<store, replicas>>
        /\ run' = [pc |-> "changes", left |-> {}, page |-> Nothing, todo |-> <<>>,
                   refresh |-> FALSE, state |-> stored]
    BY DEF Resume, storeVars
  <1>2. /\ DOMAIN run' = {"pc", "state", "left", "page", "todo", "refresh"}
        /\ run'.pc = "changes" /\ run'.left = {} /\ run'.todo = <<>> /\ run'.state = stored
    BY <1>1
  <1>3. CursorSound(run.state)' /\ WholeState(run.state)'
    BY <1>1, <1>2 DEF StoredSound, CursorSound, Resumable, WholeState
  <1>4. RunShape'
    BY <1>2, <1>3 DEF RunShape
  <1>5. SUFFICES ASSUME Resumable(run.state.cursor)'
                 PROVE  ChangesSound' /\ QueueSound'
    BY <1>2, <1>4 DEF RunSound
  <1>6. Resumable(stored.cursor)
    BY <1>1, <1>2, <1>5 DEF Resumable
  <1>7. ChangesSound'
    <2>1. \A m \in Message : Home[m] \in Authorized => MessageKnown(run.state, m)'
      BY <1>1, <1>2, <1>6 DEF NothingMissed, MessageKnown, Same, Pending
    <2>2. \A c \in Authorized : NameKnown(run.state, c)'
      BY <1>1, <1>2, <1>6 DEF NothingMissed, NameKnown, Pending
    <2>3. QED
      BY <2>1, <2>2 DEF ChangesSound
  <1>8. QueueSound'
    BY <1>2 DEF QueueSound
  <1>9. QED
    BY <1>7, <1>8

LEMMA RelistSound ==
  ASSUME StoreSound, RunSound, Relist
  PROVE  RunSound'
  <1>1. /\ run # Nothing /\ run.pc = "relist" /\ UNCHANGED <<store, replicas>> /\ RunShape
        /\ run' = [run EXCEPT !.pc = "write", !.state.names = AuthorizedNames]
    BY DEF Relist, RunSound, storeVars
  <1>2. /\ DOMAIN run' = {"pc", "state", "left", "page", "todo", "refresh"}
        /\ run'.pc = "write" /\ run'.left = run.left /\ run'.todo = run.todo
        /\ DOMAIN run'.state = DOMAIN run.state /\ run'.state.names = AuthorizedNames
        /\ run'.state.cursor = run.state.cursor /\ run'.state.messages = run.state.messages
    <2>1. DOMAIN run.state = {"cursor", "names", "messages"}
      BY <1>1 DEF RunShape, WholeState
    <2>2. /\ DOMAIN run' = {"pc", "state", "left", "page", "todo", "refresh"}
          /\ run'.pc = "write" /\ run'.left = run.left /\ run'.todo = run.todo
          /\ run'.state = [run.state EXCEPT !.names = AuthorizedNames]
      BY <1>1 DEF RunShape
    <2>3. QED
      BY <2>1, <2>2
  <1>3. CursorSound(run.state)' /\ WholeState(run.state)'
    BY <1>1, <1>2 DEF RunShape, CursorSound, Resumable, WholeState
  <1>4. RunShape'
    BY <1>1, <1>2, <1>3 DEF RunShape
  <1>5. SUFFICES ASSUME Resumable(run.state.cursor)'
                 PROVE  /\ \A m \in Message :
                             Home[m] \in Authorized => MessageKnown(run.state, m)'
                        /\ \A c \in Authorized : NameKnown(run.state, c)'
    BY <1>2, <1>4 DEF RunSound
  <1>6. Resumable(run.state.cursor)
    BY <1>1, <1>2, <1>5 DEF Resumable
  <1>7. \A m \in Message : Home[m] \in Authorized => MessageKnown(run.state, m)'
    BY <1>1, <1>2, <1>6 DEF RunSound, MessageKnown, Same, Pending
  <1>8. \A c \in Authorized : NameKnown(run.state, c)'
    BY <1>1, <1>2 DEF NameKnown, AuthorizedNames
  <1>9. QED
    BY <1>7, <1>8

LEMMA WriteSound ==
  ASSUME StoreSound, RunSound, Write
  PROVE  StoredSound' /\ NothingMissed'
  <1>1. /\ run # Nothing /\ run.pc = "write" /\ UNCHANGED <<store, replicas>> /\ RunShape
        /\ stored' = run.state
    BY DEF Write, RunSound, storeVars
  <1>2. StoredSound'
    BY <1>1 DEF StoredSound, RunShape, WholeState, CursorSound, Resumable
  <1>3. NothingMissed'
    <2>1. SUFFICES ASSUME Resumable(run.state.cursor)
                   PROVE  NothingMissed'
      BY <1>1 DEF NothingMissed, Resumable
    <2>2. /\ \A m \in Message : Home[m] \in Authorized => MessageKnown(run.state, m)
          /\ \A c \in Authorized : NameKnown(run.state, c)
      BY <1>1, <2>1 DEF RunSound
    <2>3. QED
      BY <1>1, <2>2 DEF NothingMissed, MessageKnown, NameKnown, Same, Pending
  <1>4. QED
    BY <1>2, <1>3

(* What a page selects: the messages that follow up to one of them, and at   *)
(* least one when it is not the last page.                                   *)
LEMMA SelectedFacts ==
  ASSUME StoreSound, store # Nothing, NEW c \in Conversation, NEW after \in Nat
  PROVE  /\ Selected(c, after) \subseteq Following(c, after)
         /\ Following(c, after) \subseteq DOMAIN store.records \cap Message
         /\ More(c, after) =>
              /\ Max(Selected(c, after)) \in Selected(c, after)
              /\ \A m \in Following(c, after) :
                   m \in Selected(c, after) <=> m <= Max(Selected(c, after))
  <1> DEFINE F == Following(c, after)
             S == Selected(c, after)
  <1>1. /\ F \in SUBSET Nat /\ IsFiniteSet(F) /\ F \subseteq DOMAIN store.records
        /\ F \subseteq Message
    <2>1. store.archive \in Restored /\ DOMAIN store.records = DOMAIN store.archive.texts
      BY RecordsOfDomain DEF StoreSound
    <2>2. /\ DOMAIN store.records \in SUBSET Message /\ DOMAIN store.records \in SUBSET Nat
          /\ IsFiniteSet(DOMAIN store.records)
      BY <2>1, ArchiveFacts
    <2>3. F \in SUBSET DOMAIN store.records
      BY DEF Following
    <2> HIDE DEF F
    <2>4. IsFiniteSet(F)
      BY <2>2, <2>3, FS_Subset
    <2>5. QED
      BY <2>2, <2>3, <2>4
  <1>2. S = {m \in F : Rank(F, m) < PageSize}
    BY DEF Selected, Rank
  <1>3. S \subseteq F
    BY <1>2
  <1>4. More(c, after) <=> S # F
    BY DEF More
  <1> HIDE DEF F, S
  <1>5. ASSUME NEW m \in S, NEW k \in F, k <= m PROVE k \in S
    <2>1. m \in F /\ Rank(F, m) < PageSize /\ m \in Nat /\ k \in Nat
      BY <1>1, <1>2
    <2>2. CASE k = m
      BY <2>2
    <2>3. CASE k < m
      <3>1. /\ Rank(F, k) < Rank(F, m) /\ Cardinality(F) \in Nat
            /\ Rank(F, k) \in 0 .. Cardinality(F) - 1 /\ Rank(F, m) \in 0 .. Cardinality(F) - 1
        BY <1>1, <2>1, <2>3, RankGrows
      <3>2. Rank(F, k) < PageSize
        BY <2>1, <3>1, ConsumerAssumption
      <3>3. QED
        BY <1>2, <3>2
    <2>4. QED
      BY <1>5, <2>1, <2>2, <2>3
  <1>6. ASSUME S # F
        PROVE  Max(S) \in S /\ \A m \in F : m \in S <=> m <= Max(S)
    <2>1. F # {}
      BY <1>3, <1>6
    <2>2. PICK k \in F : \A m \in F : k <= m
      BY <1>1, <2>1, LeastMember
    <2>3. {m \in F : m < k} = {}
      <3>1. \A m \in F : m \in Nat /\ k \in Nat
        BY <1>1
      <3>2. \A m \in F : ~ (m < k)
        BY <2>2, <3>1
      <3>3. QED
        BY <3>2
    <2>4. Rank(F, k) = 0
      BY <2>3, FS_EmptySet DEF Rank
    <2>5. k \in S
      BY <1>2, <2>4, ConsumerAssumption
    <2>6. S \in SUBSET Nat /\ IsFiniteSet(S) /\ S # {}
      BY <1>1, <1>3, <2>5, FS_Subset
    <2>7. Max(S) \in S /\ \A m \in S : m <= Max(S)
      BY <2>6, GreatestMember
    <2>8. QED
      BY <1>5, <2>7
  <1>7. QED
    BY <1>1, <1>3, <1>4, <1>6 DEF F, S

LEMMA SelectPageSound ==
  ASSUME StoreSound, RunSound, SelectPage
  PROVE  RunSound'
  <1> DEFINE c == run.page.conversation
             after == run.page.after
             S == Selected(c, after)
             left == IF More(c, after) THEN run.left ELSE run.left \ {c}
             page == IF More(c, after) THEN [run.page EXCEPT !.after = Max(S)] ELSE Nothing
  <1>1. /\ run # Nothing /\ run.pc = "select" /\ UNCHANGED <<store, replicas>> /\ RunShape
        /\ run' = [run EXCEPT !.pc = IF left = {} THEN "changes" ELSE "page", !.left = left,
                              !.state.messages = Put(@, S), !.page = page]
    BY DEF SelectPage, RunSound, storeVars
  <1>2. /\ DOMAIN run' = {"pc", "state", "left", "page", "todo", "refresh"}
        /\ run'.pc = (IF left = {} THEN "changes" ELSE "page") /\ run'.left = left
        /\ run'.todo = run.todo /\ run.todo = <<>> /\ run'.refresh = run.refresh
        /\ run'.page = page
        /\ DOMAIN run'.state = {"cursor", "names", "messages"}
        /\ run'.state.names = run.state.names /\ run'.state.cursor = run.state.cursor
        /\ run'.state.messages = Put(run.state.messages, S)
    <2> HIDE DEF S, left, page
    <2>1. DOMAIN run.state = {"cursor", "names", "messages"} /\ run.todo = <<>>
      BY <1>1 DEF RunShape, WholeState
    <2>2. /\ DOMAIN run' = {"pc", "state", "left", "page", "todo", "refresh"}
          /\ run'.pc = (IF left = {} THEN "changes" ELSE "page") /\ run'.left = left
          /\ run'.todo = run.todo /\ run'.refresh = run.refresh /\ run'.page = page
          /\ run'.state = [run.state EXCEPT !.messages = Put(@, S)]
      BY <1>1 DEF RunShape
    <2>3. QED
      BY <2>1, <2>2
  <1>3. CursorSound(run.state)' /\ WholeState(run.state)'
    BY <1>1, <1>2 DEF RunShape, CursorSound, Resumable, WholeState
  <1>4. RunShape'
    <2>1. left \subseteq Authorized
      BY <1>1 DEF RunShape
    <2> HIDE DEF left, page, S
    <2>2. QED
      BY <1>1, <1>2, <1>3, <2>1 DEF RunShape
  <1>5. SUFFICES ASSUME Resumable(run.state.cursor)'
                 PROVE  /\ PageShape' /\ PagesSound'
                        /\ left = {} => ChangesSound' /\ QueueSound'
    <2> HIDE DEF left, page, S
    <2> QED
      BY <1>2, <1>4 DEF RunSound
  <1>6. store # Nothing /\ PageShape /\ PagesSound
    <2>1. Resumable(run.state.cursor)
      BY <1>1, <1>2, <1>5 DEF Resumable
    <2>2. QED
      BY <1>1, <2>1 DEF RunSound, Resumable
  <1>7. /\ run.page \in [id : Nat, checkpoint : Nat, after : Nat, conversation : Authorized]
        /\ run.page # Nothing /\ c \in run.left /\ c \in Authorized /\ c \in Conversation
        /\ after \in Nat
    BY <1>1, <1>6, ConsumerAssumption DEF PageShape
  <1>8. /\ S \subseteq Following(c, after)
        /\ \A m : m \in Following(c, after) <=>
             m \in DOMAIN store.records /\ Home[m] = c /\ m > after
        /\ DOMAIN store.records \cap S \subseteq Message
        /\ ~More(c, after) => S = Following(c, after)
        /\ More(c, after) =>
             /\ Max(S) \in S
             /\ \A m \in Following(c, after) : m \in S <=> m <= Max(S)
    <2> HIDE DEF c, after
    <2>1. \A m : m \in Following(c, after) <=>
             m \in DOMAIN store.records /\ Home[m] = c /\ m > after
      BY DEF Following
    <2>2. ~More(c, after) => S = Following(c, after)
      BY DEF More
    <2>3. QED
      BY <1>6, <1>7, <2>1, <2>2, SelectedFacts
  <1>9. /\ More(c, after) => Max(S) \in Nat /\ Max(S) > after
        /\ More(c, after) => /\ run'.page # Nothing
                             /\ page = [run.page EXCEPT !.after = Max(S)]
                             /\ page \in [id : Nat, checkpoint : Nat, after : Nat,
                                          conversation : Authorized]
                             /\ page.conversation = c /\ page.after = Max(S)
        /\ ~More(c, after) => run'.page = Nothing
    <2>1. ASSUME More(c, after) PROVE Max(S) \in Nat /\ Max(S) > after
      <3> HIDE DEF S, c, after
      <3>1. Max(S) \in S /\ Max(S) \in DOMAIN store.records /\ Max(S) > after
        BY <1>8, <2>1
      <3>2. Max(S) \in Message
        BY <1>8, <3>1
      <3>3. QED
        BY <3>1, <3>2, StoreAssumption
    <2>2. ASSUME More(c, after)
          PROVE  /\ page = [run.page EXCEPT !.after = Max(S)]
                 /\ page \in [id : Nat, checkpoint : Nat, after : Nat, conversation : Authorized]
                 /\ page.conversation = c /\ page.after = Max(S)
      <3>1. page = [run.page EXCEPT !.after = Max(S)]
        BY <2>2
      <3>2. Max(S) \in Nat
        BY <2>1, <2>2
      <3> HIDE DEF S, page
      <3>3. QED
        BY <1>7, <3>1, <3>2
    <2>3. ~More(c, after) => page = Nothing
      OBVIOUS
    <2> HIDE DEF page, S, c, after
    <2>4. QED
      BY <1>2, <2>1, <2>2, <2>3, ConsumerAssumption
  <1>10. /\ More(c, after) => run'.left = run.left
         /\ ~More(c, after) => run'.left = run.left \ {c}
    BY <1>2
  <1>11. PageShape'
    <2> HIDE DEF S, c, after, left, page
    <2>1. run'.pc # "select"
      BY <1>2
    <2>2. QED
      BY <1>2, <1>7, <1>9, <1>10, <2>1 DEF PageShape
  <1>12. ASSUME NEW m \in Message, Home[m] = c
         PROVE  Passed(m)' <=> (More(c, after) => m <= Max(S))
    <2> HIDE DEF S, c, after, left, page
    <2>1. CASE More(c, after)
      BY <1>2, <1>7, <1>9, <1>10, <1>12, <2>1 DEF Passed
    <2>2. CASE ~More(c, after)
      BY <1>10, <1>12, <2>2 DEF Passed
    <2>3. QED
      BY <2>1, <2>2
  <1>13. ASSUME NEW m \in Message, Home[m] # c
         PROVE  Passed(m)' <=> Passed(m)
    <2>1. Passed(m) <=> Home[m] \notin run.left
      BY <1>13 DEF Passed
    <2>2. Passed(m)' <=> Home[m] \notin run'.left
      <3> HIDE DEF S, c, after, left, page
      <3> QED
        BY <1>2, <1>9, <1>13 DEF Passed
    <2>3. QED
      BY <1>10, <1>13, <2>1, <2>2
  <1>14. ASSUME NEW m \in Message, Home[m] = c
         PROVE  Passed(m) <=> m <= after
    BY <1>7, <1>14 DEF Passed
  <1>15. \A m : /\ m \in DOMAIN run'.state.messages <=> m \in DOMAIN run.state.messages \/ m \in S
                /\ m \in S => run'.state.messages[m] = store.records[m]
                /\ m \in DOMAIN run.state.messages \ S =>
                     run'.state.messages[m] = run.state.messages[m]
    <2> HIDE DEF S
    <2> QED
      BY <1>2 DEF Put
  <1>16. ASSUME NEW m \in Message, m \in S PROVE Same(run.state.messages, m)'
    <2> HIDE DEF S, c, after
    <2> QED
      BY <1>1, <1>8, <1>15, <1>16 DEF Same
  <1>17. ASSUME NEW m \in Message, m \notin S, Same(run.state.messages, m)
         PROVE  Same(run.state.messages, m)'
    <2> HIDE DEF S, c, after
    <2> QED
      BY <1>1, <1>15, <1>17 DEF Same
  <1>18. ASSUME NEW m \in Message, Home[m] \in Authorized
         PROVE  \/ Pending(run.state, m)'
                \/ Passed(m)' /\ Same(run.state.messages, m)'
                \/ ~Passed(m)' /\ m \notin DOMAIN run'.state.messages
    <2>1. m \in Nat
      BY StoreAssumption
    <2>2. CASE Pending(run.state, m)
      BY <1>1, <1>2, <2>2 DEF Pending
    <2>3. CASE Passed(m) /\ Same(run.state.messages, m)
      <3>1. Same(run.state.messages, m)'
        BY <1>16, <1>17, <2>3
      <3>2. Passed(m)'
        <4>1. CASE Home[m] = c
          <5>1. m <= after
            BY <1>14, <2>3, <4>1
          <5>2. More(c, after) => m <= Max(S)
            <6> HIDE DEF S, c, after
            <6> QED
              BY <1>7, <1>9, <2>1, <5>1
          <5>3. QED
            BY <1>12, <4>1, <5>2
        <4>2. QED
          BY <1>13, <2>3, <4>1
      <3>3. QED
        BY <3>1, <3>2
    <2>4. CASE ~Passed(m) /\ m \notin DOMAIN run.state.messages
      <3>1. CASE Home[m] # c
        <4>1. m \notin S
          BY <1>8, <3>1
        <4>2. m \notin DOMAIN run'.state.messages
          BY <1>15, <2>4, <4>1
        <4>3. QED
          BY <1>13, <2>4, <3>1, <4>2
      <3>2. CASE Home[m] = c
        <4>1. m > after
          <5>1. ~ (m <= after)
            BY <1>14, <2>4, <3>2
          <5> HIDE DEF after
          <5>2. QED
            BY <1>7, <2>1, <5>1
        <4>2. m \in DOMAIN store.records => m \in Following(c, after)
          BY <1>8, <3>2, <4>1
        <4>3. CASE m \in S
          <5>1. More(c, after) => m <= Max(S)
            BY <1>8, <4>3
          <5>2. QED
            BY <1>12, <1>16, <3>2, <4>3, <5>1
        <4>4. CASE m \notin S /\ m \in DOMAIN store.records
          <5>1. More(c, after) /\ ~ (m <= Max(S))
            BY <1>8, <4>2, <4>4
          <5>2. QED
            BY <1>12, <1>15, <2>4, <3>2, <4>4, <5>1
        <4>5. CASE m \notin S /\ m \notin DOMAIN store.records
          <5>1. Same(run.state.messages, m) /\ m \notin DOMAIN run'.state.messages
            BY <1>15, <2>4, <4>5 DEF Same
          <5>2. QED
            BY <1>17, <4>5, <5>1
        <4>6. QED
          BY <4>3, <4>4, <4>5
      <3>3. QED
        BY <3>1, <3>2
    <2>5. QED
      BY <1>6, <1>18, <2>2, <2>3, <2>4 DEF PagesSound
  <1>19. ASSUME NEW d \in Authorized PROVE NameKnown(run.state, d)'
    BY <1>1, <1>2, <1>6 DEF PagesSound, NameKnown, Pending
  <1>20. PagesSound'
    BY <1>18, <1>19 DEF PagesSound
  <1>21. ASSUME left = {} PROVE ChangesSound' /\ QueueSound'
    <2>1. \A m \in Message : Passed(m)'
      BY <1>2, <1>21 DEF Passed
    <2>2. \A m \in Message : Home[m] \in Authorized => MessageKnown(run.state, m)'
      BY <1>18, <2>1 DEF MessageKnown
    <2>3. ChangesSound'
      BY <1>19, <2>2 DEF ChangesSound
    <2>4. QueueSound'
      BY <1>2 DEF QueueSound
    <2>5. QED
      BY <2>3, <2>4
  <1>22. QED
    BY <1>11, <1>20, <1>21

(* The records that getChanges examines are those right after the cursor.    *)
LEMMA ScannedFacts ==
  ASSUME StoreSound, store # Nothing, NEW cursor,
         cursor.after \in Nat, cursor.after <= Len(store.log)
  PROVE  /\ Scanned(cursor) \in Seq(Change)
         /\ cursor.after + Len(Scanned(cursor)) <= Len(store.log)
         /\ \A i \in 1 .. Len(Scanned(cursor)) : Scanned(cursor)[i] = store.log[cursor.after + i]
  <1> DEFINE first == cursor.after
             n == Len(store.log)
             last == Min({first + PageSize, n})
  <1>1. /\ store.log \in Seq(Change) /\ n \in Nat /\ first \in Nat /\ first <= n
        /\ PageSize \in Nat /\ PageSize # 0
    BY ConsumerAssumption DEF StoreSound
  <1>2. last \in Nat /\ first <= last /\ last <= n
    <2> HIDE DEF first, n
    <2>1. CASE first + PageSize <= n
      <3>1. last = first + PageSize
        <4>1. \A x \in {first + PageSize, n} :
                (\A y \in {first + PageSize, n} : x <= y) <=> x = first + PageSize
          BY <1>1, <2>1
        <4>2. QED
          BY <4>1 DEF Min
      <3>2. QED
        BY <1>1, <2>1, <3>1
    <2>2. CASE ~ (first + PageSize <= n)
      <3>1. last = n
        <4>1. \A x \in {first + PageSize, n} :
                (\A y \in {first + PageSize, n} : x <= y) <=> x = n
          BY <1>1, <2>2
        <4>2. QED
          BY <4>1 DEF Min
      <3>2. QED
        BY <1>1, <3>1
    <2>3. QED
      BY <2>1, <2>2
  <1>3. Scanned(cursor) = SubSeq(store.log, first + 1, last)
    BY DEF Scanned
  <1> HIDE DEF first, n, last
  <1>4. /\ SubSeq(store.log, first + 1, last) \in Seq(Change)
        /\ Len(SubSeq(store.log, first + 1, last)) = last - first
        /\ \A i \in 1 .. last - first : SubSeq(store.log, first + 1, last)[i] = store.log[first + i]
    <2>1. \A i \in first + 1 .. last : i \in 1 .. Len(store.log)
      BY <1>1, <1>2 DEF n
    <2>2. \A i \in first + 1 .. last : store.log[i] \in Change
      BY <1>1, <2>1
    <2>3. /\ SubSeq(store.log, first + 1, last) \in Seq(Change)
          /\ Len(SubSeq(store.log, first + 1, last)) =
               (IF first + 1 <= last THEN last - (first + 1) + 1 ELSE 0)
          /\ \A i \in 1 .. last - (first + 1) + 1 :
               SubSeq(store.log, first + 1, last)[i] = store.log[first + 1 + i - 1]
      BY <1>1, <1>2, <2>2, SubSeqProperties
    <2>4. /\ last - (first + 1) + 1 = last - first
          /\ (IF first + 1 <= last THEN last - (first + 1) + 1 ELSE 0) = last - first
          /\ \A i \in 1 .. last - first : first + 1 + i - 1 = first + i
      BY <1>1, <1>2
    <2>5. QED
      BY <2>3, <2>4
  <1>5. first + (last - first) <= n
    BY <1>1, <1>2
  <1>6. QED
    BY <1>3, <1>4, <1>5 DEF first, n

(* Of them it returns the released ones, in their order.                     *)
LEMMA ReleasedFacts ==
  ASSUME NEW changes \in Seq(Change)
  PROVE  \E kept :
           /\ ReleasedOf(changes) \in Seq(Change)
           /\ kept \in [1 .. Len(ReleasedOf(changes)) -> 1 .. Len(changes)]
           /\ \A k \in 1 .. Len(ReleasedOf(changes)) : ReleasedOf(changes)[k] = changes[kept[k]]
           /\ \A i \in 1 .. Len(changes) : Released(changes[i]) =>
                \E k \in 1 .. Len(ReleasedOf(changes)) : kept[k] = i
           /\ \A k, l \in 1 .. Len(ReleasedOf(changes)) : k < l => kept[k] < kept[l]
  <1> DEFINE R == {i \in DOMAIN changes : Released(changes[i])}
             kept == Sorted(R)
             n == Cardinality(R)
             list == ReleasedOf(changes)
  <1>1. DOMAIN changes = 1 .. Len(changes) /\ Len(changes) \in Nat
    OBVIOUS
  <1>2. R \in SUBSET Nat /\ IsFiniteSet(R) /\ R \subseteq 1 .. Len(changes)
    <2>1. R \in SUBSET (1 .. Len(changes))
      BY <1>1
    <2>2. IsFiniteSet(1 .. Len(changes))
      BY <1>1, FS_Interval
    <2>3. 1 .. Len(changes) \subseteq Nat
      BY <1>1
    <2> HIDE DEF R
    <2>4. IsFiniteSet(R)
      BY <2>1, <2>2, FS_Subset
    <2>5. R \in SUBSET Nat
      BY <2>1, <2>3
    <2>6. QED
      BY <2>1, <2>4, <2>5
  <1>3. /\ n \in Nat /\ kept \in [1 .. n -> R]
        /\ \A i \in R : \E k \in 1 .. n : kept[k] = i
        /\ \A k, l \in 1 .. n : k < l => kept[k] < kept[l]
    <2> HIDE DEF R
    <2> QED
      BY <1>2, SortedFacts
  <1>4. list = [k \in 1 .. n |-> changes[kept[k]]]
    <2>1. list = [k \in DOMAIN kept |-> changes[kept[k]]]
      BY DEF ReleasedOf
    <2>2. DOMAIN kept = 1 .. n
      <3> HIDE DEF kept, n
      <3> QED
        BY <1>3
    <2>3. QED
      BY <2>1, <2>2
  <1>5. \A i \in 1 .. Len(changes) : Released(changes[i]) => i \in R
    BY <1>1
  <1> HIDE DEF R, kept, n, list
  <1>6. list \in Seq(Change) /\ Len(list) = n
    <2>1. \A k \in 1 .. n : changes[kept[k]] \in Change
      <3>1. \A k \in 1 .. n : kept[k] \in 1 .. Len(changes)
        BY <1>2, <1>3
      <3>2. \A i \in 1 .. Len(changes) : changes[i] \in Change
        BY <1>1
      <3>3. QED
        BY <3>1, <3>2
    <2>2. list \in [1 .. n -> Change]
      BY <1>4, <2>1
    <2>3. QED
      BY <1>3, <2>2, ListSeq
  <1>7. kept \in [1 .. n -> 1 .. Len(changes)]
    BY <1>2, <1>3
  <1>8. /\ list \in Seq(Change)
        /\ kept \in [1 .. Len(list) -> 1 .. Len(changes)]
        /\ \A k \in 1 .. Len(list) : list[k] = changes[kept[k]]
        /\ \A i \in 1 .. Len(changes) : Released(changes[i]) => \E k \in 1 .. Len(list) : kept[k] = i
        /\ \A k, l \in 1 .. Len(list) : k < l => kept[k] < kept[l]
    BY <1>3, <1>4, <1>5, <1>6, <1>7
  <1>9. QED
    BY <1>8 DEF list

LEMMA GetChangesSound ==
  ASSUME StoreSound, RunSound, GetChanges
  PROVE  RunSound'
  <1> DEFINE after == run.state.cursor.after
             scanned == Scanned(run.state.cursor)
             todo == ReleasedOf(scanned)
             pc == IF scanned = <<>> THEN IF run.refresh THEN "relist" ELSE "write"
                                     ELSE IF todo = <<>> THEN "changes" ELSE "apply"
  <1>1. /\ run # Nothing /\ run.pc = "changes" /\ UNCHANGED <<store, replicas>> /\ RunShape
        /\ Resumable(run.state.cursor) /\ store # Nothing
        /\ run' = [run EXCEPT !.pc = pc, !.state.cursor.after = @ + Len(scanned), !.todo = todo]
    BY DEF GetChanges, RunSound, Resumable, storeVars
  <1>2. /\ DOMAIN run.state = {"cursor", "names", "messages"} /\ run.todo = <<>>
        /\ DOMAIN run.state.cursor = {"id", "after"} /\ run.state.cursor.id \in 1 .. replicas
        /\ after \in Nat /\ after <= Len(store.log) /\ Len(store.log) \in Nat
        /\ store.log \in Seq(Change) /\ DOMAIN store.log = 1 .. Len(store.log)
        /\ ChangesSound
    BY <1>1 DEF RunShape, CursorSound, WholeState, RunSound, StoreSound
  <1> HIDE DEF scanned, todo, pc
  <1>3. /\ DOMAIN run' = {"pc", "state", "left", "page", "todo", "refresh"}
        /\ run'.pc = pc /\ run'.left = run.left /\ run'.todo = todo
        /\ run'.refresh = run.refresh
        /\ DOMAIN run'.state = {"cursor", "names", "messages"}
        /\ run'.state.names = run.state.names /\ run'.state.messages = run.state.messages
        /\ run'.state.cursor = [run.state.cursor EXCEPT !.after = @ + Len(scanned)]
    <2>1. /\ DOMAIN run' = {"pc", "state", "left", "page", "todo", "refresh"}
          /\ run'.pc = pc /\ run'.left = run.left /\ run'.todo = todo
          /\ run'.refresh = run.refresh
          /\ run'.state = [run.state EXCEPT !.cursor.after = @ + Len(scanned)]
      BY <1>1 DEF RunShape
    <2>2. run'.state = [run.state EXCEPT !.cursor = [run.state.cursor EXCEPT !.after = @ + Len(scanned)]]
      BY <2>1
    <2>3. QED
      BY <1>2, <2>1, <2>2
  <1>4. /\ DOMAIN run'.state.cursor = {"id", "after"}
        /\ run'.state.cursor.id = run.state.cursor.id
        /\ run'.state.cursor.after = after + Len(scanned)
    BY <1>2, <1>3
  <1>5. /\ scanned \in Seq(Change) /\ Len(scanned) \in Nat
        /\ after + Len(scanned) <= Len(store.log)
        /\ \A i \in 1 .. Len(scanned) : scanned[i] = store.log[after + i]
    <2>1. /\ Scanned(run.state.cursor) \in Seq(Change)
          /\ after + Len(Scanned(run.state.cursor)) <= Len(store.log)
          /\ \A i \in 1 .. Len(Scanned(run.state.cursor)) :
               Scanned(run.state.cursor)[i] = store.log[after + i]
      BY <1>1, <1>2, ScannedFacts
    <2>2. QED
      BY <2>1 DEF scanned
  <1>6. PICK kept :
          /\ todo \in Seq(Change)
          /\ kept \in [1 .. Len(todo) -> 1 .. Len(scanned)]
          /\ \A k \in 1 .. Len(todo) : todo[k] = scanned[kept[k]]
          /\ \A i \in 1 .. Len(scanned) : Released(scanned[i]) => \E k \in 1 .. Len(todo) : kept[k] = i
          /\ \A k, l \in 1 .. Len(todo) : k < l => kept[k] < kept[l]
    BY <1>5, ReleasedFacts DEF todo
  <1>7. Len(todo) \in Nat /\ DOMAIN todo = 1 .. Len(todo)
    BY <1>6
  <1>8. /\ scanned = <<>> => todo = <<>>
        /\ pc \in {"changes", "apply", "relist", "write"}
        /\ pc = "apply" <=> todo # <<>>
        /\ pc \in {"relist", "write"} => scanned = <<>>
        /\ pc = "write" => ~run.refresh
    <2>1. ASSUME scanned = <<>> PROVE todo = <<>>
      <3>1. 1 .. Len(scanned) = {}
        BY <2>1
      <3>2. Len(todo) = 0
        <4>1. CASE Len(todo) # 0
          <5>1. 1 \in 1 .. Len(todo)
            BY <1>7, <4>1
          <5>2. kept[1] \in 1 .. Len(scanned)
            BY <1>6, <5>1
          <5>3. QED
            BY <3>1, <5>2
        <4>2. QED
          BY <4>1
      <3>3. QED
        BY <1>6, <3>2
    <2>2. QED
      BY <2>1 DEF pc
  <1>9. RunShape'
    <2>1. CursorSound(run.state)'
      BY <1>1, <1>2, <1>4, <1>5 DEF CursorSound, Resumable
    <2>2. QED
      BY <1>1, <1>3, <1>6, <1>8, <2>1 DEF RunShape, WholeState
  <1>10. ASSUME NEW i \in DOMAIN store.log, i > after, Released(store.log[i])
         PROVE  \/ i > run'.state.cursor.after
                \/ \E k \in DOMAIN run'.todo : run'.todo[k] = store.log[i]
    <2>1. CASE i > after + Len(scanned)
      BY <1>4, <2>1
    <2>2. CASE ~ (i > after + Len(scanned))
      <3>1. i - after \in 1 .. Len(scanned) /\ after + (i - after) = i
        BY <1>2, <1>5, <1>10, <2>2
      <3>2. scanned[i - after] = store.log[i]
        BY <1>5, <3>1
      <3>3. PICK k \in 1 .. Len(todo) : kept[k] = i - after
        BY <1>6, <1>10, <3>1, <3>2
      <3>4. todo[k] = store.log[i]
        BY <1>6, <3>2, <3>3
      <3>5. QED
        BY <1>3, <1>7, <3>4
    <2>3. QED
      BY <2>1, <2>2
  <1>11. ASSUME NEW entity, Pending(run.state, entity),
                \A change : change.entity = entity => Released(change)
         PROVE  Pending(run.state, entity)' \/ Queued(entity)'
    <2>1. PICK i \in DOMAIN store.log : i > after /\ store.log[i].entity = entity
      BY <1>11 DEF Pending
    <2>2. CASE i > run'.state.cursor.after
      BY <1>1, <2>1, <2>2 DEF Pending
    <2>3. CASE \E k \in DOMAIN run'.todo : run'.todo[k] = store.log[i]
      BY <2>1, <2>3 DEF Queued
    <2>4. QED
      BY <1>10, <1>11, <2>1, <2>2, <2>3
  <1>12. ASSUME NEW m \in Message, Home[m] \in Authorized
         PROVE  MessageKnown(run.state, m)' \/ Queued(m)'
    <2>1. ~Queued(m)
      BY <1>2 DEF Queued
    <2>2. CASE Same(run.state.messages, m)
      BY <1>1, <1>3, <2>2 DEF Same, MessageKnown
    <2>3. CASE Pending(run.state, m)
      <3>1. \A change : change.entity = m => Released(change)
        BY <1>12 DEF Released
      <3>2. QED
        BY <1>11, <2>3, <3>1 DEF MessageKnown
    <2>4. QED
      BY <1>2, <1>12, <2>1, <2>2, <2>3 DEF ChangesSound, MessageKnown
  <1>13. ASSUME NEW c \in Authorized
         PROVE  NameKnown(run.state, c)' \/ Queued(c)' \/ run'.refresh
    <2>1. ~Queued(c)
      BY <1>2 DEF Queued
    <2>2. CASE run.state.names[c] = store.names[c]
      BY <1>1, <1>3, <2>2 DEF NameKnown
    <2>3. CASE Pending(run.state, c)
      <3>1. \A change : change.entity = c => Released(change)
        BY DEF Released
      <3>2. QED
        BY <1>11, <2>3, <3>1 DEF NameKnown
    <2>4. CASE run.refresh
      BY <1>3, <2>4
    <2>5. QED
      BY <1>2, <1>13, <2>1, <2>2, <2>3, <2>4 DEF ChangesSound, NameKnown
  <1>14. QueueSound'
    <2>1. ASSUME NEW k \in 1 .. Len(todo)
          PROVE  \E i \in 1 .. after + Len(scanned) :
                   /\ store.log[i] = todo[k]
                   /\ \A j \in i + 1 .. after + Len(scanned) :
                        Released(store.log[j]) =>
                          \E l \in k + 1 .. Len(todo) : todo[l] = store.log[j]
      <3>1. kept[k] \in 1 .. Len(scanned) /\ kept[k] \in Nat
        BY <1>5, <1>6
      <3>2. after + kept[k] \in 1 .. after + Len(scanned) /\ store.log[after + kept[k]] = todo[k]
        <4> HIDE DEF after
        <4>1. after + kept[k] \in 1 .. after + Len(scanned)
          BY <1>2, <1>5, <3>1
        <4>2. store.log[after + kept[k]] = todo[k]
          BY <1>5, <1>6, <3>1
        <4>3. QED
          BY <4>1, <4>2
      <3>3. ASSUME NEW j \in after + kept[k] + 1 .. after + Len(scanned), Released(store.log[j])
            PROVE  \E l \in k + 1 .. Len(todo) : todo[l] = store.log[j]
        <4>1. /\ j - after \in 1 .. Len(scanned) /\ after + (j - after) = j
              /\ kept[k] < j - after
          BY <1>2, <1>5, <3>1
        <4>2. scanned[j - after] = store.log[j]
          BY <1>5, <4>1
        <4>3. PICK l \in 1 .. Len(todo) : kept[l] = j - after
          BY <1>6, <3>3, <4>1, <4>2
        <4>4. todo[l] = store.log[j]
          BY <1>6, <4>2, <4>3
        <4>5. k # l /\ ~ (l < k)
          <5>1. l < k => kept[l] < kept[k]
            BY <1>6
          <5>2. ~ (kept[l] < kept[k]) /\ kept[l] # kept[k]
            BY <1>2, <1>5, <3>1, <4>1, <4>3
          <5>3. QED
            BY <5>1, <5>2
        <4>6. l \in k + 1 .. Len(todo)
          BY <1>7, <4>5
        <4>7. QED
          BY <4>4, <4>6
      <3>4. QED
        BY <3>2, <3>3
    <2>2. QED
      BY <1>1, <1>3, <1>4, <1>7, <2>1 DEF QueueSound, Released
  <1>15. ASSUME pc \in {"relist", "write"}
         PROVE  /\ \A m \in Message : Home[m] \in Authorized => MessageKnown(run.state, m)'
                /\ pc = "write" => \A c \in Authorized : NameKnown(run.state, c)'
    <2>1. run'.todo = <<>>
      BY <1>3, <1>8, <1>15
    <2>2. \A entity : ~Queued(entity)'
      BY <2>1 DEF Queued
    <2>3. pc = "write" => ~run'.refresh
      BY <1>3, <1>8
    <2>4. QED
      BY <1>12, <1>13, <2>2, <2>3
  <1>16. ChangesSound'
    BY <1>12, <1>13 DEF ChangesSound
  <1>17. QED
    BY <1>3, <1>8, <1>9, <1>14, <1>15, <1>16 DEF RunSound

(* A change that is applied leaves its message as the replica has it, or     *)
(* there is a later change of it: a removal is applied as the log tells it,  *)
(* and the log tells the last of a message that came back later.             *)
LEMMA ApplyChangeSound ==
  ASSUME StoreSound, LogExplains, RunSound, ApplyChange
  PROVE  RunSound'
  <1> DEFINE change == Head(run.todo)
             old == run.state.messages
             new == IF change.entity \in Message THEN Refreshed(old, change) ELSE old
             after == run.state.cursor.after
             n == Len(run.todo)
  <1>1. /\ run # Nothing /\ run.pc = "apply" /\ UNCHANGED <<store, replicas>> /\ RunShape
        /\ run' = [run EXCEPT !.todo = Tail(@),
                              !.pc = IF Len(run.todo) = 1 THEN "changes" ELSE "apply",
                              !.refresh = @ \/ change.entity \in Conversation,
                              !.state.messages = new]
    BY DEF ApplyChange, RunSound, storeVars
  <1>2. /\ DOMAIN run.state = {"cursor", "names", "messages"}
        /\ run.todo \in Seq(Change) /\ run.todo # <<>>
        /\ n \in Nat /\ n # 0 /\ DOMAIN run.todo = 1 .. n /\ change = run.todo[1]
    BY <1>1 DEF RunShape, WholeState
  <1>3. /\ Tail(run.todo) \in Seq(Change) /\ Len(Tail(run.todo)) = n - 1
        /\ DOMAIN Tail(run.todo) = 1 .. n - 1
        /\ \A k \in 1 .. n - 1 : Tail(run.todo)[k] = run.todo[k + 1]
        /\ Tail(run.todo) = <<>> <=> n = 1
    <2> DEFINE rest == Tail(run.todo)
    <2>1. /\ rest \in Seq(Change) /\ Len(rest) = n - 1
          /\ \A k \in 1 .. n - 1 : rest[k] = run.todo[k + 1]
      BY <1>2
    <2> HIDE DEF rest
    <2>2. DOMAIN rest = 1 .. n - 1
      BY <2>1
    <2>3. rest = <<>> <=> n = 1
      <3>1. rest = <<>> <=> Len(rest) = 0
        BY <2>1, EmptySeq
      <3>2. n - 1 = 0 <=> n = 1
        BY <1>2
      <3>3. QED
        BY <2>1, <3>1, <3>2
    <2>4. QED
      BY <2>1, <2>2, <2>3 DEF rest
  <1> HIDE DEF change, new
  <1>4. /\ DOMAIN run' = {"pc", "state", "left", "page", "todo", "refresh"}
        /\ run'.pc = (IF n = 1 THEN "changes" ELSE "apply")
        /\ run'.left = run.left /\ run'.todo = Tail(run.todo)
        /\ run'.refresh = (run.refresh \/ change.entity \in Conversation)
        /\ DOMAIN run'.state = {"cursor", "names", "messages"}
        /\ run'.state.cursor = run.state.cursor /\ run'.state.names = run.state.names
        /\ run'.state.messages = new
    <2>1. /\ DOMAIN run' = {"pc", "state", "left", "page", "todo", "refresh"}
          /\ run'.pc = (IF n = 1 THEN "changes" ELSE "apply")
          /\ run'.left = run.left /\ run'.todo = Tail(run.todo)
          /\ run'.refresh = (run.refresh \/ change.entity \in Conversation)
          /\ run'.state = [run.state EXCEPT !.messages = new]
      BY <1>1 DEF RunShape
    <2>2. QED
      BY <1>2, <2>1
  <1>5. RunShape'
    <2>1. CursorSound(run.state)'
      BY <1>1, <1>4 DEF RunShape, CursorSound, Resumable
    <2>2. /\ run'.pc = "apply" <=> run'.todo # <<>>
          /\ run'.pc \in {"changes", "apply"}
      BY <1>3, <1>4
    <2>3. QED
      BY <1>1, <1>3, <1>4, <2>1, <2>2 DEF RunShape, WholeState
  <1>6. SUFFICES ASSUME Resumable(run.state.cursor)'
                 PROVE  ChangesSound' /\ QueueSound'
    <2>1. run'.pc \in {"changes", "apply"}
      BY <1>4
    <2>2. QED
      BY <1>5, <1>6, <2>1 DEF RunSound
  <1>7. /\ store # Nothing /\ ChangesSound /\ QueueSound
        /\ after \in Nat /\ after <= Len(store.log)
        /\ Len(store.log) \in Nat /\ DOMAIN store.log = 1 .. Len(store.log)
    <2>1. Resumable(run.state.cursor)
      BY <1>1, <1>4, <1>6 DEF Resumable
    <2>2. QED
      BY <1>1, <2>1 DEF RunSound, RunShape, CursorSound, Resumable, StoreSound
  <1>8. ASSUME NEW k \in 2 .. n
        PROVE  \E l \in DOMAIN run'.todo : run'.todo[l] = run.todo[k]
    <2>1. k - 1 \in 1 .. n - 1 /\ k - 1 + 1 = k
      BY <1>2
    <2>2. k - 1 \in DOMAIN run'.todo
      BY <1>3, <1>4, <2>1
    <2>3. run'.todo[k - 1] = run.todo[k - 1 + 1]
      BY <1>3, <1>4, <2>1
    <2>4. QED
      BY <2>1, <2>2, <2>3
  <1>9. ASSUME NEW entity, Queued(entity)
        PROVE  change.entity = entity \/ Queued(entity)'
    <2>1. PICK k \in 1 .. n : run.todo[k].entity = entity
      BY <1>2, <1>9 DEF Queued
    <2>2. CASE k = 1
      BY <1>2, <2>1, <2>2
    <2>3. CASE k # 1
      <3>1. k \in 2 .. n
        BY <1>2, <2>3
      <3>2. PICK l \in DOMAIN run'.todo : run'.todo[l] = run.todo[k]
        BY <1>8, <3>1
      <3>3. QED
        BY <2>1, <3>2 DEF Queued
    <2>4. QED
      BY <2>2, <2>3
  <1>10. \A entity : Pending(run.state, entity)' <=> Pending(run.state, entity)
    BY <1>1, <1>4 DEF Pending
  <1>11. ASSUME NEW m \in Message, change.entity # m, Same(old, m)
         PROVE  Same(run.state.messages, m)'
    <2>1. m \in DOMAIN new <=> m \in DOMAIN old
      BY <1>11 DEF new, Refreshed, Put, Drop
    <2>2. m \in DOMAIN old => new[m] = old[m]
      BY <1>11 DEF new, Refreshed, Put, Drop
    <2>3. QED
      BY <1>1, <1>4, <1>11, <2>1, <2>2 DEF Same
  <1>12. ASSUME NEW m \in Message, Home[m] \in Authorized, change.entity = m
         PROVE  MessageKnown(run.state, m)' \/ Queued(m)'
    <2>1. CASE change.kind # "removed" /\ m \in DOMAIN store.records
      <3>1. new = Put(old, {m})
        BY <1>12, <2>1 DEF new, Refreshed
      <3>2. m \in DOMAIN new /\ new[m] = store.records[m]
        BY <3>1 DEF Put
      <3>3. QED
        BY <1>1, <1>4, <2>1, <3>2 DEF MessageKnown, Same
    <2>2. CASE ~ (change.kind # "removed" /\ m \in DOMAIN store.records)
      <3>1. m \notin DOMAIN new
        <4>1. new = Drop(old, m)
          BY <1>12, <2>2 DEF new, Refreshed
        <4>2. QED
          BY <4>1 DEF Drop
      <3>2. CASE m \notin DOMAIN store.records
        BY <1>1, <1>4, <3>1, <3>2 DEF MessageKnown, Same
      <3>3. CASE m \in DOMAIN store.records /\ change.kind = "removed"
        <4>1. PICK i \in 1 .. after :
                /\ store.log[i] = change
                /\ \A j \in i + 1 .. after :
                     Released(store.log[j]) => \E l \in 2 .. n : run.todo[l] = store.log[j]
          <5>1. 1 \in DOMAIN run.todo /\ 1 + 1 = 2
            BY <1>2
          <5>2. QED
            BY <1>2, <1>7, <5>1 DEF QueueSound
        <4>2. i \in DOMAIN store.log /\ i \in Nat
          BY <1>7
        <4>3. PICK j \in i + 1 .. Len(store.log) : store.log[j].entity = m
          BY <1>7, <1>12, <3>3, <4>1, <4>2 DEF LogExplains
        <4>4. CASE j > after
          <5>1. j \in DOMAIN store.log
            BY <1>7, <4>2, <4>3
          <5>2. Pending(run.state, m)
            BY <4>3, <4>4, <5>1 DEF Pending
          <5>3. QED
            BY <1>10, <5>2 DEF MessageKnown
        <4>5. CASE ~ (j > after)
          <5>1. j \in i + 1 .. after
            BY <1>7, <4>2, <4>3, <4>5
          <5>2. Released(store.log[j])
            BY <1>12, <4>3 DEF Released
          <5>3. PICK l \in 2 .. n : run.todo[l] = store.log[j]
            BY <4>1, <5>1, <5>2
          <5>4. PICK k \in DOMAIN run'.todo : run'.todo[k] = run.todo[l]
            BY <1>8
          <5>5. QED
            BY <4>3, <5>3, <5>4 DEF Queued
        <4>6. QED
          BY <4>4, <4>5
      <3>4. QED
        BY <2>2, <3>2, <3>3
    <2>3. QED
      BY <2>1, <2>2
  <1>13. ASSUME NEW m \in Message, Home[m] \in Authorized
         PROVE  MessageKnown(run.state, m)' \/ Queued(m)'
    <2>1. CASE change.entity = m
      BY <1>12, <1>13, <2>1
    <2>2. CASE change.entity # m
      <3>1. Same(old, m) \/ Pending(run.state, m) \/ Queued(m)
        BY <1>7, <1>13 DEF ChangesSound, MessageKnown
      <3>2. QED
        BY <1>9, <1>10, <1>11, <2>2, <3>1 DEF MessageKnown
    <2>3. QED
      BY <2>1, <2>2
  <1>14. ASSUME NEW c \in Authorized
         PROVE  NameKnown(run.state, c)' \/ Queued(c)' \/ run'.refresh
    <2>1. NameKnown(run.state, c) \/ Queued(c) \/ run.refresh
      BY <1>7 DEF ChangesSound
    <2>2. NameKnown(run.state, c) => NameKnown(run.state, c)'
      BY <1>1, <1>4, <1>10 DEF NameKnown
    <2>3. Queued(c) => Queued(c)' \/ run'.refresh
      BY <1>4, <1>9, ConsumerAssumption
    <2>4. run.refresh => run'.refresh
      BY <1>4
    <2>5. QED
      BY <2>1, <2>2, <2>3, <2>4
  <1>15. QueueSound'
    <2>1. ASSUME NEW k \in 1 .. n - 1
          PROVE  \E i \in 1 .. after :
                   /\ store.log[i] = Tail(run.todo)[k]
                   /\ \A j \in i + 1 .. after :
                        Released(store.log[j]) =>
                          \E l \in k + 1 .. n - 1 : Tail(run.todo)[l] = store.log[j]
      <3>1. k + 1 \in DOMAIN run.todo /\ Tail(run.todo)[k] = run.todo[k + 1]
        BY <1>2, <1>3
      <3>2. PICK i \in 1 .. after :
              /\ store.log[i] = run.todo[k + 1]
              /\ \A j \in i + 1 .. after :
                   Released(store.log[j]) =>
                     \E l \in k + 1 + 1 .. n : run.todo[l] = store.log[j]
        BY <1>7, <3>1 DEF QueueSound
      <3>3. ASSUME NEW j \in i + 1 .. after, Released(store.log[j])
            PROVE  \E l \in k + 1 .. n - 1 : Tail(run.todo)[l] = store.log[j]
        <4>1. PICK l \in k + 1 + 1 .. n : run.todo[l] = store.log[j]
          BY <3>2, <3>3
        <4>2. l - 1 \in k + 1 .. n - 1 /\ l - 1 \in 1 .. n - 1 /\ l - 1 + 1 = l
          BY <1>2
        <4>3. Tail(run.todo)[l - 1] = run.todo[l]
          BY <1>3, <4>2
        <4>4. QED
          BY <4>1, <4>2, <4>3
      <3>4. QED
        BY <3>1, <3>2, <3>3
    <2>2. /\ run'.todo = Tail(run.todo) /\ run'.state.cursor.after = after
          /\ store'.log = store.log
          /\ DOMAIN Tail(run.todo) = 1 .. n - 1 /\ Len(Tail(run.todo)) = n - 1
      BY <1>1, <1>3, <1>4
    <2>3. ASSUME NEW k \in DOMAIN run'.todo
          PROVE  \E i \in 1 .. run'.state.cursor.after :
                   /\ store'.log[i] = run'.todo[k]
                   /\ \A j \in i + 1 .. run'.state.cursor.after :
                        Released(store'.log[j]) =>
                          \E l \in k + 1 .. Len(run'.todo) : run'.todo[l] = store'.log[j]
      <3>1. k \in 1 .. n - 1
        BY <2>2, <2>3
      <3>2. PICK i \in 1 .. after :
              /\ store.log[i] = Tail(run.todo)[k]
              /\ \A j \in i + 1 .. after :
                   Released(store.log[j]) =>
                     \E l \in k + 1 .. n - 1 : Tail(run.todo)[l] = store.log[j]
        BY <2>1, <3>1
      <3>3. QED
        BY <2>2, <3>2
    <2>4. QED
      BY <2>3 DEF QueueSound, Released
  <1>16. QED
    BY <1>13, <1>14, <1>15 DEF ChangesSound

-----------------------------------------------------------------------------
LEMMA ConsumerStart == ConsumerInit => ConsumerInv
  BY DEF ConsumerInit, StoreInit, ConsumerInv, StoreSound, LogExplains, RunSound, StoredSound,
         NothingMissed

LEMMA ConsumerStep ==
  ASSUME ConsumerInv, [ConsumerNext]_vars
  PROVE  ConsumerInv'
  <1>1. StoreSound /\ LogExplains /\ RunSound /\ StoredSound /\ NothingMissed
    BY DEF ConsumerInv
  <1>2. StoreSound' /\ LogExplains' /\ StoreMoves
    BY <1>1, StoreStep
  <1>3. stored' = stored => StoredSound' /\ NothingMissed'
    BY <1>1, <1>2, StoredKept
  <1>4. run' = run => RunSound'
    BY <1>1, <1>2, RunKept
  <1>5. run' = Nothing => RunSound'
    BY DEF RunSound
  <1>6. CASE UNCHANGED consumerVars
    BY <1>2, <1>3, <1>4, <1>6 DEF ConsumerInv, consumerVars
  <1>7. CASE Begin
    BY <1>1, <1>2, <1>3, <1>7, BeginSound DEF ConsumerInv, Begin
  <1>8. CASE List
    BY <1>1, <1>2, <1>3, <1>8, ListSound DEF ConsumerInv, List
  <1>9. CASE SelectPage
    BY <1>1, <1>2, <1>3, <1>9, SelectPageSound DEF ConsumerInv, SelectPage
  <1>10. CASE Resume
    BY <1>1, <1>2, <1>3, <1>10, ResumeSound DEF ConsumerInv, Resume
  <1>11. CASE GetChanges
    BY <1>1, <1>2, <1>3, <1>11, GetChangesSound DEF ConsumerInv, GetChanges
  <1>12. CASE ApplyChange
    BY <1>1, <1>2, <1>3, <1>12, ApplyChangeSound DEF ConsumerInv, ApplyChange
  <1>13. CASE Relist
    BY <1>1, <1>2, <1>3, <1>13, RelistSound DEF ConsumerInv, Relist
  <1>14. CASE Write
    BY <1>1, <1>2, <1>5, <1>14, WriteSound DEF ConsumerInv, Write
  <1>15. CASE End
    BY <1>2, <1>3, <1>5, <1>15 DEF ConsumerInv, End
  <1>16. CASE \E c \in Authorized : OpenPage(c)
    BY <1>1, <1>2, <1>3, <1>16, OpenPageSound DEF ConsumerInv, OpenPage
  <1>17. QED
    BY <1>6, <1>7, <1>8, <1>9, <1>10, <1>11, <1>12, <1>13, <1>14, <1>15, <1>16
       DEF ConsumerNext, vars, consumerVars

(* What is true of the replica, of a run and of the stored copy is so        *)
(* whatever was committed, by any number of synchronizers, between any two   *)
(* requests of the consumer, and wherever its runs ended.                    *)
THEOREM ConsumerInvariance == ConsumerSpec => []ConsumerInv
  <1>1. ConsumerInit => ConsumerInv
    BY ConsumerStart
  <1>2. ConsumerInv /\ [ConsumerNext]_vars => ConsumerInv'
    BY ConsumerStep
  <1> QED
    BY <1>1, <1>2, PTL DEF ConsumerSpec

(* The last change record of a message says whether the replica holds it,    *)
(* for any archives that reconcile_archive_transactionally was given.        *)
THEOREM LogExplainsHolds == ConsumerSpec => []LogExplains
  <1>1. ConsumerInv => LogExplains
    BY DEF ConsumerInv
  <1> QED
    BY <1>1, ConsumerInvariance, PTL

(* A consumer that takes its cursor before it lists and reads, and follows   *)
(* the change stream from there, holds what the replica holds, but for what  *)
(* the stream has still to say: for any page size, any order of commits and  *)
(* reads, and any ends of its runs.                                          *)
THEOREM NothingMissedHolds == ConsumerSpec => []NothingMissed
  <1>1. ConsumerInv => NothingMissed
    BY DEF ConsumerInv
  <1> QED
    BY <1>1, ConsumerInvariance, PTL
=============================================================================
