---------------------------- MODULE ReplicaStore ----------------------------
(***************************************************************************)
(* replica.rs: the encrypted replica as a database.  A restored archive is *)
(* imported into an empty replica (bootstrap) or reconciled with a         *)
(* populated one (synchronization); either is one immediate transaction    *)
(* over the records, the coverage, the checkpoint and the change log.      *)
(*                                                                         *)
(* An archive is what the audit lets through: per conversation a list of   *)
(* messages with the ordinals 0, 1, 2, ...  A message is a number, and     *)
(* the order of the numbers is the order a conversation sorts them in, so  *)
(* the ordinal of a message is the number of messages before it.           *)
(*                                                                         *)
(* synchronize_replica takes no lock of its own: it decides from a read,   *)
(* reads the archive, and then opens its transaction, so two of them (a    *)
(* replica-sync beside replica-follow) interleave at that point.           *)
(***************************************************************************)
EXTENDS Naturals, Sequences, FiniteSets

CONSTANTS
  Message,       \* canonical identifiers, as numbers
  Conversation,  \* conversation identifiers
  Home,          \* the conversation a message belongs to
  Database,      \* source databases of the client (source sets)
  ShardOf,       \* the database that holds a message
  Text,          \* what the record of a message holds besides its ordinal
  Name,          \* what the record of a conversation holds
  Restored,      \* the archives restored from one source
  Syncer,        \* processes that synchronize the replica
  MaxCheckpoint, \* bound on the checkpoints of the first replica; a later one has fewer
  MaxReplica,    \* bound on the replicas made for one account
  MaxRecovery,   \* bound on cutovers to a recovered backup
  Nothing

ASSUME StoreAssumption ==
  /\ Message \subseteq Nat \ {0} /\ IsFiniteSet(Message) /\ IsFiniteSet(Conversation)
  /\ Message \cap Conversation = {} /\ Nothing \notin Message \cup Conversation
  /\ Home \in [Message -> Conversation] /\ ShardOf \in [Message -> Database]
  /\ MaxCheckpoint \in Nat /\ MaxReplica \in Nat /\ MaxRecovery \in Nat

Functions(S, T) == UNION {[D -> T] : D \in SUBSET S}

\* What a restoration produces.  inventory: the databases of the source;
\* included: those it could read, or carries over from an earlier archive.
Archive ==
  {a \in [inventory : SUBSET Database, included : SUBSET Database \ {{}},
          names : [Conversation -> Name], texts : Functions(Message, Text)] :
     /\ a.included \subseteq a.inventory
     /\ \A m \in DOMAIN a.texts : ShardOf[m] \in a.included}

ASSUME RestoredAssumption == Restored \subseteq Archive

Ordinal(present, m) == Cardinality({k \in present : Home[k] = Home[m] /\ k < m})

Record == [text : Text, ordinal : 0 .. Cardinality(Message) - 1]

\* The records of an archive
RecordsOf(a) ==
  [m \in DOMAIN a.texts |-> [text |-> a.texts[m], ordinal |-> Ordinal(DOMAIN a.texts, m)]]

Change == [kind : {"bootstrap", "added", "changed", "removed"},
           entity : Message \cup Conversation \cup {Nothing}]

VARIABLES
  store,      \* the replica, or Nothing
  syncer,     \* the archive each synchronization is about to apply
  replicas,   \* replicas made so far: the random replica identifiers
  backup,     \* a pre-migration backup, or Nothing
  recoveries,
  overtaken   \* history: the synchronizations whose decision is about a
              \* replica that another one changed since

storeVars == <<store, syncer, replicas, backup, recoveries, overtaken>>

Store == [id : 1 .. MaxReplica, records : Functions(Message, Record),
          names : [Conversation -> Name], archive : Restored,
          checkpoint : 1 .. MaxCheckpoint, log : Seq(Change)]

StoreInit ==
  /\ store = Nothing
  /\ syncer = [s \in Syncer |-> Nothing]
  /\ replicas = 0 /\ backup = Nothing /\ recoveries = 0 /\ overtaken = {}

-----------------------------------------------------------------------------
\* import_archive_transactionally: the change log of a new replica starts with
\* one record about its checkpoint
Bootstrap(a) ==
  /\ store = Nothing /\ replicas < MaxReplica
  /\ replicas' = replicas + 1
  /\ store' = [id |-> replicas', records |-> RecordsOf(a), names |-> a.names, archive |-> a,
               checkpoint |-> 1, log |-> <<[kind |-> "bootstrap", entity |-> Nothing]>>]
  /\ UNCHANGED <<syncer, backup, recoveries, overtaken>>

\* (mutant) compares what the two sources have, not what was read of them
LosslessInventory(stored, a) ==
  a.included # a.inventory => stored.inventory \subseteq a.inventory

\* A partial archive must not lack a database that the source still has and
\* the replica holds.
Lossless(stored, a) ==
  a.included # a.inventory => stored.included \cap a.inventory \subseteq a.included

\* The archive is the one the replica already holds
Unchanged(stored, a) == stored = a

Check(s, a) ==
  /\ syncer[s] = Nothing /\ store # Nothing
  /\ ~Unchanged(store.archive, a)
  /\ Lossless(store.archive, a)
  /\ syncer' = [syncer EXCEPT ![s] = a]
  /\ overtaken' = overtaken \ {s}
  /\ UNCHANGED <<store, replicas, backup, recoveries>>

Differs(old, new, m) == m \in DOMAIN old => old[m] # new[m]

\* Rows are reconciled in the order of the archive, and rows the archive does
\* not have are removed after all of them: writing m fails when its ordinal
\* still belongs to a row that comes later or is to be removed.
Collides(old, new) ==
  \E m \in DOMAIN new : \E k \in DOMAIN old \ {m} :
    /\ Differs(old, new, m)
    /\ k \in DOMAIN new => m < k
    /\ Home[k] = Home[m] /\ old[k].ordinal = new[m].ordinal

Reconciled(old, new) ==
  [m \in DOMAIN new |-> IF Differs(old, new, m) THEN new[m] ELSE old[m]]

\* The elements of a finite set of numbers, in their order
Sorted(S) ==
  [i \in 1 .. Cardinality(S) |-> CHOOSE m \in S : Cardinality({k \in S : k < m}) = i - 1]

ConversationChanges(old, new) ==
  LET renamed == {c \in Conversation : old[c] # new[c]}
      order == CHOOSE f \in [1 .. Cardinality(renamed) -> renamed] :
                 \A c \in renamed : \E i \in DOMAIN f : f[i] = c
  IN  [i \in DOMAIN order |-> [kind |-> "changed", entity |-> order[i]]]

\* (mutant) rows that go leave no record
MessageChangesWritten(old, new) ==
  LET written == Sorted({m \in DOMAIN new : Differs(old, new, m)})
  IN  [i \in DOMAIN written |->
         [kind |-> IF written[i] \in DOMAIN old THEN "changed" ELSE "added",
          entity |-> written[i]]]

MessageChanges(old, new) ==
  LET written == Sorted({m \in DOMAIN new : Differs(old, new, m)})
      missing == Sorted(DOMAIN old \ DOMAIN new)
  IN  [i \in DOMAIN written |->
         [kind |-> IF written[i] \in DOMAIN old THEN "changed" ELSE "added",
          entity |-> written[i]]]
      \o [i \in DOMAIN missing |-> [kind |-> "removed", entity |-> missing[i]]]

\* reconcile_archive_transactionally
Applied(st, a) ==
  [st EXCEPT !.records = Reconciled(st.records, RecordsOf(a)), !.names = a.names,
             !.archive = a, !.checkpoint = @ + 1,
             !.log = @ \o ConversationChanges(st.names, a.names)
                       \o MessageChanges(st.records, RecordsOf(a))]

Commit(s) ==
  /\ syncer[s] # Nothing /\ store # Nothing /\ store.checkpoint + replicas <= MaxCheckpoint
  /\ ~Collides(store.records, RecordsOf(syncer[s]))
  /\ store' = Applied(store, syncer[s])
  /\ syncer' = [syncer EXCEPT ![s] = Nothing]
  /\ overtaken' = (overtaken \cup {t \in Syncer : syncer[t] # Nothing}) \ {s}
  /\ UNCHANGED <<replicas, backup, recoveries>>

\* A row that fails, or the end of the process: the transaction leaves nothing.
Rollback(s) ==
  /\ syncer[s] # Nothing
  /\ syncer' = [syncer EXCEPT ![s] = Nothing]
  /\ overtaken' = overtaken \ {s}
  /\ UNCHANGED <<store, replicas, backup, recoveries>>

-----------------------------------------------------------------------------
\* What the owner does with all users of the replica stopped

AllStopped == \A s \in Syncer : syncer[s] = Nothing

\* The replica is given up for a new one.
Remove ==
  /\ AllStopped /\ store # Nothing /\ replicas < MaxReplica
  /\ store' = Nothing
  /\ UNCHANGED <<syncer, replicas, backup, recoveries, overtaken>>

\* An upgrade of the program leaves a backup of the replica
\* (create_pre_migration_backup), and prepare_replica_recovery makes a
\* candidate from it for the owner to put in place: the same replica
\* identifier, and the change log as it was.
Upgrade ==
  /\ AllStopped /\ store # Nothing /\ backup = Nothing /\ recoveries < MaxRecovery
  /\ backup' = store
  /\ UNCHANGED <<store, syncer, replicas, recoveries, overtaken>>

Recover ==
  /\ AllStopped /\ backup # Nothing /\ recoveries < MaxRecovery
  /\ store' = backup
  /\ recoveries' = recoveries + 1
  /\ UNCHANGED <<syncer, replicas, backup, overtaken>>

Synchronizing ==
  \/ \E s \in Syncer, a \in Restored : Check(s, a)
  \/ \E s \in Syncer : (Commit(s) \/ Rollback(s))

Replacing == Remove \/ \E a \in Restored : Bootstrap(a)

Recovering == Upgrade \/ Recover

\* The replica and those who write it, without its readers
StoreSpec == StoreInit /\ [][Synchronizing \/ Replacing]_storeVars

-----------------------------------------------------------------------------
\* What a commit drops was read without it, or its database is gone.
DropsOnlyRead ==
  \A m \in DOMAIN store.records \ DOMAIN store'.records :
    \/ ShardOf[m] \in store'.archive.included
    \/ ShardOf[m] \notin store'.archive.inventory

(* A record leaves the replica only because its database was read without    *)
(* it, or is gone from the source, whatever other synchronizations decide,   *)
(* fail or commit: unless one commits between this one's decision and its    *)
(* transaction.                                                              *)
UnreadKept == [][\A s \in Syncer \ overtaken : Commit(s) => DropsOnlyRead]_storeVars
=============================================================================
