-------------------------- MODULE ReplicaFollower ---------------------------
(***************************************************************************)
(* follow.rs, the consumer of the handoff, beside the publisher of         *)
(* ReplicaPublication: processes that poll the handoff, apply its archive  *)
(* to the replica in one transaction and then write the follow state.      *)
(*                                                                         *)
(* A follower holds the lock of the follow state while it applies; it      *)
(* never holds the handoff's, so publications, quarantines and             *)
(* restorations go on meanwhile.  An error ends the process and a          *)
(* supervisor starts it again; a fault ends it between any two steps.  The *)
(* replica is its content and the revision of its checkpoint; of what      *)
(* ReplicaStore says of a synchronization, the model keeps that it may     *)
(* refuse one content after another, now and for ever.                     *)
(***************************************************************************)
EXTENDS ReplicaPublication

CONSTANTS
  Follower,     \* follower processes of one replica
  Refusing,     \* the pairs of contents between which a synchronization
                \* fails: ~Lossless and Collides of ReplicaStore
  MaxFaults     \* bound on crashes and I/O errors of the followers

Checkpoint == [content : Content, revision : Nat \ {0}]

FollowState == [generation : Generation, content : Content, revision : Nat \ {0}]

ASSUME FollowerAssumption ==
  /\ MaxFaults \in Nat /\ Nothing \notin Follower \cup Checkpoint \cup FollowState
  /\ Refusing \subseteq {c \in Content \X Content : c[1] # c[2]}

VARIABLES
  replica,      \* the committed checkpoint of the replica
  followState,  \* the follow-state file
  stateHolder,  \* who holds the lock of the follow state
  follower,     \* what each follower is doing
  newest,       \* history: the generation the replica was last given, or
                \* found to hold when it was adopted
  faults

followVars == <<replica, followState, stateHolder, follower, newest, faults>>
allVars == <<pubVars, followVars>>

\* A process that just started has seen no handoff yet.
Started == [pc |-> "idle", marker |-> Nothing, seen |-> Nothing, publication |-> Nothing]

Working ==
  [pc : {"idle", "polled", "loaded", "locked", "bootstrap", "synchronize", "seal"},
   marker : Publication \cup {Nothing}, seen : Publication \cup {Nothing},
   publication : Publication \cup {Nothing}]

FollowInit ==
  /\ PubInit
  /\ replica = Nothing
  /\ followState = Nothing
  /\ stateHolder = Nothing
  /\ follower = [f \in Follower |-> Started]
  /\ newest = 0
  /\ faults = 0

-----------------------------------------------------------------------------
\* The loop of replica-follow: a handoff whose metadata differs from those of
\* the last one it applied
Poll(f) ==
  /\ follower[f].pc = "idle"
  /\ handoff \notin {Nothing, follower[f].seen}
  /\ follower' = [follower EXCEPT ![f].pc = "polled", ![f].marker = handoff]
  /\ UNCHANGED <<pubVars, replica, followState, stateHolder, newest, faults>>

Load(f) ==
  /\ follower[f].pc = "polled"
  /\ archives[handoff.path] # Nothing
  /\ follower' = [follower EXCEPT ![f].pc = "loaded", ![f].publication = handoff]
  /\ UNCHANGED <<pubVars, replica, followState, stateHolder, newest, faults>>

\* Mutant: the lock excludes nobody.
LockShared(f) ==
  /\ follower[f].pc = "loaded"
  /\ handoff = follower[f].publication
  /\ stateHolder' = f
  /\ follower' = [follower EXCEPT ![f].pc = "locked"]
  /\ UNCHANGED <<pubVars, replica, followState, newest, faults>>

Lock(f) ==
  /\ follower[f].pc = "loaded"
  /\ stateHolder = Nothing
  /\ handoff = follower[f].publication
  /\ stateHolder' = f
  /\ follower' = [follower EXCEPT ![f].pc = "locked"]
  /\ UNCHANGED <<pubVars, replica, followState, newest, faults>>

-----------------------------------------------------------------------------
(* Application, under the lock.                                              *)

StateMatchesReplica ==
  /\ replica # Nothing
  /\ replica.content = followState.content /\ replica.revision = followState.revision

\* What the follower does with a verified publication
Decision(publication) ==
  CASE followState # Nothing /\ publication.generation < followState.generation -> "refuse"
    [] followState # Nothing /\ publication.generation = followState.generation ->
         IF StateMatchesReplica THEN "applied" ELSE "refuse"
    [] replica = Nothing -> "bootstrap"
    [] followState = Nothing /\ replica # Nothing ->
         IF replica.content = publication.content THEN "seal" ELSE "refuse"
    [] OTHER -> "synchronize"

\* The archive is verified against the handoff before anything is decided.
Audit(f) ==
  LET publication == follower[f].publication IN
  /\ follower[f].pc = "locked"
  /\ Verified(publication)
  /\ Decision(publication) \in {"bootstrap", "synchronize", "seal"}
  /\ follower' = [follower EXCEPT ![f].pc = Decision(publication)]
  /\ newest' = IF Decision(publication) = "seal" THEN publication.generation ELSE newest
  /\ UNCHANGED <<pubVars, replica, followState, stateHolder, faults>>

Finished(f) ==
  /\ stateHolder' = Nothing
  /\ follower' = [follower EXCEPT ![f] = [Started EXCEPT !.seen = follower[f].marker]]

AlreadyApplied(f) ==
  /\ follower[f].pc = "locked"
  /\ Verified(follower[f].publication)
  /\ Decision(follower[f].publication) = "applied"
  /\ Finished(f)
  /\ UNCHANGED <<pubVars, replica, followState, newest, faults>>

\* A synchronization of the replica would not fail: the archive has what the
\* replica holds of each database it could not read, and no row takes the
\* ordinal of a row that is still there.
Accepts(content) == <<replica.content, content>> \notin Refusing

\* bootstrap and synchronize commit content, change log and checkpoint in one
\* transaction; contents the replica already has leave it alone.
Applied(content) ==
  CASE replica = Nothing -> [content |-> content, revision |-> 1]
    [] replica # Nothing /\ replica.content = content -> replica
    [] OTHER -> [content |-> content, revision |-> replica.revision + 1]

\* Mutant: the state is written before the transaction commits.
ApplyStateFirst(f) ==
  LET publication == follower[f].publication IN
  /\ follower[f].pc \in {"bootstrap", "synchronize"}
  /\ Verified(publication)
  /\ followState' = [generation |-> publication.generation,
                     content |-> publication.content,
                     revision |-> Applied(publication.content).revision]
  /\ follower' = [follower EXCEPT ![f].pc = "seal"]
  /\ UNCHANGED <<pubVars, replica, newest, stateHolder, faults>>

Apply(f) ==
  LET publication == follower[f].publication IN
  /\ follower[f].pc \in {"bootstrap", "synchronize"}
  /\ Verified(publication)
  /\ follower[f].pc = "bootstrap" /\ replica # Nothing =>
       Applied(publication.content) = replica
  /\ follower[f].pc = "synchronize" => Accepts(publication.content)
  /\ replica' = Applied(publication.content)
  /\ newest' = publication.generation
  /\ follower' = [follower EXCEPT ![f].pc = "seal"]
  /\ UNCHANGED <<pubVars, followState, stateHolder, faults>>

Sealed(f) ==
  [generation |-> follower[f].publication.generation,
   content |-> replica.content, revision |-> replica.revision]

\* The seal is compared again after the application; then the state is written.
Seal(f) ==
  /\ follower[f].pc = "seal"
  /\ Verified(follower[f].publication)
  /\ replica.content = follower[f].publication.content
  /\ followState' = Sealed(f)
  /\ Finished(f)
  /\ UNCHANGED <<pubVars, replica, newest, faults>>

-----------------------------------------------------------------------------
\* Mutant: the lock outlives the process that took it.
ExitsLocked(f) ==
  /\ follower' = [follower EXCEPT ![f] = Started]
  /\ UNCHANGED <<pubVars, replica, followState, stateHolder, newest>>

Exits(f) ==
  /\ follower' = [follower EXCEPT ![f] = Started]
  /\ stateHolder' = IF stateHolder = f THEN Nothing ELSE stateHolder
  /\ UNCHANGED <<pubVars, replica, followState, newest>>

\* The conditions under which follow_replica_once returns an error
Refused(f) ==
  LET publication == follower[f].publication IN
  CASE follower[f].pc = "idle" -> FALSE
    [] follower[f].pc = "polled" -> archives[handoff.path] = Nothing
    [] follower[f].pc = "loaded" -> stateHolder = Nothing /\ handoff # publication
    [] follower[f].pc = "locked" ->
         ~Verified(publication) \/ Decision(publication) = "refuse"
    [] follower[f].pc = "synchronize" ->
         ~Verified(publication) \/ ~Accepts(publication.content)
    [] OTHER -> ~Verified(publication)

Refuse(f) == Refused(f) /\ Exits(f) /\ UNCHANGED faults

Fault(f) ==
  /\ follower[f].pc # "idle"
  /\ faults < MaxFaults
  /\ faults' = faults + 1
  /\ Exits(f)

FollowStep(f) ==
  \/ Poll(f) \/ Load(f) \/ Lock(f) \/ Audit(f) \/ AlreadyApplied(f)
  \/ Apply(f) \/ Seal(f) \/ Refuse(f)

FollowNext ==
  \/ PubNext /\ UNCHANGED followVars
  \/ \E f \in Follower : FollowStep(f) \/ Fault(f)

\* Followers run and are restarted; nothing is asked of the publisher.
FollowSpec ==
  FollowInit /\ [][FollowNext]_allVars /\ \A f \in Follower : WF_allVars(FollowStep(f))

-----------------------------------------------------------------------------
(* The follow state never claims what the replica did not commit: it names   *)
(* the checkpoint of the replica or one the replica left behind by a         *)
(* committed transaction, however a follower died.                           *)
StateCommitted ==
  followState # Nothing =>
    /\ replica # Nothing
    /\ followState.generation <= newest
    /\ followState.revision <= replica.revision
    /\ followState.revision = replica.revision => followState.content = replica.content

(* Two followers of one replica never take it back to an older publication,  *)
(* although each decides on a handoff that others replace meanwhile.         *)
NoRollback == [][newest' >= newest]_allVars

Current == followState # Nothing /\ followState.generation = handoff.generation

\* A replica whose binding was lost (status: stateRecoveryRequired) and whose
\* content is not the published one
Unbound == followState = Nothing /\ replica # Nothing /\ replica.content # handoff.content

\* A replica that no synchronization brings to the published content
Stuck == replica # Nothing /\ ~Accepts(handoff.content)

(* The follower ends up with the current publication, whatever was published *)
(* and refused while it worked, unless the binding of its replica was lost   *)
(* or the publication is one that its replica refuses.                       *)
CatchesUp == <>[](handoff # Nothing /\ ~Unbound /\ ~Stuck) => <>[]Current
=============================================================================
