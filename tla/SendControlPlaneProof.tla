------------------------ MODULE SendControlPlaneProof ------------------------
(***************************************************************************)
(* The control plane implements the store (StoreSpec), and what that means *)
(* for the Return key, for every number of processes, keys and clock       *)
(* readings.  What is proved of SendOutbox is instantiated (Outbox!...) and *)
(* serves as the first part of the invariant.                              *)
(***************************************************************************)
EXTENDS SendControlPlane, TLAPS

Outbox == INSTANCE SendOutboxProof WITH
  ClockReadings <- Time, Maxima <- {GeneralMaximum}

-----------------------------------------------------------------------------
(* Types.                                                                    *)

\* `execute` between its reservation and its settlement, and that part of it
\* in which the attempt of a send is marked and its fate is not yet known.
Holding == {"journalApproval", "markAttempted", "journalAttempt", "dispatch",
            "await", "complete"}
Launched == {"journalAttempt", "dispatch", "await"}
Opening == {"recover", "readLive", "sweep"}
Preparing == {"precheck", "stage", "reserve"}
Resolving == {"discardParked", "resolve"}

ProcState ==
  [cmd : {"idle", "status", "execute", "reconcile"},
   pc : {"idle", "discard", "journalReconciliation", "observe", "decide"}
          \cup Opening \cup Preparing \cup Holding \cup Resolving,
   key : Key \cup {NoKey}, start : Time,
   live : SUBSET (Staging \cup {NoStaging}), opens : Nat, clock : Time,
   outcome : Outcomes, attempted : BOOLEAN]

CapabilityRecord == [key : Key, permitSend : BOOLEAN, until : Nat, by : Process]
WorkRecord == [capability : CapabilityRecord, since : Time, pressed : BOOLEAN]
Draft == {DraftOf[k] : k \in Key}
JournalRecord == [approvals : Nat, attempts : Nat, reconciliations : Nat]

TypeInv ==
  /\ proc \in [Process -> ProcState]
  /\ queue \in Seq(CapabilityRecord)
  /\ work \in WorkRecord \cup {NoWork}
  /\ returned \in [Key -> Nat]
  /\ journal \in [Draft -> JournalRecord]
  /\ now \in Time

\* A command is where commands of its kind go, with what they have by then.
CommandSound(r) ==
  /\ r.start <= now
  /\ r.pc \in Opening => r.cmd # "idle"
  /\ r.cmd \in {"execute", "reconcile"} => r.key \in Key
  /\ r.pc \in Preparing \cup Holding \cup {"discard"} => r.cmd = "execute"
  /\ r.pc \in Resolving \cup {"observe", "decide"} => r.cmd = "reconcile"
  /\ r.pc = "journalReconciliation" => r.cmd \in {"execute", "reconcile"}
  /\ r.pc = "markAttempted" => PermitsSend(r.key)
  /\ r.pc = "await" => r.start <= r.clock /\ r.clock <= now
  /\ r.pc = "complete" =>
       /\ r.outcome # "ObservedSent"
       /\ r.outcome = "AwaitingReconciliation" => PermitsSend(r.key)
       /\ r.attempted => r.outcome = "AwaitingReconciliation"
  /\ r.pc \in Resolving => r.outcome \in {"ObservedSent", "ObservedFailed"}
  /\ r.outcome = "ObservedSent" => r.cmd = "reconcile"

CommandsSound == \A p \in Process : CommandSound(proc[p])

-----------------------------------------------------------------------------
(* Where a key is.                                                           *)
Queued == {queue[i].key : i \in DOMAIN queue}
InWork(key) == work # NoWork /\ work.capability.key = key
ParkedKeys == {outbox.pending[i].key : i \in DOMAIN outbox.pending}

\* The keys the helper has heard of.
Heard == {key \in Key : returned[key] > 0 \/ key \in Queued \/ InWork(key)}

\* The sends whose attempt was marked and may not have come to nothing.
Tried ==
  {key \in Key :
     /\ PermitsSend(key)
     /\ \/ key \in Heard
        \/ key \in ParkedKeys
        \/ HasInFlight(outbox, key) /\ outbox.inFlight.state = "Attempted"
        \/ \E p \in Process : proc[p].pc \in Launched /\ proc[p].key = key}

(* A reserved key belongs to one process, which gives it to the helper once. *)
KeysHeld ==
  /\ \A p \in Process : proc[p].pc \in Holding => proc[p].key \in outbox.keys
  /\ \A p, q \in Process :
       /\ proc[p].pc \in Holding /\ proc[q].pc \in Holding
       /\ proc[p].key = proc[q].key
       => p = q
  /\ Heard \subseteq outbox.keys
  /\ \A p \in Process :
       proc[p].pc \in Holding \ {"await", "complete"} => proc[p].key \notin Heard

(* The helper has each key once, presses Return once, and only if permitted. *)
HelperSound ==
  /\ \A i, j \in DOMAIN queue : queue[i].key = queue[j].key => i = j
  /\ \A i \in DOMAIN queue : queue[i].permitSend <=> PermitsSend(queue[i].key)
  /\ work # NoWork =>
       /\ work.capability.permitSend <=> PermitsSend(work.capability.key)
       /\ work.capability.key \notin Queued
       /\ work.pressed =>
            work.capability.permitSend /\ returned[work.capability.key] > 0
  /\ \A key \in Key : returned[key] > 0 =>
       /\ returned[key] = 1
       /\ PermitsSend(key)
       /\ key \notin Queued
       /\ InWork(key) => work.pressed
  /\ \A key \in halfway :
       key \in Key /\ returned[key] > 0 /\ key \notin Queued /\ ~InWork(key)

(* The entry in flight is marked attempted before the helper can hear of it. *)
SlotSound ==
  /\ outbox.inFlight # NoEntry =>
       /\ outbox.inFlight.permitSend <=> PermitsSend(outbox.inFlight.key)
       /\ outbox.inFlight.state = "Attempted" =>
            PermitsSend(outbox.inFlight.key)
       /\ outbox.inFlight.state # "Attempted"
            /\ PermitsSend(outbox.inFlight.key)
            => outbox.inFlight.key \notin Heard
  /\ \A p \in Process :
       proc[p].pc \in Holding /\ HasInFlight(outbox, proc[p].key) =>
         (outbox.inFlight.state = "Attempted" <=>
            /\ PermitsSend(proc[p].key)
            /\ proc[p].pc \notin {"journalApproval", "markAttempted"})
  /\ \A i \in DOMAIN outbox.pending : PermitsSend(outbox.pending[i].key)

(* A completed key is over; closed without reconciliation, it never began or *)
(* the helper failed half way through the press.                             *)
ClosedSound ==
  \A i \in DOMAIN outbox.completions :
    LET c == outbox.completions[i] IN
    /\ c.key \in outbox.keys
    /\ ~HasInFlight(outbox, c.key)
    /\ c.key \notin ParkedKeys
    /\ ~c.reconciled /\ PermitsSend(c.key) =>
         /\ c.key \notin Heard \ halfway
         /\ \A p \in Process : proc[p].key = c.key => proc[p].pc \notin Launched

(* A send is settled as failed only if the helper is through without it, or  *)
(* failed half way through the press.                                        *)
SettledSound ==
  \A p \in Process :
    /\ proc[p].pc = "complete" /\ PermitsSend(proc[p].key)
    /\ proc[p].outcome # "AwaitingReconciliation"
    => proc[p].key \notin Heard \ halfway

(* One key of an approval is tried, and its attempt was counted.             *)
TriedSound ==
  /\ \A key \in Tried : attempts[ApprovalOf[key]] > 0
  /\ \A j, k \in Tried : ApprovalOf[j] = ApprovalOf[k] => j = k

(* The journal has what led to the helper.                                   *)
JournalSound ==
  /\ \A p \in Process :
       /\ proc[p].pc \in {"markAttempted", "journalAttempt", "dispatch"}
            => journal[DraftOf[proc[p].key]].approvals > 0
       /\ proc[p].pc = "dispatch" => journal[DraftOf[proc[p].key]].attempts > 0
  /\ \A key \in Heard :
       /\ journal[DraftOf[key]].approvals > 0
       /\ journal[DraftOf[key]].attempts > 0

PlaneInv ==
  /\ TypeInv
  /\ CommandsSound
  /\ Outbox!IInv
  /\ KeysHeld
  /\ HelperSound
  /\ SlotSound
  /\ ClosedSound
  /\ SettledSound
  /\ TriedSound
  /\ JournalSound

-----------------------------------------------------------------------------
(* What reconciliation rests on.                                             *)

\* A message of a key is in the client only after Return was pressed for it.
ChatSound ==
  /\ \A m \in chat : m.key \in Key => returned[m.key] > 0
  /\ replica \subseteq chat

\* The client has a message that reads like that of key, recorded late enough
\* for an attempt marked at t.
Matched(key, t) ==
  \E m \in chat : m.body = BodyOf[key] /\ m.at + Lookback >= t

\* The live attempts, and when each was marked.
Marks == {<<e.key, e.attemptedAt>> : e \in LiveEntries(outbox)}

\* The attempts whose Return may still be pressed, with the reading of the
\* clock they were marked at: a command will dispatch the attempt, or the
\* helper has its capability.
Pressable ==
  {n \in Key \X Time :
     /\ PermitsSend(n[1])
     /\ \/ /\ now < n[2] + Validity
           /\ \E p \in Process :
                /\ proc[p].pc \in {"journalAttempt", "dispatch"}
                /\ proc[p].key = n[1] /\ proc[p].start = n[2]
        \/ /\ now < n[2] + Validity
           /\ \E i \in DOMAIN queue :
                queue[i].key = n[1] /\ queue[i].until = n[2] + Validity
        \/ /\ InWork(n[1]) /\ ~work.pressed
           /\ work.capability.until = n[2] + Validity}

PressableMarked == \A n \in Pressable : n \in Marks \/ n[1] \in Misjudged

\* The helper works on a capability only for so long, and takes none up late.
HelperClock ==
  /\ \A i \in DOMAIN queue : \E t \in Time : queue[i].until = t + Validity
  /\ work # NoWork =>
       /\ \E t \in Time : work.capability.until = t + Validity
       /\ work.since < work.capability.until
       /\ now <= work.since + SkillTime

\* What `reconcile` resolves is parked for good, or was; as failed, only when
\* the grace has elapsed.
ResolvingSound ==
  \A p \in Process : proc[p].pc \in Resolving =>
    /\ proc[p].key \in outbox.keys /\ ~HasInFlight(outbox, proc[p].key)
    /\ proc[p].outcome = "ObservedFailed" =>
         \A t \in Time :
           <<proc[p].key, t>> \in Marks => t + Grace <= proc[p].start

\* What `reconcile` takes for sent is parked for good, or was, and has a match.
SentSound ==
  /\ \A p \in Process :
       proc[p].outcome = "ObservedSent" /\ proc[p].key \notin Attested =>
         /\ proc[p].key \in outbox.keys /\ ~HasInFlight(outbox, proc[p].key)
         /\ \A t : <<proc[p].key, t>> \in Marks => Matched(proc[p].key, t)
  /\ SentHasMatch

QuietInv == PressableMarked /\ HelperClock /\ ResolvingSound

-----------------------------------------------------------------------------
(* The operators of the two instances are those of the control plane.        *)

LEMMA SameSets ==
  /\ Outbox!Document = Document
  /\ Outbox!Entry = Entry
  /\ Outbox!Outcomes = Outcomes
  BY DEF Outbox!Document, Document, Outbox!Window, Window, Outbox!Breaker,
     Breaker, Outbox!InFlightEntry, InFlightEntry, Outbox!ParkedEntry,
     ParkedEntry, Outbox!Entry, Entry, Outbox!EntryStates, EntryStates,
     Outbox!Completion, Completion, Outbox!CompletionKinds, CompletionKinds,
     Outbox!Outcomes, Outcomes

LEMMA SameTransaction ==
  ASSUME NEW d
  PROVE  /\ Outbox!Persistable(d) <=> Persistable(d)
         /\ Outbox!Readable(d) <=> Readable(d)
         /\ Store!Persistable(d) <=> Persistable(d)
         /\ Store!Readable(d) <=> Readable(d)
  BY DEF Persistable, Outbox!Persistable, Store!Persistable,
     Readable, Outbox!Readable, Store!Readable,
     ValidDocument, Outbox!ValidDocument, Store!ValidDocument,
     Bytes, Outbox!Bytes, Store!Bytes,
     BytesOfEntry, Outbox!BytesOfEntry, Store!BytesOfEntry,
     LiveEntries, Outbox!LiveEntries, Store!LiveEntries,
     PendingEntries, Outbox!PendingEntries, Store!PendingEntries,
     Cardinality, Outbox!Cardinality, Store!Cardinality,
     MapThenSumSet, Outbox!MapThenSumSet, Store!MapThenSumSet,
     MapThenFoldSet, Outbox!MapThenFoldSet, Store!MapThenFoldSet

LEMMA SameReserve ==
  ASSUME NEW d, NEW key, NEW permit, NEW staging, NEW t, NEW maximum
  PROVE  /\ Outbox!CanReserve(d, key, t, maximum)
              <=> CanReserve(d, key, t, maximum)
         /\ Store!CanReserve(d, key, t, maximum)
              <=> CanReserve(d, key, t, maximum)
         /\ Outbox!Reserve(d, key, permit, staging, t, maximum)
              = Reserve(d, key, permit, staging, t, maximum)
         /\ Store!Reserve(d, key, permit, staging, t, maximum)
              = Reserve(d, key, permit, staging, t, maximum)
  BY DEF CanReserve, Outbox!CanReserve, Store!CanReserve,
     Admitted, Outbox!Admitted, Store!Admitted,
     BreakerOpen, Outbox!BreakerOpen, Store!BreakerOpen,
     Cardinality, Outbox!Cardinality, Store!Cardinality,
     Rolled, Outbox!Rolled, Store!Rolled,
     Reserve, Outbox!Reserve, Store!Reserve

LEMMA SameMark ==
  ASSUME NEW d, NEW key, NEW t
  PROVE  /\ Outbox!CanMarkAttempted(d, key) <=> CanMarkAttempted(d, key)
         /\ Store!CanMarkAttempted(d, key) <=> CanMarkAttempted(d, key)
         /\ Outbox!MarkAttempted(d, t) = MarkAttempted(d, t)
         /\ Store!MarkAttempted(d, t) = MarkAttempted(d, t)
  BY DEF CanMarkAttempted, Outbox!CanMarkAttempted, Store!CanMarkAttempted,
     HasInFlight, Outbox!HasInFlight, Store!HasInFlight,
     MarkAttempted, Outbox!MarkAttempted, Store!MarkAttempted

LEMMA SameComplete ==
  ASSUME NEW d, NEW key, NEW outcome, NEW attempted, NEW t
  PROVE  /\ Outbox!CanComplete(d, key, outcome) <=> CanComplete(d, key, outcome)
         /\ Store!CanComplete(d, key, outcome) <=> CanComplete(d, key, outcome)
         /\ Outbox!Complete(d, outcome, attempted, t)
              = Complete(d, outcome, attempted, t)
         /\ Store!Complete(d, outcome, attempted, t)
              = Complete(d, outcome, attempted, t)
  BY DEF CanComplete, Outbox!CanComplete, Store!CanComplete,
     HasInFlight, Outbox!HasInFlight, Store!HasInFlight,
     Complete, Outbox!Complete, Store!Complete,
     Park, Outbox!Park, Store!Park,
     PushCompletion, Outbox!PushCompletion, Store!PushCompletion,
     RecordSuccess, Outbox!RecordSuccess, Store!RecordSuccess,
     RecordFailure, Outbox!RecordFailure, Store!RecordFailure,
     Healthy, Outbox!Healthy, Store!Healthy

LEMMA SameResolve ==
  ASSUME NEW d, NEW key, NEW kind
  PROVE  /\ Outbox!CanResolve(d, key, kind) <=> CanResolve(d, key, kind)
         /\ Store!CanResolve(d, key, kind) <=> CanResolve(d, key, kind)
         /\ Outbox!Resolve(d, key, kind) = Resolve(d, key, kind)
         /\ Store!Resolve(d, key, kind) = Resolve(d, key, kind)
  BY DEF CanResolve, Outbox!CanResolve, Store!CanResolve,
     PendingEntries, Outbox!PendingEntries, Store!PendingEntries,
     Resolve, Outbox!Resolve, Store!Resolve,
     PendingAt, Outbox!PendingAt, Store!PendingAt,
     PushCompletion, Outbox!PushCompletion, Store!PushCompletion,
     RecordSuccess, Outbox!RecordSuccess, Store!RecordSuccess,
     Healthy, Outbox!Healthy, Store!Healthy

LEMMA SameRecover ==
  ASSUME NEW d
  PROVE  /\ Outbox!Recover(d) = Recover(d)
         /\ Store!Recover(d) = Recover(d)
  BY DEF Recover, Outbox!Recover, Store!Recover,
     Park, Outbox!Park, Store!Park,
     PushCompletion, Outbox!PushCompletion, Store!PushCompletion

(* The assumptions of the instantiated module hold here.                     *)
LEMMA InstanceAssumptions ==
  /\ Time \subseteq Nat /\ {GeneralMaximum} \subseteq Nat
  /\ ApprovalOf \in [Key -> Approval]
  /\ NoEntry \notin Outbox!Entry
  /\ Never \notin Nat
  /\ {MaxKeys, MaxCompletions, MaxPending} \subseteq Nat \ {0}
  /\ {WindowLength, FailureThreshold, Cooldown} \subseteq Nat
  /\ {IdBytes, EntryBytes, AttemptBytes, ParkBytes, CompletionBytes,
      MaxBytes} \subseteq Nat
  BY OutboxAssumption, ControlPlaneAssumption, SameSets DEF Time

-----------------------------------------------------------------------------
(* Each transaction of the control plane is a step of the store, and keeps   *)
(* what is proved of the store.                                              *)

LEMMA ReserveRefines ==
  ASSUME NEW key \in Key, NEW permit \in BOOLEAN, NEW t \in Time,
         NEW staging \in Staging \cup {NoStaging},
         CanReserve(outbox, key, t, GeneralMaximum),
         outbox' = Reserve(outbox, key, permit, staging, t, GeneralMaximum),
         Transacts(outbox'), UNCHANGED attempts
  PROVE  Outbox!ReserveStep /\ Store!ReserveStep
  BY SameReserve, SameTransaction
     DEF Outbox!ReserveStep, Store!ReserveStep, Outbox!Transaction,
         Store!Transaction, Transacts

LEMMA MarkRefines ==
  ASSUME NEW key \in Key, NEW t \in Time,
         CanMarkAttempted(outbox, key),
         outbox' = MarkAttempted(outbox, t),
         Transacts(outbox'),
         attempts' = [attempts EXCEPT ![ApprovalOf[key]] = @ + 1]
  PROVE  Outbox!MarkAttemptedStep /\ Store!MarkAttemptedStep
  BY SameMark, SameTransaction
     DEF Outbox!MarkAttemptedStep, Store!MarkAttemptedStep,
         Outbox!Transaction, Store!Transaction, Transacts

LEMMA CompleteRefines ==
  ASSUME NEW key \in Key, NEW t \in Time, NEW attempted \in BOOLEAN,
         NEW outcome \in Outcomes \ {"ObservedSent"},
         CanComplete(outbox, key, outcome),
         outbox.inFlight.permitSend <=> outbox.inFlight.state = "Attempted",
         outcome = "AwaitingReconciliation" => outbox.inFlight.permitSend,
         attempted => outcome = "AwaitingReconciliation",
         outbox' = Complete(outbox, outcome, attempted, t),
         Transacts(outbox'), UNCHANGED attempts
  PROVE  Outbox!CompleteStep /\ Store!CompleteStep
  BY SameComplete, SameTransaction
     DEF Outbox!CompleteStep, Store!CompleteStep, Outbox!Transaction,
         Store!Transaction, Transacts, Outcomes, CompletionKinds,
         Outbox!Outcomes, Outbox!CompletionKinds,
         Store!Outcomes, Store!CompletionKinds

LEMMA ResolveRefines ==
  ASSUME NEW key \in Key, NEW kind \in {"ObservedSent", "ObservedFailed"},
         CanResolve(outbox, key, kind),
         outbox' = Resolve(outbox, key, kind),
         Transacts(outbox'), UNCHANGED attempts
  PROVE  Outbox!ResolveStep /\ Store!ResolveStep
  BY SameResolve, SameTransaction
     DEF Outbox!ResolveStep, Store!ResolveStep, Outbox!Transaction,
         Store!Transaction, Transacts

LEMMA RecoverRefines ==
  ASSUME outbox' = Recover(outbox), Transacts(outbox'), UNCHANGED attempts
  PROVE  Outbox!OpenStep /\ Store!OpenStep
  BY SameRecover, SameTransaction
     DEF Outbox!OpenStep, Store!OpenStep, Outbox!Transaction,
         Store!Transaction, Transacts

LEMMA StoreInvKept ==
  ASSUME Outbox!IInv,
         \/ Outbox!ReserveStep \/ Outbox!MarkAttemptedStep
         \/ Outbox!CompleteStep \/ Outbox!ResolveStep \/ Outbox!OpenStep
         \/ UNCHANGED <<outbox, attempts>>
  PROVE  Outbox!IInv'
  <1>1. CASE Outbox!ReserveStep
    BY <1>1, InstanceAssumptions, Outbox!ReserveInv
  <1>2. CASE Outbox!MarkAttemptedStep
    BY <1>2, InstanceAssumptions, Outbox!MarkAttemptedInv
  <1>3. CASE Outbox!CompleteStep
    BY <1>3, InstanceAssumptions, Outbox!CompleteInv
  <1>4. CASE Outbox!ResolveStep
    BY <1>4, InstanceAssumptions, Outbox!ResolveInv
  <1>5. CASE Outbox!OpenStep
    BY <1>5, InstanceAssumptions, Outbox!OpenInv
  <1>6. CASE UNCHANGED <<outbox, attempts>>
    BY <1>6 DEF Outbox!IInv, Outbox!TypeOK, Outbox!SingleFlight,
       Outbox!LiveReserved, Outbox!FlightUnspent, Outbox!FlownSpent,
       Outbox!HasInFlight, Outbox!UnspentUnattempted,
       Outbox!OneAttemptPerApproval
  <1>7. QED
    BY <1>1, <1>2, <1>3, <1>4, <1>5, <1>6

-----------------------------------------------------------------------------
(* What the operations leave in the document.                                *)

\* What f remembers was remembered by d, or is the record.
Remembers(d, f, record) ==
  \A i \in DOMAIN f.completions :
    \/ f.completions[i] = record
    \/ \E j \in DOMAIN d.completions : f.completions[i] = d.completions[j]

LEMMA PushRemembers ==
  ASSUME NEW d \in Document, NEW record \in Completion
  PROVE  Remembers(d, PushCompletion(d, record), record)
  <1> DEFINE longer == Append(d.completions, record)
             kept == PushCompletion(d, record).completions
  <1>1. d.completions \in Seq(Completion)
    BY DEF Document
  <1>2. longer \in Seq(Completion) /\ Len(longer) = Len(d.completions) + 1
    BY <1>1
  <1>3. \A i \in 1 .. Len(longer) :
          \/ longer[i] = record
          \/ i \in DOMAIN d.completions /\ longer[i] = d.completions[i]
    BY <1>1
  <1>4. kept = longer \/ kept = Tail(longer)
    BY DEF PushCompletion, Document
  <1>5. CASE kept = longer
    <2>1. \A i \in DOMAIN longer : i \in 1 .. Len(longer)
      BY <1>2
    <2>2. QED
      BY <1>3, <1>5, <2>1 DEF Remembers
  <1>6. CASE kept = Tail(longer)
    <2>1. \A i \in DOMAIN Tail(longer) :
            /\ i + 1 \in 1 .. Len(longer)
            /\ Tail(longer)[i] = longer[i + 1]
      BY <1>1, <1>2
    <2> HIDE DEF longer
    <2>2. \A i \in DOMAIN kept : \E j \in 1 .. Len(longer) : kept[i] = longer[j]
      BY <1>6, <2>1
    <2>3. QED
      BY <1>3, <2>2 DEF Remembers
  <1>7. QED
    BY <1>4, <1>5, <1>6

LEMMA ReserveEffect ==
  ASSUME NEW d \in Document, NEW key \in Key, NEW permit \in BOOLEAN,
         NEW staging \in Staging \cup {NoStaging}, NEW t \in Nat,
         NEW maximum \in Nat
  PROVE  LET f == Reserve(d, key, permit, staging, t, maximum) IN
         /\ f.inFlight # NoEntry
         /\ f.inFlight.key = key
         /\ f.inFlight.permitSend <=> permit
         /\ f.inFlight.state = "Reserved"
         /\ f.inFlight.staging = staging
         /\ f.pending = d.pending
         /\ f.keys = d.keys \cup {key}
         /\ f.completions = d.completions
  <1> DEFINE e == [key |-> key, permitSend |-> permit, state |-> "Reserved",
                   staging |-> staging, reservedAt |-> t, attemptedAt |-> Never]
  <1>1. e \in Entry
    BY DEF Entry, EntryStates
  <1>2. Reserve(d, key, permit, staging, t, maximum).inFlight = e
    BY DEF Reserve, Document
  <1>3. e # NoEntry
    BY <1>1, OutboxAssumption
  <1>4. QED
    BY <1>2, <1>3 DEF Reserve, Document

LEMMA MarkEffect ==
  ASSUME NEW d \in Document, d.inFlight # NoEntry, NEW t \in Nat
  PROVE  LET f == MarkAttempted(d, t) IN
         /\ f.inFlight # NoEntry
         /\ f.inFlight.key = d.inFlight.key
         /\ f.inFlight.permitSend <=> d.inFlight.permitSend
         /\ f.inFlight.state = "Attempted"
         /\ f.inFlight.attemptedAt = t
         /\ f.inFlight.staging = d.inFlight.staging
         /\ f.pending = d.pending
         /\ f.keys = d.keys
         /\ f.completions = d.completions
  <1>1. d.inFlight \in Entry
    BY DEF Document, InFlightEntry
  <1>2. MarkAttempted(d, t).inFlight
          = [d.inFlight EXCEPT !.state = "Attempted", !.attemptedAt = t]
    BY DEF MarkAttempted, Document
  <1>3. [d.inFlight EXCEPT !.state = "Attempted", !.attemptedAt = t] \in Entry
    BY <1>1 DEF Entry, EntryStates
  <1>4. QED
    BY <1>1, <1>2, <1>3, OutboxAssumption DEF MarkAttempted, Document, Entry

\* The entry left the slot for the pending list.
ParksSlot(d, f) ==
  /\ f.pending = Append(d.pending,
       [d.inFlight EXCEPT !.state = "AwaitingReconciliation"])
  /\ f.completions = d.completions

\* The entry left the slot for good, without reconciliation.
ClosesSlot(d, f) ==
  /\ f.pending = d.pending
  /\ \E record \in Completion :
       /\ Remembers(d, f, record)
       /\ record.key = d.inFlight.key
       /\ ~record.reconciled
       /\ record.completion # "ObservedSent"

LEMMA CompleteLands ==
  ASSUME NEW d \in Document, d.inFlight # NoEntry, NEW attempted \in BOOLEAN,
         NEW outcome \in Outcomes \ {"ObservedSent"}, NEW t \in Nat
  PROVE  LET f == Complete(d, outcome, attempted, t) IN
         /\ f.inFlight = NoEntry
         /\ f.keys = d.keys
         /\ outcome = "AwaitingReconciliation" => ParksSlot(d, f)
         /\ outcome # "AwaitingReconciliation" => ClosesSlot(d, f)
  <1> DEFINE e == d.inFlight
             f == Complete(d, outcome, attempted, t)
             settled == [d EXCEPT
               !.inFlight = NoEntry,
               !.consumed = @ \cup {ApprovalOf[e.key]},
               !.breaker = IF outcome # "AwaitingReconciliation"
                              /\ Healthy(outcome)
                           THEN RecordSuccess ELSE RecordFailure(@, t)]
             record == [key |-> e.key, attempted |-> attempted,
                        completion |-> outcome, reconciled |-> FALSE]
  <1>1. CASE outcome = "AwaitingReconciliation"
    BY <1>1 DEF Complete, Park, Document, ParksSlot
  <1>2. CASE outcome # "AwaitingReconciliation"
    <2>1. e \in Entry
      BY DEF Document, InFlightEntry
    <2>2. record \in Completion
      BY <1>2, <2>1 DEF Entry, Completion, Outcomes, CompletionKinds
    <2>3. f = PushCompletion(settled, record)
      BY <1>2 DEF Complete
    <2>4. settled \in Document
      <3>1. /\ d.breaker \in Breaker /\ d.consumed \in SUBSET Approval
            /\ e.key \in Key
        BY <2>1 DEF Document, Entry
      <3>2. RecordSuccess \in Breaker /\ RecordFailure(d.breaker, t) \in Breaker
        BY <3>1, OutboxAssumption DEF RecordSuccess, RecordFailure, Breaker
      <3>3. d.consumed \cup {ApprovalOf[e.key]} \in SUBSET Approval
        BY <3>1, OutboxAssumption
      <3>4. QED
        BY <3>2, <3>3 DEF Document
    <2>5. /\ settled.inFlight = NoEntry
          /\ settled.keys = d.keys
          /\ settled.pending = d.pending
          /\ settled.completions = d.completions
      BY DEF Document
    <2> HIDE DEF settled
    <2>6. /\ f.inFlight = NoEntry
          /\ f.keys = d.keys
          /\ f.pending = d.pending
      BY <2>3, <2>4, <2>5 DEF PushCompletion, Document
    <2>7. Remembers(d, f, record)
      <3> HIDE DEF record, f
      <3>1. Remembers(settled, f, record)
        BY <2>2, <2>3, <2>4, PushRemembers
      <3>2. QED
        BY <2>5, <3>1 DEF Remembers
    <2>8. /\ record.key = e.key /\ ~record.reconciled
          /\ record.completion # "ObservedSent"
      OBVIOUS
    <2> HIDE DEF record
    <2>9. ClosesSlot(d, f)
      BY <2>2, <2>6, <2>7, <2>8 DEF ClosesSlot
    <2>10. QED
      BY <1>2, <2>6, <2>9
  <1>3. QED
    BY <1>1, <1>2

LEMMA RecoverLands ==
  ASSUME NEW d \in Document, d.inFlight # NoEntry
  PROVE  LET f == Recover(d) IN
         /\ f.inFlight = NoEntry
         /\ f.keys = d.keys
         /\ d.inFlight.state = "Attempted" => ParksSlot(d, f)
         /\ d.inFlight.state # "Attempted" => ClosesSlot(d, f)
  <1> DEFINE e == d.inFlight
             f == Recover(d)
             closed == [[d EXCEPT !.recoveredTotal = @ + 1] EXCEPT
               !.inFlight = NoEntry, !.consumed = @ \cup {ApprovalOf[e.key]}]
             record == [key |-> e.key, attempted |-> FALSE,
                        completion |-> "ObservedFailed", reconciled |-> FALSE]
  <1>1. CASE e.state = "Attempted"
    BY <1>1 DEF Recover, Park, Document, ParksSlot
  <1>2. CASE e.state # "Attempted"
    <2>1. e \in Entry
      BY DEF Document, InFlightEntry
    <2>2. record \in Completion
      BY <2>1 DEF Entry, Completion, CompletionKinds
    <2>3. f = PushCompletion(closed, record)
      BY <1>2 DEF Recover
    <2>4. closed \in Document
      <3>1. /\ d.recoveredTotal + 1 \in Nat /\ d.consumed \in SUBSET Approval
            /\ e.key \in Key
        BY <2>1 DEF Document, Entry
      <3>2. d.consumed \cup {ApprovalOf[e.key]} \in SUBSET Approval
        BY <3>1, OutboxAssumption
      <3>3. QED
        BY <3>1, <3>2 DEF Document
    <2>5. /\ closed.inFlight = NoEntry
          /\ closed.keys = d.keys
          /\ closed.pending = d.pending
          /\ closed.completions = d.completions
      BY DEF Document
    <2> HIDE DEF closed
    <2>6. /\ f.inFlight = NoEntry
          /\ f.keys = d.keys
          /\ f.pending = d.pending
      BY <2>3, <2>4, <2>5 DEF PushCompletion, Document
    <2>7. Remembers(d, f, record)
      <3> HIDE DEF record, f
      <3>1. Remembers(closed, f, record)
        BY <2>2, <2>3, <2>4, PushRemembers
      <3>2. QED
        BY <2>5, <3>1 DEF Remembers
    <2>8. /\ record.key = e.key /\ ~record.reconciled
          /\ record.completion # "ObservedSent"
      OBVIOUS
    <2> HIDE DEF record
    <2>9. ClosesSlot(d, f)
      BY <2>2, <2>6, <2>7, <2>8 DEF ClosesSlot
    <2>10. QED
      BY <1>2, <2>6, <2>9
  <1>3. QED
    BY <1>1, <1>2

LEMMA ResolveLands ==
  ASSUME NEW d \in Document, Len(d.pending) <= 1, NEW key \in Key,
         NEW kind \in CompletionKinds, CanResolve(d, key, kind)
  PROVE  LET f == Resolve(d, key, kind) IN
         /\ f.inFlight = d.inFlight
         /\ f.keys = d.keys
         /\ f.pending = <<>>
         /\ \E record \in Completion :
              /\ Remembers(d, f, record)
              /\ record.key = key
              /\ record.reconciled
              /\ record.completion = kind
  <1> DEFINE i == PendingAt(d, key)
             f == Resolve(d, key, kind)
             removed == [d EXCEPT
               !.pending = SubSeq(@, 1, i - 1) \o SubSeq(@, i + 1, Len(@)),
               !.breaker = IF Healthy(kind) THEN RecordSuccess ELSE @]
             record == [key |-> key,
                        attempted |-> d.pending[i].attemptedAt # Never,
                        completion |-> kind, reconciled |-> TRUE]
  <1>1. /\ f.inFlight = d.inFlight
        /\ f.keys = d.keys
        /\ f.pending = <<>>
    BY InstanceAssumptions, SameSets, SameResolve, Outbox!ResolveEffect
       DEF CompletionKinds, Outbox!CompletionKinds
  <1>2. record \in Completion
    BY DEF Completion
  <1>3. f = PushCompletion(removed, record)
    BY DEF Resolve
  <1>4. removed.completions = d.completions
    BY DEF Document
  <1>5. Remembers(d, PushCompletion(removed, record), record)
    <2>1. PushCompletion(removed, record).completions
            = PushCompletion(d, record).completions
      BY <1>4 DEF PushCompletion, Document
    <2>2. Remembers(d, PushCompletion(d, record), record)
      BY <1>2, PushRemembers
    <2> HIDE DEF removed, record
    <2>3. QED
      BY <2>1, <2>2 DEF Remembers
  <1>6. record.key = key /\ record.reconciled /\ record.completion = kind
    OBVIOUS
  <1> HIDE DEF record, removed, f
  <1>7. QED
    BY <1>1, <1>2, <1>3, <1>5, <1>6 DEF f

-----------------------------------------------------------------------------
(* Steps that leave the store alone.                                         *)

\* The dispatch of p ends; as a failed send only if the helper is through.
Settles(p) ==
  /\ proc[p].pc \in {"dispatch", "await"}
  /\ proc'[p].pc = "complete"
  /\ proc'[p].key = proc[p].key
  /\ proc'[p].outcome # "AwaitingReconciliation" /\ PermitsSend(proc[p].key)
       => proc[p].key \notin Heard' \ halfway'

(* A step in which processes stay where they are, leave what they hold or    *)
(* settle, and the helper is given nothing, keeps the invariant.             *)
LEMMA AsideKeeps ==
  ASSUME PlaneInv, UNCHANGED <<outbox, attempts>>, TypeInv', CommandsSound',
         HelperSound',
         \A p \in Process : \/ proc'[p] = proc[p]
                            \/ proc'[p].pc \notin Holding
                            \/ Settles(p),
         Heard' \subseteq Heard, halfway \subseteq halfway',
         \A d \in Draft : /\ journal'[d].approvals >= journal[d].approvals
                          /\ journal'[d].attempts >= journal[d].attempts
  PROVE  PlaneInv'
  <1> USE DEF PlaneInv
  <1>1. outbox' = outbox /\ attempts' = attempts
    OBVIOUS
  <1>2. \A p \in Process : proc'[p].pc \in Holding =>
          /\ proc[p].pc \in Holding
          /\ proc'[p].key = proc[p].key
          /\ \/ proc'[p] = proc[p]
             \/ Settles(p) /\ proc'[p].pc = "complete"
    BY DEF Settles, Holding
  <1>3. \A p \in Process : proc'[p].pc \in Launched =>
          proc[p].pc \in Launched /\ proc'[p].key = proc[p].key
    BY <1>2 DEF Launched, Holding
  <1>4. Outbox!IInv'
    BY StoreInvKept
  <1>5. KeysHeld'
    BY <1>1, <1>2 DEF KeysHeld, Settles
  <1>6. SlotSound'
    <2>1. \A p \in Process :
            proc'[p].pc \in Holding /\ HasInFlight(outbox, proc'[p].key) =>
              (outbox.inFlight.state = "Attempted" <=>
                 /\ PermitsSend(proc'[p].key)
                 /\ proc'[p].pc \notin {"journalApproval", "markAttempted"})
      BY <1>2 DEF SlotSound, Settles
    <2>2. QED
      BY <1>1, <2>1 DEF SlotSound
  <1>7. ClosedSound'
    BY <1>1, <1>3 DEF ClosedSound, ParkedKeys
  <1>8. SettledSound'
    BY <1>2 DEF SettledSound, Settles, Holding
  <1>9. TriedSound'
    <2>1. Tried' \subseteq Tried
      BY <1>1, <1>3 DEF Tried, ParkedKeys
    <2>2. QED
      BY <1>1, <2>1 DEF TriedSound
  <1>10. JournalSound'
    <2>1. \A key \in Key : DraftOf[key] \in Draft
      BY DEF Draft
    <2>2. \A d \in Draft : /\ journal[d].approvals \in Nat
                           /\ journal'[d].approvals \in Nat
                           /\ journal[d].attempts \in Nat
                           /\ journal'[d].attempts \in Nat
      BY DEF TypeInv, JournalRecord
    <2>3. \A p \in Process :
            proc'[p].pc \in {"markAttempted", "journalAttempt", "dispatch"} =>
              proc'[p] = proc[p] /\ proc'[p].key \in Key
      BY <1>2 DEF Holding, Settles, CommandsSound, CommandSound
    <2>4. Heard' \subseteq Key
      BY DEF Heard
    <2>5. QED
      BY <2>1, <2>2, <2>3, <2>4 DEF JournalSound
  <1>11. QED
    BY <1>4, <1>5, <1>6, <1>7, <1>8, <1>9, <1>10

-----------------------------------------------------------------------------
(* What a process does before, after and besides its hold on a key.          *)

LEMMA IdleSound ==
  ASSUME TypeInv
  PROVE  Idle \in ProcState /\ CommandSound(Idle) /\ Idle.pc = "idle"
  <1>1. 0 \in Time /\ 0 <= now
    BY ControlPlaneAssumption DEF Time, TypeInv
  <1>2. QED
    BY <1>1 DEF Idle, ProcState, CommandSound, Outcomes, Opening, Preparing,
       Holding, Resolving

LEMMA OneMoves ==
  ASSUME TypeInv, CommandsSound, NEW p \in Process, NEW r \in ProcState,
         CommandSound(r), UNCHANGED now, proc' = [proc EXCEPT ![p] = r]
  PROVE  /\ proc' \in [Process -> ProcState]
         /\ proc'[p] = r
         /\ \A q \in Process \ {p} : proc'[q] = proc[q]
         /\ CommandsSound'
  <1>1. /\ proc' \in [Process -> ProcState]
        /\ proc'[p] = r
        /\ \A q \in Process \ {p} : proc'[q] = proc[q]
    BY DEF TypeInv
  <1>2. ASSUME NEW q \in Process PROVE CommandSound(proc[q])'
    <2>1. CASE q = p
      BY <1>1, <2>1 DEF CommandSound
    <2>2. CASE q # p
      BY <1>1, <2>2 DEF CommandsSound, CommandSound
    <2>3. QED
      BY <2>1, <2>2
  <1>3. QED
    BY <1>1, <1>2 DEF CommandsSound

(* One process moves to where it holds no key.                               *)
LEMMA MovesAside ==
  ASSUME PlaneInv, NEW p \in Process, NEW r \in ProcState, CommandSound(r),
         r.pc \notin Holding, proc' = [proc EXCEPT ![p] = r],
         UNCHANGED <<outbox, attempts, helperVars, now>>,
         journal' \in [Draft -> JournalRecord],
         \A d \in Draft : /\ journal'[d].approvals >= journal[d].approvals
                          /\ journal'[d].attempts >= journal[d].attempts
  PROVE  PlaneInv'
  <1>1. UNCHANGED <<queue, work, returned, halfway>>
    BY DEF helperVars
  <1>2. TypeInv /\ CommandsSound /\ HelperSound
    BY DEF PlaneInv
  <1>3. /\ proc' \in [Process -> ProcState]
        /\ proc'[p] = r
        /\ \A q \in Process \ {p} : proc'[q] = proc[q]
        /\ CommandsSound'
    BY <1>2, OneMoves
  <1>4. TypeInv'
    BY <1>1, <1>2, <1>3 DEF TypeInv
  <1>5. HelperSound' /\ Heard' = Heard
    BY <1>1, <1>2 DEF HelperSound, Heard, Queued, InWork
  <1>6. QED
    BY <1>1, <1>3, <1>4, <1>5, AsideKeeps

LEMMA EndInv ==
  ASSUME PlaneInv, NEW p \in Process, End(p),
         UNCHANGED <<outbox, attempts, journal, helperVars, now>>
  PROVE  PlaneInv'
  <1>1. journal \in [Draft -> JournalRecord]
    BY DEF PlaneInv, TypeInv
  <1>2. \A d \in Draft : /\ journal[d].approvals >= journal[d].approvals
                         /\ journal[d].attempts >= journal[d].attempts
    BY <1>1 DEF JournalRecord
  <1>3. QED
    BY <1>1, <1>2, IdleSound, MovesAside DEF End, Holding, PlaneInv


(* The steps of a process other than those on a key it holds.                *)
AsideStep(p) ==
  \/ Begin(p, "status", NoKey)
  \/ \E key \in Key : Begin(p, "execute", key) \/ Begin(p, "reconcile", key)
  \/ \E key \in Key, outcome \in {"ObservedSent", "AwaitingReconciliation"} :
       Attest(p, key, outcome)
  \/ ReadLive(p) \/ Sweep(p)
  \/ Precheck(p) \/ Stage(p) \/ MintRefused(p)
  \/ Discard(p) \/ JournalReconciliation(p)
  \/ Observe(p) \/ Decide(p) \/ DiscardParked(p)
  \/ Crash(p)

\* Process p goes where it holds no key and where the commands of its kind go.
GoesAside(p) ==
  \E r \in ProcState :
    /\ CommandSound(r)
    /\ r.pc \notin Holding
    /\ proc' = [proc EXCEPT ![p] = r]

LEMMA AsideStepGoes ==
  ASSUME PlaneInv, NEW p \in Process, AsideStep(p)
  PROVE  GoesAside(p)
  <1> DEFINE s == proc[p]
  <1>1. /\ s \in ProcState
        /\ CommandSound(s)
        /\ now \in Nat /\ now \in Time
        /\ 0 \in Time
    BY ControlPlaneAssumption DEF PlaneInv, TypeInv, CommandsSound, Time
  <1>2. End(p) => GoesAside(p)
    BY IdleSound DEF End, GoesAside, Holding, PlaneInv
  <1>3. ASSUME NEW pc \in {"recover", "readLive", "sweep", "precheck", "stage",
                           "reserve", "discardParked", "resolve",
                           "journalReconciliation"},
               CommandSound([s EXCEPT !.pc = pc]), Goto(p, pc)
        PROVE  GoesAside(p)
    <2>1. [s EXCEPT !.pc = pc] \in ProcState /\ [s EXCEPT !.pc = pc].pc = pc
      BY <1>1 DEF ProcState, Opening, Preparing, Resolving
    <2>2. proc' = [proc EXCEPT ![p] = [s EXCEPT !.pc = pc]]
      BY <1>3 DEF Goto
    <2>3. QED
      BY <1>3, <2>1, <2>2 DEF GoesAside, Holding
  <1>4. ASSUME NEW cmd \in {"status", "execute", "reconcile"},
               NEW key \in Key \cup {NoKey}, cmd # "status" => key \in Key,
               Begin(p, cmd, key)
        PROVE  GoesAside(p)
    <2> DEFINE r == [Idle EXCEPT !.cmd = cmd, !.pc = "recover", !.key = key,
                                 !.start = now]
    <2>1. r \in ProcState /\ r.pc = "recover"
      BY <1>1, IdleSound DEF ProcState, Idle, Opening, PlaneInv
    <2>2. CommandSound(r)
      BY <1>1, <1>4 DEF Idle, CommandSound, Opening, Preparing, Holding,
         Resolving
    <2>3. proc' = [proc EXCEPT ![p] = r]
      BY <1>4 DEF Begin
    <2>4. QED
      BY <2>1, <2>2, <2>3 DEF GoesAside, Holding
  <1>5. ASSUME ReadLive(p) PROVE GoesAside(p)
    <2> DEFINE live == {e.staging : e \in LiveEntries(outbox)}
               opens == s.opens + 1
               r == [s EXCEPT !.pc = "sweep", !.opens = opens, !.live = live]
    <2>1. live \subseteq Staging \cup {NoStaging}
      <3>1. outbox \in Document
        BY SameSets DEF PlaneInv, Outbox!IInv, Outbox!TypeOK
      <3>2. LiveEntries(outbox) \subseteq Entry
        BY <3>1 DEF Document, LiveEntries, PendingEntries, InFlightEntry,
           ParkedEntry
      <3>3. QED
        BY <3>2 DEF Entry
    <2>2. opens \in Nat
      BY <1>1 DEF ProcState
    <2>3. proc' = [proc EXCEPT ![p] = r] \/ End(p)
      BY <1>5 DEF ReadLive
    <2> HIDE DEF live, opens
    <2>4. r \in ProcState /\ r.pc = "sweep"
      BY <1>1, <2>1, <2>2 DEF ProcState, Opening
    <2>5. CommandSound(r)
      BY <1>1, <1>5 DEF ReadLive, CommandSound, ProcState, Opening, Preparing,
         Holding, Resolving
    <2>6. QED
      BY <1>2, <2>3, <2>4, <2>5 DEF GoesAside, Holding
  <1>6. ASSUME Sweep(p) PROVE GoesAside(p)
    <2> DEFINE next == IF s.cmd = "execute" THEN "precheck"
                       ELSE IF s.opens = 1 THEN "observe" ELSE "decide"
               r == [s EXCEPT !.pc = next, !.live = {}]
    <2>1. s.cmd \in {"status", "execute", "reconcile"}
      BY <1>1, <1>6 DEF Sweep, CommandSound, Opening, ProcState
    <2>2. s.cmd = "status" => End(p)
      BY <1>6 DEF Sweep, Opened
    <2>3. s.cmd # "status" => proc' = [proc EXCEPT ![p] = r]
      BY <1>6, <2>1 DEF Sweep, Opened
    <2>4. r \in ProcState
      BY <1>1 DEF ProcState, Preparing
    <2>5. s.cmd # "status" => CommandSound(r)
      BY <1>1, <2>1 DEF CommandSound, ProcState, Opening, Preparing, Holding,
         Resolving
    <2>6. r.pc \notin Holding
      BY <1>1 DEF ProcState, Holding
    <2> HIDE DEF r
    <2>7. QED
      BY <1>2, <2>1, <2>2, <2>3, <2>4, <2>5, <2>6 DEF GoesAside
  <1>7. ASSUME Precheck(p) PROVE GoesAside(p)
    <2>1. ASSUME NEW pc \in {"stage", "reserve"}
          PROVE  CommandSound([s EXCEPT !.pc = pc])
      BY <1>1, <1>7 DEF Precheck, CommandSound, ProcState, Opening, Preparing,
         Holding, Resolving
    <2>2. Goto(p, "stage") \/ Goto(p, "reserve") \/ End(p)
      BY <1>7 DEF Precheck
    <2>3. QED
      BY <1>2, <1>3, <2>1, <2>2
  <1>8. ASSUME Stage(p) PROVE GoesAside(p)
    <2>1. CommandSound([s EXCEPT !.pc = "reserve"])
      BY <1>1, <1>8 DEF Stage, CommandSound, ProcState, Opening, Preparing,
         Holding, Resolving
    <2>2. QED
      BY <1>3, <1>8, <2>1 DEF Stage
  <1>9. ASSUME Discard(p) PROVE GoesAside(p)
    <2>1. CommandSound([s EXCEPT !.pc = "journalReconciliation"])
      BY <1>1, <1>9 DEF Discard, CommandSound, ProcState, Opening, Preparing,
         Holding, Resolving
    <2>2. QED
      BY <1>3, <1>9, <2>1 DEF Discard
  <1>10. ASSUME Observe(p) PROVE GoesAside(p)
    <2>1. PICK outcome \in {"ObservedSent", "AwaitingReconciliation"} :
            \/ proc' = [proc EXCEPT ![p] = [s EXCEPT !.pc = "recover",
                                                     !.outcome = outcome]]
            \/ End(p)
      BY <1>10 DEF Observe
    <2> DEFINE r == [s EXCEPT !.pc = "recover", !.outcome = outcome]
    <2>2. r \in ProcState /\ r.pc = "recover"
      BY <1>1 DEF ProcState, Opening, Outcomes, CompletionKinds
    <2>3. CommandSound(r)
      BY <1>1, <1>10 DEF Observe, CommandSound, ProcState, Opening, Preparing,
         Holding, Resolving
    <2>4. QED
      BY <1>2, <2>1, <2>2, <2>3 DEF GoesAside, Holding
  <1>11. ASSUME Decide(p) PROVE GoesAside(p)
    <2> DEFINE r == [s EXCEPT !.pc = "discardParked",
                              !.outcome = "ObservedFailed"]
    <2>1. \/ s.outcome = "ObservedSent" /\ Goto(p, "discardParked")
          \/ proc' = [proc EXCEPT ![p] = r]
          \/ End(p)
      BY <1>11 DEF Decide
    <2>2. r \in ProcState /\ r.pc = "discardParked"
      BY <1>1 DEF ProcState, Resolving, Outcomes, CompletionKinds
    <2>3. CommandSound(r)
      BY <1>1, <1>11 DEF Decide, CommandSound, ProcState, Opening, Preparing,
         Holding, Resolving
    <2>4. s.outcome = "ObservedSent" =>
            CommandSound([s EXCEPT !.pc = "discardParked"])
      BY <1>1, <1>11 DEF Decide, CommandSound, ProcState, Opening, Preparing,
         Holding, Resolving
    <2>5. proc' = [proc EXCEPT ![p] = r] => GoesAside(p)
      BY <2>2, <2>3 DEF GoesAside, Holding
    <2>6. QED
      BY <1>2, <1>3, <2>1, <2>4, <2>5
  <1>12. ASSUME DiscardParked(p) PROVE GoesAside(p)
    <2>1. CommandSound([s EXCEPT !.pc = "resolve"])
      BY <1>1, <1>12 DEF DiscardParked, CommandSound, ProcState, Opening,
         Preparing, Holding, Resolving
    <2>2. QED
      BY <1>3, <1>12, <2>1 DEF DiscardParked
  <1>13. MintRefused(p) \/ JournalReconciliation(p) \/ Crash(p) => GoesAside(p)
    BY <1>2 DEF MintRefused, JournalReconciliation, Crash
  <1>14. ASSUME NEW key \in Key,
                NEW outcome \in {"ObservedSent", "AwaitingReconciliation"},
                Attest(p, key, outcome)
         PROVE  GoesAside(p)
    <2> DEFINE r == [Idle EXCEPT !.cmd = "reconcile", !.pc = "recover",
                                 !.key = key, !.start = now, !.opens = 1,
                                 !.outcome = outcome]
    <2>1. r \in ProcState /\ r.pc = "recover"
      BY <1>1, IdleSound DEF ProcState, Idle, Opening, PlaneInv, Outcomes,
         CompletionKinds
    <2>2. CommandSound(r)
      BY <1>1 DEF Idle, CommandSound, Opening, Preparing, Holding, Resolving
    <2>3. proc' = [proc EXCEPT ![p] = r]
      BY <1>14 DEF Attest
    <2>4. QED
      BY <2>1, <2>2, <2>3 DEF GoesAside, Holding
  <1>15. QED
    BY <1>4, <1>5, <1>6, <1>7, <1>8, <1>9, <1>10, <1>11, <1>12, <1>13, <1>14
       DEF AsideStep

LEMMA AsideInv ==
  ASSUME PlaneInv, NEW p \in Process, AsideStep(p)
  PROVE  PlaneInv'
  <1>1. journal \in [Draft -> JournalRecord] /\ proc \in [Process -> ProcState]
    BY DEF PlaneInv, TypeInv
  <1>2. UNCHANGED <<outbox, attempts, helperVars, now>>
    BY DEF storeVars, AsideStep, Begin, Attest, ReadLive, Sweep, Precheck,
       Stage, MintRefused, Discard, JournalReconciliation, Observe, Decide,
       DiscardParked, Crash
  <1>3. /\ journal' \in [Draft -> JournalRecord]
        /\ \A d \in Draft : /\ journal'[d].approvals >= journal[d].approvals
                            /\ journal'[d].attempts >= journal[d].attempts
    <2>1. CASE UNCHANGED journal
      BY <1>1, <2>1 DEF JournalRecord
    <2>2. CASE JournalReconciliation(p)
      <3>1. DraftOf[proc[p].key] \in Draft
        BY <2>2 DEF JournalReconciliation, PlaneInv, CommandsSound,
           CommandSound, Draft
      <3>2. QED
        BY <1>1, <2>2, <3>1 DEF JournalReconciliation, JournalRecord
    <2>3. QED
      BY <2>1, <2>2 DEF AsideStep, Begin, Attest, ReadLive, Sweep, Precheck, Stage,
         MintRefused, Discard, Observe, Decide, DiscardParked, Crash
  <1>4. PICK r \in ProcState : /\ CommandSound(r)
                               /\ r.pc \notin Holding
                               /\ proc' = [proc EXCEPT ![p] = r]
    BY AsideStepGoes DEF GoesAside
  <1>5. QED
    BY <1>2, <1>3, <1>4, MovesAside

-----------------------------------------------------------------------------
(* The dispatch and the helper.                                              *)

LEMMA SettleMoves ==
  ASSUME TypeInv, CommandsSound, NEW p \in Process,
         NEW outcome \in Outcomes \ {"ObservedSent"}, NEW attempted \in BOOLEAN,
         proc[p].pc \in {"dispatch", "await"},
         outcome = "AwaitingReconciliation" => PermitsSend(proc[p].key),
         attempted => outcome = "AwaitingReconciliation",
         Settle(p, outcome, attempted), UNCHANGED now
  PROVE  /\ proc' \in [Process -> ProcState]
         /\ CommandsSound'
         /\ \A q \in Process \ {p} : proc'[q] = proc[q]
         /\ proc'[p].pc = "complete"
         /\ proc'[p].key = proc[p].key
         /\ proc'[p].outcome = outcome
  <1> DEFINE s == proc[p]
             clock == s.start + (IF s.pc = "await" THEN now - s.clock ELSE 0)
             r == [s EXCEPT !.pc = "complete", !.outcome = outcome,
                            !.attempted = attempted, !.clock = clock]
  <1>1. s \in ProcState /\ CommandSound(s)
    BY DEF TypeInv, CommandsSound
  <1>2. clock \in Time
    <2>1. /\ s.start \in 0 .. MaxTime /\ now \in 0 .. MaxTime
          /\ s.clock \in 0 .. MaxTime
      BY <1>1 DEF TypeInv, ProcState, Time
    <2>2. s.pc = "await" => s.start <= s.clock /\ s.clock <= now
      BY <1>1 DEF CommandSound
    <2>3. QED
      BY <2>1, <2>2, ControlPlaneAssumption DEF Time
  <1>3. proc' = [proc EXCEPT ![p] = r]
    BY DEF Settle
  <1> HIDE DEF clock
  <1>4. r \in ProcState
    BY <1>1, <1>2 DEF ProcState, Holding
  <1>5. CommandSound(r)
    BY <1>1 DEF CommandSound, ProcState, Opening, Preparing, Holding, Resolving
  <1>6. r.pc = "complete" /\ r.key = s.key /\ r.outcome = outcome
    BY <1>1 DEF ProcState
  <1> HIDE DEF r
  <1>7. QED
    BY <1>3, <1>4, <1>5, <1>6, OneMoves

LEMMA JournalStays ==
  ASSUME TypeInv, UNCHANGED journal
  PROVE  \A d \in Draft : /\ journal'[d].approvals >= journal[d].approvals
                          /\ journal'[d].attempts >= journal[d].attempts
  BY DEF TypeInv, JournalRecord

LEMMA DispatchFailsInv ==
  ASSUME PlaneInv, NEW p \in Process, DispatchFails(p)
  PROVE  PlaneInv'
  <1> DEFINE key == proc[p].key
             outcome == Inconclusive(key)
  <1>1. TypeInv /\ CommandsSound /\ HelperSound
    BY DEF PlaneInv
  <1>2. /\ outcome \in Outcomes \ {"ObservedSent"}
        /\ outcome = "AwaitingReconciliation" <=> PermitsSend(key)
    BY DEF Inconclusive, Outcomes, CompletionKinds
  <1>3. /\ proc[p].pc \in {"dispatch", "await"}
        /\ Settle(p, outcome, FALSE)
        /\ UNCHANGED <<outbox, attempts, journal, helperVars, now>>
    BY DEF DispatchFails, storeVars
  <1>4. UNCHANGED <<queue, work, returned, halfway>>
    BY <1>3 DEF helperVars
  <1> HIDE DEF outcome
  <1>5. /\ proc' \in [Process -> ProcState]
        /\ CommandsSound'
        /\ \A q \in Process \ {p} : proc'[q] = proc[q]
        /\ proc'[p].pc = "complete"
        /\ proc'[p].key = proc[p].key
        /\ proc'[p].outcome = outcome
    BY <1>1, <1>2, <1>3, SettleMoves
  <1>6. Settles(p)
    BY <1>2, <1>3, <1>5 DEF Settles
  <1>7. TypeInv'
    BY <1>1, <1>3, <1>4, <1>5 DEF TypeInv
  <1>8. HelperSound' /\ Heard' = Heard
    BY <1>1, <1>4 DEF HelperSound, Heard, Queued, InWork
  <1>9. QED
    BY <1>1, <1>3, <1>4, <1>5, <1>6, <1>7, <1>8, JournalStays, AsideKeeps

(* A reply settles the command that waits for it, if one does.               *)
LEMMA ReplyMoves ==
  ASSUME TypeInv, CommandsSound, NEW c \in CapabilityRecord,
         NEW outcome \in Outcomes \ {"ObservedSent"}, NEW attempted \in BOOLEAN,
         outcome = "AwaitingReconciliation" => PermitsSend(c.key),
         attempted => outcome = "AwaitingReconciliation",
         outcome # "AwaitingReconciliation" /\ PermitsSend(c.key)
           => c.key \notin Heard' \ halfway',
         Reply(c, outcome, attempted), UNCHANGED now
  PROVE  /\ proc' \in [Process -> ProcState]
         /\ CommandsSound'
         /\ \A q \in Process : proc'[q] = proc[q] \/ Settles(q)
  <1>1. CASE Awaited(c)
    <2>1. c.by \in Process
      BY DEF CapabilityRecord
    <2>2. /\ proc[c.by].pc = "await" /\ proc[c.by].key = c.key
          /\ Settle(c.by, outcome, attempted)
      BY <1>1 DEF Awaited, Reply
    <2>3. /\ proc' \in [Process -> ProcState]
          /\ CommandsSound'
          /\ \A q \in Process \ {c.by} : proc'[q] = proc[q]
          /\ proc'[c.by].pc = "complete"
          /\ proc'[c.by].key = proc[c.by].key
          /\ proc'[c.by].outcome = outcome
      BY <2>1, <2>2, SettleMoves
    <2>4. Settles(c.by)
      BY <2>2, <2>3 DEF Settles
    <2>5. QED
      BY <2>3, <2>4
  <1>2. CASE ~Awaited(c)
    <2>1. proc' = proc
      BY <1>2 DEF Reply
    <2>2. CommandsSound'
      BY <2>1 DEF CommandsSound, CommandSound
    <2>3. QED
      BY <2>1, <2>2 DEF TypeInv
  <1>3. QED
    BY <1>1, <1>2

LEMMA QueueTail ==
  ASSUME NEW q \in Seq(CapabilityRecord), q # <<>>
  PROVE  /\ Tail(q) \in Seq(CapabilityRecord)
         /\ Head(q) \in CapabilityRecord
         /\ 1 \in DOMAIN q /\ Head(q) = q[1]
         /\ \A i \in DOMAIN Tail(q) :
              i \in Nat /\ i + 1 \in DOMAIN q /\ i + 1 # 1 /\ Tail(q)[i] = q[i + 1]
  OBVIOUS

LEMMA HelperStartInv ==
  ASSUME PlaneInv, HelperStart
  PROVE  PlaneInv'
  <1> DEFINE c == Head(queue)
  <1>1. TypeInv /\ CommandsSound /\ HelperSound
    BY DEF PlaneInv
  <1>2. queue \in Seq(CapabilityRecord) /\ queue # <<>> /\ queue' = Tail(queue)
    BY <1>1 DEF TypeInv, HelperStart
  <1>3. /\ queue' \in Seq(CapabilityRecord)
        /\ c \in CapabilityRecord
        /\ 1 \in DOMAIN queue /\ c = queue[1]
        /\ \A i \in DOMAIN queue' :
             /\ i \in Nat /\ i + 1 \in DOMAIN queue /\ i + 1 # 1
             /\ queue'[i] = queue[i + 1]
    BY <1>2, QueueTail
  <1>4. /\ work = NoWork
        /\ UNCHANGED <<outbox, attempts, journal, returned, halfway, now>>
    BY DEF HelperStart, storeVars
  <1> HIDE DEF c
  <1>5. c.key \in Queued /\ c.key \notin Queued' /\ Queued' \subseteq Queued
    <2>1. \A i \in DOMAIN queue' : queue'[i].key # c.key
      BY <1>1, <1>3 DEF HelperSound
    <2>2. QED
      BY <1>3, <2>1 DEF Queued
  <1>6. /\ \A i, j \in DOMAIN queue' : queue'[i].key = queue'[j].key => i = j
        /\ \A i \in DOMAIN queue' :
             queue'[i].permitSend <=> PermitsSend(queue'[i].key)
    BY <1>1, <1>3 DEF HelperSound
  <1>7. CASE now < c.until
    <2> DEFINE w == [capability |-> c, since |-> now, pressed |-> FALSE]
    <2>1. work' = w /\ proc' = proc
      BY <1>7 DEF HelperStart, c
    <2>2. w \in WorkRecord
      BY <1>1, <1>3 DEF WorkRecord, TypeInv
    <2>3. TypeInv'
      BY <1>1, <1>3, <1>4, <2>1, <2>2 DEF TypeInv
    <2>4. CommandsSound'
      BY <1>1, <1>4, <2>1 DEF CommandsSound, CommandSound
    <2>5. HelperSound'
      <3>1. c.permitSend <=> PermitsSend(c.key)
        BY <1>1, <1>3 DEF HelperSound
      <3>2. \A key \in Key : InWork(key)' => key = c.key
        BY <2>1 DEF InWork
      <3>3. \A key \in Key : returned[key] > 0 =>
              returned[key] = 1 /\ PermitsSend(key) /\ key \notin Queued
        BY <1>1 DEF HelperSound
      <3>4. work' # NoWork =>
              /\ work'.capability.permitSend <=> PermitsSend(work'.capability.key)
              /\ work'.capability.key \notin Queued'
              /\ work'.pressed =>
                   /\ work'.capability.permitSend
                   /\ returned'[work'.capability.key] > 0
        BY <1>5, <2>1, <3>1
      <3>5. \A key \in Key : returned'[key] > 0 =>
              /\ returned'[key] = 1
              /\ PermitsSend(key)
              /\ key \notin Queued'
              /\ ~InWork(key)'
        BY <1>4, <1>5, <3>2, <3>3
      <3>6. \A key \in halfway' :
              /\ key \in Key /\ returned'[key] > 0
              /\ key \notin Queued' /\ ~InWork(key)'
        BY <1>1, <1>4, <1>5, <3>5 DEF HelperSound
      <3>7. QED
        BY <1>6, <3>4, <3>5, <3>6 DEF HelperSound
    <2>6. Heard' \subseteq Heard
      BY <1>4, <1>5, <2>1 DEF Heard, InWork
    <2>7. QED
      BY <1>1, <1>4, <2>1, <2>3, <2>4, <2>5, <2>6, JournalStays, AsideKeeps
  <1>8. CASE ~(now < c.until)
    <2> DEFINE outcome == Inconclusive(c.key)
    <2>1. work' = work /\ Reply(c, outcome, FALSE)
      BY <1>8 DEF HelperStart, c
    <2>2. /\ outcome \in Outcomes \ {"ObservedSent"}
          /\ outcome = "AwaitingReconciliation" <=> PermitsSend(c.key)
      BY DEF Inconclusive, Outcomes, CompletionKinds
    <2> HIDE DEF outcome
    <2>3. /\ proc' \in [Process -> ProcState]
          /\ CommandsSound'
          /\ \A q \in Process : proc'[q] = proc[q] \/ Settles(q)
      BY <1>1, <1>3, <1>4, <2>1, <2>2, ReplyMoves
    <2>4. TypeInv'
      BY <1>1, <1>3, <1>4, <2>1, <2>3 DEF TypeInv
    <2>5. HelperSound'
      BY <1>1, <1>4, <1>5, <1>6, <2>1 DEF HelperSound, InWork
    <2>6. Heard' \subseteq Heard
      BY <1>4, <1>5, <2>1 DEF Heard, InWork
    <2>7. QED
      BY <1>1, <1>4, <2>3, <2>4, <2>5, <2>6, JournalStays, AsideKeeps
  <1>9. QED
    BY <1>7, <1>8

LEMMA PressReturnInv ==
  ASSUME PlaneInv, PressReturn
  PROVE  PlaneInv'
  <1> DEFINE key == work.capability.key
  <1>1. TypeInv /\ CommandsSound /\ HelperSound
    BY DEF PlaneInv
  <1>2. /\ work # NoWork /\ work.capability.permitSend /\ ~work.pressed
        /\ work' = [work EXCEPT !.pressed = TRUE]
        /\ returned' = [returned EXCEPT ![key] = @ + 1]
        /\ UNCHANGED <<outbox, attempts, proc, journal, queue, halfway, now>>
    BY DEF PressReturn, storeVars
  <1>3. work \in WorkRecord /\ key \in Key /\ returned \in [Key -> Nat]
    BY <1>1, <1>2 DEF TypeInv, WorkRecord, CapabilityRecord
  <1>4. /\ work' \in WorkRecord /\ work'.capability = work.capability
        /\ work'.pressed
    BY <1>2, <1>3 DEF WorkRecord
  <1>5. /\ returned' \in [Key -> Nat]
        /\ returned'[key] = returned[key] + 1
        /\ \A k \in Key \ {key} : returned'[k] = returned[k]
    BY <1>2, <1>3
  <1>6. PermitsSend(key) /\ key \notin Queued /\ returned[key] = 0
    BY <1>1, <1>2, <1>3 DEF HelperSound, InWork
  <1>7. TypeInv'
    BY <1>1, <1>2, <1>4, <1>5 DEF TypeInv
  <1>8. CommandsSound'
    BY <1>1, <1>2 DEF CommandsSound, CommandSound
  <1>9. Queued' = Queued
    BY <1>2 DEF Queued
  <1> HIDE DEF key
  <1>10. HelperSound'
    <2>1. /\ \A i, j \in DOMAIN queue' : queue'[i].key = queue'[j].key => i = j
          /\ \A i \in DOMAIN queue' :
               queue'[i].permitSend <=> PermitsSend(queue'[i].key)
      BY <1>1, <1>2 DEF HelperSound
    <2>2. /\ work'.capability.permitSend <=> PermitsSend(work'.capability.key)
          /\ work'.capability.key \notin Queued'
          /\ work'.pressed =>
               /\ work'.capability.permitSend
               /\ returned'[work'.capability.key] > 0
      BY <1>2, <1>4, <1>5, <1>6, <1>9 DEF key
    <2>3. \A k \in Key : returned'[k] > 0 =>
            /\ returned'[k] = 1
            /\ PermitsSend(k)
            /\ k \notin Queued'
            /\ InWork(k)' => work'.pressed
      BY <1>1, <1>4, <1>5, <1>6, <1>9 DEF HelperSound
    <2>4. \A k \in halfway' :
            k \in Key /\ returned'[k] > 0 /\ k \notin Queued' /\ ~InWork(k)'
      BY <1>1, <1>2, <1>3, <1>4, <1>5, <1>9 DEF HelperSound, InWork
    <2>5. QED
      BY <2>1, <2>2, <2>3, <2>4 DEF HelperSound
  <1>11. Heard' \subseteq Heard
    BY <1>2, <1>4, <1>5, <1>9 DEF Heard, InWork, key
  <1>12. QED
    BY <1>1, <1>2, <1>7, <1>8, <1>10, <1>11, JournalStays, AsideKeeps

LEMMA SkillEndsInv ==
  ASSUME PlaneInv, SkillEnds
  PROVE  PlaneInv'
  <1> DEFINE c == work.capability
  <1>1. TypeInv /\ CommandsSound /\ HelperSound
    BY DEF PlaneInv
  <1>2. /\ work # NoWork /\ work' = NoWork
        /\ UNCHANGED <<outbox, attempts, journal, queue, returned, halfway, now>>
    BY DEF SkillEnds, storeVars
  <1>3. c \in CapabilityRecord /\ c.key \in Key
    BY <1>1, <1>2 DEF TypeInv, WorkRecord, CapabilityRecord
  <1>4. /\ c.permitSend <=> PermitsSend(c.key)
        /\ work.pressed => c.permitSend
        /\ c.key \notin Queued
        /\ returned[c.key] > 0 => work.pressed
    BY <1>1, <1>2, <1>3 DEF HelperSound, InWork
  <1>5. Queued' = Queued /\ \A key \in Key : ~InWork(key)'
    BY <1>2 DEF Queued, InWork
  <1>6. ~work.pressed => c.key \notin Heard'
    BY <1>2, <1>4, <1>5 DEF Heard
  <1>7. PICK outcome \in Outcomes \ {"ObservedSent"}, attempted \in BOOLEAN :
          /\ Reply(c, outcome, attempted)
          /\ outcome = "AwaitingReconciliation" => PermitsSend(c.key)
          /\ attempted => outcome = "AwaitingReconciliation"
          /\ outcome # "AwaitingReconciliation" /\ PermitsSend(c.key)
               => c.key \notin Heard' \ halfway'
    <2>1. /\ {"AwaitingReconciliation", "ObservedFailed", "DryRunCompleted"}
               \subseteq Outcomes \ {"ObservedSent"}
          /\ TRUE \in BOOLEAN /\ FALSE \in BOOLEAN
      BY DEF Outcomes, CompletionKinds
    <2>2. CASE work.pressed /\ Reply(c, "AwaitingReconciliation", TRUE)
      BY <1>4, <2>1, <2>2
    <2>3. CASE ~work.pressed /\ Reply(c, "ObservedFailed", FALSE)
      BY <1>6, <2>1, <2>3
    <2>4. CASE ~c.permitSend /\ Reply(c, "DryRunCompleted", FALSE)
      BY <1>4, <2>1, <2>4
    <2>5. QED
      BY <2>2, <2>3, <2>4 DEF SkillEnds
  <1> HIDE DEF c
  <1>8. /\ proc' \in [Process -> ProcState]
        /\ CommandsSound'
        /\ \A q \in Process : proc'[q] = proc[q] \/ Settles(q)
    BY <1>1, <1>2, <1>3, <1>7, ReplyMoves
  <1>9. TypeInv'
    BY <1>1, <1>2, <1>8 DEF TypeInv
  <1>10. HelperSound'
    <2>1. \A key \in halfway' :
            key \in Key /\ returned'[key] > 0 /\ key \notin Queued' /\ ~InWork(key)'
      BY <1>1, <1>2, <1>5 DEF HelperSound
    <2>2. QED
      BY <1>1, <1>2, <1>5, <2>1 DEF HelperSound
  <1>11. Heard' \subseteq Heard
    BY <1>2, <1>5 DEF Heard
  <1>12. QED
    BY <1>1, <1>2, <1>8, <1>9, <1>10, <1>11, JournalStays, AsideKeeps

LEMMA ReleaseFailsInv ==
  ASSUME PlaneInv, ReleaseFails
  PROVE  PlaneInv'
  <1> DEFINE c == work.capability
  <1>1. TypeInv /\ CommandsSound /\ HelperSound
    BY DEF PlaneInv
  <1>2. /\ work # NoWork /\ work.pressed /\ work' = NoWork
        /\ halfway' = halfway \cup {c.key}
        /\ Reply(c, "ObservedFailed", FALSE)
        /\ UNCHANGED <<outbox, attempts, journal, queue, returned, now>>
    BY DEF ReleaseFails, storeVars
  <1>3. c \in CapabilityRecord /\ c.key \in Key
    BY <1>1, <1>2 DEF TypeInv, WorkRecord, CapabilityRecord
  <1>4. returned[c.key] > 0 /\ c.key \notin Queued
    BY <1>1, <1>2 DEF HelperSound
  <1>5. Queued' = Queued /\ \A key \in Key : ~InWork(key)'
    BY <1>2 DEF Queued, InWork
  <1>6. "ObservedFailed" \in Outcomes \ {"ObservedSent"} /\ FALSE \in BOOLEAN
    BY DEF Outcomes, CompletionKinds
  <1>7. c.key \notin Heard' \ halfway'
    BY <1>2
  <1> HIDE DEF c
  <1>8. /\ proc' \in [Process -> ProcState]
        /\ CommandsSound'
        /\ \A q \in Process : proc'[q] = proc[q] \/ Settles(q)
    BY <1>1, <1>2, <1>3, <1>6, <1>7, ReplyMoves
  <1>9. TypeInv'
    BY <1>1, <1>2, <1>8 DEF TypeInv
  <1>10. HelperSound'
    <2>1. \A key \in halfway' :
            key \in Key /\ returned'[key] > 0 /\ key \notin Queued' /\ ~InWork(key)'
      BY <1>1, <1>2, <1>3, <1>4, <1>5 DEF HelperSound
    <2>2. QED
      BY <1>1, <1>2, <1>5, <2>1 DEF HelperSound
  <1>11. Heard' \subseteq Heard /\ halfway \subseteq halfway'
    BY <1>2, <1>5 DEF Heard
  <1>12. QED
    BY <1>1, <1>2, <1>8, <1>9, <1>10, <1>11, JournalStays, AsideKeeps

(* The helper dies, the owner types, the replica follows and time passes.    *)
LEMMA SurroundingsInv ==
  ASSUME PlaneInv, HelperDies \/ OwnerTypes \/ ReplicaFollows \/ Tick
  PROVE  PlaneInv'
  <1>1. TypeInv /\ CommandsSound /\ HelperSound
    BY DEF PlaneInv
  <1>2. /\ UNCHANGED <<outbox, attempts, proc, journal, returned, halfway>>
        /\ \/ UNCHANGED <<queue, work>>
           \/ work' = NoWork /\ queue' = <<>>
        /\ \/ now' = now
           \/ now < MaxTime /\ now' = now + 1
    BY DEF HelperDies, OwnerTypes, ReplicaFollows, Tick, storeVars,
       helperVars
  <1>3. now' \in Time /\ now' >= now /\ now \in Nat
    <2>1. now \in 0 .. MaxTime /\ MaxTime \in Nat
      BY <1>1, ControlPlaneAssumption DEF TypeInv, Time
    <2>2. QED
      BY <1>2, <2>1 DEF Time
  <1>4. <<>> \in Seq(CapabilityRecord) /\ DOMAIN <<>> = {}
    OBVIOUS
  <1>5. TypeInv'
    BY <1>1, <1>2, <1>3, <1>4 DEF TypeInv
  <1>6. CommandsSound'
    <2>1. ASSUME NEW p \in Process PROVE CommandSound(proc[p])'
      <3>1. proc[p] \in ProcState /\ CommandSound(proc[p])
        BY <1>1 DEF TypeInv, CommandsSound
      <3>2. proc[p].start \in Nat /\ proc[p].clock \in Nat /\ now' \in Nat
        BY <1>3, <3>1 DEF ProcState, Time
      <3>3. QED
        BY <1>2, <1>3, <3>1, <3>2 DEF CommandSound
    <2>2. QED
      BY <2>1 DEF CommandsSound
  <1>7. HelperSound' /\ Heard' \subseteq Heard
    <2>1. CASE UNCHANGED <<queue, work>>
      BY <1>1, <1>2, <2>1 DEF HelperSound, Heard, Queued, InWork
    <2>2. CASE work' = NoWork /\ queue' = <<>>
      <3>1. Queued' = {} /\ \A key \in Key : ~InWork(key)'
        BY <1>4, <2>2 DEF Queued, InWork
      <3>2. HelperSound'
        BY <1>1, <1>2, <1>4, <2>2, <3>1 DEF HelperSound
      <3>3. Heard' \subseteq Heard
        BY <1>2, <3>1 DEF Heard
      <3>4. QED
        BY <3>2, <3>3
    <2>3. QED
      BY <1>2, <2>1, <2>2
  <1>8. QED
    BY <1>1, <1>2, <1>5, <1>6, <1>7, JournalStays, AsideKeeps

-----------------------------------------------------------------------------
(* The path of a key through `execute`, from its reservation to the helper.  *)

\* What the steps of this section have in common.
Carries(p, pc) ==
  /\ proc' \in [Process -> ProcState]
  /\ CommandsSound'
  /\ \A q \in Process \ {p} : proc'[q] = proc[q]
  /\ proc'[p].pc = pc
  /\ proc'[p].key = proc[p].key
  /\ proc'[p].start = proc[p].start

LEMMA GotoCarries ==
  ASSUME TypeInv, CommandsSound, NEW p \in Process,
         NEW pc \in {"journalApproval", "markAttempted", "journalAttempt",
                     "dispatch"},
         proc[p].cmd = "execute", pc = "markAttempted" => PermitsSend(proc[p].key),
         Goto(p, pc), UNCHANGED now
  PROVE  Carries(p, pc)
  <1> DEFINE r == [proc[p] EXCEPT !.pc = pc]
  <1>1. proc[p] \in ProcState /\ CommandSound(proc[p])
    BY DEF TypeInv, CommandsSound
  <1>2. r \in ProcState
    BY <1>1 DEF ProcState, Holding
  <1>3. CommandSound(r)
    BY <1>1 DEF CommandSound, ProcState, Opening, Preparing, Holding, Resolving
  <1>4. r.pc = pc /\ r.key = proc[p].key /\ r.start = proc[p].start
    BY <1>1 DEF ProcState
  <1>5. proc' = [proc EXCEPT ![p] = r]
    BY DEF Goto
  <1> HIDE DEF r
  <1>6. QED
    BY <1>2, <1>3, <1>4, <1>5, OneMoves DEF Carries

(* Reservation gives the key to one process; nobody had it before.           *)
LEMMA ReserveEntryInv ==
  ASSUME PlaneInv, NEW p \in Process, ReserveEntry(p)
  PROVE  PlaneInv'
  <1> DEFINE key == proc[p].key
             reserved == Reserve(outbox, key, PermitsSend(key),
                                 StagingOf(p, key), proc[p].start,
                                 GeneralMaximum)
  <1>1. UNCHANGED <<attempts, journal, helperVars, now>>
    BY DEF ReserveEntry
  <1>2. CASE End(p) /\ UNCHANGED outbox
    BY <1>1, <1>2, EndInv
  <1>3. CASE /\ CanReserve(outbox, key, proc[p].start, GeneralMaximum)
             /\ Transacts(reserved)
             /\ outbox' = reserved
             /\ Goto(p, "journalApproval")
    <2>1. /\ TypeInv /\ CommandsSound /\ KeysHeld /\ HelperSound /\ SlotSound
          /\ ClosedSound /\ SettledSound /\ TriedSound /\ JournalSound
          /\ Outbox!IInv
      BY DEF PlaneInv
    <2>2. proc[p] \in ProcState /\ CommandSound(proc[p])
      BY <2>1 DEF TypeInv, CommandsSound
    <2>3. proc[p].cmd = "execute" /\ key \in Key /\ proc[p].start \in Time
      BY <2>2 DEF ReserveEntry, CommandSound, Preparing, ProcState
    <2>4. Carries(p, "journalApproval")
      BY <1>1, <1>3, <2>1, <2>3, GotoCarries
    <2>5. /\ proc' \in [Process -> ProcState]
          /\ CommandsSound'
          /\ \A q \in Process \ {p} : proc'[q] = proc[q]
          /\ proc'[p].pc = "journalApproval"
          /\ proc'[p].key = key
      BY <2>4 DEF Carries
    <2>6. UNCHANGED <<queue, work, returned, halfway>>
      BY <1>1 DEF helperVars
    <2>7. TypeInv'
      BY <1>1, <2>1, <2>5, <2>6 DEF TypeInv
    <2>8. /\ PermitsSend(key) \in BOOLEAN
          /\ StagingOf(p, key) \in Staging \cup {NoStaging}
      BY <2>3, ControlPlaneAssumption DEF PermitsSend, StagingOf
    <2>9. Outbox!IInv'
      <3>1. Outbox!ReserveStep
        BY <1>1, <1>3, <2>3, <2>8, ReserveRefines
      <3>2. QED
        BY <2>1, <3>1, StoreInvKept
    <2>10. /\ outbox \in Document
           /\ proc[p].start \in Nat /\ GeneralMaximum \in Nat
      BY <2>1, <2>3, SameSets, InstanceAssumptions
         DEF Outbox!IInv, Outbox!TypeOK
    <2>11. /\ outbox'.inFlight # NoEntry
           /\ outbox'.inFlight.key = key
           /\ outbox'.inFlight.permitSend <=> PermitsSend(key)
           /\ outbox'.inFlight.state = "Reserved"
           /\ outbox'.pending = outbox.pending
           /\ outbox'.keys = outbox.keys \cup {key}
           /\ outbox'.completions = outbox.completions
      <3>1. /\ reserved.inFlight # NoEntry
            /\ reserved.inFlight.key = key
            /\ reserved.inFlight.permitSend <=> PermitsSend(key)
            /\ reserved.inFlight.state = "Reserved"
            /\ reserved.pending = outbox.pending
            /\ reserved.keys = outbox.keys \cup {key}
            /\ reserved.completions = outbox.completions
        <4> HIDE DEF key
        <4>1. QED
          BY <2>3, <2>8, <2>10, ReserveEffect
      <3> HIDE DEF reserved
      <3>2. QED
        BY <1>3, <3>1
    <2>12. /\ outbox.inFlight = NoEntry /\ outbox.pending = <<>>
           /\ key \notin outbox.keys
      BY <1>3 DEF CanReserve, Admitted
    <2>13. Heard' = Heard /\ ParkedKeys' = ParkedKeys /\ key \notin Heard
      BY <2>1, <2>6, <2>11, <2>12
         DEF Heard, Queued, InWork, ParkedKeys, KeysHeld
    <2> HIDE DEF key, reserved
    <2>14. KeysHeld'
      BY <2>1, <2>5, <2>11, <2>12, <2>13 DEF KeysHeld
    <2>15. HelperSound'
      BY <2>1, <2>6 DEF HelperSound, Queued, InWork
    <2>16. SlotSound'
      <3>1. \A q \in Process : proc'[q].pc \in Holding /\ proc'[q].key = key
                                 => proc'[q].pc = "journalApproval"
        BY <2>1, <2>5, <2>12 DEF KeysHeld
      <3>2. \A i \in DOMAIN outbox'.pending : PermitsSend(outbox'.pending[i].key)
        BY <2>1, <2>11 DEF SlotSound
      <3>3. \A q \in Process :
              proc'[q].pc \in Holding /\ HasInFlight(outbox', proc'[q].key)
                => proc'[q].pc = "journalApproval"
        BY <2>11, <3>1 DEF HasInFlight
      <3>4. QED
        BY <2>11, <2>13, <3>2, <3>3 DEF SlotSound
    <2>17. ClosedSound'
      <3>1. ASSUME NEW i \in DOMAIN outbox.completions
            PROVE  ~HasInFlight(outbox', outbox.completions[i].key)
        BY <2>1, <2>11, <2>12 DEF ClosedSound, HasInFlight
      <3>2. \A q \in Process : proc'[q].pc \in Launched => proc'[q] = proc[q]
        BY <2>5 DEF Launched
      <3>3. QED
        BY <2>1, <2>6, <2>11, <2>13, <3>1, <3>2 DEF ClosedSound
    <2>18. SettledSound'
      BY <2>1, <2>5, <2>6, <2>13 DEF SettledSound
    <2>19. TriedSound'
      <3>1. Tried' \subseteq Tried
        BY <2>5, <2>11, <2>13 DEF Tried, HasInFlight, Launched
      <3>2. QED
        BY <1>1, <2>1, <3>1 DEF TriedSound
    <2>20. JournalSound'
      BY <1>1, <2>1, <2>5, <2>13 DEF JournalSound
    <2>21. QED
      BY <2>5, <2>7, <2>9, <2>14, <2>15, <2>16, <2>17, <2>18, <2>19, <2>20
         DEF PlaneInv
  <1>4. QED
    BY <1>2, <1>3 DEF ReserveEntry


(* The journal moves a key from its reservation to the marking of its        *)
(* attempt, and from there to its dispatch; the store and helper stay.       *)
LEMMA JournalsInv ==
  ASSUME PlaneInv, NEW p \in Process, JournalApproval(p) \/ JournalAttempt(p)
  PROVE  PlaneInv'
  <1> DEFINE key == proc[p].key
             pc == IF JournalAttempt(p) THEN "dispatch"
                   ELSE IF PermitsSend(key) THEN "markAttempted"
                   ELSE "journalAttempt"
  <1>1. /\ TypeInv /\ CommandsSound /\ KeysHeld /\ HelperSound /\ SlotSound
        /\ ClosedSound /\ SettledSound /\ TriedSound /\ JournalSound
        /\ Outbox!IInv
    BY DEF PlaneInv
  <1>2. proc[p] \in ProcState /\ CommandSound(proc[p])
    BY <1>1 DEF TypeInv, CommandsSound
  <1>3. /\ UNCHANGED <<outbox, attempts, helperVars, now>>
        /\ proc[p].pc = (IF pc = "dispatch" THEN "journalAttempt"
                         ELSE "journalApproval")
        /\ Goto(p, pc)
    BY DEF JournalApproval, JournalAttempt, storeVars
  <1>4. /\ UNCHANGED <<queue, work, returned, halfway>>
        /\ outbox' = outbox /\ attempts' = attempts
    BY <1>3 DEF helperVars
  <1>5. proc[p].pc \in Holding /\ proc[p].cmd = "execute" /\ key \in Key
    BY <1>2, <1>3 DEF CommandSound, Holding
  <1>6. /\ pc \in {"markAttempted", "journalAttempt", "dispatch"}
        /\ pc = "markAttempted" => PermitsSend(key)
        /\ pc = "journalAttempt" => ~PermitsSend(key)
    OBVIOUS
  <1>7. /\ journal \in [Draft -> JournalRecord]
        /\ DraftOf[key] \in Draft
        /\ journal[DraftOf[key]] \in JournalRecord
    BY <1>1, <1>5 DEF TypeInv, Draft
  <1>8. /\ journal' \in [Draft -> JournalRecord]
        /\ \A d \in Draft : /\ journal'[d].approvals >= journal[d].approvals
                            /\ journal'[d].attempts >= journal[d].attempts
        /\ pc # "dispatch" => journal'[DraftOf[key]].approvals > 0
        /\ pc = "dispatch" => journal'[DraftOf[key]].attempts > 0
    <2> DEFINE d == DraftOf[key]
    <2>1. CASE JournalAttempt(p)
      <3>1. journal' = [journal EXCEPT ![d].attempts = @ + 1]
        BY <2>1 DEF JournalAttempt
      <3>2. QED
        BY <1>7, <2>1, <3>1 DEF JournalRecord
    <2>2. CASE ~JournalAttempt(p)
      <3>1. journal' = [journal EXCEPT ![d].approvals = @ + 1]
        BY <2>2 DEF JournalApproval
      <3>2. QED
        BY <1>7, <2>2, <3>1 DEF JournalRecord
    <2>3. QED
      BY <2>1, <2>2
  <1> HIDE DEF pc
  <1>9. Carries(p, pc)
    BY <1>1, <1>3, <1>5, <1>6, GotoCarries
  <1>10. /\ proc' \in [Process -> ProcState]
         /\ CommandsSound'
         /\ \A q \in Process \ {p} : proc'[q] = proc[q]
         /\ proc'[p].pc = pc
         /\ proc'[p].key = key
    BY <1>9 DEF Carries
  <1> HIDE DEF key
  <1>11. TypeInv'
    BY <1>1, <1>3, <1>4, <1>8, <1>10 DEF TypeInv
  <1>12. Outbox!IInv'
    BY <1>1, <1>3, StoreInvKept
  <1>13. Heard' = Heard /\ ParkedKeys' = ParkedKeys
    BY <1>4 DEF Heard, Queued, InWork, ParkedKeys
  <1>14. \A q \in Process : /\ proc'[q].key = proc[q].key
                            /\ proc'[q].pc \in Holding <=> proc[q].pc \in Holding
    BY <1>5, <1>6, <1>10 DEF Holding, key
  <1>15. KeysHeld'
    <2>1. key \notin Heard
      BY <1>1, <1>3 DEF KeysHeld, Holding, key
    <2>2. QED
      BY <1>1, <1>4, <1>10, <1>13, <1>14, <2>1 DEF KeysHeld
  <1>16. HelperSound'
    BY <1>1, <1>4 DEF HelperSound, Queued, InWork
  <1>17. SlotSound'
    <2>1. ASSUME NEW q \in Process, proc'[q].pc \in Holding,
                 HasInFlight(outbox, proc'[q].key)
          PROVE  outbox.inFlight.state = "Attempted" <=>
                   /\ PermitsSend(proc'[q].key)
                   /\ proc'[q].pc \notin {"journalApproval", "markAttempted"}
      <3>1. outbox.inFlight.state = "Attempted" <=>
              /\ PermitsSend(proc[q].key)
              /\ proc[q].pc \notin {"journalApproval", "markAttempted"}
        BY <1>1, <1>14, <2>1 DEF SlotSound
      <3>2. QED
        BY <1>3, <1>6, <1>10, <3>1 DEF key
    <2>2. QED
      BY <1>1, <1>4, <1>13, <2>1 DEF SlotSound
  <1>18. \A q \in Process : proc'[q].pc \in Launched /\ PermitsSend(proc'[q].key)
           => proc[q].pc \in Launched
    BY <1>3, <1>6, <1>10 DEF Launched, key
  <1>19. ClosedSound'
    BY <1>1, <1>4, <1>13, <1>14, <1>18 DEF ClosedSound
  <1>20. SettledSound'
    BY <1>1, <1>4, <1>6, <1>10, <1>13 DEF SettledSound
  <1>21. TriedSound'
    <2>1. Tried' \subseteq Tried
      BY <1>4, <1>13, <1>14, <1>18 DEF Tried
    <2>2. QED
      BY <1>1, <1>4, <2>1 DEF TriedSound
  <1>22. JournalSound'
    <2>1. \A k \in Key : DraftOf[k] \in Draft
      BY DEF Draft
    <2>2. \A d \in Draft : /\ journal[d].approvals \in Nat
                           /\ journal'[d].approvals \in Nat
                           /\ journal[d].attempts \in Nat
                           /\ journal'[d].attempts \in Nat
      BY <1>7, <1>8 DEF JournalRecord
    <2>3. Heard \subseteq Key
      BY DEF Heard
    <2>4. ASSUME NEW q \in Process,
                 proc'[q].pc \in {"markAttempted", "journalAttempt", "dispatch"}
          PROVE  /\ journal'[DraftOf[proc'[q].key]].approvals > 0
                 /\ proc'[q].pc = "dispatch" =>
                      journal'[DraftOf[proc'[q].key]].attempts > 0
      <3>1. CASE q = p
        BY <1>1, <1>3, <1>7, <1>8, <1>10, <2>2, <3>1 DEF JournalSound, key
      <3>2. CASE q # p
        <4>1. proc'[q] = proc[q] /\ proc[q].key \in Key
          BY <1>1, <1>10, <2>4, <3>2 DEF CommandsSound, CommandSound, Holding
        <4>2. QED
          BY <1>1, <1>8, <2>1, <2>2, <2>4, <4>1 DEF JournalSound
      <3>3. QED
        BY <3>1, <3>2
    <2>5. \A k \in Heard : /\ journal'[DraftOf[k]].approvals > 0
                           /\ journal'[DraftOf[k]].attempts > 0
      BY <1>1, <1>8, <2>1, <2>2, <2>3 DEF JournalSound
    <2>6. QED
      BY <1>13, <2>4, <2>5 DEF JournalSound
  <1>23. QED
    BY <1>10, <1>11, <1>12, <1>15, <1>16, <1>17, <1>19, <1>20, <1>21, <1>22
       DEF PlaneInv

(* The attempt is marked while its approval is unspent, hence untried.       *)
LEMMA MarkAttemptedEntryInv ==
  ASSUME PlaneInv, NEW p \in Process, MarkAttemptedEntry(p)
  PROVE  PlaneInv'
  <1> DEFINE key == proc[p].key
             marked == MarkAttempted(outbox, proc[p].start)
  <1>1. UNCHANGED <<journal, helperVars, now>> /\ proc[p].pc = "markAttempted"
    BY DEF MarkAttemptedEntry
  <1>2. CASE End(p) /\ UNCHANGED <<outbox, attempts>>
    BY <1>1, <1>2, EndInv
  <1>3. CASE /\ CanMarkAttempted(outbox, key) /\ Transacts(marked)
             /\ outbox' = marked
             /\ attempts' = [attempts EXCEPT ![ApprovalOf[key]] = @ + 1]
             /\ Goto(p, "journalAttempt")
    <2>1. /\ TypeInv /\ CommandsSound /\ KeysHeld /\ HelperSound /\ SlotSound
          /\ ClosedSound /\ SettledSound /\ TriedSound /\ JournalSound
          /\ Outbox!IInv
      BY DEF PlaneInv
    <2>2. proc[p] \in ProcState /\ CommandSound(proc[p])
      BY <2>1 DEF TypeInv, CommandsSound
    <2>3. /\ proc[p].cmd = "execute" /\ key \in Key /\ proc[p].start \in Time
          /\ PermitsSend(key) /\ proc[p].pc \in Holding
      BY <1>1, <2>2 DEF CommandSound, Holding, ProcState
    <2>4. Carries(p, "journalAttempt")
      BY <1>1, <1>3, <2>1, <2>3, GotoCarries
    <2>5. /\ proc' \in [Process -> ProcState]
          /\ CommandsSound'
          /\ \A q \in Process \ {p} : proc'[q] = proc[q]
          /\ proc'[p].pc = "journalAttempt"
          /\ proc'[p].key = key
      BY <2>4 DEF Carries
    <2>6. UNCHANGED <<queue, work, returned, halfway>>
      BY <1>1 DEF helperVars
    <2>7. TypeInv'
      BY <1>1, <2>1, <2>5, <2>6 DEF TypeInv
    <2>8. Outbox!IInv'
      <3>1. Outbox!MarkAttemptedStep
        BY <1>3, <2>3, MarkRefines
      <3>2. QED
        BY <2>1, <3>1, StoreInvKept
    <2>9. /\ outbox \in Document /\ attempts \in [Approval -> Nat]
          /\ proc[p].start \in Nat
      BY <2>1, <2>3, SameSets, InstanceAssumptions
         DEF Outbox!IInv, Outbox!TypeOK
    <2>10. /\ outbox.inFlight # NoEntry /\ outbox.inFlight.key = key
           /\ outbox.inFlight.permitSend
           /\ outbox.inFlight.state = "Reserved"
      BY <1>3 DEF CanMarkAttempted, HasInFlight
    <2>11. /\ outbox'.inFlight # NoEntry
           /\ outbox'.inFlight.key = key
           /\ outbox'.inFlight.permitSend
           /\ outbox'.inFlight.state = "Attempted"
           /\ outbox'.pending = outbox.pending
           /\ outbox'.keys = outbox.keys
           /\ outbox'.completions = outbox.completions
      BY <1>3, <2>9, <2>10, MarkEffect
    <2> HIDE DEF marked
    <2>12. Heard' = Heard /\ ParkedKeys' = ParkedKeys
      BY <2>6, <2>11 DEF Heard, Queued, InWork, ParkedKeys
    <2>13. \A q \in Process :
             /\ proc'[q].key = proc[q].key
             /\ proc'[q].pc \in Holding <=> proc[q].pc \in Holding
      BY <2>3, <2>5 DEF Holding
    <2>14. \A q \in Process : proc'[q].pc \in Holding /\ proc'[q].key = key
             => q = p
      BY <2>1, <2>3, <2>13 DEF KeysHeld
    <2> HIDE DEF key
    <2>15. KeysHeld'
      <3>1. key \notin Heard
        BY <1>1, <2>1 DEF KeysHeld, Holding, key
      <3>2. QED
        BY <2>1, <2>5, <2>11, <2>12, <2>13, <3>1 DEF KeysHeld
    <2>16. HelperSound'
      BY <2>1, <2>6 DEF HelperSound, Queued, InWork
    <2>17. SlotSound'
      <3>1. ASSUME NEW q \in Process, proc'[q].pc \in Holding,
                   proc'[q].key = key
            PROVE  /\ PermitsSend(proc'[q].key)
                   /\ proc'[q].pc \notin {"journalApproval", "markAttempted"}
        BY <2>3, <2>5, <2>14, <3>1 DEF key
      <3>2. \A i \in DOMAIN outbox'.pending : PermitsSend(outbox'.pending[i].key)
        BY <2>1, <2>11 DEF SlotSound
      <3>3. \A q \in Process :
              proc'[q].pc \in Holding /\ HasInFlight(outbox', proc'[q].key)
                => proc'[q].key = key
        BY <2>11 DEF HasInFlight
      <3>4. PermitsSend(key)
        BY <2>3 DEF key
      <3>5. QED
        BY <2>11, <3>1, <3>2, <3>3, <3>4 DEF SlotSound
    <2>18. ClosedSound'
      <3>1. ASSUME NEW i \in DOMAIN outbox.completions
            PROVE  /\ ~HasInFlight(outbox', outbox.completions[i].key)
                   /\ outbox.completions[i].key # key
        BY <2>1, <2>10, <2>11 DEF ClosedSound, HasInFlight
      <3>2. \A q \in Process : proc'[q].pc \in Launched =>
              proc[q].pc \in Launched \/ proc'[q].key = key
        BY <2>5
      <3>3. QED
        BY <2>1, <2>6, <2>11, <2>12, <2>13, <3>1, <3>2 DEF ClosedSound
    <2>19. SettledSound'
      BY <2>1, <2>5, <2>6, <2>12 DEF SettledSound
    <2>20. TriedSound'
      <3>1. /\ ApprovalOf \in [Key -> Approval]
            /\ ApprovalOf[key] \in Approval
            /\ attempts[ApprovalOf[key]] = 0
        BY <2>1, <2>3, <2>9, <2>10, OutboxAssumption
           DEF Outbox!IInv, Outbox!FlightUnspent, Outbox!UnspentUnattempted, key
      <3>2. /\ attempts'[ApprovalOf[key]] > 0
            /\ \A a \in Approval : attempts[a] > 0 => attempts'[a] > 0
        BY <1>3, <2>9, <3>1 DEF key
      <3>3. Tried' \subseteq Tried \cup {key}
        <4>1. \A q \in Process : proc'[q].pc \in Launched =>
                proc[q].pc \in Launched \/ proc'[q].key = key
          BY <2>5
        <4>2. QED
          BY <2>11, <2>12, <2>13, <4>1 DEF Tried, HasInFlight
      <3>4. \A k \in Tried : ApprovalOf[k] # ApprovalOf[key]
        BY <2>1, <3>1 DEF TriedSound
      <3>5. Tried \subseteq Key
        BY DEF Tried
      <3>6. QED
        BY <2>1, <3>1, <3>2, <3>3, <3>4, <3>5 DEF TriedSound
    <2>21. JournalSound'
      BY <1>1, <2>1, <2>5, <2>12 DEF JournalSound, key
    <2>22. QED
      BY <2>5, <2>7, <2>8, <2>15, <2>16, <2>17, <2>18, <2>19, <2>20, <2>21
         DEF PlaneInv
  <1>4. QED
    BY <1>2, <1>3 DEF MarkAttemptedEntry


(* The helper hears of a key once, when its attempt is marked and journaled. *)
LEMMA DispatchInv ==
  ASSUME PlaneInv, NEW p \in Process, Dispatch(p)
  PROVE  PlaneInv'
  <1> DEFINE key == proc[p].key
             c == Capability(p)
             r == [proc[p] EXCEPT !.pc = "await", !.clock = now]
  <1>1. /\ TypeInv /\ CommandsSound /\ KeysHeld /\ HelperSound /\ SlotSound
        /\ ClosedSound /\ SettledSound /\ TriedSound /\ JournalSound
        /\ Outbox!IInv
    BY DEF PlaneInv
  <1>2. proc[p] \in ProcState /\ CommandSound(proc[p])
    BY <1>1 DEF TypeInv, CommandsSound
  <1>3. /\ UNCHANGED <<outbox, attempts, journal, work, returned, halfway, now>>
        /\ proc[p].pc = "dispatch"
        /\ proc' = [proc EXCEPT ![p] = r]
        /\ queue' = Append(queue, c)
    BY DEF Dispatch, storeVars
  <1>4. outbox' = outbox /\ attempts' = attempts
    BY <1>3 DEF storeVars
  <1>5. /\ proc[p].pc \in Holding /\ proc[p].pc \in Launched /\ key \in Key
        /\ proc[p].cmd = "execute" /\ proc[p].start \in Time
        /\ proc[p].start <= now /\ now \in Time
    BY <1>1, <1>2, <1>3 DEF CommandSound, Holding, Launched, ProcState, TypeInv
  <1>6. r \in ProcState
    BY <1>2, <1>5 DEF ProcState, Holding
  <1>7. CommandSound(r)
    <2>1. now <= now
      BY <1>5 DEF Time
    <2>2. QED
      BY <1>2, <1>3, <1>5, <2>1 DEF CommandSound, ProcState, Opening, Preparing,
         Holding, Resolving
  <1>8. r.pc = "await" /\ r.key = key
    BY <1>2 DEF ProcState
  <1> HIDE DEF r
  <1>9. /\ proc' \in [Process -> ProcState]
        /\ CommandsSound'
        /\ \A q \in Process \ {p} : proc'[q] = proc[q]
        /\ proc'[p].pc = "await"
        /\ proc'[p].key = key
    BY <1>1, <1>3, <1>6, <1>7, <1>8, OneMoves
  <1>10. /\ c \in CapabilityRecord
         /\ c.key = key
         /\ c.permitSend <=> PermitsSend(key)
    <2>1. proc[p].start + Validity \in Nat
      BY <1>5, ControlPlaneAssumption DEF Time
    <2>2. PermitsSend(key) \in BOOLEAN
      BY DEF PermitsSend
    <2>3. QED
      BY <1>5, <2>1, <2>2 DEF Capability, CapabilityRecord
  <1> HIDE DEF c
  <1>11. /\ queue' \in Seq(CapabilityRecord)
         /\ \A i \in DOMAIN queue' :
              \/ i \in DOMAIN queue /\ queue'[i] = queue[i]
              \/ i = Len(queue) + 1 /\ queue'[i] = c
         /\ \A i \in DOMAIN queue : i \in DOMAIN queue' /\ queue'[i] = queue[i]
         /\ Len(queue) + 1 \in DOMAIN queue' /\ queue'[Len(queue) + 1] = c
    <2>1. queue \in Seq(CapabilityRecord)
      BY <1>1 DEF TypeInv
    <2>2. QED
      BY <1>3, <1>10, <2>1
  <1>12. Queued' = Queued \cup {key}
    BY <1>10, <1>11 DEF Queued
  <1>13. /\ Heard' = Heard \cup {key}
         /\ key \notin Heard
         /\ ParkedKeys' = ParkedKeys
    <2>1. key \notin Heard
      BY <1>1, <1>3 DEF KeysHeld, Holding
    <2>2. \A k \in Key : InWork(k)' <=> InWork(k)
      BY <1>3 DEF InWork
    <2> HIDE DEF key
    <2>3. QED
      BY <1>3, <1>4, <1>5, <1>12, <2>1, <2>2 DEF Heard, ParkedKeys
  <1>14. TypeInv'
    BY <1>1, <1>3, <1>9, <1>11 DEF TypeInv
  <1>15. Outbox!IInv'
    BY <1>1, <1>3, StoreInvKept
  <1>16. \A q \in Process : /\ proc'[q].key = proc[q].key
                            /\ proc'[q].pc \in Holding <=> proc[q].pc \in Holding
                            /\ proc'[q].pc \in Launched => proc[q].pc \in Launched
    BY <1>5, <1>9 DEF Holding
  <1>17. \A q \in Process \ {p} : proc[q].pc \in Holding => proc[q].key # key
    BY <1>1, <1>5 DEF KeysHeld
  <1>18. KeysHeld'
    <2>1. key \in outbox.keys
      BY <1>1, <1>5 DEF KeysHeld
    <2>2. \A q \in Process : proc'[q].pc \in Holding \ {"await", "complete"} =>
            proc'[q].key \notin Heard'
      BY <1>1, <1>9, <1>13, <1>17 DEF KeysHeld
    <2> HIDE DEF key
    <2>3. QED
      BY <1>1, <1>4, <1>13, <1>16, <2>1, <2>2 DEF KeysHeld
  <1>19. HelperSound'
    <2>1. key \notin Queued /\ ~InWork(key) /\ ~(returned[key] > 0)
      BY <1>5, <1>13 DEF Heard
    <2> HIDE DEF key
    <2>2. \A i \in DOMAIN queue : queue[i].key # key
      BY <2>1 DEF Queued
    <2>3. \A i, j \in DOMAIN queue' : queue'[i].key = queue'[j].key => i = j
      BY <1>1, <1>10, <1>11, <2>2 DEF HelperSound
    <2>4. \A i \in DOMAIN queue' :
            queue'[i].permitSend <=> PermitsSend(queue'[i].key)
      BY <1>1, <1>10, <1>11 DEF HelperSound
    <2>5. work' # NoWork =>
            /\ work'.capability.permitSend <=> PermitsSend(work'.capability.key)
            /\ work'.capability.key \notin Queued'
            /\ work'.pressed =>
                 /\ work'.capability.permitSend
                 /\ returned'[work'.capability.key] > 0
      BY <1>1, <1>3, <1>12, <2>1 DEF HelperSound, InWork
    <2>6. \A k \in Key : returned'[k] > 0 =>
            /\ returned'[k] = 1
            /\ PermitsSend(k)
            /\ k \notin Queued'
            /\ InWork(k)' => work'.pressed
      BY <1>1, <1>3, <1>12, <2>1 DEF HelperSound, InWork
    <2>7. \A k \in halfway' :
            k \in Key /\ returned'[k] > 0 /\ k \notin Queued' /\ ~InWork(k)'
      BY <1>1, <1>3, <1>12, <2>1 DEF HelperSound, InWork
    <2>8. QED
      BY <2>3, <2>4, <2>5, <2>6, <2>7 DEF HelperSound
  <1>20. HasInFlight(outbox, key) /\ PermitsSend(key)
           => outbox.inFlight.state = "Attempted"
    BY <1>1, <1>3, <1>5 DEF SlotSound
  <1>21. SlotSound'
    <2>1. outbox.inFlight # NoEntry /\ outbox.inFlight.state # "Attempted"
            /\ PermitsSend(outbox.inFlight.key)
            => outbox.inFlight.key \notin Heard'
      BY <1>1, <1>13, <1>20 DEF SlotSound, HasInFlight
    <2>2. ASSUME NEW q \in Process, proc'[q].pc \in Holding,
                 HasInFlight(outbox, proc'[q].key)
          PROVE  outbox.inFlight.state = "Attempted" <=>
                   /\ PermitsSend(proc'[q].key)
                   /\ proc'[q].pc \notin {"journalApproval", "markAttempted"}
      <3>1. outbox.inFlight.state = "Attempted" <=>
              /\ PermitsSend(proc[q].key)
              /\ proc[q].pc \notin {"journalApproval", "markAttempted"}
        BY <1>1, <1>16, <2>2 DEF SlotSound
      <3>2. QED
        BY <1>3, <1>9, <3>1
    <2>3. QED
      BY <1>1, <1>4, <2>1, <2>2 DEF SlotSound
  <1>22. ClosedSound'
    <2>1. ASSUME NEW i \in DOMAIN outbox.completions,
                 ~outbox.completions[i].reconciled,
                 PermitsSend(outbox.completions[i].key)
          PROVE  outbox.completions[i].key # key
      BY <1>1, <1>5, <2>1 DEF ClosedSound
    <2> HIDE DEF key
    <2>2. QED
      BY <1>1, <1>3, <1>4, <1>13, <1>16, <2>1 DEF ClosedSound
  <1>23. SettledSound'
    <2>1. \A q \in Process : proc'[q].pc = "complete" =>
            proc'[q] = proc[q] /\ proc[q].key # key
      BY <1>9, <1>17 DEF Holding
    <2>2. QED
      BY <1>1, <1>3, <1>13, <2>1 DEF SettledSound
  <1>24. TriedSound'
    <2>1. PermitsSend(key) => key \in Tried
      BY <1>5 DEF Tried
    <2> HIDE DEF key
    <2>2. Tried' \subseteq Tried
      BY <1>4, <1>13, <1>16, <2>1 DEF Tried
    <2>3. QED
      BY <1>1, <1>4, <2>2 DEF TriedSound
  <1>25. JournalSound'
    <2>1. /\ journal[DraftOf[key]].approvals > 0
          /\ journal[DraftOf[key]].attempts > 0
      BY <1>1, <1>3 DEF JournalSound
    <2>2. \A q \in Process :
            proc'[q].pc \in {"markAttempted", "journalAttempt", "dispatch"}
              => proc'[q] = proc[q]
      BY <1>9
    <2> HIDE DEF key
    <2>3. QED
      BY <1>1, <1>3, <1>13, <2>1, <2>2 DEF JournalSound
  <1>26. QED
    BY <1>9, <1>14, <1>15, <1>18, <1>19, <1>21, <1>22, <1>23, <1>24, <1>25
       DEF PlaneInv

-----------------------------------------------------------------------------
(* The entry leaves the slot, and the pending list.                          *)

\* No step towards the Return key was taken for the key, nor will be; or the
\* press failed half way.
Unlaunched(key) ==
  /\ key \notin Heard \ halfway
  /\ \A p \in Process : proc'[p].pc \in Launched => proc'[p].key # key

(* Parked or closed, an entry that leaves the slot keeps the invariant: it is *)
(* parked if it was attempted, and closed only if it was not launched.       *)
LEMMA LandingKeeps ==
  ASSUME PlaneInv, TypeInv', CommandsSound', Outbox!IInv',
         UNCHANGED <<attempts, journal, queue, work, returned, halfway>>,
         \A p \in Process : proc'[p] = proc[p] \/ proc'[p].pc \notin Holding,
         outbox.inFlight # NoEntry, outbox'.inFlight = NoEntry,
         outbox'.keys = outbox.keys,
         \/ /\ ParksSlot(outbox, outbox')
            /\ outbox.inFlight.state = "Attempted"
         \/ /\ ClosesSlot(outbox, outbox')
            /\ PermitsSend(outbox.inFlight.key) => Unlaunched(outbox.inFlight.key)
  PROVE  PlaneInv'
  <1> DEFINE key == outbox.inFlight.key
  <1>1. /\ TypeInv /\ KeysHeld /\ HelperSound /\ SlotSound
        /\ ClosedSound /\ SettledSound /\ TriedSound /\ JournalSound
        /\ Outbox!IInv
    BY DEF PlaneInv
  <1>2. outbox \in Document /\ outbox.inFlight \in Entry /\ key \in Key
    BY <1>1, SameSets DEF Outbox!IInv, Outbox!TypeOK, Document, InFlightEntry,
       Entry
  <1>3. /\ Heard' = Heard
        /\ \A k \in Key : ~HasInFlight(outbox', k)
    BY DEF Heard, Queued, InWork, HasInFlight
  <1>4. \A p \in Process : /\ proc'[p].pc \in Holding => proc'[p] = proc[p]
                           /\ proc'[p].pc \in Launched => proc'[p] = proc[p]
    BY DEF Holding, Launched
  <1>5. key \in outbox.keys
    BY <1>1 DEF Outbox!IInv, Outbox!LiveReserved
  <1>6. ParkedKeys' \subseteq ParkedKeys \cup {key}
    <2>1. CASE ParksSlot(outbox, outbox')
      <3> DEFINE e == [outbox.inFlight EXCEPT !.state = "AwaitingReconciliation"]
      <3>1. outbox'.pending = Append(outbox.pending, e) /\ e.key = key
        BY <1>2, <2>1 DEF ParksSlot, Entry
      <3> HIDE DEF e
      <3>2. outbox.pending \in Seq(ParkedEntry)
        BY <1>2 DEF Document
      <3>3. \A i \in DOMAIN outbox'.pending :
              \/ outbox'.pending[i] = e
              \/ i \in DOMAIN outbox.pending
                   /\ outbox'.pending[i] = outbox.pending[i]
        BY <3>1, <3>2
      <3>4. QED
        BY <3>1, <3>3 DEF ParkedKeys
    <2>2. CASE ClosesSlot(outbox, outbox')
      BY <2>2 DEF ClosesSlot, ParkedKeys
    <2>3. QED
      BY <2>1, <2>2
  <1>7. \A k \in ParkedKeys : PermitsSend(k)
    BY <1>1 DEF SlotSound, ParkedKeys
  <1>8. ParksSlot(outbox, outbox') \/ ParkedKeys' = ParkedKeys
    BY DEF ClosesSlot, ParkedKeys
  <1>9. outbox.inFlight.state = "Attempted" => PermitsSend(key)
    BY <1>1 DEF SlotSound
  <1>10. KeysHeld'
    BY <1>1, <1>3, <1>4 DEF KeysHeld
  <1>11. HelperSound'
    BY <1>1 DEF HelperSound, Queued, InWork
  <1>12. SlotSound'
    <2>1. \A k \in ParkedKeys' : PermitsSend(k)
      <3>1. CASE ParksSlot(outbox, outbox') /\ outbox.inFlight.state = "Attempted"
        BY <1>6, <1>7, <1>9, <3>1
      <3>2. CASE ClosesSlot(outbox, outbox')
        BY <1>7, <3>2 DEF ClosesSlot, ParkedKeys
      <3>3. QED
        BY <3>1, <3>2
    <2>2. \A i \in DOMAIN outbox'.pending : PermitsSend(outbox'.pending[i].key)
      BY <2>1 DEF ParkedKeys
    <2>3. QED
      BY <2>2 DEF SlotSound, HasInFlight
  <1>13. ClosedSound'
    <2>1. CASE ParksSlot(outbox, outbox')
      <3>1. outbox'.completions = outbox.completions
        BY <2>1 DEF ParksSlot
      <3>2. \A i \in DOMAIN outbox.completions : outbox.completions[i].key # key
        BY <1>1 DEF ClosedSound, HasInFlight
      <3> HIDE DEF key
      <3>3. ASSUME NEW i \in DOMAIN outbox.completions
            PROVE  LET c == outbox.completions[i] IN
                   /\ c.key \in outbox.keys
                   /\ ~HasInFlight(outbox', c.key)
                   /\ c.key \notin ParkedKeys'
                   /\ ~c.reconciled /\ PermitsSend(c.key) =>
                        /\ c.key \notin Heard \ halfway
                        /\ \A p \in Process :
                             proc'[p].key = c.key => proc'[p].pc \notin Launched
        BY <1>1, <1>4, <1>6, <3>2 DEF ClosedSound, HasInFlight
      <3>4. QED
        BY <1>3, <3>1, <3>3 DEF ClosedSound
    <2>2. CASE ~ParksSlot(outbox, outbox')
      <3>1. PICK record \in Completion :
              /\ Remembers(outbox, outbox', record)
              /\ record.key = key
        BY <2>2 DEF ClosesSlot
      <3>2. PermitsSend(key) => Unlaunched(key)
        BY <2>2
      <3>3. ParkedKeys' = ParkedKeys
        BY <1>8, <2>2
      <3>4. key \notin ParkedKeys
        <4>1. DOMAIN outbox.pending = {}
          BY <1>1 DEF Outbox!IInv, Outbox!SingleFlight
        <4>2. QED
          BY <4>1 DEF ParkedKeys
      <3> HIDE DEF key
      <3>5. ASSUME NEW i \in DOMAIN outbox'.completions
            PROVE  LET c == outbox'.completions[i] IN
                   /\ c.key \in outbox.keys
                   /\ c.key \notin ParkedKeys
                   /\ ~c.reconciled /\ PermitsSend(c.key) =>
                        /\ c.key \notin Heard \ halfway
                        /\ \A p \in Process :
                             proc'[p].key = c.key => proc'[p].pc \notin Launched
        <4>1. CASE outbox'.completions[i] = record
          BY <1>5, <3>1, <3>2, <3>4, <4>1 DEF Unlaunched
        <4>2. CASE \E j \in DOMAIN outbox.completions :
                     outbox'.completions[i] = outbox.completions[j]
          BY <1>1, <1>4, <4>2 DEF ClosedSound
        <4>3. QED
          BY <3>1, <4>1, <4>2 DEF Remembers
      <3>6. QED
        BY <1>3, <3>3, <3>5 DEF ClosedSound, HasInFlight
    <2>3. QED
      BY <2>1, <2>2
  <1>14. SettledSound'
    BY <1>1, <1>3, <1>4 DEF SettledSound, Holding
  <1>15. TriedSound'
    <2>1. Tried' \subseteq Tried
      <3>1. outbox.inFlight.state = "Attempted" => key \in Tried
        BY <1>2, <1>9 DEF Tried, HasInFlight
      <3> HIDE DEF key
      <3>2. ParksSlot(outbox, outbox') => outbox.inFlight.state = "Attempted"
              \/ ParkedKeys' = ParkedKeys
        BY <1>8 DEF ClosesSlot, ParkedKeys
      <3>3. QED
        BY <1>3, <1>4, <1>6, <1>8, <3>1, <3>2 DEF Tried
    <2>2. QED
      BY <1>1, <2>1 DEF TriedSound
  <1>16. JournalSound'
    BY <1>1, <1>3, <1>4 DEF JournalSound, Holding
  <1>17. QED
    BY <1>10, <1>11, <1>12, <1>13, <1>14, <1>15, <1>16 DEF PlaneInv

LEMMA RecoverOutboxInv ==
  ASSUME PlaneInv, NEW p \in Process, RecoverOutbox(p)
  PROVE  PlaneInv'
  <1> DEFINE r == [proc[p] EXCEPT !.pc = "readLive"]
  <1>1. /\ TypeInv /\ CommandsSound /\ KeysHeld /\ SlotSound /\ Outbox!IInv
    BY DEF PlaneInv
  <1>2. /\ UNCHANGED <<attempts, journal, helperVars, now>>
        /\ proc[p].pc = "recover"
    BY DEF RecoverOutbox
  <1>3. CASE End(p) /\ UNCHANGED outbox
    BY <1>2, <1>3, EndInv
  <1>4. CASE /\ Transacts(Recover(outbox)) /\ outbox' = Recover(outbox)
             /\ Goto(p, "readLive")
    <2>1. proc[p] \in ProcState /\ CommandSound(proc[p])
      BY <1>1 DEF TypeInv, CommandsSound
    <2>2. r \in ProcState /\ r.pc = "readLive"
      BY <2>1 DEF ProcState, Opening
    <2>3. CommandSound(r)
      BY <1>2, <2>1 DEF CommandSound, ProcState, Opening, Preparing, Holding,
         Resolving
    <2>4. proc' = [proc EXCEPT ![p] = r]
      BY <1>4 DEF Goto
    <2> HIDE DEF r
    <2>5. /\ proc' \in [Process -> ProcState]
          /\ CommandsSound'
          /\ proc'[p] = r
          /\ \A q \in Process \ {p} : proc'[q] = proc[q]
      BY <1>1, <1>2, <2>2, <2>3, <2>4, OneMoves
    <2>6. \A q \in Process : proc'[q] = proc[q] \/ proc'[q].pc \notin Holding
      BY <2>2, <2>5 DEF Holding
    <2>7. UNCHANGED <<queue, work, returned, halfway>>
      BY <1>2 DEF helperVars
    <2>8. TypeInv'
      BY <1>1, <1>2, <2>5, <2>7 DEF TypeInv
    <2>9. Outbox!IInv'
      BY <1>1, <1>2, <1>4, RecoverRefines, StoreInvKept
    <2>10. outbox \in Document
      BY <1>1, SameSets DEF Outbox!IInv, Outbox!TypeOK
    <2>11. CASE outbox.inFlight = NoEntry
      <3>1. outbox' = outbox
        BY <1>4, <2>11 DEF Recover
      <3>2. journal \in [Draft -> JournalRecord]
        BY <1>1 DEF TypeInv
      <3>3. QED
        BY <1>1, <1>2, <2>2, <2>3, <2>4, <3>1, <3>2, MovesAside, JournalStays
           DEF storeVars, Holding
    <2>12. CASE outbox.inFlight # NoEntry
      <3> DEFINE key == outbox.inFlight.key
      <3>1. /\ outbox'.inFlight = NoEntry
            /\ outbox'.keys = outbox.keys
            /\ outbox.inFlight.state = "Attempted" => ParksSlot(outbox, outbox')
            /\ outbox.inFlight.state # "Attempted" => ClosesSlot(outbox, outbox')
        BY <1>4, <2>10, <2>12, RecoverLands
      <3>2. outbox.inFlight.state # "Attempted" /\ PermitsSend(key)
              => Unlaunched(key)
        <4> SUFFICES ASSUME outbox.inFlight.state # "Attempted", PermitsSend(key)
                     PROVE  Unlaunched(key)
          OBVIOUS
        <4>1. key \notin Heard
          BY <1>1, <2>12 DEF SlotSound
        <4>2. ASSUME NEW q \in Process, proc[q].pc \in Launched
              PROVE  proc[q].key # key
          <5>1. proc[q].pc \in Holding
                  /\ proc[q].pc \notin {"journalApproval", "markAttempted"}
            BY <4>2 DEF Holding, Launched
          <5>2. QED
            BY <1>1, <2>12, <5>1 DEF SlotSound, HasInFlight
        <4>3. \A q \in Process : proc'[q].pc \in Launched => proc'[q] = proc[q]
          BY <2>6 DEF Launched, Holding
        <4> HIDE DEF key
        <4>4. QED
          BY <4>1, <4>2, <4>3 DEF Unlaunched
      <3>3. QED
        BY <1>2, <2>5, <2>6, <2>7, <2>8, <2>9, <2>12, <3>1, <3>2, LandingKeeps
    <2>13. QED
      BY <2>11, <2>12
  <1>5. QED
    BY <1>3, <1>4 DEF RecoverOutbox

\* What Finish leaves of a command.
LEMMA FinishMoves ==
  ASSUME TypeInv, CommandsSound, NEW p \in Process,
         NEW pc \in {"discard", "journalReconciliation"},
         proc[p].cmd \in {"execute", "reconcile"},
         pc = "discard" => proc[p].cmd = "execute",
         Finish(p, pc), UNCHANGED now
  PROVE  /\ proc' \in [Process -> ProcState]
         /\ CommandsSound'
         /\ \A q \in Process \ {p} : proc'[q] = proc[q]
         /\ proc'[p].pc = pc
         /\ proc'[p].key = proc[p].key
         /\ proc'[p].outcome # "ObservedSent"
  <1> DEFINE r == [Idle EXCEPT !.cmd = proc[p].cmd, !.pc = pc, !.key = proc[p].key]
  <1>1. proc[p] \in ProcState /\ CommandSound(proc[p])
    BY DEF TypeInv, CommandsSound
  <1>2. proc[p].key \in Key
    BY <1>1 DEF CommandSound
  <1>3. r \in ProcState /\ r.pc = pc /\ r.key = proc[p].key
        /\ r.outcome # "ObservedSent"
    BY <1>1, IdleSound DEF ProcState, Idle
  <1>4. CommandSound(r)
    BY <1>2, IdleSound DEF CommandSound, Idle, Opening, Preparing, Holding,
       Resolving
  <1>5. proc' = [proc EXCEPT ![p] = r]
    BY DEF Finish
  <1> HIDE DEF r
  <1>6. QED
    BY <1>3, <1>4, <1>5, OneMoves


\* What a command hands to `complete` is what the store expects of it.
LEMMA CompleteFits ==
  ASSUME PlaneInv, NEW p \in Process, proc[p].pc = "complete",
         HasInFlight(outbox, proc[p].key)
  PROVE  /\ proc[p].key \in Key /\ proc[p].clock \in Time
         /\ proc[p].cmd = "execute"
         /\ proc[p].attempted \in BOOLEAN
         /\ proc[p].outcome \in Outcomes \ {"ObservedSent"}
         /\ outbox.inFlight.permitSend <=> outbox.inFlight.state = "Attempted"
         /\ PermitsSend(proc[p].key) <=> outbox.inFlight.state = "Attempted"
         /\ proc[p].outcome = "AwaitingReconciliation" =>
              outbox.inFlight.permitSend
         /\ proc[p].attempted => proc[p].outcome = "AwaitingReconciliation"
  <1>1. proc[p] \in ProcState /\ CommandSound(proc[p]) /\ SlotSound
    BY DEF PlaneInv, TypeInv, CommandsSound
  <1>2. /\ proc[p].key \in Key /\ proc[p].clock \in Time
        /\ proc[p].cmd = "execute"
        /\ proc[p].attempted \in BOOLEAN
        /\ proc[p].outcome \in Outcomes \ {"ObservedSent"}
        /\ proc[p].outcome = "AwaitingReconciliation" => PermitsSend(proc[p].key)
        /\ proc[p].attempted => proc[p].outcome = "AwaitingReconciliation"
    BY <1>1 DEF ProcState, CommandSound, Holding
  <1>3. /\ PermitsSend(proc[p].key) <=> outbox.inFlight.state = "Attempted"
        /\ outbox.inFlight.permitSend <=> PermitsSend(proc[p].key)
    BY <1>1 DEF SlotSound, HasInFlight, Holding
  <1>4. QED
    BY <1>2, <1>3

LEMMA CompleteEntryInv ==
  ASSUME PlaneInv, NEW p \in Process, CompleteEntry(p)
  PROVE  PlaneInv'
  <1> DEFINE key == proc[p].key
             outcome == proc[p].outcome
             settled == Complete(outbox, outcome, proc[p].attempted,
                                 proc[p].clock)
             next == IF outcome = "AwaitingReconciliation" \/ key \notin Attachment
                     THEN "journalReconciliation" ELSE "discard"
  <1>1. /\ TypeInv /\ CommandsSound /\ KeysHeld /\ SettledSound /\ Outbox!IInv
    BY DEF PlaneInv
  <1>2. /\ UNCHANGED <<attempts, journal, helperVars, now>>
        /\ proc[p].pc = "complete"
    BY DEF CompleteEntry
  <1>3. CASE End(p) /\ UNCHANGED outbox
    BY <1>2, <1>3, EndInv
  <1>4. CASE /\ CanComplete(outbox, key, outcome) /\ Transacts(settled)
             /\ outbox' = settled /\ Finish(p, next)
    <2>1. HasInFlight(outbox, key)
      BY <1>4 DEF CanComplete
    <2>2. /\ key \in Key /\ proc[p].clock \in Time /\ proc[p].cmd = "execute"
          /\ proc[p].attempted \in BOOLEAN
          /\ outcome \in Outcomes \ {"ObservedSent"}
          /\ outbox.inFlight.permitSend <=> outbox.inFlight.state = "Attempted"
          /\ PermitsSend(key) <=> outbox.inFlight.state = "Attempted"
          /\ outcome = "AwaitingReconciliation" => outbox.inFlight.permitSend
          /\ proc[p].attempted => outcome = "AwaitingReconciliation"
      BY <1>2, <2>1, CompleteFits
    <2>3. Outbox!IInv'
      <3>1. Outbox!CompleteStep
        BY <1>2, <1>4, <2>2, CompleteRefines
      <3>2. QED
        BY <1>1, <3>1, StoreInvKept
    <2>4. next \in {"discard", "journalReconciliation"}
      OBVIOUS
    <2>5. outbox \in Document /\ proc[p].clock \in Nat
      BY <1>1, <2>2, SameSets, InstanceAssumptions DEF Outbox!IInv, Outbox!TypeOK
    <2>6. outbox.inFlight # NoEntry /\ outbox.inFlight.key = key
      BY <2>1 DEF HasInFlight
    <2>7. /\ outbox'.inFlight = NoEntry
          /\ outbox'.keys = outbox.keys
          /\ outcome = "AwaitingReconciliation" => ParksSlot(outbox, outbox')
          /\ outcome # "AwaitingReconciliation" => ClosesSlot(outbox, outbox')
      BY <1>4, <2>2, <2>5, <2>6, CompleteLands
    <2>8. /\ proc' \in [Process -> ProcState]
          /\ CommandsSound'
          /\ \A q \in Process \ {p} : proc'[q] = proc[q]
          /\ proc'[p].pc \in {"discard", "journalReconciliation"}
      <3> HIDE DEF next
      <3>1. QED
        BY <1>1, <1>2, <1>4, <2>2, <2>4, FinishMoves
    <2>9. \A q \in Process : proc'[q] = proc[q] \/ proc'[q].pc \notin Holding
      BY <2>8 DEF Holding
    <2>10. UNCHANGED <<queue, work, returned, halfway>>
      BY <1>2 DEF helperVars
    <2>11. TypeInv'
      BY <1>1, <1>2, <2>8, <2>10 DEF TypeInv
    <2>12. outcome # "AwaitingReconciliation" /\ PermitsSend(key)
             => Unlaunched(key)
      <3> SUFFICES ASSUME outcome # "AwaitingReconciliation", PermitsSend(key)
                   PROVE  Unlaunched(key)
        OBVIOUS
      <3>1. key \notin Heard \ halfway
        BY <1>1, <1>2 DEF SettledSound
      <3>2. \A q \in Process \ {p} : proc[q].pc \in Holding => proc[q].key # key
        BY <1>1, <1>2 DEF KeysHeld, Holding
      <3>3. \A q \in Process : proc'[q].pc \in Launched => proc'[q].key # key
        BY <2>8, <3>2 DEF Launched, Holding
      <3>4. QED
        BY <3>1, <3>3 DEF Unlaunched
    <2>13. QED
      BY <1>2, <2>2, <2>3, <2>6, <2>7, <2>8, <2>9, <2>10, <2>11, <2>12,
         LandingKeeps
  <1>5. QED
    BY <1>3, <1>4 DEF CompleteEntry

(* Resolution empties the pending list.                                      *)
LEMMA ResolveEntryInv ==
  ASSUME PlaneInv, NEW p \in Process, ResolveEntry(p)
  PROVE  PlaneInv'
  <1> DEFINE key == proc[p].key
             outcome == proc[p].outcome
             resolved == Resolve(outbox, key, outcome)
  <1>1. UNCHANGED <<attempts, journal, helperVars, now>> /\ proc[p].pc = "resolve"
    BY DEF ResolveEntry
  <1>2. CASE End(p) /\ UNCHANGED outbox
    BY <1>1, <1>2, EndInv
  <1>3. CASE /\ CanResolve(outbox, key, outcome) /\ Transacts(resolved)
             /\ outbox' = resolved
             /\ Finish(p, "journalReconciliation")
    <2>1. /\ TypeInv /\ CommandsSound /\ KeysHeld /\ HelperSound /\ SlotSound
          /\ ClosedSound /\ SettledSound /\ TriedSound /\ JournalSound
          /\ Outbox!IInv
      BY DEF PlaneInv
    <2>2. proc[p] \in ProcState /\ CommandSound(proc[p])
      BY <2>1 DEF TypeInv, CommandsSound
    <2>3. /\ key \in Key /\ proc[p].cmd = "reconcile"
          /\ outcome \in {"ObservedSent", "ObservedFailed"}
      BY <1>1, <2>2 DEF CommandSound, Resolving
    <2>4. Outbox!IInv'
      <3>1. Outbox!ResolveStep
        BY <1>1, <1>3, <2>3, ResolveRefines
      <3>2. QED
        BY <2>1, <3>1, StoreInvKept
    <2>5. outbox \in Document /\ Len(outbox.pending) <= 1
      BY <2>1, SameSets DEF Outbox!IInv, Outbox!TypeOK, Outbox!SingleFlight
    <2>6. /\ outbox'.inFlight = outbox.inFlight
          /\ outbox'.keys = outbox.keys
          /\ outbox'.pending = <<>>
          /\ \E record \in Completion :
               /\ Remembers(outbox, outbox', record)
               /\ record.key = key
               /\ record.reconciled
      <3>1. outcome \in CompletionKinds
        BY <2>3 DEF CompletionKinds
      <3>2. QED
        BY <1>3, <2>3, <2>5, <3>1, ResolveLands
    <2>7. /\ proc' \in [Process -> ProcState]
          /\ CommandsSound'
          /\ \A q \in Process \ {p} : proc'[q] = proc[q]
          /\ proc'[p].pc = "journalReconciliation"
      BY <1>1, <1>3, <2>1, <2>3, FinishMoves
    <2>8. UNCHANGED <<queue, work, returned, halfway>>
      BY <1>1 DEF helperVars
    <2>9. TypeInv'
      BY <1>1, <2>1, <2>7, <2>8 DEF TypeInv
    <2>10. \A q \in Process : /\ proc'[q].pc \in Holding => proc'[q] = proc[q]
                              /\ proc'[q].pc \in Launched => proc'[q] = proc[q]
      BY <2>7 DEF Holding, Launched
    <2>11. Heard' = Heard /\ ParkedKeys' = {}
      BY <2>6, <2>8 DEF Heard, Queued, InWork, ParkedKeys
    <2>12. /\ key \in outbox.keys
           /\ outbox.inFlight = NoEntry
      <3>1. PICK i \in DOMAIN outbox.pending : outbox.pending[i].key = key
        BY <1>3 DEF CanResolve, PendingEntries
      <3>2. key \in outbox.keys
        BY <2>1, <3>1 DEF Outbox!IInv, Outbox!LiveReserved
      <3>3. outbox.inFlight = NoEntry
        <4>1. DOMAIN <<>> = {}
          OBVIOUS
        <4>2. QED
          BY <2>1, <3>1, <4>1 DEF Outbox!IInv, Outbox!SingleFlight
      <3>4. QED
        BY <3>2, <3>3
    <2> HIDE DEF key, outcome, resolved
    <2>13. KeysHeld'
      BY <2>1, <2>6, <2>10, <2>11 DEF KeysHeld
    <2>14. HelperSound'
      BY <2>1, <2>8 DEF HelperSound, Queued, InWork
    <2>15. SlotSound'
      BY <2>6, <2>12 DEF SlotSound, HasInFlight
    <2>16. ClosedSound'
      <3>1. PICK record \in Completion :
              /\ Remembers(outbox, outbox', record)
              /\ record.key = key
              /\ record.reconciled
        BY <2>6
      <3>2. ASSUME NEW i \in DOMAIN outbox'.completions
            PROVE  LET c == outbox'.completions[i] IN
                   /\ c.key \in outbox.keys
                   /\ ~c.reconciled /\ PermitsSend(c.key) =>
                        /\ c.key \notin Heard \ halfway
                        /\ \A q \in Process :
                             proc'[q].key = c.key => proc'[q].pc \notin Launched
        <4>1. CASE outbox'.completions[i] = record
          BY <2>12, <3>1, <4>1
        <4>2. CASE \E j \in DOMAIN outbox.completions :
                     outbox'.completions[i] = outbox.completions[j]
          BY <2>1, <2>10, <4>2 DEF ClosedSound
        <4>3. QED
          BY <3>1, <4>1, <4>2 DEF Remembers
      <3>3. QED
        BY <2>6, <2>8, <2>11, <2>12, <3>2 DEF ClosedSound, HasInFlight
    <2>17. SettledSound'
      BY <2>1, <2>8, <2>10, <2>11 DEF SettledSound, Holding
    <2>18. TriedSound'
      <3>1. Tried' \subseteq Tried
        BY <2>6, <2>10, <2>11, <2>12 DEF Tried, HasInFlight
      <3>2. QED
        BY <1>1, <2>1, <3>1 DEF TriedSound
    <2>19. JournalSound'
      BY <1>1, <2>1, <2>10, <2>11 DEF JournalSound, Holding
    <2>20. QED
      BY <2>4, <2>7, <2>9, <2>13, <2>14, <2>15, <2>16, <2>17, <2>18, <2>19
         DEF PlaneInv
  <1>4. QED
    BY <1>2, <1>3 DEF ResolveEntry

-----------------------------------------------------------------------------
(* The invariant.                                                            *)

LEMMA PlaneInit == Init => PlaneInv
  <1> SUFFICES ASSUME Init PROVE PlaneInv
    OBVIOUS
  <1>1. 0 \in Time /\ \A k \in Key : DraftOf[k] \in Draft
    BY ControlPlaneAssumption DEF Time, Draft
  <1>2. /\ outbox = NewDocument(0) /\ proc = [p \in Process |-> Idle]
        /\ queue = <<>> /\ work = NoWork /\ returned = [k \in Key |-> 0]
        /\ halfway = {}
        /\ now = 0 /\ attempts = [a \in Approval |-> 0]
        /\ journal = [d \in Draft |->
             [approvals |-> 0, attempts |-> 0, reconciliations |-> 0]]
    BY DEF Init, Draft
  <1>3. /\ outbox.inFlight = NoEntry /\ outbox.pending = <<>>
        /\ outbox.completions = <<>> /\ outbox.keys = {}
    BY <1>2 DEF NewDocument
  <1>4. DOMAIN <<>> = {}
    OBVIOUS
  <1>5. TypeInv
    <2>1. [approvals |-> 0, attempts |-> 0, reconciliations |-> 0]
            \in JournalRecord
      BY DEF JournalRecord
    <2>2. Idle \in ProcState
      BY <1>1 DEF Idle, ProcState, Outcomes
    <2>3. <<>> \in Seq(CapabilityRecord)
      OBVIOUS
    <2>4. QED
      BY <1>1, <1>2, <2>1, <2>2, <2>3 DEF TypeInv
  <1>6. \A p \in Process : proc[p].pc = "idle"
    BY <1>2 DEF Idle
  <1>7. CommandsSound
    BY <1>2, <1>5, IdleSound DEF CommandsSound
  <1>8. Outbox!IInv
    <2>1. Outbox!Init
      BY <1>1, <1>2 DEF Outbox!Init, Outbox!NewDocument, NewDocument
    <2>2. QED
      BY <2>1, InstanceAssumptions, Outbox!InitInv
  <1>9. Heard = {} /\ ParkedKeys = {}
    BY <1>2, <1>3, <1>4 DEF Heard, Queued, InWork, ParkedKeys
  <1>10. KeysHeld /\ SettledSound /\ JournalSound /\ ClosedSound /\ SlotSound
    BY <1>3, <1>4, <1>6, <1>9 DEF KeysHeld, SettledSound, JournalSound,
       ClosedSound, SlotSound, HasInFlight, Holding
  <1>11. HelperSound
    BY <1>2, <1>4 DEF HelperSound
  <1>12. TriedSound
    <2>1. Tried = {}
      BY <1>3, <1>6, <1>9 DEF Tried, HasInFlight, Launched
    <2>2. QED
      BY <2>1 DEF TriedSound
  <1>13. QED
    BY <1>5, <1>7, <1>8, <1>10, <1>11, <1>12 DEF PlaneInv

LEMMA PlaneNext ==
  ASSUME PlaneInv, [Next]_vars
  PROVE  PlaneInv'
  <1>1. CASE UNCHANGED vars
    <2>1. /\ UNCHANGED <<outbox, attempts, proc, journal, queue, work,
                       returned, halfway, now>>
      BY <1>1 DEF vars, storeVars, helperVars
    <2>2. TypeInv /\ CommandsSound /\ HelperSound
      BY DEF PlaneInv
    <2>3. TypeInv' /\ CommandsSound' /\ HelperSound' /\ Heard' \subseteq Heard
      BY <2>1, <2>2 DEF TypeInv, CommandsSound, CommandSound, HelperSound,
         Heard, Queued, InWork
    <2>4. QED
      BY <2>1, <2>2, <2>3, JournalStays, AsideKeeps
  <1>2. ASSUME NEW p \in Process, ProcessStep(p)
        PROVE  PlaneInv'
    <2>1. \/ AsideStep(p) \/ RecoverOutbox(p) \/ ReserveEntry(p)
          \/ JournalApproval(p) \/ MarkAttemptedEntry(p) \/ JournalAttempt(p)
          \/ Dispatch(p) \/ DispatchFails(p) \/ CompleteEntry(p)
          \/ ResolveEntry(p)
      BY <1>2 DEF ProcessStep, AsideStep
    <2>2. QED
      BY <2>1, AsideInv, RecoverOutboxInv, ReserveEntryInv, JournalsInv,
         MarkAttemptedEntryInv, DispatchInv, DispatchFailsInv,
         CompleteEntryInv, ResolveEntryInv
  <1>3. CASE HelperStep \/ OwnerTypes \/ ReplicaFollows \/ Tick
    BY <1>3, HelperStartInv, PressReturnInv, ReleaseFailsInv, SkillEndsInv,
       SurroundingsInv DEF HelperStep
  <1>4. QED
    BY <1>1, <1>2, <1>3 DEF Next

(* The invariant of the control plane, whatever the number of processes,     *)
(* keys, approvals and clock readings.                                       *)
THEOREM PlaneInvariance == Spec => []PlaneInv
  <1>1. Init => PlaneInv
    BY PlaneInit
  <1>2. PlaneInv /\ [Next]_vars => PlaneInv'
    BY PlaneNext
  <1>3. QED
    BY <1>1, <1>2, PTL DEF Spec

-----------------------------------------------------------------------------
(* The store's specification.                                                *)

LEMMA StoreStep ==
  ASSUME PlaneInv, [Next]_vars
  PROVE  Store!Next \/ UNCHANGED <<outbox, attempts>>
  <1>1. /\ TypeInv /\ CommandsSound
    BY DEF PlaneInv
  <1>2. CASE UNCHANGED vars
    BY <1>2 DEF vars, storeVars
  <1>3. ASSUME NEW p \in Process, ProcessStep(p)
        PROVE  Store!Next \/ UNCHANGED <<outbox, attempts>>
    <2>1. proc[p] \in ProcState /\ CommandSound(proc[p])
      BY <1>1 DEF TypeInv, CommandsSound
    <2>2. CASE RecoverOutbox(p)
      BY <2>2, RecoverRefines DEF RecoverOutbox, Store!Next
    <2>3. CASE ReserveEntry(p)
      <3> DEFINE key == proc[p].key
      <3>1. key \in Key /\ proc[p].start \in Time
        BY <2>1, <2>3 DEF ReserveEntry, CommandSound, Preparing, ProcState
      <3>2. /\ PermitsSend(key) \in BOOLEAN
            /\ StagingOf(p, key) \in Staging \cup {NoStaging}
        BY <3>1, ControlPlaneAssumption DEF PermitsSend, StagingOf
      <3> HIDE DEF key
      <3>3. QED
        BY <2>3, <3>1, <3>2, ReserveRefines
           DEF ReserveEntry, Store!Next, key
    <2>4. CASE MarkAttemptedEntry(p)
      <3>1. proc[p].key \in Key /\ proc[p].start \in Time
        BY <2>1, <2>4 DEF MarkAttemptedEntry, CommandSound, Holding, ProcState
      <3>2. QED
        BY <2>4, <3>1, MarkRefines DEF MarkAttemptedEntry, Store!Next
    <2>5. CASE CompleteEntry(p)
      <3>1. UNCHANGED attempts /\ proc[p].pc = "complete"
        BY <2>5 DEF CompleteEntry
      <3>2. CASE UNCHANGED outbox
        BY <3>1, <3>2
      <3>3. CASE ~UNCHANGED outbox
        <4>1. /\ CanComplete(outbox, proc[p].key, proc[p].outcome)
              /\ outbox' = Complete(outbox, proc[p].outcome, proc[p].attempted,
                                    proc[p].clock)
              /\ Transacts(outbox')
          BY <2>5, <3>3 DEF CompleteEntry
        <4>2. HasInFlight(outbox, proc[p].key)
          BY <4>1 DEF CanComplete
        <4>3. Store!CompleteStep
          BY <3>1, <4>1, <4>2, CompleteFits, CompleteRefines
        <4>4. QED
          BY <4>3 DEF Store!Next
      <3>4. QED
        BY <3>2, <3>3
    <2>6. CASE ResolveEntry(p)
      <3>1. /\ proc[p].key \in Key
            /\ proc[p].outcome \in {"ObservedSent", "ObservedFailed"}
        BY <2>1, <2>6 DEF ResolveEntry, CommandSound, Resolving
      <3>2. QED
        BY <2>6, <3>1, ResolveRefines DEF ResolveEntry, Store!Next
    <2>7. CASE AsideStep(p)
      BY <2>7 DEF storeVars, AsideStep, Begin, Attest, ReadLive, Sweep,
         Precheck, Stage, MintRefused, Discard, JournalReconciliation, Observe, Decide,
         DiscardParked, Crash
    <2>8. CASE \/ JournalApproval(p) \/ JournalAttempt(p)
               \/ Dispatch(p) \/ DispatchFails(p)
      BY <2>8 DEF storeVars, JournalApproval, JournalAttempt, Dispatch,
         DispatchFails
    <2>9. QED
      BY <1>3, <2>2, <2>3, <2>4, <2>5, <2>6, <2>7, <2>8
         DEF ProcessStep, AsideStep
  <1>4. CASE HelperStep \/ OwnerTypes \/ ReplicaFollows \/ Tick
    BY <1>4 DEF storeVars, HelperStep, HelperStart, PressReturn, ReleaseFails,
       SkillEnds, HelperDies, OwnerTypes, ReplicaFollows, Tick
  <1>5. QED
    BY <1>2, <1>3, <1>4 DEF Next

(* Refinement: whatever the processes, the helper and crashes do, the        *)
(* document changes only by the transactions SendOutbox allows, in the order *)
(* and under the conditions it states.                                       *)
THEOREM ImplementsStore == Spec => StoreSpec
  <1>1. Init => Store!Init
    <2>1. 0 \in Time
      BY ControlPlaneAssumption DEF Time
    <2>2. QED
      BY <2>1 DEF Init, Store!Init, Store!NewDocument, NewDocument
  <1>2. PlaneInv /\ [Next]_vars => [StoreChange]_<<outbox, attempts>>
    BY StoreStep DEF StoreChange
  <1>3. QED
    BY <1>1, <1>2, PlaneInvariance, PTL DEF Spec, StoreSpec

-----------------------------------------------------------------------------
(* What it means for the Return key.                                         *)

(* One approval, one Return: of the keys of one approval, over any number of *)
(* commands, retries, crashes and recoveries, Return is pressed for one key  *)
(* at most, and once.                                                        *)
THEOREM OneReturnHolds == Spec => []OneReturnPerApproval
  <1>1. ASSUME PlaneInv PROVE OneReturnPerApproval
    <2>1. returned \in [Key -> Nat] /\ HelperSound /\ TriedSound
      BY <1>1 DEF PlaneInv, TypeInv
    <2>2. \A k \in Key : returned[k] > 0 => returned[k] = 1 /\ k \in Tried
      BY <2>1 DEF HelperSound, Tried, Heard
    <2>3. \A k \in Key : returned[k] = 0 \/ returned[k] > 0
      BY <2>1
    <2>4. QED
      BY <2>1, <2>2, <2>3 DEF OneReturnPerApproval, TriedSound
  <1>2. QED
    BY <1>1, PlaneInvariance, PTL

(* Closed without reconciliation, never returned: what `complete` and        *)
(* `recover` close as not sent, the helper never sends, then or later; the   *)
(* exception is a press the helper itself failed half way through.           *)
THEOREM ClosedUnattemptedHolds == Spec => []ClosedUnattempted
  <1>1. ASSUME PlaneInv PROVE ClosedUnattempted
    <2>1. returned \in [Key -> Nat] /\ HelperSound /\ ClosedSound
      BY <1>1 DEF PlaneInv, TypeInv
    <2>2. ASSUME NEW key \in Key, NEW c \in CompletionsOf(key), ~c.reconciled
          PROVE  returned[key] = 0 \/ key \in halfway
      <3>1. PICK i \in DOMAIN outbox.completions :
              outbox.completions[i] = c /\ c.key = key
        BY <2>2 DEF CompletionsOf
      <3>2. PermitsSend(key) => key \notin Heard \ halfway
        BY <2>1, <2>2, <3>1 DEF ClosedSound
      <3>3. ~(returned[key] > 0) \/ key \in halfway
        BY <2>1, <3>2 DEF HelperSound, Heard
      <3>4. QED
        BY <2>1, <3>3
    <2>3. QED
      BY <2>2 DEF ClosedUnattempted
  <1>2. QED
    BY <1>1, PlaneInvariance, PTL

(* The journal knows first: Return is pressed only for a draft whose         *)
(* approval and attempt the journal has.                                     *)
THEOREM ReturnJournaledHolds == Spec => []ReturnJournaled
  <1>1. ASSUME PlaneInv PROVE ReturnJournaled
    BY <1>1 DEF PlaneInv, JournalSound, Heard, ReturnJournaled
  <1>2. QED
    BY <1>1, PlaneInvariance, PTL

-----------------------------------------------------------------------------
(* Where the commands come from.                                             *)

\* `reconcile` concludes that the message of key was sent.
ConcludesSent(key) ==
  \E e \in PendingEntries(outbox) : e.key = key /\ FoundInReplica(e)

\* What a step of p may make of its command r, as far as the conclusions of
\* `reconcile` and the way to the helper are concerned.
Follows(p, r) ==
  /\ r.outcome = "ObservedSent" /\ r.pc # "complete" /\ r.key \notin Attested =>
       /\ r.key = proc[p].key
       /\ proc[p].outcome = "ObservedSent" \/ ConcludesSent(proc[p].key)
  /\ r.pc \in {"journalAttempt", "dispatch"} /\ PermitsSend(r.key) =>
       /\ r.key = proc[p].key
       /\ r.start = proc[p].start
       /\ proc[p].pc = "journalAttempt" \/ MarkAttemptedEntry(p)
  /\ r.pc \in Resolving =>
       /\ r.key = proc[p].key
       /\ r.start = proc[p].start
       /\ \/ proc[p].pc \in Resolving /\ r.outcome = proc[p].outcome
          \/ Decide(p)

LEMMA ProcessMoves ==
  ASSUME PlaneInv, NEW p \in Process, ProcessStep(p)
  PROVE  /\ \A q \in Process \ {p} : proc'[q] = proc[q]
         /\ Follows(p, proc'[p])
  <1> DEFINE s == proc[p]
             Fine == /\ \A q \in Process \ {p} : proc'[q] = proc[q]
                     /\ Follows(p, proc'[p])
  <1>1. proc \in [Process -> ProcState] /\ s \in ProcState /\ CommandSound(s)
    BY DEF PlaneInv, TypeInv, CommandsSound
  <1>2. ASSUME NEW r, proc' = [proc EXCEPT ![p] = r], Follows(p, r)
        PROVE  Fine
    <2>1. proc'[p] = r /\ \A q \in Process \ {p} : proc'[q] = proc[q]
      BY <1>1, <1>2
    <2>2. QED
      BY <1>2, <2>1
  <1>3. End(p) => Fine
    <2>1. Follows(p, Idle)
      BY DEF Follows, Idle, Resolving
    <2>2. QED
      BY <1>2, <2>1 DEF End
  <1>4. ASSUME NEW pc, Goto(p, pc),
               pc \in {"journalAttempt", "dispatch"} /\ PermitsSend(s.key) =>
                 s.pc = "journalAttempt" \/ MarkAttemptedEntry(p),
               pc \in Resolving => s.pc \in Resolving \/ Decide(p)
        PROVE  Fine
    <2> DEFINE r == [s EXCEPT !.pc = pc]
    <2>1. /\ r.pc = pc /\ r.key = s.key /\ r.start = s.start
          /\ r.outcome = s.outcome
      BY <1>1 DEF ProcState
    <2>2. proc' = [proc EXCEPT ![p] = r]
      BY <1>4 DEF Goto
    <2> HIDE DEF r
    <2>3. Follows(p, r)
      BY <1>4, <2>1 DEF Follows
    <2>4. QED
      BY <1>2, <2>2, <2>3
  <1>5. ASSUME NEW pc \in {"discard", "journalReconciliation"}, Finish(p, pc)
        PROVE  Fine
    <2> DEFINE r == [Idle EXCEPT !.cmd = s.cmd, !.pc = pc, !.key = s.key]
    <2>1. r.pc = pc /\ r.outcome # "ObservedSent"
      BY DEF Idle
    <2>2. proc' = [proc EXCEPT ![p] = r]
      BY <1>5 DEF Finish
    <2> HIDE DEF r
    <2>3. Follows(p, r)
      BY <2>1 DEF Follows, Resolving
    <2>4. QED
      BY <1>2, <2>2, <2>3
  <1>6. CASE \E cmd \in {"status", "execute", "reconcile"}, key \in Key \cup {NoKey} :
               Begin(p, cmd, key)
    <2>1. PICK cmd \in {"status", "execute", "reconcile"}, key \in Key \cup {NoKey} :
            Begin(p, cmd, key)
      BY <1>6
    <2> DEFINE r == [Idle EXCEPT !.cmd = cmd, !.pc = "recover", !.key = key,
                                 !.start = now]
    <2>2. r.pc = "recover" /\ r.outcome # "ObservedSent"
      BY DEF Idle
    <2>3. proc' = [proc EXCEPT ![p] = r]
      BY <2>1 DEF Begin
    <2> HIDE DEF r
    <2>4. Follows(p, r)
      BY <2>2 DEF Follows, Resolving
    <2>5. QED
      BY <1>2, <2>3, <2>4
  <1>7. CASE ReadLive(p)
    <2> DEFINE r == [s EXCEPT !.pc = "sweep", !.opens = @ + 1,
                       !.live = {e.staging : e \in LiveEntries(outbox)}]
    <2>1. r.pc = "sweep" /\ r.outcome = s.outcome /\ r.key = s.key
      BY <1>1 DEF ProcState
    <2>2. proc' = [proc EXCEPT ![p] = r] \/ End(p)
      BY <1>7 DEF ReadLive
    <2> HIDE DEF r
    <2>3. Follows(p, r)
      BY <2>1 DEF Follows, Resolving
    <2>4. QED
      BY <1>2, <1>3, <2>2, <2>3
  <1>8. CASE Sweep(p)
    <2> DEFINE next == IF s.cmd = "execute" THEN "precheck"
                       ELSE IF s.opens = 1 THEN "observe" ELSE "decide"
               r == [s EXCEPT !.pc = next, !.live = {}]
    <2>1. s.cmd \in {"status", "execute", "reconcile"}
      BY <1>1, <1>8 DEF Sweep, CommandSound, Opening, ProcState
    <2>2. proc' = [proc EXCEPT ![p] = r] \/ End(p)
      BY <1>8, <2>1 DEF Sweep, Opened
    <2>3. /\ r.pc \in {"precheck", "observe", "decide"}
          /\ r.outcome = s.outcome /\ r.key = s.key
      BY <1>1 DEF ProcState
    <2> HIDE DEF r
    <2>4. Follows(p, r)
      BY <2>3 DEF Follows, Resolving
    <2>5. QED
      BY <1>2, <1>3, <2>2, <2>4
  <1>9. CASE Observe(p)
    <2>1. CASE End(p)
      BY <1>3, <2>1
    <2>2. CASE ~End(p)
      <3>1. PICK e \in ParkedWith(s.key) :
              proc' = [proc EXCEPT ![p].pc = "recover",
                         ![p].outcome = IF FoundInReplica(e) THEN "ObservedSent"
                                        ELSE "AwaitingReconciliation"]
        BY <1>9, <2>2 DEF Observe
      <3> DEFINE outcome == IF FoundInReplica(e) THEN "ObservedSent"
                            ELSE "AwaitingReconciliation"
                 r == [s EXCEPT !.pc = "recover", !.outcome = outcome]
      <3>2. proc' = [proc EXCEPT ![p] = r]
        BY <3>1
      <3>3. r.pc = "recover" /\ r.key = s.key /\ r.outcome = outcome
        BY <1>1 DEF ProcState
      <3>4. outcome = "ObservedSent" => ConcludesSent(s.key)
        BY <3>1 DEF ParkedWith, ConcludesSent
      <3> HIDE DEF r, outcome
      <3>5. Follows(p, r)
        BY <3>3, <3>4 DEF Follows, Resolving
      <3>6. QED
        BY <1>2, <3>2, <3>5
    <2>3. QED
      BY <2>1, <2>2
  <1>10. CASE Decide(p)
    <2> DEFINE r == [s EXCEPT !.pc = "discardParked", !.outcome = "ObservedFailed"]
    <2>1. Goto(p, "discardParked") \/ proc' = [proc EXCEPT ![p] = r] \/ End(p)
      BY <1>10 DEF Decide
    <2>2. /\ r.pc = "discardParked" /\ r.outcome = "ObservedFailed"
          /\ r.key = s.key /\ r.start = s.start
      BY <1>1 DEF ProcState
    <2> HIDE DEF r
    <2>3. Follows(p, r)
      BY <1>10, <2>2 DEF Follows
    <2>4. QED
      BY <1>2, <1>3, <1>4, <1>10, <2>1, <2>3
  <1>11. CASE DispatchFails(p)
    <2> DEFINE clock == s.start + (IF s.pc = "await" THEN now - s.clock ELSE 0)
               r == [s EXCEPT !.pc = "complete", !.outcome = Inconclusive(s.key),
                              !.attempted = FALSE, !.clock = clock]
    <2>1. r.pc = "complete"
      BY <1>1 DEF ProcState
    <2>2. proc' = [proc EXCEPT ![p] = r]
      BY <1>11 DEF DispatchFails, Settle
    <2> HIDE DEF r
    <2>3. Follows(p, r)
      BY <2>1 DEF Follows, Resolving
    <2>4. QED
      BY <1>2, <2>2, <2>3
  <1>12. CASE Dispatch(p)
    <2> DEFINE r == [s EXCEPT !.pc = "await", !.clock = now]
    <2>1. r.pc = "await" /\ r.outcome = s.outcome /\ r.key = s.key
      BY <1>1 DEF ProcState
    <2>2. proc' = [proc EXCEPT ![p] = r]
      BY <1>12 DEF Dispatch
    <2> HIDE DEF r
    <2>3. Follows(p, r)
      BY <2>1 DEF Follows, Resolving
    <2>4. QED
      BY <1>2, <2>2, <2>3
  <1>13. CASE JournalAttempt(p)
    BY <1>4, <1>13 DEF JournalAttempt, Resolving
  <1>14. CASE JournalApproval(p)
    <2>1. PICK pc \in {"markAttempted", "journalAttempt"} :
            /\ Goto(p, pc)
            /\ pc = "journalAttempt" => ~PermitsSend(s.key)
      BY <1>14 DEF JournalApproval
    <2>2. QED
      BY <1>4, <2>1 DEF Resolving
  <1>15. CASE MarkAttemptedEntry(p)
    <2>1. Goto(p, "journalAttempt") \/ End(p)
      BY <1>15 DEF MarkAttemptedEntry
    <2>2. QED
      BY <1>3, <1>4, <1>15, <2>1 DEF Resolving
  <1>16. CASE DiscardParked(p)
    BY <1>4, <1>16 DEF DiscardParked, Resolving
  <1>17. CASE \/ Discard(p) \/ Precheck(p) \/ Stage(p) \/ ReserveEntry(p)
              \/ RecoverOutbox(p)
    <2>1. \/ End(p)
          \/ \E pc \in {"journalReconciliation", "stage", "reserve",
                        "journalApproval", "readLive"} : Goto(p, pc)
      BY <1>17 DEF Discard, Precheck, Stage, ReserveEntry, RecoverOutbox
    <2>2. QED
      BY <1>3, <1>4, <2>1 DEF Resolving
  <1>18. CASE \/ CompleteEntry(p) \/ ResolveEntry(p) \/ MintRefused(p)
              \/ JournalReconciliation(p) \/ Crash(p)
    <2>1. \/ End(p)
          \/ \E pc \in {"discard", "journalReconciliation"} : Finish(p, pc)
      BY <1>18 DEF CompleteEntry, ResolveEntry, MintRefused,
         JournalReconciliation, Crash
    <2>2. QED
      BY <1>3, <1>5, <2>1
  <1>19. CASE \E key \in Key,
                outcome \in {"ObservedSent", "AwaitingReconciliation"} :
                Attest(p, key, outcome)
    <2>1. PICK key \in Key,
               outcome \in {"ObservedSent", "AwaitingReconciliation"} :
            Attest(p, key, outcome)
      BY <1>19
    <2> DEFINE r == [Idle EXCEPT !.cmd = "reconcile", !.pc = "recover",
                                 !.key = key, !.start = now, !.opens = 1,
                                 !.outcome = outcome]
    <2>2. r.pc = "recover" /\ r.outcome = outcome /\ r.key = key
      BY DEF Idle
    <2>3. /\ proc' = [proc EXCEPT ![p] = r]
          /\ outcome = "ObservedSent" => key \in Attested
      BY <2>1 DEF Attest
    <2> HIDE DEF r
    <2>4. Follows(p, r)
      BY <2>2, <2>3 DEF Follows, Resolving
    <2>5. QED
      BY <1>2, <2>3, <2>4
  <1>20. QED
    BY <1>6, <1>7, <1>8, <1>9, <1>10, <1>11, <1>12, <1>13, <1>14, <1>15, <1>16,
       <1>17, <1>18, <1>19 DEF ProcessStep

\* What a process leaves alone.
LEMMA ProcessFrame ==
  ASSUME NEW p \in Process, ProcessStep(p)
  PROVE  /\ UNCHANGED <<work, returned, halfway, chat, replica, now>>
         /\ queue' = queue \/ Dispatch(p)
         /\ verdicts' = verdicts \/ ResolveEntry(p)
  <1> DEFINE Frame == /\ UNCHANGED <<work, returned, halfway, chat, replica, now>>
                      /\ queue' = queue \/ Dispatch(p)
                      /\ verdicts' = verdicts \/ ResolveEntry(p)
  <1>1. ASSUME NEW cmd, NEW key, Begin(p, cmd, key) PROVE Frame
    BY <1>1 DEF Begin, storeVars, helperVars
  <1>2. ASSUME NEW key, NEW outcome, Attest(p, key, outcome) PROVE Frame
    BY <1>2 DEF Attest, storeVars, helperVars
  <1>3. RecoverOutbox(p) \/ ReadLive(p) \/ Sweep(p) \/ Precheck(p) => Frame
    BY DEF RecoverOutbox, ReadLive, Sweep, Precheck, storeVars, helperVars
  <1>4. Stage(p) \/ MintRefused(p) \/ ReserveEntry(p) \/ JournalApproval(p) => Frame
    BY DEF Stage, MintRefused, ReserveEntry, JournalApproval, storeVars,
       helperVars
  <1>5. MarkAttemptedEntry(p) \/ JournalAttempt(p) \/ Dispatch(p) => Frame
    BY DEF MarkAttemptedEntry, JournalAttempt, Dispatch, storeVars, helperVars
  <1>6. DispatchFails(p) \/ CompleteEntry(p) \/ Discard(p) => Frame
    BY DEF DispatchFails, CompleteEntry, Discard, storeVars, helperVars
  <1>7. JournalReconciliation(p) \/ Observe(p) \/ Decide(p) => Frame
    BY DEF JournalReconciliation, Observe, Decide, storeVars, helperVars
  <1>8. DiscardParked(p) \/ ResolveEntry(p) \/ Crash(p) => Frame
    BY DEF DiscardParked, ResolveEntry, Crash, storeVars, helperVars
  <1> HIDE DEF Frame
  <1>9. QED
    BY <1>1, <1>2, <1>3, <1>4, <1>5, <1>6, <1>7, <1>8 DEF ProcessStep, Frame

(* The helper only settles the commands that wait for it.                    *)
LEMMA HelperMoves ==
  ASSUME PlaneInv, HelperStep, NEW q \in Process
  PROVE  proc'[q] = proc[q] \/ proc'[q].pc = "complete"
  <1>1. proc \in [Process -> ProcState]
    BY DEF PlaneInv, TypeInv
  <1>2. ASSUME NEW p, NEW outcome, NEW attempted, Settle(p, outcome, attempted)
        PROVE  proc'[q] = proc[q] \/ proc'[q].pc = "complete"
    <2> DEFINE clock == proc[p].start
                          + (IF proc[p].pc = "await" THEN now - proc[p].clock ELSE 0)
               r == [proc[p] EXCEPT !.pc = "complete", !.outcome = outcome,
                       !.attempted = attempted, !.clock = clock]
    <2>1. proc' = [proc EXCEPT ![p] = r]
      BY <1>2 DEF Settle
    <2>2. q = p => r.pc = "complete"
      BY <1>1 DEF ProcState
    <2> HIDE DEF r
    <2>3. QED
      BY <1>1, <2>1, <2>2
  <1>3. ASSUME NEW c, NEW outcome, NEW attempted, Reply(c, outcome, attempted)
        PROVE  proc'[q] = proc[q] \/ proc'[q].pc = "complete"
    BY <1>2, <1>3 DEF Reply
  <1>4. QED
    BY <1>3 DEF HelperStep, HelperStart, PressReturn, ReleaseFails, SkillEnds,
       HelperDies

-----------------------------------------------------------------------------
(* The live attempt, and what the steps make of it.                          *)

LEMMA StoreShape ==
  ASSUME PlaneInv
  PROVE  /\ outbox \in Document
         /\ outbox.inFlight # NoEntry => DOMAIN outbox.pending = {}
         /\ DOMAIN outbox.pending = {} \/ DOMAIN outbox.pending = {1}
         /\ outbox.inFlight # NoEntry =>
              Marks = {<<outbox.inFlight.key, outbox.inFlight.attemptedAt>>}
         /\ outbox.inFlight = NoEntry =>
              Marks = {<<outbox.pending[i].key, outbox.pending[i].attemptedAt>> :
                         i \in DOMAIN outbox.pending}
  <1>1. /\ outbox \in Document
        /\ Len(outbox.pending) <= 1
        /\ outbox.inFlight # NoEntry => outbox.pending = <<>>
    BY SameSets DEF PlaneInv, Outbox!IInv, Outbox!TypeOK, Outbox!SingleFlight
  <1>2. outbox.pending \in Seq(ParkedEntry)
    BY <1>1 DEF Document
  <1>3. DOMAIN outbox.pending = {} \/ DOMAIN outbox.pending = {1}
    <2>1. DOMAIN outbox.pending = 1 .. Len(outbox.pending)
            /\ Len(outbox.pending) \in Nat
      BY <1>2
    <2>2. CASE Len(outbox.pending) = 0
      <3>1. 1 .. 0 = {}
        OBVIOUS
      <3>2. QED
        BY <2>1, <2>2, <3>1
    <2>3. CASE Len(outbox.pending) = 1
      <3>1. 1 .. 1 = {1}
        OBVIOUS
      <3>2. QED
        BY <2>1, <2>3, <3>1
    <2>4. QED
      <3>1. ASSUME NEW n \in Nat, n <= 1 PROVE n = 0 \/ n = 1
        BY <3>1
      <3>2. QED
        BY <1>1, <2>1, <2>2, <2>3, <3>1
  <1>4. DOMAIN <<>> = {}
    OBVIOUS
  <1>5. outbox.inFlight # NoEntry => DOMAIN outbox.pending = {}
    BY <1>1, <1>4
  <1>6. CASE outbox.inFlight = NoEntry
    BY <1>1, <1>3, <1>6 DEF Marks, LiveEntries, PendingEntries
  <1>7. CASE outbox.inFlight # NoEntry
    <2>1. LiveEntries(outbox) = {outbox.inFlight}
      BY <1>5, <1>7 DEF LiveEntries, PendingEntries
    <2>2. QED
      BY <1>1, <1>3, <1>5, <1>7, <2>1 DEF Marks
  <1>8. QED
    BY <1>6, <1>7

\* One attempt is live.
LEMMA OneMark ==
  ASSUME PlaneInv
  PROVE  \A m, n \in Marks : m = n
  <1>1. CASE outbox.inFlight # NoEntry
    BY <1>1, StoreShape
  <1>2. CASE outbox.inFlight = NoEntry
    BY <1>2, StoreShape
  <1>3. QED
    BY <1>1, <1>2

\* A parked attempt keeps the time it was marked at.
LEMMA ParkMarks ==
  ASSUME PlaneInv, PlaneInv', outbox.inFlight # NoEntry,
         outbox'.inFlight = NoEntry, ParksSlot(outbox, outbox')
  PROVE  Marks' = Marks
  <1> DEFINE e == [outbox.inFlight EXCEPT !.state = "AwaitingReconciliation"]
  <1>1. outbox \in Document /\ DOMAIN outbox.pending = {}
    BY StoreShape
  <1>2. outbox.pending \in Seq(ParkedEntry) /\ outbox.inFlight \in Entry
    BY <1>1 DEF Document, InFlightEntry
  <1>3. /\ e.key = outbox.inFlight.key
        /\ e.attemptedAt = outbox.inFlight.attemptedAt
        /\ outbox'.pending = Append(outbox.pending, e)
    BY <1>2 DEF Entry, ParksSlot
  <1> HIDE DEF e
  <1>4. DOMAIN outbox'.pending = {1} /\ outbox'.pending[1] = e
    <2>1. Len(outbox.pending) = 0
      <3>1. ASSUME NEW n \in Nat, 1 .. n = {} PROVE n = 0
        <4>1. ~(1 <= n)
          BY <3>1
        <4>2. QED
          BY <4>1
      <3>2. /\ DOMAIN outbox.pending = 1 .. Len(outbox.pending)
            /\ Len(outbox.pending) \in Nat
        BY <1>2
      <3>3. QED
        BY <1>1, <3>1, <3>2
    <2>2. QED
      BY <1>2, <1>3, <2>1
  <1>5. LiveEntries(outbox') = {e}
    BY <1>4 DEF LiveEntries, PendingEntries
  <1>6. Marks' = {<<e.key, e.attemptedAt>>}
    BY <1>5 DEF Marks
  <1>7. QED
    BY <1>3, <1>6, StoreShape

LEMMA PressableFacts ==
  ASSUME PlaneInv, HelperClock, NEW k \in Key, NEW t \in Time,
         <<k, t>> \in Pressable
  PROVE  /\ PermitsSend(k)
         /\ returned[k] = 0
         /\ now < t + Validity + SkillTime
         /\ \/ k \in Heard
            \/ \E p \in Process : /\ proc[p].pc \in {"journalAttempt", "dispatch"}
                                  /\ proc[p].key = k
  <1>1. /\ TypeInv /\ HelperSound /\ KeysHeld /\ returned \in [Key -> Nat]
        /\ now \in Nat /\ t \in Nat /\ Validity \in Nat /\ SkillTime \in Nat
    BY ControlPlaneAssumption DEF PlaneInv, TypeInv, Time
  <1>2. /\ PermitsSend(k)
        /\ \/ /\ now < t + Validity
              /\ \E p \in Process :
                   /\ proc[p].pc \in {"journalAttempt", "dispatch"}
                   /\ proc[p].key = k /\ proc[p].start = t
           \/ /\ now < t + Validity
              /\ \E i \in DOMAIN queue :
                   queue[i].key = k /\ queue[i].until = t + Validity
           \/ /\ InWork(k) /\ ~work.pressed
              /\ work.capability.until = t + Validity
    BY DEF Pressable
  <1>3. ~(returned[k] > 0) => returned[k] = 0
    BY <1>1
  <1>4. CASE /\ now < t + Validity
             /\ \E p \in Process :
                  /\ proc[p].pc \in {"journalAttempt", "dispatch"}
                  /\ proc[p].key = k /\ proc[p].start = t
    <2>1. k \notin Heard
      BY <1>1, <1>4 DEF KeysHeld, Holding
    <2>2. ~(returned[k] > 0)
      BY <2>1 DEF Heard
    <2>3. now < t + Validity + SkillTime
      BY <1>1, <1>4
    <2>4. QED
      BY <1>2, <1>3, <1>4, <2>2, <2>3
  <1>5. CASE /\ now < t + Validity
             /\ \E i \in DOMAIN queue :
                  queue[i].key = k /\ queue[i].until = t + Validity
    <2>1. k \in Queued
      BY <1>5 DEF Queued
    <2>2. ~(returned[k] > 0) /\ k \in Heard
      BY <1>1, <2>1 DEF HelperSound, Heard
    <2>3. now < t + Validity + SkillTime
      BY <1>1, <1>5
    <2>4. QED
      BY <1>2, <1>3, <2>2, <2>3
  <1>6. CASE /\ InWork(k) /\ ~work.pressed
             /\ work.capability.until = t + Validity
    <2>1. ~(returned[k] > 0) /\ k \in Heard
      BY <1>1, <1>6 DEF HelperSound, Heard
    <2>2. work # NoWork /\ work \in WorkRecord /\ work.since \in Nat
      BY <1>1, <1>6, InstanceAssumptions DEF InWork, TypeInv, WorkRecord
    <2>3. now < t + Validity + SkillTime
      BY <1>1, <1>6, <2>2 DEF HelperClock
    <2>4. QED
      BY <1>2, <1>3, <2>1, <2>3
  <1>7. QED
    BY <1>2, <1>4, <1>5, <1>6

\* What may be pressed after a step could be before, or was marked by it.
LEMMA PressableStep ==
  ASSUME PlaneInv, PlaneInv', HelperClock, [Next]_vars, NEW k \in Key,
         NEW t \in Time, <<k, t>> \in Pressable'
  PROVE  \/ <<k, t>> \in Pressable
         \/ \E p \in Process : /\ MarkAttemptedEntry(p)
                               /\ proc'[p].pc = "journalAttempt"
                               /\ proc[p].key = k /\ proc[p].start = t
  <1>1. /\ TypeInv /\ TypeInv' /\ HelperSound
        /\ now \in Nat /\ now' \in Nat /\ t \in Nat /\ Validity \in Nat
    <2>1. TypeInv /\ TypeInv' /\ HelperSound
      BY DEF PlaneInv
    <2>2. now \in Time /\ now' \in Time
      BY <2>1 DEF TypeInv
    <2>3. Validity \in Nat
      BY ControlPlaneAssumption
    <2>4. QED
      BY <2>1, <2>2, <2>3 DEF Time
  <1>2. /\ PermitsSend(k)
        /\ \/ /\ now' < t + Validity
              /\ \E p \in Process :
                   /\ proc'[p].pc \in {"journalAttempt", "dispatch"}
                   /\ proc'[p].key = k /\ proc'[p].start = t
           \/ /\ now' < t + Validity
              /\ \E i \in DOMAIN queue' :
                   queue'[i].key = k /\ queue'[i].until = t + Validity
           \/ /\ InWork(k)' /\ ~work'.pressed
              /\ work'.capability.until = t + Validity
    BY DEF Pressable
  <1>3. ~Tick => now' = now
    BY ProcessFrame DEF Next, vars, HelperStep, HelperStart, PressReturn,
       ReleaseFails, SkillEnds, HelperDies, OwnerTypes, ReplicaFollows
  <1>4. now <= now'
    BY <1>1, <1>3 DEF Tick
  <1>5. CASE /\ now' < t + Validity
             /\ \E p \in Process :
                  /\ proc'[p].pc \in {"journalAttempt", "dispatch"}
                  /\ proc'[p].key = k /\ proc'[p].start = t
    <2>1. now < t + Validity
      BY <1>1, <1>4, <1>5
    <2>2. PICK p \in Process : /\ proc'[p].pc \in {"journalAttempt", "dispatch"}
                               /\ proc'[p].key = k /\ proc'[p].start = t
      BY <1>5
    <2>3. CASE proc'[p] = proc[p]
      BY <1>2, <2>1, <2>2, <2>3 DEF Pressable
    <2>4. CASE ProcessStep(p)
      <3>1. Follows(p, proc'[p])
        BY <2>4, ProcessMoves
      <3>2. /\ proc[p].key = k /\ proc[p].start = t
            /\ proc[p].pc = "journalAttempt" \/ MarkAttemptedEntry(p)
        BY <1>2, <2>2, <3>1 DEF Follows
      <3>3. CASE proc[p].pc = "journalAttempt"
        BY <1>2, <2>1, <3>2, <3>3 DEF Pressable
      <3>4. CASE MarkAttemptedEntry(p)
        <4>1. proc'[p].pc = "journalAttempt"
          <5>1. proc \in [Process -> ProcState]
            BY <1>1 DEF TypeInv
          <5>2. Goto(p, "journalAttempt") \/ End(p)
            BY <3>4 DEF MarkAttemptedEntry
          <5>3. CASE Goto(p, "journalAttempt")
            BY <5>1, <5>3 DEF Goto, ProcState
          <5>4. CASE End(p)
            BY <2>2, <5>1, <5>4 DEF End, Idle
          <5>5. QED
            BY <5>2, <5>3, <5>4
        <4>2. QED
          BY <3>2, <3>4, <4>1
      <3>5. QED
        BY <3>2, <3>3, <3>4
    <2>5. ASSUME NEW q \in Process, ProcessStep(q), q # p
          PROVE  proc'[p] = proc[p]
      BY <2>5, ProcessMoves
    <2>6. HelperStep => proc'[p] = proc[p]
      BY <2>2, HelperMoves
    <2>7. UNCHANGED vars \/ OwnerTypes \/ ReplicaFollows \/ Tick
            => proc'[p] = proc[p]
      BY DEF vars, OwnerTypes, ReplicaFollows, Tick
    <2>8. QED
      BY <2>3, <2>4, <2>5, <2>6, <2>7 DEF Next
  <1>6. CASE /\ now' < t + Validity
             /\ \E i \in DOMAIN queue' :
                  queue'[i].key = k /\ queue'[i].until = t + Validity
    <2>1. now < t + Validity
      BY <1>1, <1>4, <1>6
    <2>2. PICK i \in DOMAIN queue' :
            queue'[i].key = k /\ queue'[i].until = t + Validity
      BY <1>6
    <2>3. queue \in Seq(CapabilityRecord)
      BY <1>1 DEF TypeInv
    <2>4. CASE queue' = queue
      BY <1>2, <2>1, <2>2, <2>4 DEF Pressable
    <2>5. ASSUME NEW p \in Process, Dispatch(p)
          PROVE  <<k, t>> \in Pressable
      <3> DEFINE c == Capability(p)
      <3>1. /\ queue' = Append(queue, c) /\ proc[p].pc = "dispatch"
            /\ c.key = proc[p].key /\ c.until = proc[p].start + Validity
        BY <2>5 DEF Dispatch, Capability
      <3>2. proc[p].start \in Nat
        BY <1>1, InstanceAssumptions DEF TypeInv, ProcState
      <3> HIDE DEF c
      <3>3. \/ i \in DOMAIN queue /\ queue'[i] = queue[i]
            \/ queue'[i] = c
        BY <2>2, <2>3, <3>1
      <3>4. CASE queue'[i] = c
        <4>1. proc[p].key = k /\ proc[p].start = t
          BY <1>1, <2>2, <3>1, <3>2, <3>4
        <4>2. QED
          BY <1>2, <2>1, <3>1, <4>1 DEF Pressable
      <3>5. CASE i \in DOMAIN queue /\ queue'[i] = queue[i]
        BY <1>2, <2>1, <2>2, <3>5 DEF Pressable
      <3>6. QED
        BY <3>3, <3>4, <3>5
    <2>6. CASE HelperStart
      <3>1. queue # <<>> /\ queue' = Tail(queue)
        BY <2>6 DEF HelperStart
      <3>2. i + 1 \in DOMAIN queue /\ queue'[i] = queue[i + 1]
        BY <2>2, <2>3, <3>1, QueueTail
      <3>3. QED
        BY <1>2, <2>1, <2>2, <3>2 DEF Pressable
    <2>7. CASE HelperDies
      BY <2>2, <2>7 DEF HelperDies
    <2>8. QED
      BY <2>4, <2>5, <2>6, <2>7, ProcessFrame DEF Next, vars, helperVars,
         HelperStep, PressReturn, ReleaseFails, SkillEnds, OwnerTypes,
         ReplicaFollows, Tick
  <1>7. CASE /\ InWork(k)' /\ ~work'.pressed
             /\ work'.capability.until = t + Validity
    <2>1. CASE work' = work
      BY <1>2, <1>7, <2>1 DEF Pressable, InWork
    <2>2. CASE HelperStart /\ work' # work
      <3> DEFINE c == Head(queue)
      <3>1. /\ queue \in Seq(CapabilityRecord) /\ queue # <<>> /\ now < c.until
            /\ work' = [capability |-> c, since |-> now, pressed |-> FALSE]
        BY <1>1, <2>2 DEF HelperStart, TypeInv
      <3>2. 1 \in DOMAIN queue /\ c = queue[1]
        BY <3>1, QueueTail
      <3> HIDE DEF c
      <3>3. c.key = k /\ c.until = t + Validity
        BY <1>7, <3>1 DEF InWork
      <3>4. QED
        BY <1>2, <3>1, <3>2, <3>3 DEF Pressable
    <2>3. CASE PressReturn
      <3>1. work \in WorkRecord /\ work' = [work EXCEPT !.pressed = TRUE]
        BY <1>1, <2>3 DEF PressReturn, TypeInv
      <3>2. work'.pressed
        BY <3>1 DEF WorkRecord
      <3>3. QED
        BY <1>7, <3>2
    <2>4. CASE ReleaseFails \/ SkillEnds \/ HelperDies
      BY <1>7, <2>4 DEF ReleaseFails, SkillEnds, HelperDies, InWork
    <2>5. QED
      BY <2>1, <2>2, <2>3, <2>4, ProcessFrame DEF Next, vars, helperVars,
         HelperStep, OwnerTypes, ReplicaFollows, Tick
  <1>8. QED
    BY <1>2, <1>5, <1>6, <1>7


\* The step of p put a new key in the slot, or marked the attempt there.
Fills(p) ==
  /\ outbox.inFlight = NoEntry /\ outbox.pending = <<>>
  /\ outbox'.inFlight # NoEntry /\ outbox'.inFlight.key = proc[p].key
  /\ proc[p].pc = "reserve" /\ proc[p].key \notin outbox.keys

MarksSlot(p) ==
  /\ proc[p].pc = "markAttempted" /\ HasInFlight(outbox, proc[p].key)
  /\ HasInFlight(outbox', proc[p].key)
  /\ outbox'.inFlight.attemptedAt = proc[p].start

\* The entry in the slot was parked, or closed before it was launched.
Empties ==
  /\ outbox.inFlight # NoEntry /\ outbox'.inFlight = NoEntry
  /\ \/ ParksSlot(outbox, outbox')
     \/ /\ ClosesSlot(outbox, outbox')
        /\ PermitsSend(outbox.inFlight.key) =>
             /\ outbox.inFlight.key \notin Heard \ halfway
             /\ \A q \in Process : proc[q].pc \in {"journalAttempt", "dispatch"}
                                     => proc[q].key # outbox.inFlight.key

\* The step of p resolved the parked entry.
Unparks(p) ==
  /\ proc[p].pc = "resolve"
  /\ outbox.inFlight = NoEntry
  /\ \A m \in Marks : m[1] = proc[p].key
  /\ outbox'.inFlight = NoEntry /\ outbox'.pending = <<>>
  /\ verdicts' = verdicts \cup {VerdictOn(p, e) : e \in ParkedWith(proc[p].key)}

\* Each step does one of these to the document.
LEMMA StoreEffects ==
  ASSUME PlaneInv, PlaneInv', [Next]_vars
  PROVE  /\ outbox.keys \subseteq outbox'.keys
         /\ \/ outbox' = outbox
            \/ \E p \in Process : Fills(p) \/ MarksSlot(p) \/ Unparks(p)
            \/ Empties
  <1> DEFINE Effect == /\ outbox.keys \subseteq outbox'.keys
                       /\ \/ outbox' = outbox
                          \/ \E p \in Process :
                               Fills(p) \/ MarksSlot(p) \/ Unparks(p)
                          \/ Empties
  <1>1. /\ outbox \in Document /\ TypeInv /\ CommandsSound /\ KeysHeld
        /\ SlotSound /\ SettledSound
    BY SameSets DEF PlaneInv, Outbox!IInv, Outbox!TypeOK
  <1>2. CASE outbox' = outbox
    BY <1>2
  <1>3. ASSUME NEW p \in Process, ProcessStep(p), outbox' # outbox
        PROVE  Effect
    <2> DEFINE key == proc[p].key
    <2>1. proc[p] \in ProcState /\ CommandSound(proc[p])
      BY <1>1 DEF TypeInv, CommandsSound
    <2>2. proc[p].start \in Nat /\ proc[p].clock \in Nat
      BY <2>1, InstanceAssumptions DEF ProcState
    <2>3. CASE RecoverOutbox(p)
      <3>1. outbox' = Recover(outbox)
        BY <1>3, <2>3 DEF RecoverOutbox
      <3>2. outbox.inFlight # NoEntry
        BY <1>3, <3>1 DEF Recover
      <3>3. /\ outbox'.inFlight = NoEntry
            /\ outbox'.keys = outbox.keys
            /\ outbox.inFlight.state = "Attempted" => ParksSlot(outbox, outbox')
            /\ outbox.inFlight.state # "Attempted" => ClosesSlot(outbox, outbox')
        BY <1>1, <3>1, <3>2, RecoverLands
      <3>4. ASSUME outbox.inFlight.state # "Attempted",
                   PermitsSend(outbox.inFlight.key)
            PROVE  /\ outbox.inFlight.key \notin Heard \ halfway
                   /\ \A q \in Process :
                        proc[q].pc \in {"journalAttempt", "dispatch"}
                          => proc[q].key # outbox.inFlight.key
        BY <1>1, <3>2, <3>4 DEF SlotSound, HasInFlight, Holding
      <3>5. QED
        BY <3>2, <3>3, <3>4 DEF Empties
    <2>4. CASE ReserveEntry(p)
      <3> DEFINE reserved == Reserve(outbox, key, PermitsSend(key),
                               StagingOf(p, key), proc[p].start, GeneralMaximum)
      <3>1. /\ outbox' = reserved /\ proc[p].pc = "reserve"
            /\ CanReserve(outbox, key, proc[p].start, GeneralMaximum)
        BY <1>3, <2>4 DEF ReserveEntry
      <3>2. key \in Key
        BY <2>1, <2>4 DEF ReserveEntry, CommandSound, Preparing
      <3>3. /\ PermitsSend(key) \in BOOLEAN /\ GeneralMaximum \in Nat
            /\ StagingOf(p, key) \in Staging \cup {NoStaging}
        BY <3>2, ControlPlaneAssumption DEF PermitsSend, StagingOf
      <3>4. /\ reserved.inFlight # NoEntry /\ reserved.inFlight.key = key
            /\ reserved.keys = outbox.keys \cup {key}
        <4>1. ASSUME NEW k \in Key, NEW permit \in BOOLEAN,
                     NEW staging \in Staging \cup {NoStaging},
                     NEW t \in Nat
              PROVE  /\ Reserve(outbox, k, permit, staging, t,
                               GeneralMaximum).inFlight # NoEntry
                     /\ Reserve(outbox, k, permit, staging, t,
                               GeneralMaximum).inFlight.key = k
                     /\ Reserve(outbox, k, permit, staging, t,
                               GeneralMaximum).keys = outbox.keys \cup {k}
          BY <1>1, <3>3, ReserveEffect
        <4>2. /\ key \in Key /\ PermitsSend(key) \in BOOLEAN
              /\ StagingOf(p, key) \in Staging \cup {NoStaging}
              /\ proc[p].start \in Nat
          BY <2>2, <3>2, <3>3
        <4> HIDE DEF key
        <4>3. QED
          BY <4>1, <4>2
      <3> HIDE DEF reserved
      <3>5. QED
        BY <3>1, <3>4 DEF CanReserve, Admitted, Fills
    <2>5. CASE MarkAttemptedEntry(p)
      <3>1. /\ outbox' = MarkAttempted(outbox, proc[p].start)
            /\ CanMarkAttempted(outbox, key) /\ proc[p].pc = "markAttempted"
        BY <1>3, <2>5 DEF MarkAttemptedEntry, storeVars
      <3>2. outbox.inFlight # NoEntry /\ outbox.inFlight.key = key
        BY <3>1 DEF CanMarkAttempted, HasInFlight
      <3>3. /\ outbox'.inFlight # NoEntry
            /\ outbox'.inFlight.key = key
            /\ outbox'.inFlight.attemptedAt = proc[p].start
                      /\ outbox'.keys = outbox.keys
        BY <1>1, <2>2, <3>1, <3>2, MarkEffect
      <3>4. QED
        BY <3>1, <3>2, <3>3 DEF MarksSlot, HasInFlight
    <2>6. CASE CompleteEntry(p)
      <3>1. /\ proc[p].pc = "complete"
            /\ CanComplete(outbox, key, proc[p].outcome)
            /\ outbox' = Complete(outbox, proc[p].outcome, proc[p].attempted,
                                  proc[p].clock)
        BY <1>3, <2>6 DEF CompleteEntry
      <3>2. HasInFlight(outbox, key) /\ outbox.inFlight # NoEntry
              /\ outbox.inFlight.key = key
        BY <3>1 DEF CanComplete, HasInFlight
      <3>3. /\ proc[p].attempted \in BOOLEAN
            /\ proc[p].outcome \in Outcomes \ {"ObservedSent"}
        BY <3>1, <3>2, CompleteFits
      <3>4. /\ outbox'.inFlight = NoEntry
            /\ outbox'.keys = outbox.keys
            /\ proc[p].outcome = "AwaitingReconciliation"
                 => ParksSlot(outbox, outbox')
            /\ proc[p].outcome # "AwaitingReconciliation"
                 => ClosesSlot(outbox, outbox')
        BY <1>1, <2>2, <3>1, <3>2, <3>3, CompleteLands
      <3>5. ASSUME proc[p].outcome # "AwaitingReconciliation", PermitsSend(key)
            PROVE  /\ key \notin Heard \ halfway
                   /\ \A q \in Process :
                        proc[q].pc \in {"journalAttempt", "dispatch"}
                          => proc[q].key # key
        BY <1>1, <3>1, <3>5 DEF SettledSound, KeysHeld, Holding
      <3>6. QED
        BY <3>2, <3>4, <3>5 DEF Empties
    <2>7. CASE ResolveEntry(p)
      <3>1. /\ outbox' = Resolve(outbox, key, proc[p].outcome)
            /\ CanResolve(outbox, key, proc[p].outcome)
            /\ proc[p].pc = "resolve"
            /\ verdicts' = verdicts \cup {VerdictOn(p, e) : e \in ParkedWith(key)}
        BY <1>3, <2>7 DEF ResolveEntry
      <3>2. key \in Key /\ proc[p].outcome \in CompletionKinds
        BY <2>1, <3>1 DEF CommandSound, Resolving, CompletionKinds
      <3>3. Len(outbox.pending) <= 1
        BY DEF PlaneInv, Outbox!IInv, Outbox!SingleFlight
      <3>4. /\ outbox'.inFlight = outbox.inFlight
            /\ outbox'.keys = outbox.keys /\ outbox'.pending = <<>>
        BY <1>1, <3>1, <3>2, <3>3, ResolveLands
      <3>5. PICK i \in DOMAIN outbox.pending : outbox.pending[i].key = key
        BY <3>1 DEF CanResolve, PendingEntries
      <3>6. /\ outbox.inFlight = NoEntry
            /\ \A j \in DOMAIN outbox.pending : j = i
        BY <3>5, StoreShape
      <3>7. \A m \in Marks : m[1] = key
        BY <3>5, <3>6, StoreShape
      <3>8. QED
        BY <3>1, <3>4, <3>6, <3>7 DEF Unparks
    <2>8. QED
      BY <1>3, <2>3, <2>4, <2>5, <2>6, <2>7 DEF ProcessStep, Begin, Attest,
         ReadLive, Sweep, Precheck, Stage, MintRefused, Discard,
         JournalReconciliation, Observe, Decide, DiscardParked, Crash,
         JournalApproval, JournalAttempt, Dispatch, DispatchFails, storeVars
  <1>4. CASE UNCHANGED vars \/ HelperStep \/ OwnerTypes \/ ReplicaFollows \/ Tick
    BY <1>2, <1>4 DEF vars, HelperStep, HelperStart, PressReturn, ReleaseFails,
       SkillEnds, HelperDies, OwnerTypes, ReplicaFollows, Tick, storeVars
  <1>5. QED
    BY <1>2, <1>3, <1>4 DEF Next

\* What the steps make of the marks.
LEMMA MarkEffects ==
  ASSUME PlaneInv, PlaneInv', [Next]_vars
  PROVE  /\ outbox' = outbox => Marks' = Marks
         /\ \A p \in Process : Fills(p) => /\ Marks = {}
                                           /\ \A m \in Marks' : m[1] = proc[p].key
         /\ \A p \in Process : MarksSlot(p) =>
              /\ Marks' = {<<proc[p].key, proc[p].start>>}
              /\ \A m \in Marks : m[1] = proc[p].key
         /\ \A p \in Process : Unparks(p) => Marks' = {}
         /\ Empties => /\ \A m \in Marks : m[1] = outbox.inFlight.key
                       /\ \/ Marks' = Marks
                          \/ /\ ClosesSlot(outbox, outbox')
                             /\ ~ParksSlot(outbox, outbox')
                             /\ Marks' = {}
  <1>1. outbox' = outbox => Marks' = Marks
    BY DEF Marks
  <1>2. DOMAIN <<>> = {}
    OBVIOUS
  <1>3. ASSUME DOMAIN outbox'.pending = {}
        PROVE  /\ outbox'.inFlight = NoEntry => Marks' = {}
               /\ outbox'.inFlight # NoEntry =>
                    Marks' = {<<outbox'.inFlight.key, outbox'.inFlight.attemptedAt>>}
    <2>1. PendingEntries(outbox') = {}
      BY <1>3 DEF PendingEntries
    <2>2. CASE outbox'.inFlight = NoEntry
      <3>1. LiveEntries(outbox') = {}
        BY <2>1, <2>2 DEF LiveEntries
      <3>2. QED
        BY <2>2, <3>1 DEF Marks
    <2>3. CASE outbox'.inFlight # NoEntry
      <3>1. LiveEntries(outbox') = {outbox'.inFlight}
        BY <2>1, <2>3 DEF LiveEntries
      <3>2. QED
        BY <2>3, <3>1 DEF Marks
    <2>4. QED
      BY <2>2, <2>3
  <1>4. outbox'.inFlight # NoEntry => DOMAIN outbox'.pending = {}
    BY <1>2 DEF PlaneInv, Outbox!IInv, Outbox!SingleFlight
  <1>5. ASSUME NEW p \in Process, Fills(p)
        PROVE  Marks = {} /\ \A m \in Marks' : m[1] = proc[p].key
    BY <1>2, <1>3, <1>4, <1>5, StoreShape DEF Fills
  <1>6. ASSUME NEW p \in Process, MarksSlot(p)
        PROVE  /\ Marks' = {<<proc[p].key, proc[p].start>>}
               /\ \A m \in Marks : m[1] = proc[p].key
    BY <1>3, <1>4, <1>6, StoreShape DEF MarksSlot, HasInFlight
  <1>7. ASSUME NEW p \in Process, Unparks(p)
        PROVE  Marks' = {}
    BY <1>2, <1>3, <1>7 DEF Unparks
  <1>8. ASSUME Empties
        PROVE  /\ \A m \in Marks : m[1] = outbox.inFlight.key
               /\ \/ Marks' = Marks
                  \/ /\ ClosesSlot(outbox, outbox')
                     /\ ~ParksSlot(outbox, outbox')
                     /\ Marks' = {}
    <2>1. \A m \in Marks : m[1] = outbox.inFlight.key
      BY <1>8, StoreShape DEF Empties
    <2>2. CASE ParksSlot(outbox, outbox')
      BY <1>8, <2>1, <2>2, ParkMarks DEF Empties
    <2>3. CASE ClosesSlot(outbox, outbox') /\ ~ParksSlot(outbox, outbox')
      <3>1. DOMAIN outbox'.pending = {}
        BY <1>8, <2>3, StoreShape DEF Empties, ClosesSlot
      <3>2. QED
        BY <1>3, <1>8, <2>1, <2>3, <3>1 DEF Empties
    <2>4. QED
      BY <1>8, <2>2, <2>3 DEF Empties
  <1>9. QED
    BY <1>1, <1>5, <1>6, <1>7, <1>8


LEMMA ChatInit == Init => ChatSound
  BY DEF Init, ChatSound

\* Messages come from the Return key or from the owner; neither messages nor
\* verdicts are taken back.
LEMMA ChatNext ==
  ASSUME PlaneInv, ChatSound, [Next]_vars
  PROVE  ChatSound' /\ chat \subseteq chat' /\ verdicts \subseteq verdicts'
  <1>1. TypeInv /\ returned \in [Key -> Nat]
    BY DEF PlaneInv, TypeInv
  <1>2. CASE PressReturn
    <2> DEFINE key == work.capability.key
               m == [key |-> key, body |-> BodyOf[key], at |-> now]
    <2>1. key \in Key
      BY <1>1, <1>2 DEF PressReturn, TypeInv, WorkRecord, CapabilityRecord
    <2>2. /\ returned' = [returned EXCEPT ![key] = @ + 1]
          /\ chat' = chat \/ chat' = chat \cup {m}
          /\ UNCHANGED <<verdicts, replica>>
      BY <1>2 DEF PressReturn, storeVars
    <2>3. m.key = key
      OBVIOUS
    <2> HIDE DEF m
    <2>4. /\ returned'[key] > 0
          /\ \A k \in Key : returned[k] > 0 => returned'[k] > 0
      BY <1>1, <2>1, <2>2
    <2> HIDE DEF key
    <2>5. QED
      BY <2>2, <2>3, <2>4 DEF ChatSound
  <1>3. CASE OwnerTypes
    <2>1. PICK body \in Typed :
            chat' = chat \cup {[key |-> NoKey, body |-> body, at |-> now]}
      BY <1>3 DEF OwnerTypes
    <2> DEFINE m == [key |-> NoKey, body |-> body, at |-> now]
    <2>2. m.key \notin Key
      BY ControlPlaneAssumption
    <2>3. chat' = chat \cup {m} /\ UNCHANGED <<verdicts, replica, returned>>
      BY <1>3, <2>1 DEF OwnerTypes, storeVars
    <2> HIDE DEF m
    <2>4. QED
      BY <2>2, <2>3 DEF ChatSound
  <1>4. CASE ~PressReturn /\ ~OwnerTypes
    <2>1. /\ UNCHANGED <<chat, returned>> /\ (replica' = replica \/ replica' = chat)
          /\ verdicts \subseteq verdicts'
      <3>1. ASSUME NEW p \in Process, ProcessStep(p)
            PROVE  /\ UNCHANGED <<chat, returned, replica>>
                   /\ verdicts \subseteq verdicts'
        BY <3>1, ProcessFrame DEF ResolveEntry
      <3>2. CASE HelperStart \/ ReleaseFails \/ SkillEnds \/ HelperDies
        BY <3>2 DEF HelperStart, ReleaseFails, SkillEnds, HelperDies, storeVars
      <3>3. CASE UNCHANGED vars \/ ReplicaFollows \/ Tick
        BY <3>3 DEF vars, storeVars, helperVars, ReplicaFollows, Tick
      <3>4. QED
        BY <1>4, <3>1, <3>2, <3>3 DEF Next, HelperStep
    <2>2. QED
      BY <2>1 DEF ChatSound
  <1>5. QED
    BY <1>2, <1>3, <1>4

\* A step that takes the mark of an attempt away is one after which, and
\* before which, its Return cannot be pressed.
LEMMA MarksKept ==
  ASSUME PlaneInv, PlaneInv', ChatSound, QuietInv, [Next]_vars,
         NEW k \in Key, NEW t \in Time, <<k, t>> \in Pressable,
         <<k, t>> \in Marks
  PROVE  <<k, t>> \in Marks' \/ k \in Misjudged'
  <1>1. <<k, t>> \in Marks /\ <<k, t>>[1] = k
    OBVIOUS
  <1>2. /\ returned[k] = 0 /\ PermitsSend(k)
        /\ now < t + Validity + SkillTime
        /\ \/ k \in Heard
           \/ \E p \in Process : /\ proc[p].pc \in {"journalAttempt", "dispatch"}
                                 /\ proc[p].key = k
    BY PressableFacts DEF QuietInv
  <1>3. KeysHeld /\ CommandsSound /\ TypeInv
    BY DEF PlaneInv
  <1>4. CASE outbox' = outbox
    BY <1>1, <1>4, MarkEffects
  <1>5. ASSUME NEW p \in Process, Fills(p)
        PROVE  FALSE
    BY <1>1, <1>5, MarkEffects
  <1>6. ASSUME NEW p \in Process, MarksSlot(p)
        PROVE  FALSE
    <2>1. proc[p].key = k /\ proc[p].pc = "markAttempted"
      BY <1>1, <1>6, MarkEffects DEF MarksSlot
    <2>2. k \notin Heard
      BY <1>3, <2>1 DEF KeysHeld, Holding
    <2>3. PICK q \in Process : /\ proc[q].pc \in {"journalAttempt", "dispatch"}
                               /\ proc[q].key = k
      BY <1>2, <2>2
    <2>4. p = q
      BY <1>3, <2>1, <2>3 DEF KeysHeld, Holding
    <2>5. QED
      BY <2>1, <2>3, <2>4
  <1>7. ASSUME NEW p \in Process, Unparks(p)
        PROVE  k \in Misjudged'
    <2>1. proc[p].key = k /\ proc[p].pc = "resolve" /\ outbox.inFlight = NoEntry
      BY <1>1, <1>7 DEF Unparks
    <2>2. PICK i \in DOMAIN outbox.pending :
            outbox.pending[i].key = k /\ outbox.pending[i].attemptedAt = t
      BY <1>1, <2>1, StoreShape
    <2> DEFINE v == VerdictOn(p, outbox.pending[i])
    <2>3. v \in verdicts'
      BY <1>7, <2>1, <2>2 DEF Unparks, ParkedWith, PendingEntries
    <2>4. /\ v.key = k /\ v.kind = proc[p].outcome /\ v.since = t
          /\ v.at = proc[p].start
          /\ v.own <=> \E m \in chat : m.key = k
      BY <2>2 DEF VerdictOn
    <2> HIDE DEF v
    <2>5. proc[p].outcome \in {"ObservedSent", "ObservedFailed"}
      BY <1>3, <2>1 DEF CommandsSound, CommandSound, Resolving
    <2>6. CASE proc[p].outcome = "ObservedSent"
      <3>1. ~v.own
        BY <1>2, <2>4 DEF ChatSound
      <3>2. QED
        BY <2>3, <2>4, <2>6, <3>1 DEF Misjudged
    <2>7. CASE proc[p].outcome = "ObservedFailed"
      <3>1. t + Grace <= proc[p].start
        BY <1>1, <2>1, <2>7 DEF QuietInv, ResolvingSound, Resolving
      <3>2. proc[p].start <= now
        BY <1>3 DEF CommandsSound, CommandSound
      <3>3. proc[p].start \in Nat /\ now \in Nat /\ t \in Nat
        BY <1>3, InstanceAssumptions DEF TypeInv, ProcState
      <3>4. {Grace, Validity, SkillTime} \subseteq Nat
        BY ControlPlaneAssumption
      <3>5. v.at >= v.since + Grace /\ v.at < v.since + Validity + SkillTime
        BY <1>2, <2>4, <3>1, <3>2, <3>3, <3>4
      <3>6. QED
        BY <2>3, <2>4, <2>7, <3>5 DEF Misjudged
    <2>8. QED
      BY <2>5, <2>6, <2>7
  <1>8. CASE Empties
    <2>1. k = outbox.inFlight.key
      BY <1>1, <1>8, MarkEffects
    <2>2. CASE Marks' = Marks
      BY <1>1, <2>2
    <2>3. CASE ClosesSlot(outbox, outbox') /\ ~ParksSlot(outbox, outbox')
      <3>1. k \notin halfway
        BY <1>2 DEF PlaneInv, HelperSound
      <3>2. QED
        BY <1>2, <1>8, <2>1, <2>3, <3>1 DEF Empties
    <2>4. QED
      BY <1>8, <2>2, <2>3, MarkEffects
  <1>9. QED
    BY <1>4, <1>5, <1>6, <1>7, <1>8, StoreEffects

\* Nothing may be pressed but the attempt that is live.
LEMMA PressableNext ==
  ASSUME PlaneInv, PlaneInv', ChatSound, QuietInv, [Next]_vars
  PROVE  PressableMarked'
  <1> SUFFICES ASSUME NEW k \in Key, NEW t \in Time, <<k, t>> \in Pressable'
               PROVE  <<k, t>> \in Marks' \/ k \in Misjudged'
    BY DEF PressableMarked, Pressable
  <1>1. CASE <<k, t>> \in Pressable
    <2>1. CASE <<k, t>> \in Marks
      BY <1>1, <2>1, MarksKept
    <2>2. CASE <<k, t>> \notin Marks
      <3>1. k \in Misjudged
        BY <1>1, <2>2 DEF QuietInv, PressableMarked
      <3>2. QED
        BY <3>1, ChatNext DEF Misjudged
    <2>3. QED
      BY <2>1, <2>2
  <1>2. CASE <<k, t>> \notin Pressable
    <2>1. PICK p \in Process : /\ MarkAttemptedEntry(p)
                               /\ proc'[p].pc = "journalAttempt"
                               /\ proc[p].key = k /\ proc[p].start = t
      BY <1>2, PressableStep DEF QuietInv
    <2>2. /\ TypeInv /\ outbox \in Document /\ proc[p].start \in Nat
      BY SameSets, InstanceAssumptions DEF PlaneInv, Outbox!IInv,
         Outbox!TypeOK, TypeInv, ProcState
    <2>3. proc[p].pc = "markAttempted" /\ ~End(p)
      BY <2>1, <2>2 DEF MarkAttemptedEntry, End, Idle, TypeInv
    <2>4. /\ outbox' = MarkAttempted(outbox, proc[p].start)
          /\ CanMarkAttempted(outbox, k)
      BY <2>1, <2>3 DEF MarkAttemptedEntry
    <2>5. outbox.inFlight # NoEntry /\ outbox.inFlight.key = k
      BY <2>4 DEF CanMarkAttempted, HasInFlight
    <2>6. /\ outbox'.inFlight # NoEntry
          /\ outbox'.inFlight.key = k
          /\ outbox'.inFlight.attemptedAt = proc[p].start
              BY <2>2, <2>4, <2>5, MarkEffect
    <2>7. MarksSlot(p)
      BY <2>1, <2>3, <2>5, <2>6 DEF MarksSlot, HasInFlight
    <2>8. QED
      BY <2>1, <2>7, MarkEffects
  <1>3. QED
    BY <1>1, <1>2


LEMMA ClockNext ==
  ASSUME PlaneInv, HelperClock, [Next]_vars
  PROVE  HelperClock'
  <1>1. /\ TypeInv /\ queue \in Seq(CapabilityRecord) /\ now \in Nat
        /\ Time \subseteq Nat /\ Validity \in Nat /\ SkillTime \in Nat
    BY ControlPlaneAssumption DEF PlaneInv, TypeInv, Time
  <1>2. CASE UNCHANGED <<queue, work, now>>
    BY <1>2 DEF HelperClock
  <1>3. ASSUME NEW p \in Process, Dispatch(p)
        PROVE  HelperClock'
    <2> DEFINE c == Capability(p)
    <2>1. /\ queue' = Append(queue, c) /\ UNCHANGED <<work, now>>
          /\ c.until = proc[p].start + Validity
      BY <1>3 DEF Dispatch, Capability
    <2>2. proc[p].start \in Time
      BY <1>1 DEF TypeInv, ProcState
    <2> HIDE DEF c
    <2>3. ASSUME NEW i \in DOMAIN queue'
          PROVE  \E t \in Time : queue'[i].until = t + Validity
      <3>1. \/ i \in DOMAIN queue /\ queue'[i] = queue[i]
            \/ queue'[i] = c
        BY <1>1, <2>1, <2>3
      <3>2. QED
        BY <2>1, <2>2, <3>1 DEF HelperClock
    <2>4. QED
      BY <2>1, <2>3 DEF HelperClock
  <1>4. CASE HelperStart
    <2> DEFINE c == Head(queue)
    <2>1. /\ queue # <<>> /\ queue' = Tail(queue) /\ now' = now
          /\ \/ work' = work
             \/ /\ now < c.until
                /\ work' = [capability |-> c, since |-> now, pressed |-> FALSE]
      BY <1>4 DEF HelperStart
    <2>2. /\ \A i \in DOMAIN queue' :
               i + 1 \in DOMAIN queue /\ queue'[i] = queue[i + 1]
          /\ 1 \in DOMAIN queue /\ c = queue[1]
      BY <1>1, <2>1, QueueTail
    <2> HIDE DEF c
    <2>3. \A i \in DOMAIN queue' : \E t \in Time : queue'[i].until = t + Validity
      BY <2>2 DEF HelperClock
    <2>4. CASE work' = work
      BY <2>1, <2>3, <2>4 DEF HelperClock
    <2>5. CASE /\ now < c.until
               /\ work' = [capability |-> c, since |-> now, pressed |-> FALSE]
      <3>1. /\ work'.capability = c /\ work'.since = now
            /\ now <= now + SkillTime
        BY <1>1, <2>5
      <3>2. \E t \in Time : c.until = t + Validity
        BY <2>2 DEF HelperClock
      <3>3. QED
        BY <2>1, <2>3, <2>5, <3>1, <3>2 DEF HelperClock
    <2>6. QED
      BY <2>1, <2>4, <2>5
  <1>5. CASE PressReturn
    <2>1. /\ work # NoWork /\ work \in WorkRecord
          /\ work' = [work EXCEPT !.pressed = TRUE]
          /\ UNCHANGED <<queue, now>>
      BY <1>1, <1>5 DEF PressReturn, TypeInv
    <2>2. work'.capability = work.capability /\ work'.since = work.since
      BY <2>1 DEF WorkRecord
    <2>3. QED
      BY <2>1, <2>2 DEF HelperClock
  <1>6. CASE ReleaseFails \/ SkillEnds
    BY <1>6 DEF ReleaseFails, SkillEnds, HelperClock
  <1>7. CASE HelperDies
    <2>1. DOMAIN <<>> = {}
      OBVIOUS
    <2>2. QED
      BY <1>7, <2>1 DEF HelperDies, HelperClock
  <1>8. CASE Tick
    <2>1. /\ UNCHANGED <<queue, work>> /\ now' = now + 1
          /\ work # NoWork => now < work.since + SkillTime
      BY <1>8 DEF Tick, helperVars
    <2>2. work # NoWork => work.since \in Nat
      BY <1>1 DEF TypeInv, WorkRecord
    <2>3. work # NoWork => now + 1 <= work.since + SkillTime
      BY <1>1, <2>1, <2>2
    <2>4. QED
      BY <2>1, <2>3 DEF HelperClock
  <1>9. QED
    BY <1>2, <1>3, <1>4, <1>5, <1>6, <1>7, <1>8, ProcessFrame DEF Next, vars,
       helperVars, HelperStep, OwnerTypes, ReplicaFollows

\* An attempt that has left the slot is marked no more.
LEMMA ParkedStays ==
  ASSUME PlaneInv, PlaneInv', [Next]_vars, NEW k \in outbox.keys,
         ~HasInFlight(outbox, k)
  PROVE  /\ k \in outbox'.keys
         /\ ~HasInFlight(outbox', k)
         /\ \A t : <<k, t>> \in Marks' => <<k, t>> \in Marks
  <1>1. outbox.keys \subseteq outbox'.keys
    BY StoreEffects
  <1>2. CASE outbox' = outbox
    BY <1>1, <1>2, MarkEffects
  <1>3. ASSUME NEW p \in Process, Fills(p)
        PROVE  /\ ~HasInFlight(outbox', k)
               /\ \A t : <<k, t>> \in Marks' => <<k, t>> \in Marks
    <2>1. proc[p].key # k /\ outbox'.inFlight.key # k
      BY <1>3 DEF Fills
    <2>2. \A m \in Marks' : m[1] = proc[p].key
      BY <1>3, MarkEffects
    <2>3. QED
      BY <2>1, <2>2 DEF HasInFlight
  <1>4. ASSUME NEW p \in Process, MarksSlot(p)
        PROVE  /\ ~HasInFlight(outbox', k)
               /\ \A t : <<k, t>> \in Marks' => <<k, t>> \in Marks
    <2>1. proc[p].key # k /\ outbox'.inFlight.key # k
      BY <1>4 DEF MarksSlot, HasInFlight
    <2>2. Marks' = {<<proc[p].key, proc[p].start>>}
      BY <1>4, MarkEffects
    <2>3. QED
      BY <2>1, <2>2 DEF HasInFlight
  <1>5. ASSUME NEW p \in Process, Unparks(p)
        PROVE  /\ ~HasInFlight(outbox', k)
               /\ \A t : <<k, t>> \in Marks' => <<k, t>> \in Marks
    <2>1. outbox'.inFlight = NoEntry /\ Marks' = {}
      BY <1>5, MarkEffects DEF Unparks
    <2>2. QED
      BY <2>1 DEF HasInFlight
  <1>6. CASE Empties
    <2>1. outbox'.inFlight = NoEntry /\ (Marks' = Marks \/ Marks' = {})
      BY <1>6, MarkEffects DEF Empties
    <2>2. QED
      BY <1>1, <2>1 DEF HasInFlight
  <1>7. QED
    BY <1>1, <1>2, <1>3, <1>4, <1>5, <1>6, StoreEffects

LEMMA ResolvingNext ==
  ASSUME PlaneInv, PlaneInv', ResolvingSound, [Next]_vars
  PROVE  ResolvingSound'
  <1> DEFINE Sound(r, d, marks) ==
        /\ r.key \in d.keys /\ ~HasInFlight(d, r.key)
        /\ r.outcome = "ObservedFailed" =>
             \A t \in Time : <<r.key, t>> \in marks => t + Grace <= r.start
  <1> SUFFICES ASSUME NEW p \in Process, proc'[p].pc \in Resolving
               PROVE  Sound(proc'[p], outbox', Marks')
    BY DEF ResolvingSound
  <1>1. /\ TypeInv /\ CommandsSound /\ Outbox!IInv
        /\ proc \in [Process -> ProcState]
    BY DEF PlaneInv, TypeInv
  <1>2. ASSUME proc[p].pc \in Resolving, proc'[p].key = proc[p].key,
               proc'[p].start = proc[p].start,
               proc'[p].outcome = proc[p].outcome
        PROVE  Sound(proc'[p], outbox', Marks')
    <2>1. Sound(proc[p], outbox, Marks)
      BY <1>2 DEF ResolvingSound
    <2>2. /\ proc[p].key \in outbox'.keys
          /\ ~HasInFlight(outbox', proc[p].key)
          /\ \A t \in Time :
               <<proc[p].key, t>> \in Marks' => <<proc[p].key, t>> \in Marks
      BY <2>1, ParkedStays
    <2>3. QED
      BY <1>2, <2>1, <2>2
  <1>3. CASE proc'[p] = proc[p]
    BY <1>2, <1>3
  <1>4. CASE Decide(p)
    <2> DEFINE found == proc[p].outcome = "ObservedSent"
               r == [proc[p] EXCEPT !.pc = "discardParked",
                                    !.outcome = "ObservedFailed"]
               s == [proc[p] EXCEPT !.pc = "discardParked"]
    <2>1. outbox' = outbox /\ Marks' = Marks
      BY <1>4, MarkEffects DEF Decide, storeVars
    <2>2. ~End(p)
      BY <1>1 DEF End, Idle, Resolving
    <2>3. PICK e \in ParkedWith(proc[p].key) :
            \/ found /\ proc' = [proc EXCEPT ![p] = s]
            \/ GraceElapsed(p, e) /\ proc' = [proc EXCEPT ![p] = r]
      BY <1>4, <2>2 DEF Decide, Goto
    <2>4. /\ proc[p] \in ProcState
          /\ r.key = proc[p].key /\ r.start = proc[p].start
          /\ s.key = proc[p].key /\ s.start = proc[p].start
          /\ s.outcome = proc[p].outcome
      BY <1>1 DEF ProcState
    <2> HIDE DEF r, s
    <2>5. /\ proc'[p].key = proc[p].key /\ proc'[p].start = proc[p].start
          /\ \/ proc'[p].outcome = "ObservedSent"
             \/ GraceElapsed(p, e)
      BY <1>1, <2>3, <2>4
    <2>6. PICK i \in DOMAIN outbox.pending :
            outbox.pending[i] = e /\ e.key = proc[p].key
      BY <2>3 DEF ParkedWith, PendingEntries
    <2>7. /\ outbox.inFlight = NoEntry
          /\ \A j \in DOMAIN outbox.pending : j = i
          /\ outbox \in Document /\ e \in Entry /\ e \in LiveEntries(outbox)
      BY <2>6, StoreShape DEF LiveEntries, PendingEntries, Document, ParkedEntry
    <2>8. \A m \in Marks : m[1] = e.key /\ m[2] = e.attemptedAt
      BY <2>6, <2>7, StoreShape
    <2>9. e.key \in outbox.keys
      BY <1>1, <2>6 DEF Outbox!IInv, Outbox!LiveReserved
    <2>10. ASSUME GraceElapsed(p, e), NEW t \in Time, <<proc[p].key, t>> \in Marks
           PROVE  t + Grace <= proc[p].start
      <3>1. t = e.attemptedAt
        BY <2>8, <2>10
      <3>2. t \in Nat /\ proc[p].start \in Nat /\ Grace \in Nat
        BY <2>4, InstanceAssumptions, ControlPlaneAssumption DEF ProcState
      <3>3. QED
        BY <2>10, <3>1, <3>2 DEF GraceElapsed
    <2>11. QED
      BY <2>1, <2>5, <2>6, <2>7, <2>9, <2>10 DEF HasInFlight
  <1>5. CASE ProcessStep(p) /\ ~Decide(p)
    <2>1. Follows(p, proc'[p])
      BY <1>5, ProcessMoves
    <2>2. QED
      BY <1>2, <1>5, <2>1 DEF Follows
  <1>6. ASSUME NEW q \in Process, ProcessStep(q), q # p
        PROVE  proc'[p] = proc[p]
    BY <1>6, ProcessMoves
  <1>7. HelperStep => proc'[p] = proc[p]
    BY HelperMoves DEF Resolving
  <1>8. UNCHANGED vars \/ OwnerTypes \/ ReplicaFollows \/ Tick
          => proc'[p] = proc[p]
    BY DEF vars, OwnerTypes, ReplicaFollows, Tick
  <1>9. QED
    BY <1>3, <1>4, <1>5, <1>6, <1>7, <1>8 DEF Next


-----------------------------------------------------------------------------
(* Sent means observed.                                                      *)

\* A message found for a parked attempt is a match of it, and of no other mark.
LEMMA FoundIsMatched ==
  ASSUME PlaneInv, ChatSound, NEW k, ConcludesSent(k)
  PROVE  /\ k \in outbox.keys /\ ~HasInFlight(outbox, k)
         /\ \A t : <<k, t>> \in Marks => Matched(k, t)
  <1>1. PICK e \in PendingEntries(outbox) : e.key = k /\ FoundInReplica(e)
    BY DEF ConcludesSent
  <1>2. PICK i \in DOMAIN outbox.pending : outbox.pending[i] = e
    BY DEF PendingEntries
  <1>3. k \in outbox.keys /\ outbox.inFlight = NoEntry
    BY <1>1, <1>2, StoreShape DEF PlaneInv, Outbox!IInv, Outbox!LiveReserved
  <1>4. <<k, e.attemptedAt>> \in Marks
    BY <1>1, <1>2, <1>3, StoreShape
  <1>5. Matched(k, e.attemptedAt)
    BY <1>1 DEF FoundInReplica, ChatSound, Matched
  <1>6. \A t : <<k, t>> \in Marks => t = e.attemptedAt
    BY <1>4, OneMark
  <1>7. QED
    BY <1>3, <1>5, <1>6 DEF HasInFlight

LEMMA SentInit == Init => SentSound
  BY DEF Init, SentSound, SentHasMatch, Idle

LEMMA SentNext ==
  ASSUME PlaneInv, PlaneInv', ChatSound, SentSound, [Next]_vars
  PROVE  SentSound'
  <1>1. CommandsSound' /\ chat \subseteq chat'
    BY ChatNext DEF PlaneInv
  <1>2. \A k, t : Matched(k, t) => Matched(k, t)'
    BY <1>1 DEF Matched
  <1>3. ASSUME NEW q \in Process, proc'[q].outcome = "ObservedSent",
               NEW k, k = proc'[q].key, k \notin Attested
        PROVE  /\ k \in outbox'.keys /\ ~HasInFlight(outbox', k)
               /\ \A t : <<k, t>> \in Marks' => Matched(k, t)'
    <2>1. proc'[q].pc # "complete"
      BY <1>1, <1>3 DEF CommandsSound, CommandSound
    <2>2. \/ proc'[q] = proc[q]
          \/ /\ proc'[q].key = proc[q].key
             /\ proc[q].outcome = "ObservedSent" \/ ConcludesSent(proc[q].key)
      <3>1. CASE ProcessStep(q)
        BY <1>3, <2>1, <3>1, ProcessMoves DEF Follows
      <3>2. ASSUME NEW p \in Process, ProcessStep(p), p # q
            PROVE  proc'[q] = proc[q]
        BY <3>2, ProcessMoves
      <3>3. CASE HelperStep
        BY <2>1, <3>3, HelperMoves
      <3>4. CASE UNCHANGED vars \/ OwnerTypes \/ ReplicaFollows \/ Tick
        BY <3>4 DEF vars, OwnerTypes, ReplicaFollows, Tick
      <3>5. QED
        BY <3>1, <3>2, <3>3, <3>4 DEF Next
    <2>3. /\ k \in outbox.keys /\ ~HasInFlight(outbox, k)
          /\ \A t : <<k, t>> \in Marks => Matched(k, t)
      <3>1. CASE proc[q].outcome = "ObservedSent" /\ proc[q].key = k
        BY <1>3, <3>1 DEF SentSound
      <3>2. CASE ConcludesSent(proc[q].key) /\ proc[q].key = k
        BY <3>2, FoundIsMatched
      <3>3. QED
        BY <1>3, <2>2, <3>1, <3>2
    <2>4. /\ k \in outbox'.keys /\ ~HasInFlight(outbox', k)
          /\ \A t : <<k, t>> \in Marks' => <<k, t>> \in Marks
      BY <2>3, ParkedStays
    <2>5. QED
      BY <1>2, <2>3, <2>4
  <1>4. SentHasMatch'
    <2> SUFFICES ASSUME NEW v, v \in verdicts', v.kind = "ObservedSent",
                        v.key \notin Attested
                 PROVE  Matched(v.key, v.since)'
      BY DEF SentHasMatch, Matched
    <2>1. CASE v \in verdicts
      <3>1. Matched(v.key, v.since)
        BY <2>1 DEF SentSound, SentHasMatch, Matched
      <3>2. QED
        BY <1>2, <3>1
    <2>2. CASE v \notin verdicts
      <3>1. PICK p \in Process :
              /\ ResolveEntry(p)
              /\ v \in {VerdictOn(p, e) : e \in ParkedWith(proc[p].key)}
        <4>1. PICK p \in Process : ResolveEntry(p) /\ verdicts' # verdicts
          BY <2>2, ProcessFrame DEF Next, vars, storeVars, HelperStep,
             HelperStart, PressReturn, ReleaseFails, SkillEnds, HelperDies,
             OwnerTypes, ReplicaFollows, Tick
        <4>2. QED
          BY <2>2, <4>1 DEF ResolveEntry
      <3>2. PICK e \in ParkedWith(proc[p].key) : v = VerdictOn(p, e)
        BY <3>1
      <3>3. /\ v.key = proc[p].key /\ v.since = e.attemptedAt
            /\ proc[p].outcome = "ObservedSent"
        BY <3>2 DEF VerdictOn, ParkedWith
      <3>4. <<proc[p].key, e.attemptedAt>> \in Marks
        BY <3>2 DEF Marks, LiveEntries, ParkedWith
      <3>5. Matched(v.key, v.since)
        BY <3>3, <3>4 DEF SentSound
      <3>6. QED
        BY <1>2, <3>5
    <2>3. QED
      BY <2>1, <2>2
  <1>5. QED
    BY <1>3, <1>4 DEF SentSound

(* Sent means observed: what reconcile concludes sent without an operator's  *)
(* word has an outgoing message in the client that reads the same, recorded  *)
(* no earlier than the lookback allows.                                      *)
THEOREM SentHolds == Spec => []SentHasMatch
  <1>1. PlaneInv /\ ChatSound /\ [Next]_vars => ChatSound'
    BY ChatNext
  <1>2. PlaneInv /\ ChatSound /\ SentSound /\ PlaneInv' /\ [Next]_vars
          => SentSound'
    BY SentNext
  <1>3. SentSound => SentHasMatch
    BY DEF SentSound
  <1>4. QED
    BY <1>1, <1>2, <1>3, ChatInit, SentInit, PlaneInvariance, PTL DEF Spec

-----------------------------------------------------------------------------
(* Resolved means over, but for what reconciliation misjudged.               *)

LEMMA QuietInit == Init => QuietInv
  <1> SUFFICES ASSUME Init PROVE QuietInv
    OBVIOUS
  <1>1. /\ proc = [p \in Process |-> Idle] /\ queue = <<>> /\ work = NoWork
        /\ DOMAIN queue = {}
    BY DEF Init
  <1>2. \A p \in Process : proc[p].pc = "idle"
    BY <1>1 DEF Idle
  <1>3. Pressable = {}
    BY <1>1, <1>2 DEF Pressable, InWork
  <1>4. QED
    BY <1>1, <1>2, <1>3 DEF QuietInv, PressableMarked, HelperClock,
       ResolvingSound, Resolving

LEMMA QuietNext ==
  ASSUME PlaneInv, PlaneInv', ChatSound, QuietInv, [Next]_vars
  PROVE  QuietInv'
  BY PressableNext, ClockNext, ResolvingNext DEF QuietInv

LEMMA MayPressMarked ==
  ASSUME PlaneInv, QuietInv, NEW k \in Key, k \notin Misjudged, MayPress(k)
  PROVE  \E t \in Time : <<k, t>> \in Pressable /\ <<k, t>> \in Marks
  <1>1. HelperSound /\ HelperClock /\ PressableMarked
    BY DEF PlaneInv, QuietInv
  <1>2. CASE /\ work # NoWork /\ work.capability.key = k
             /\ work.capability.permitSend /\ ~work.pressed
    <2>1. PICK t \in Time : work.capability.until = t + Validity
      BY <1>1, <1>2 DEF HelperClock
    <2>2. PermitsSend(k) /\ InWork(k) /\ ~work.pressed
      BY <1>1, <1>2 DEF HelperSound, InWork
    <2>3. <<k, t>> \in Pressable
      BY <2>1, <2>2 DEF Pressable
    <2>4. QED
      BY <1>1, <2>3 DEF PressableMarked
  <1>3. CASE \E i \in DOMAIN queue : queue[i].key = k /\ queue[i].permitSend
                                     /\ now < queue[i].until
    <2>1. PICK i \in DOMAIN queue : queue[i].key = k /\ queue[i].permitSend
                                    /\ now < queue[i].until
      BY <1>3
    <2>2. PICK t \in Time : queue[i].until = t + Validity
      BY <1>1 DEF HelperClock
    <2>3. PermitsSend(k)
      BY <1>1, <2>1 DEF HelperSound
    <2>4. <<k, t>> \in Pressable
      BY <2>1, <2>2, <2>3 DEF Pressable
    <2>5. QED
      BY <1>1, <2>4 DEF PressableMarked
  <1>4. QED
    BY <1>2, <1>3 DEF MayPress

(* Quiet when resolved: once reconcile, a settlement or a recovery has       *)
(* recorded how a key ended, the helper holds no capability that may still   *)
(* press Return for it, unless reconciliation misjudged the key: a verdict   *)
(* of sent without a message of its own, or one of failed before the time a  *)
(* capability and the skill's work on it may take.                           *)
THEOREM QuietHolds == Spec => []QuietWhenResolved
  <1>1. PlaneInv /\ ChatSound /\ [Next]_vars => ChatSound'
    BY ChatNext
  <1>2. PlaneInv /\ ChatSound /\ QuietInv /\ PlaneInv' /\ [Next]_vars => QuietInv'
    BY QuietNext
  <1>3. PlaneInv /\ QuietInv => QuietWhenResolved
    <2> SUFFICES ASSUME PlaneInv, QuietInv, NEW key \in Key, key \notin Misjudged,
                        NEW c \in CompletionsOf(key), MayPress(key)
                 PROVE  FALSE
      BY DEF QuietWhenResolved
    <2>1. ~HasInFlight(outbox, key) /\ key \notin ParkedKeys
      BY DEF PlaneInv, ClosedSound, CompletionsOf
    <2>2. PICK t \in Time : <<key, t>> \in Marks
      BY MayPressMarked
    <2>3. PICK e \in LiveEntries(outbox) : e.key = key
      BY <2>2 DEF Marks
    <2>4. QED
      BY <2>1, <2>3 DEF LiveEntries, PendingEntries, ParkedKeys, HasInFlight
  <1>4. QED
    BY <1>1, <1>2, <1>3, ChatInit, QuietInit, PlaneInvariance, PTL DEF Spec

(* Single flight reaches the client: beside the keys reconciliation          *)
(* misjudged, the helper may still press Return for one key at most, and for *)
(* one the outbox has live.                                                  *)
THEOREM OneSendHolds == Spec => []OneSendAtATime
  <1>1. PlaneInv /\ ChatSound /\ [Next]_vars => ChatSound'
    BY ChatNext
  <1>2. PlaneInv /\ ChatSound /\ QuietInv /\ PlaneInv' /\ [Next]_vars => QuietInv'
    BY QuietNext
  <1>3. PlaneInv /\ QuietInv => OneSendAtATime
    <2> SUFFICES ASSUME PlaneInv, QuietInv, NEW j \in Key, NEW k \in Key,
                        j \notin Misjudged, k \notin Misjudged,
                        MayPress(j), MayPress(k)
                 PROVE  j = k
      BY DEF OneSendAtATime
    <2>1. PICK t \in Time : <<j, t>> \in Marks
      BY MayPressMarked
    <2>2. QED
      BY <2>1, MayPressMarked, OneMark
  <1>4. QED
    BY <1>1, <1>2, <1>3, ChatInit, QuietInit, PlaneInvariance, PTL DEF Spec

=============================================================================
