--------------------------- MODULE SendOutboxState ---------------------------
(***************************************************************************)
(* The send outbox document and the pure operations on it, translated from *)
(* Native/GreenBubbles/src/send_outbox.rs: what one exclusive transaction  *)
(* may do to the document.  An operation of the code returns an error or   *)
(* mutates a copy of the document; here it is a guard (CanReserve, ...)    *)
(* and the resulting document (Reserve, ...).                              *)
(*                                                                         *)
(* Digests are members of Key and Approval.  Time is a natural number of   *)
(* nanoseconds; the u128 saturation of the code is out of reach of any     *)
(* clock and is left out.  The capacities the code fixes as constants      *)
(* (100 000 keys, 512 completions, 16 pending) are parameters.             *)
(***************************************************************************)
EXTENDS Naturals, Sequences, FiniteSets, FiniteSetsExt

CONSTANTS
  Key,              \* idempotency keys
  Approval,         \* approval ids
  ApprovalOf,       \* the approval each key was derived from
  NoEntry,          \* in_flight = None
  Never,            \* attempted_at = None
  Staging,          \* the directories of staged attachments
  NoStaging,        \* staging_directory = None: not an attachment
  MaxKeys,          \* MAXIMUM_RESERVED_IDEMPOTENCY_KEYS
  MaxCompletions,   \* MAXIMUM_COMPLETION_HISTORY
  MaxPending,       \* MAXIMUM_PENDING_RECONCILIATION
  WindowLength,     \* attempt_window_seconds
  FailureThreshold, \* circuit_breaker_failure_threshold
  Cooldown,         \* circuit_breaker_cooldown_seconds
  IdBytes,          \* serialized size of one remembered key or approval id,
  EntryBytes,       \* of a reserved entry,
  AttemptBytes,     \* what the attempt time adds to it,
  ParkBytes,        \* what the state awaitingReconciliation adds to it,
  CompletionBytes,  \* of a completion
  MaxBytes          \* MAXIMUM_OUTBOX_BYTES

EntryStates == {"Reserved", "Attempted", "AwaitingReconciliation"}
CompletionKinds == {"DryRunCompleted", "ObservedSent", "ObservedFailed"}

\* SendCompletionKind::healthy
Healthy(kind) == kind \in {"DryRunCompleted", "ObservedSent"}

\* What settle_dispatch hands to `complete`: park the entry, or close it.
Outcomes == CompletionKinds \cup {"AwaitingReconciliation"}

Entry == [key : Key, permitSend : BOOLEAN, state : EntryStates,
          staging : Staging \cup {NoStaging},
          reservedAt : Nat, attemptedAt : Nat \cup {Never}]

\* The in-flight slot never holds a parked entry, nor the pending list
\* anything else.
InFlightEntry == {e \in Entry : e.state # "AwaitingReconciliation"}
ParkedEntry == {e \in Entry : e.state = "AwaitingReconciliation"}

Completion == [key : Key, attempted : BOOLEAN, completion : CompletionKinds,
               reconciled : BOOLEAN]

Window == [start : Nat, end : Nat, maximum : Nat, reserved : Nat]

\* openUntil = 0 stands for None: no clock reading is below it.
Breaker == [failures : Nat, openUntil : Nat]

Document == [window : Window, breaker : Breaker,
             inFlight : InFlightEntry \cup {NoEntry}, pending : Seq(ParkedEntry),
             keys : SUBSET Key, consumed : SUBSET Approval,
             completions : Seq(Completion),
             reservedTotal : Nat, completedTotal : Nat, recoveredTotal : Nat]

ASSUME OutboxAssumption ==
  /\ ApprovalOf \in [Key -> Approval]
  /\ NoEntry \notin Entry
  /\ Never \notin Nat
  /\ {MaxKeys, MaxCompletions, MaxPending} \subseteq Nat \ {0}
  /\ {WindowLength, FailureThreshold, Cooldown} \subseteq Nat
  /\ {IdBytes, EntryBytes, AttemptBytes, ParkBytes, CompletionBytes,
      MaxBytes} \subseteq Nat

-----------------------------------------------------------------------------
(* SendOutboxState::new: an already elapsed window of no capacity.           *)
NewDocument(now) ==
  [window |-> [start |-> now, end |-> now, maximum |-> 0, reserved |-> 0],
   breaker |-> [failures |-> 0, openUntil |-> 0],
   inFlight |-> NoEntry, pending |-> <<>>,
   keys |-> {}, consumed |-> {}, completions |-> <<>>,
   reservedTotal |-> 0, completedTotal |-> 0, recoveredTotal |-> 0]

PendingEntries(d) == {d.pending[i] : i \in DOMAIN d.pending}

\* in_flight.iter().chain(&pending_reconciliation)
LiveEntries(d) ==
  PendingEntries(d) \cup (IF d.inFlight = NoEntry THEN {} ELSE {d.inFlight})

(* SendOutboxState::validate, which every read and every write runs.         *)
ValidDocument(d) ==
  /\ Cardinality(d.keys) <= MaxKeys
  /\ Len(d.completions) <= MaxCompletions
  /\ Len(d.pending) <= MaxPending
  /\ \A e \in LiveEntries(d) : e.key \in d.keys

(* The length of the serialized document; its fixed part is taken off        *)
(* MaxBytes.                                                                 *)
BytesOfEntry(e) ==
  EntryBytes + (IF e.attemptedAt = Never THEN 0 ELSE AttemptBytes)
             + (IF e.state = "AwaitingReconciliation" THEN ParkBytes ELSE 0)

Bytes(d) ==
  LET Live == LiveEntries(d) IN
  IdBytes * (Cardinality(d.keys) + Cardinality(d.consumed))
    + CompletionBytes * Len(d.completions)
    + MapThenSumSet(BytesOfEntry, Live)

\* `persist` measures the document without its final newline ...
Persistable(d) == ValidDocument(d) /\ Bytes(d) <= MaxBytes

\* ... and `read_state` measures the file, which ends with it.
Readable(d) == ValidDocument(d) /\ Bytes(d) + 1 <= MaxBytes

-----------------------------------------------------------------------------
(* The rate window and the circuit breaker.                                  *)

\* SendRateWindow::rolled.  A clock that stepped back also opens a new window.
Rolled(w, now, maximum) ==
  IF now >= w.end \/ now < w.start
  THEN [start |-> now,
        end |-> now + (IF WindowLength = 0 THEN 1 ELSE WindowLength),
        maximum |-> maximum, reserved |-> 0]
  ELSE [w EXCEPT !.maximum = maximum]

\* SendCircuitBreaker::open
BreakerOpen(b, now) == now < b.openUntil

\* SendCircuitBreaker::record_failure
RecordFailure(b, now) ==
  LET count == b.failures + 1 IN
  [failures  |-> count,
   openUntil |-> IF FailureThreshold > 0 /\ count >= FailureThreshold
                 THEN now + Cooldown ELSE b.openUntil]

\* SendCircuitBreaker::record_success
RecordSuccess == [failures |-> 0, openUntil |-> 0]

-----------------------------------------------------------------------------
(* Reservation and dispatch.                                                 *)

\* Mutant: nothing but the in-flight slot blocks a new reservation.
AdmittedWhileParked(d, now) ==
  d.inFlight = NoEntry /\ ~BreakerOpen(d.breaker, now)

\* SendOutboxState::admission_failure returns None
Admitted(d, now) ==
  /\ d.inFlight = NoEntry
  /\ d.pending = <<>>
  /\ ~BreakerOpen(d.breaker, now)

\* Mutant: the consumed approvals are not consulted.
CanReserveSpent(d, key, now, maximum) ==
  /\ Admitted(d, now)
  /\ key \notin d.keys
  /\ Cardinality(d.keys) < MaxKeys
  /\ Rolled(d.window, now, maximum).reserved < maximum

\* SendOutboxState::reserve returns Ok
CanReserve(d, key, now, maximum) ==
  /\ Admitted(d, now)
  /\ key \notin d.keys
  /\ ApprovalOf[key] \notin d.consumed
  /\ Cardinality(d.keys) < MaxKeys
  /\ Rolled(d.window, now, maximum).reserved < maximum

Reserve(d, key, permit, staging, now, maximum) ==
  LET w == Rolled(d.window, now, maximum) IN
  [d EXCEPT !.window = [w EXCEPT !.reserved = w.reserved + 1],
            !.keys = @ \cup {key},
            !.reservedTotal = @ + 1,
            !.inFlight = [key |-> key, permitSend |-> permit,
                          state |-> "Reserved", staging |-> staging,
                          reservedAt |-> now, attemptedAt |-> Never]]

\* The in-flight entry, when it is the caller's own
HasInFlight(d, key) == d.inFlight # NoEntry /\ d.inFlight.key = key

\* SendOutboxState::mark_attempted
CanMarkAttempted(d, key) ==
  /\ HasInFlight(d, key)
  /\ d.inFlight.permitSend
  /\ d.inFlight.state = "Reserved"

MarkAttempted(d, now) ==
  [d EXCEPT !.inFlight = [@ EXCEPT !.state = "Attempted", !.attemptedAt = now]]

-----------------------------------------------------------------------------
(* Settlement, reconciliation and recovery.                                  *)

\* Mutant: the total is read off the bounded history.
PushCompletionByLength(d, record) ==
  LET longer == Append(d.completions, record)
      kept == IF Len(longer) > MaxCompletions THEN Tail(longer) ELSE longer
  IN  [d EXCEPT !.completedTotal = Len(kept), !.completions = kept]

\* push_completion: the history is bounded, the total stays exact.
PushCompletion(d, record) ==
  LET longer == Append(d.completions, record) IN
  [d EXCEPT !.completedTotal = @ + 1,
            !.completions = IF Len(longer) > MaxCompletions THEN Tail(longer)
                            ELSE longer]

Park(d, e) ==
  [d EXCEPT !.inFlight = NoEntry,
            !.consumed = @ \cup {ApprovalOf[e.key]},
            !.pending = Append(@, [e EXCEPT !.state = "AwaitingReconciliation"])]

\* SendOutboxState::complete
CanComplete(d, key, outcome) ==
  /\ HasInFlight(d, key)
  /\ outcome = "AwaitingReconciliation" => Len(d.pending) < MaxPending

Complete(d, outcome, attempted, now) ==
  LET e == d.inFlight
      settled == [d EXCEPT
        !.inFlight = NoEntry,
        !.consumed = @ \cup {ApprovalOf[e.key]},
        !.breaker = IF outcome # "AwaitingReconciliation" /\ Healthy(outcome)
                    THEN RecordSuccess ELSE RecordFailure(@, now)]
  IN  IF outcome = "AwaitingReconciliation"
      THEN [Park(d, e) EXCEPT !.breaker = settled.breaker]
      ELSE PushCompletion(settled,
             [key |-> e.key, attempted |-> attempted, completion |-> outcome,
              reconciled |-> FALSE])

\* The position `resolve_pending` removes
PendingAt(d, key) == CHOOSE i \in DOMAIN d.pending :
  /\ d.pending[i].key = key
  /\ \A j \in 1 .. i - 1 : d.pending[j].key # key

CanResolve(d, key, kind) ==
  /\ kind # "DryRunCompleted"
  /\ \E e \in PendingEntries(d) : e.key = key

\* Mutant: an attempt that was not observed is put back in flight.
ResolveRetrying(d, key, kind) ==
  LET i == PendingAt(d, key) IN
  [d EXCEPT !.pending = SubSeq(@, 1, i - 1) \o SubSeq(@, i + 1, Len(@)),
            !.inFlight = [d.pending[i] EXCEPT !.state = "Reserved"]]

\* SendOutboxState::resolve_pending
Resolve(d, key, kind) ==
  LET i == PendingAt(d, key)
      e == d.pending[i]
      removed == [d EXCEPT
        !.pending = SubSeq(@, 1, i - 1) \o SubSeq(@, i + 1, Len(@)),
        !.breaker = IF Healthy(kind) THEN RecordSuccess ELSE @]
  IN  PushCompletion(removed,
        [key |-> key, attempted |-> e.attemptedAt # Never,
         completion |-> kind, reconciled |-> TRUE])

\* SendOutboxState::recover: close what was only reserved, park what was
\* attempted.  Neither path touches the breaker.
Recover(d) ==
  LET e == d.inFlight
      counted == [d EXCEPT !.recoveredTotal = @ + 1]
  IN  IF e = NoEntry THEN d
      ELSE IF e.state = "Attempted" THEN Park(counted, e)
      ELSE PushCompletion(
             [counted EXCEPT !.inFlight = NoEntry,
                             !.consumed = @ \cup {ApprovalOf[e.key]}],
             [key |-> e.key, attempted |-> FALSE,
              completion |-> "ObservedFailed", reconciled |-> FALSE])
=============================================================================
