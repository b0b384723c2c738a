----------------------------- MODULE SendOutbox -----------------------------
(***************************************************************************)
(* The send outbox as its clients see it: one persisted document and the   *)
(* exclusive, all-or-nothing transactions of SendOutbox::transaction.      *)
(* Every process of the control plane (execute, reconcile, doctor,         *)
(* outbox-status, recall-window) acts on the store only through these      *)
(* steps, in any order, with whatever clock reading it took earlier, so a  *)
(* `now` is chosen afresh by every step and need not increase.  A crash    *)
(* between transactions is the absence of the client's next step.          *)
(***************************************************************************)
EXTENDS SendOutboxState

CONSTANTS
  ClockReadings,  \* the times a client may pass as `now`
  Maxima          \* the window capacities a client may pass to `reserve`

ASSUME ClientAssumption == ClockReadings \subseteq Nat /\ Maxima \subseteq Nat

VARIABLES
  outbox,    \* the persisted document, outbox.json
  attempts   \* history: how often each approval was marked attempted

vars == <<outbox, attempts>>

TypeOK ==
  /\ outbox \in Document
  /\ attempts \in [Approval -> Nat]

Init ==
  /\ \E now \in ClockReadings : outbox = NewDocument(now)
  /\ attempts = [a \in Approval |-> 0]

\* SendOutbox::transaction: read and validate, run the operation, validate
\* and persist what it made of the document.
Transaction(document) ==
  /\ Readable(outbox)
  /\ Persistable(document)
  /\ outbox' = document

ReserveStep ==
  /\ \E key \in Key, now \in ClockReadings, max \in Maxima :
       /\ CanReserve(outbox, key, now, max)
       /\ \E permit \in BOOLEAN, staging \in Staging \cup {NoStaging} :
            Transaction(Reserve(outbox, key, permit, staging, now, max))
  /\ UNCHANGED attempts

MarkAttemptedStep ==
  \E key \in Key, now \in ClockReadings :
    /\ CanMarkAttempted(outbox, key)
    /\ Transaction(MarkAttempted(outbox, now))
    /\ attempts' = [attempts EXCEPT ![ApprovalOf[key]] = @ + 1]

\* The outcomes settle_dispatch can hand to `complete`: only a dispatch that
\* may press Return is parked, and none is ever settled as sent.
CompleteStep ==
  /\ \E key \in Key, outcome \in Outcomes \ {"ObservedSent"} :
       /\ CanComplete(outbox, key, outcome)
       /\ outbox.inFlight.permitSend <=> outbox.inFlight.state = "Attempted"
       /\ outcome = "AwaitingReconciliation" => outbox.inFlight.permitSend
       /\ \E now \in ClockReadings, attempted \in BOOLEAN :
            /\ attempted => outcome = "AwaitingReconciliation"
            /\ Transaction(Complete(outbox, outcome, attempted, now))
  /\ UNCHANGED attempts

ResolveStep ==
  \E key \in Key, kind \in {"ObservedSent", "ObservedFailed"} :
    /\ CanResolve(outbox, key, kind)
    /\ Transaction(Resolve(outbox, key, kind))
    /\ UNCHANGED attempts

\* SendOutbox::open, which any process runs, with or without an attempt of
\* its own or of another live process in flight.
OpenStep ==
  /\ Transaction(Recover(outbox))
  /\ UNCHANGED attempts

Next == ReserveStep \/ MarkAttemptedStep \/ CompleteStep \/ ResolveStep \/ OpenStep

Spec == Init /\ [][Next]_vars

-----------------------------------------------------------------------------
(* Single flight: one attempt at most is live, in flight or parked, whatever *)
(* the clients do; the park branch that meets a full pending list is dead.   *)
SingleFlight ==
  /\ Len(outbox.pending) <= 1
  /\ outbox.inFlight # NoEntry => outbox.pending = <<>>

(* An idempotency key is remembered for ever, and a key that is not live has *)
(* used up its approval: a retry of either is refused.                       *)
ApprovalsSpent ==
  \A key \in outbox.keys :
    (\E e \in LiveEntries(outbox) : e.key = key)
      \/ ApprovalOf[key] \in outbox.consumed

(* A second attempt requires a second approval: no approval is marked        *)
(* attempted twice, over any number of keys, crashes and recoveries.         *)
OneAttemptPerApproval == \A a \in Approval : attempts[a] <= 1

(* No reservation is lost: each is live or was settled exactly once, although*)
(* the history forgets the oldest completions.                               *)
ReservationsAccounted ==
  /\ outbox.reservedTotal = Cardinality(outbox.keys)
  /\ outbox.reservedTotal
       = outbox.completedTotal + Cardinality(LiveEntries(outbox))

(* Never re-dispatched: a key that left the in-flight slot does not return.  *)
NeverRedispatched ==
  [][\A key \in Key :
       (key \in outbox.keys /\ ~HasInFlight(outbox, key))
         => ~HasInFlight(outbox', key)]_vars
=============================================================================
