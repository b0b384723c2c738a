--------------------------- MODULE SendOutboxProof ---------------------------
(***************************************************************************)
(* What holds of the send outbox for every number of keys, approvals,      *)
(* clock readings and capacities.  IInv is the inductive invariant: the    *)
(* properties of SendOutbox are not inductive on their own, because what   *)
(* rules out a second attempt of an approval is that a reservation is      *)
(* admitted only while nothing is live and only for an unspent approval.   *)
(***************************************************************************)
EXTENDS SendOutbox, FiniteSetTheorems, TLAPS

(* Every live entry was reserved: the keys outlive the entries.              *)
LiveReserved ==
  /\ outbox.inFlight # NoEntry => outbox.inFlight.key \in outbox.keys
  /\ \A i \in DOMAIN outbox.pending : outbox.pending[i].key \in outbox.keys

(* The approval in flight is unspent until its entry leaves the slot.        *)
FlightUnspent ==
  outbox.inFlight # NoEntry =>
    ApprovalOf[outbox.inFlight.key] \notin outbox.consumed

(* A key that is not in flight has used up its approval.                     *)
FlownSpent ==
  \A key \in outbox.keys :
    HasInFlight(outbox, key) \/ ApprovalOf[key] \in outbox.consumed

(* An unspent approval was attempted only if it is in flight and attempted.  *)
UnspentUnattempted ==
  \A a \in Approval \ outbox.consumed :
    \/ attempts[a] = 0
    \/ /\ attempts[a] = 1
       /\ outbox.inFlight # NoEntry
       /\ outbox.inFlight.state = "Attempted"
       /\ ApprovalOf[outbox.inFlight.key] = a

IInv ==
  /\ TypeOK
  /\ SingleFlight
  /\ LiveReserved
  /\ FlightUnspent
  /\ FlownSpent
  /\ UnspentUnattempted
  /\ OneAttemptPerApproval

-----------------------------------------------------------------------------
(* Type lemmas: every operation maps documents to documents.                 *)

LEMMA RolledType ==
  ASSUME NEW w \in Window, NEW now \in Nat, NEW maximum \in Nat
  PROVE  Rolled(w, now, maximum) \in Window
  BY OutboxAssumption DEF Rolled, Window

LEMMA BreakerType ==
  ASSUME NEW b \in Breaker, NEW now \in Nat
  PROVE  /\ RecordFailure(b, now) \in Breaker
         /\ RecordSuccess \in Breaker
  BY OutboxAssumption DEF RecordFailure, RecordSuccess, Breaker

LEMMA PushCompletionType ==
  ASSUME NEW d \in Document, NEW record \in Completion
  PROVE  PushCompletion(d, record) \in Document
  <1> DEFINE longer == Append(d.completions, record)
  <1>1. d.completions \in Seq(Completion) /\ d.completedTotal + 1 \in Nat
    BY DEF Document
  <1>2. longer \in Seq(Completion) /\ Len(longer) > 0
    BY <1>1
  <1>3. Tail(longer) \in Seq(Completion)
    BY <1>2
  <1>4. QED
    BY <1>1, <1>2, <1>3 DEF PushCompletion, Document

LEMMA PushCompletionKeeps ==
  ASSUME NEW d \in Document, NEW record \in Completion
  PROVE  LET e == PushCompletion(d, record) IN
         /\ e.inFlight = d.inFlight
         /\ e.pending = d.pending
         /\ e.keys = d.keys
         /\ e.consumed = d.consumed
  BY DEF PushCompletion, Document

LEMMA ReserveType ==
  ASSUME NEW d \in Document, NEW key \in Key, NEW permit \in BOOLEAN,
         NEW staging \in Staging \cup {NoStaging},
         NEW now \in Nat, NEW maximum \in Nat
  PROVE  Reserve(d, key, permit, staging, now, maximum) \in Document
  <1> DEFINE w == Rolled(d.window, now, maximum)
             e == [key |-> key, permitSend |-> permit, state |-> "Reserved",
                   staging |-> staging, reservedAt |-> now,
                   attemptedAt |-> Never]
  <1>1. w \in Window
    BY RolledType DEF Document
  <1>2. [w EXCEPT !.reserved = w.reserved + 1] \in Window
    BY <1>1 DEF Window
  <1>3. e \in InFlightEntry
    BY DEF InFlightEntry, Entry, EntryStates
  <1>4. d.keys \cup {key} \in SUBSET Key /\ d.reservedTotal + 1 \in Nat
    BY DEF Document
  <1>5. QED
    BY <1>2, <1>3, <1>4 DEF Reserve, Document

LEMMA MarkAttemptedType ==
  ASSUME NEW d \in Document, NEW now \in Nat, d.inFlight # NoEntry
  PROVE  MarkAttempted(d, now) \in Document
  <1>1. d.inFlight \in InFlightEntry
    BY DEF Document
  <1>2. [d.inFlight EXCEPT !.state = "Attempted", !.attemptedAt = now]
          \in InFlightEntry
    BY <1>1 DEF InFlightEntry, Entry, EntryStates
  <1>3. QED
    BY <1>2 DEF MarkAttempted, Document

LEMMA ParkType ==
  ASSUME NEW d \in Document, NEW e \in InFlightEntry
  PROVE  Park(d, e) \in Document
  <1>1. [e EXCEPT !.state = "AwaitingReconciliation"] \in ParkedEntry
    BY DEF InFlightEntry, ParkedEntry, Entry, EntryStates
  <1>2. Append(d.pending, [e EXCEPT !.state = "AwaitingReconciliation"])
          \in Seq(ParkedEntry)
    BY <1>1 DEF Document
  <1>3. ApprovalOf[e.key] \in Approval
    BY OutboxAssumption DEF InFlightEntry, Entry
  <1>4. d.consumed \cup {ApprovalOf[e.key]} \in SUBSET Approval
    BY <1>3 DEF Document
  <1>5. QED
    BY <1>2, <1>4 DEF Park, Document

(* Closing the entry in flight without a completion: the common part of      *)
(* `complete` and `recover`.                                                 *)
LEMMA CloseType ==
  ASSUME NEW d \in Document, d.inFlight # NoEntry
  PROVE  /\ d.inFlight \in InFlightEntry
         /\ d.inFlight.key \in Key
         /\ ApprovalOf[d.inFlight.key] \in Approval
         /\ d.consumed \cup {ApprovalOf[d.inFlight.key]} \in SUBSET Approval
  <1>1. d.inFlight \in InFlightEntry
    BY DEF Document
  <1>2. d.inFlight.key \in Key
    BY <1>1 DEF InFlightEntry, Entry
  <1>3. ApprovalOf[d.inFlight.key] \in Approval
    BY <1>2, OutboxAssumption
  <1>4. QED
    BY <1>1, <1>2, <1>3 DEF Document

LEMMA CompleteType ==
  ASSUME NEW d \in Document, d.inFlight # NoEntry, NEW outcome \in Outcomes,
         NEW attempted \in BOOLEAN, NEW now \in Nat
  PROVE  Complete(d, outcome, attempted, now) \in Document
  <1> DEFINE e == d.inFlight
             breaker == IF outcome # "AwaitingReconciliation" /\ Healthy(outcome)
                        THEN RecordSuccess ELSE RecordFailure(d.breaker, now)
             settled == [d EXCEPT !.inFlight = NoEntry,
                                  !.consumed = @ \cup {ApprovalOf[e.key]},
                                  !.breaker = breaker]
             record == [key |-> e.key, attempted |-> attempted,
                        completion |-> outcome, reconciled |-> FALSE]
  <1>1. breaker \in Breaker
    BY BreakerType DEF Document
  <1>2. settled \in Document /\ settled.breaker = breaker
    BY <1>1, CloseType DEF Document
  <1>3. CASE outcome = "AwaitingReconciliation"
    <2>1. Park(d, e) \in Document
      BY ParkType, CloseType
    <2>2. [Park(d, e) EXCEPT !.breaker = settled.breaker] \in Document
      BY <1>1, <1>2, <2>1 DEF Document
    <2>3. QED
      BY <1>3, <2>2 DEF Complete
  <1>4. CASE outcome # "AwaitingReconciliation"
    <2>1. record \in Completion
      BY <1>4, CloseType DEF Completion, Outcomes
    <2>2. QED
      BY <1>2, <1>4, <2>1, PushCompletionType DEF Complete
  <1>5. QED
    BY <1>3, <1>4

(* What `complete` leaves in the parts of the document the invariant reads.  *)
LEMMA CompleteEffect ==
  ASSUME NEW d \in Document, d.inFlight # NoEntry, NEW outcome \in Outcomes,
         NEW attempted \in BOOLEAN, NEW now \in Nat
  PROVE  LET f == Complete(d, outcome, attempted, now) IN
         /\ f.inFlight = NoEntry
         /\ f.keys = d.keys
         /\ f.consumed = d.consumed \cup {ApprovalOf[d.inFlight.key]}
         /\ f.pending =
              IF outcome = "AwaitingReconciliation"
              THEN Append(d.pending,
                     [d.inFlight EXCEPT !.state = "AwaitingReconciliation"])
              ELSE d.pending
  <1>1. CASE outcome = "AwaitingReconciliation"
    BY <1>1 DEF Complete, Park, Document
  <1>2. CASE outcome # "AwaitingReconciliation"
    BY <1>2 DEF Complete, PushCompletion, Document
  <1>3. QED
    BY <1>1, <1>2

(* The same, for the slot alone.                                             *)
LEMMA CompleteEmptiesSlot ==
  ASSUME NEW d \in Document, d.inFlight # NoEntry, NEW outcome \in Outcomes,
         NEW attempted \in BOOLEAN, NEW now \in Nat
  PROVE  Complete(d, outcome, attempted, now).inFlight = NoEntry
  <1>1. CASE outcome = "AwaitingReconciliation"
    BY <1>1 DEF Complete, Park, Document
  <1>2. CASE outcome # "AwaitingReconciliation"
    BY <1>2 DEF Complete, PushCompletion, Document
  <1>3. QED
    BY <1>1, <1>2

LEMMA RecoverType ==
  ASSUME NEW d \in Document
  PROVE  Recover(d) \in Document
  <1> DEFINE e == d.inFlight
             counted == [d EXCEPT !.recoveredTotal = @ + 1]
             closed == [counted EXCEPT !.inFlight = NoEntry,
                                       !.consumed = @ \cup {ApprovalOf[e.key]}]
             record == [key |-> e.key, attempted |-> FALSE,
                        completion |-> "ObservedFailed", reconciled |-> FALSE]
  <1>1. CASE e = NoEntry
    <2>1. Recover(d) = d
      BY <1>1 DEF Recover
    <2>2. QED
      BY <2>1
  <1>2. CASE e # NoEntry
    <2>1. counted \in Document
      <3>1. d.recoveredTotal + 1 \in Nat
        BY DEF Document
      <3>2. QED
        BY <3>1, SMTT(60) DEF Document
    <2>2. Park(counted, e) \in Document
      BY <1>2, <2>1, CloseType, ParkType
    <2>3. d.consumed \cup {ApprovalOf[e.key]} \in SUBSET Approval
      BY <1>2, CloseType
    <2>4. closed \in Document
      BY <2>1, <2>3 DEF Document
    <2>5. record \in Completion
      BY <1>2, CloseType DEF Completion, CompletionKinds
    <2>6. PushCompletion(closed, record) \in Document
      BY <2>4, <2>5, PushCompletionType
    <2>7. QED
      BY <1>2, <2>2, <2>6 DEF Recover
  <1>3. QED
    BY <1>1, <1>2

LEMMA RecoverEffect ==
  ASSUME NEW d \in Document, d.inFlight # NoEntry
  PROVE  LET f == Recover(d) IN
         /\ f.inFlight = NoEntry
         /\ f.keys = d.keys
         /\ f.consumed = d.consumed \cup {ApprovalOf[d.inFlight.key]}
         /\ f.pending =
              IF d.inFlight.state = "Attempted"
              THEN Append(d.pending,
                     [d.inFlight EXCEPT !.state = "AwaitingReconciliation"])
              ELSE d.pending
  <1>1. CASE d.inFlight.state = "Attempted"
    BY <1>1 DEF Recover, Park, Document
  <1>2. CASE d.inFlight.state # "Attempted"
    BY <1>2 DEF Recover, PushCompletion, Document
  <1>3. QED
    BY <1>1, <1>2

(* Under single flight there is one parked entry, and resolving removes it.  *)
LEMMA ResolveEffect ==
  ASSUME NEW d \in Document, Len(d.pending) <= 1, NEW key \in Key,
         NEW kind \in CompletionKinds, CanResolve(d, key, kind)
  PROVE  LET f == Resolve(d, key, kind) IN
         /\ f \in Document
         /\ f.pending = <<>>
         /\ f.inFlight = d.inFlight
         /\ f.keys = d.keys
         /\ f.consumed = d.consumed
  <1> DEFINE i == PendingAt(d, key)
             e == d.pending[i]
             rest == SubSeq(d.pending, 1, i - 1)
                       \o SubSeq(d.pending, i + 1, Len(d.pending))
             removed == [d EXCEPT
               !.pending = rest,
               !.breaker = IF Healthy(kind) THEN RecordSuccess ELSE @]
             record == [key |-> key, attempted |-> e.attemptedAt # Never,
                        completion |-> kind, reconciled |-> TRUE]
  <1>1. d.pending \in Seq(ParkedEntry) /\ d.breaker \in Breaker
    BY DEF Document
  <1>2. PICK n \in DOMAIN d.pending : d.pending[n].key = key
    BY DEF CanResolve, PendingEntries
  <1>3. Len(d.pending) = 1 /\ DOMAIN d.pending = 1 .. 1 /\ n = 1
    <2>1. Len(d.pending) \in Nat /\ DOMAIN d.pending = 1 .. Len(d.pending)
      BY <1>1
    <2>2. n \in 1 .. Len(d.pending)
      BY <1>2, <2>1
    <2>3. Len(d.pending) = 1 /\ n = 1
      <3>1. \A l \in Nat : l <= 1 => \A m \in 1 .. l : l = 1 /\ m = 1
        OBVIOUS
      <3>2. QED
        BY <2>1, <2>2, <3>1
    <2>4. QED
      BY <2>1, <2>3
  <1>4. i = 1
    BY <1>2, <1>3 DEF PendingAt
  <1>5. rest = <<>>
    BY <1>1, <1>3, <1>4
  <1>6. removed \in Document
    <2>1. (IF Healthy(kind) THEN RecordSuccess ELSE d.breaker) \in Breaker
      BY <1>1 DEF RecordSuccess, Breaker
    <2>2. rest \in Seq(ParkedEntry)
      <3>1. <<>> \in Seq(ParkedEntry)
        OBVIOUS
      <3>2. QED
        BY <1>5, <3>1
    <2>3. QED
      BY <2>1, <2>2 DEF Document
  <1>7. record \in Completion
    BY DEF Completion
  <1>8. Resolve(d, key, kind) = PushCompletion(removed, record)
    BY DEF Resolve
  <1>9. /\ removed.pending = <<>>
        /\ removed.inFlight = d.inFlight
        /\ removed.keys = d.keys
        /\ removed.consumed = d.consumed
    BY <1>5 DEF Document
  <1>10. PushCompletion(removed, record) \in Document
    BY <1>6, <1>7, PushCompletionType
  <1>11. LET f == PushCompletion(removed, record) IN
         /\ f.inFlight = removed.inFlight
         /\ f.pending = removed.pending
         /\ f.keys = removed.keys
         /\ f.consumed = removed.consumed
    <2> HIDE DEF removed, record
    <2> QED
      BY <1>6, <1>7, PushCompletionKeeps
  <1>12. QED
    <2> HIDE DEF removed, record
    <2> QED
      BY <1>8, <1>9, <1>10, <1>11

-----------------------------------------------------------------------------
(* One lemma per transaction: it preserves IInv.                             *)

LEMMA InitInv == Init => IInv
  <1> SUFFICES ASSUME Init PROVE IInv
    OBVIOUS
  <1>1. PICK now \in ClockReadings : outbox = NewDocument(now)
    BY DEF Init
  <1>2. now \in Nat
    BY ClientAssumption
  <1>3. NewDocument(now) \in Document
    <2>1. /\ [start |-> now, end |-> now, maximum |-> 0, reserved |-> 0] \in Window
          /\ [failures |-> 0, openUntil |-> 0] \in Breaker
      BY <1>2 DEF Window, Breaker
    <2>2. <<>> \in Seq(ParkedEntry) /\ <<>> \in Seq(Completion)
      OBVIOUS
    <2>3. QED
      BY <2>1, <2>2 DEF NewDocument, Document
  <1>4. TypeOK
    BY <1>1, <1>3 DEF Init, TypeOK
  <1>5. /\ outbox.inFlight = NoEntry
        /\ outbox.pending = <<>>
        /\ outbox.keys = {}
    BY <1>1 DEF NewDocument
  <1>6. \A a \in Approval : attempts[a] = 0
    BY DEF Init
  <1>7. SingleFlight /\ LiveReserved
    BY <1>5 DEF SingleFlight, LiveReserved
  <1>8. QED
    BY <1>4, <1>5, <1>6, <1>7 DEF IInv, FlightUnspent, FlownSpent,
       UnspentUnattempted, OneAttemptPerApproval

LEMMA ReserveInv ==
  ASSUME IInv, ReserveStep
  PROVE  IInv'
  <1>1. PICK key \in Key, permit \in BOOLEAN,
             staging \in Staging \cup {NoStaging}, now \in ClockReadings,
             max \in Maxima :
          /\ CanReserve(outbox, key, now, max)
          /\ outbox' = Reserve(outbox, key, permit, staging, now, max)
    BY DEF ReserveStep, Transaction
  <1>2. now \in Nat /\ max \in Nat
    BY ClientAssumption
  <1>3. outbox \in Document /\ attempts \in [Approval -> Nat]
    BY DEF IInv, TypeOK
  <1>4. attempts' = attempts
    BY DEF ReserveStep
  <1>5. TypeOK'
    BY <1>1, <1>2, <1>3, <1>4, ReserveType DEF TypeOK
  <1>6. /\ outbox'.inFlight.key = key
        /\ outbox'.inFlight # NoEntry
        /\ outbox'.pending = outbox.pending
        /\ outbox'.keys = outbox.keys \cup {key}
        /\ outbox'.consumed = outbox.consumed
    <2>1. outbox'.inFlight = [key |-> key, permitSend |-> permit,
                              state |-> "Reserved", staging |-> staging,
                              reservedAt |-> now, attemptedAt |-> Never]
      BY <1>1, <1>3 DEF Reserve, Document
    <2>2. outbox'.inFlight \in Entry
      BY <1>2, <2>1 DEF Entry, EntryStates
    <2>3. QED
      BY <1>1, <1>3, <2>1, <2>2, OutboxAssumption DEF Reserve, Document
  <1>7. /\ outbox.inFlight = NoEntry
        /\ outbox.pending = <<>>
        /\ ApprovalOf[key] \notin outbox.consumed
    BY <1>1 DEF CanReserve, Admitted
  <1>8. SingleFlight' /\ LiveReserved' /\ FlightUnspent'
    BY <1>6, <1>7 DEF SingleFlight, LiveReserved, FlightUnspent
  <1>9. FlownSpent'
    BY <1>6, <1>7 DEF IInv, FlownSpent, HasInFlight
  <1>10. UnspentUnattempted' /\ OneAttemptPerApproval'
    BY <1>4, <1>6, <1>7 DEF IInv, UnspentUnattempted, OneAttemptPerApproval
  <1>11. QED
    BY <1>5, <1>8, <1>9, <1>10 DEF IInv

LEMMA MarkAttemptedInv ==
  ASSUME IInv, MarkAttemptedStep
  PROVE  IInv'
  <1>1. PICK key \in Key, now \in ClockReadings :
          /\ CanMarkAttempted(outbox, key)
          /\ outbox' = MarkAttempted(outbox, now)
          /\ attempts' = [attempts EXCEPT ![ApprovalOf[key]] = @ + 1]
    BY DEF MarkAttemptedStep, Transaction
  <1> DEFINE a == ApprovalOf[key]
  <1>2. now \in Nat
    BY ClientAssumption
  <1>3. outbox \in Document /\ attempts \in [Approval -> Nat]
    BY DEF IInv, TypeOK
  <1>4. /\ outbox.inFlight # NoEntry
        /\ outbox.inFlight.key = key
        /\ outbox.inFlight.state = "Reserved"
    BY <1>1 DEF CanMarkAttempted, HasInFlight
  <1>5. a \in Approval /\ outbox.inFlight \in Entry
    BY <1>3, <1>4, OutboxAssumption DEF Document, InFlightEntry
  <1>6. TypeOK'
    <2>1. outbox' \in Document
      BY <1>1, <1>2, <1>3, <1>4, MarkAttemptedType
    <2>2. attempts' \in [Approval -> Nat]
      BY <1>1, <1>3, <1>5
    <2>3. QED
      BY <2>1, <2>2 DEF TypeOK
  <1>7. /\ outbox'.inFlight # NoEntry
        /\ outbox'.inFlight.key = key
        /\ outbox'.inFlight.state = "Attempted"
        /\ outbox'.pending = outbox.pending
        /\ outbox'.keys = outbox.keys
        /\ outbox'.consumed = outbox.consumed
    <2>1. outbox'.inFlight = [outbox.inFlight EXCEPT !.state = "Attempted",
                                                     !.attemptedAt = now]
      BY <1>1, <1>3 DEF MarkAttempted, Document
    <2>2. outbox'.inFlight \in Entry
      BY <1>2, <1>5, <2>1 DEF Entry, EntryStates
    <2>3. outbox'.inFlight.key = key /\ outbox'.inFlight.state = "Attempted"
      BY <1>4, <1>5, <2>1 DEF Entry
    <2>4. QED
      BY <1>1, <1>3, <2>2, <2>3, OutboxAssumption DEF MarkAttempted, Document
  <1>8. SingleFlight' /\ LiveReserved' /\ FlightUnspent' /\ FlownSpent'
    BY <1>4, <1>7 DEF IInv, SingleFlight, LiveReserved, FlightUnspent,
       FlownSpent, HasInFlight
  <1>9. a \notin outbox.consumed /\ attempts[a] = 0
    BY <1>4, <1>5 DEF IInv, FlightUnspent, UnspentUnattempted
  <1>10. /\ attempts'[a] = 1
         /\ \A b \in Approval \ {a} : attempts'[b] = attempts[b]
    BY <1>1, <1>3, <1>5, <1>9
  <1>11. UnspentUnattempted'
    BY <1>4, <1>7, <1>10 DEF IInv, UnspentUnattempted
  <1>12. OneAttemptPerApproval'
    BY <1>10 DEF IInv, OneAttemptPerApproval
  <1>13. QED
    BY <1>6, <1>8, <1>11, <1>12 DEF IInv

(* Settling and recovering the entry in flight have the same effect on what  *)
(* the invariant reads: the slot empties, the approval is spent, and the     *)
(* entry is parked or closed.                                                *)
LEMMA LandingInv ==
  ASSUME IInv, TypeOK', UNCHANGED attempts, outbox.inFlight # NoEntry,
         outbox'.inFlight = NoEntry,
         outbox'.keys = outbox.keys,
         outbox'.consumed
           = outbox.consumed \cup {ApprovalOf[outbox.inFlight.key]},
         \/ outbox'.pending = outbox.pending
         \/ outbox'.pending = Append(outbox.pending,
              [outbox.inFlight EXCEPT !.state = "AwaitingReconciliation"])
  PROVE  IInv'
  <1> DEFINE parked ==
        [outbox.inFlight EXCEPT !.state = "AwaitingReconciliation"]
  <1>1. outbox \in Document /\ outbox.pending = <<>>
    BY DEF IInv, TypeOK, SingleFlight
  <1>2. outbox.inFlight \in Entry
    BY <1>1 DEF Document, InFlightEntry
  <1>3. parked.key = outbox.inFlight.key /\ parked.key \in outbox.keys
    BY <1>2 DEF Entry, IInv, LiveReserved
  <1>4. outbox'.pending = <<>> \/ outbox'.pending = <<parked>>
    BY <1>1
  <1>5. SingleFlight' /\ LiveReserved'
    <2>1. CASE outbox'.pending = <<>>
      BY <2>1 DEF SingleFlight, LiveReserved
    <2>2. CASE outbox'.pending = <<parked>>
      <3> HIDE DEF parked
      <3> QED
        BY <1>3, <2>2 DEF SingleFlight, LiveReserved
    <2>3. QED
      BY <1>4, <2>1, <2>2
  <1>6. FlightUnspent'
    BY DEF FlightUnspent
  <1>7. FlownSpent'
    BY DEF IInv, FlownSpent, HasInFlight
  <1>8. UnspentUnattempted' /\ OneAttemptPerApproval'
    BY DEF IInv, UnspentUnattempted, OneAttemptPerApproval
  <1>9. QED
    BY <1>5, <1>6, <1>7, <1>8 DEF IInv

LEMMA CompleteInv ==
  ASSUME IInv, CompleteStep
  PROVE  IInv'
  <1>1. PICK key \in Key, now \in ClockReadings, attempted \in BOOLEAN,
             outcome \in Outcomes \ {"ObservedSent"} :
          /\ CanComplete(outbox, key, outcome)
          /\ outbox' = Complete(outbox, outcome, attempted, now)
          /\ UNCHANGED attempts
    BY DEF CompleteStep, Transaction
  <1>2. outbox.inFlight # NoEntry
    BY <1>1 DEF CanComplete, HasInFlight
  <1>3. outbox \in Document /\ attempts \in [Approval -> Nat] /\ now \in Nat
    BY ClientAssumption DEF IInv, TypeOK
  <1>4. TypeOK'
    BY <1>1, <1>2, <1>3, CompleteType DEF TypeOK
  <1>5. /\ outbox'.inFlight = NoEntry
        /\ outbox'.keys = outbox.keys
        /\ outbox'.consumed
             = outbox.consumed \cup {ApprovalOf[outbox.inFlight.key]}
        /\ outbox'.pending =
              IF outcome = "AwaitingReconciliation"
              THEN Append(outbox.pending,
                     [outbox.inFlight EXCEPT !.state = "AwaitingReconciliation"])
              ELSE outbox.pending
    BY <1>1, <1>2, <1>3, CompleteEffect
  <1>6. QED
    BY <1>1, <1>2, <1>4, <1>5, LandingInv

LEMMA OpenInv ==
  ASSUME IInv, OpenStep
  PROVE  IInv'
  <1>1. outbox' = Recover(outbox) /\ UNCHANGED attempts
    BY DEF OpenStep, Transaction
  <1>2. outbox \in Document /\ attempts \in [Approval -> Nat]
    BY DEF IInv, TypeOK
  <1>3. CASE outbox.inFlight = NoEntry
    <2>1. outbox' = outbox
      BY <1>1, <1>3 DEF Recover
    <2>2. QED
      BY <1>1, <2>1 DEF IInv, TypeOK, SingleFlight, LiveReserved, FlightUnspent,
         FlownSpent, HasInFlight, UnspentUnattempted, OneAttemptPerApproval
  <1>4. CASE outbox.inFlight # NoEntry
    <2>1. TypeOK'
      BY <1>1, <1>2, RecoverType DEF TypeOK
    <2>2. /\ outbox'.inFlight = NoEntry
          /\ outbox'.keys = outbox.keys
          /\ outbox'.consumed
               = outbox.consumed \cup {ApprovalOf[outbox.inFlight.key]}
          /\ outbox'.pending =
                IF outbox.inFlight.state = "Attempted"
                THEN Append(outbox.pending,
                       [outbox.inFlight EXCEPT !.state = "AwaitingReconciliation"])
                ELSE outbox.pending
      BY <1>1, <1>2, <1>4, RecoverEffect
    <2>3. QED
      BY <1>1, <1>4, <2>1, <2>2, LandingInv
  <1>5. QED
    BY <1>3, <1>4

LEMMA ResolveInv ==
  ASSUME IInv, ResolveStep
  PROVE  IInv'
  <1>1. PICK key \in Key, kind \in {"ObservedSent", "ObservedFailed"} :
          /\ CanResolve(outbox, key, kind)
          /\ outbox' = Resolve(outbox, key, kind)
          /\ UNCHANGED attempts
    BY DEF ResolveStep, Transaction
  <1>2. outbox \in Document /\ attempts \in [Approval -> Nat]
        /\ Len(outbox.pending) <= 1 /\ kind \in CompletionKinds
    BY DEF IInv, TypeOK, SingleFlight, CompletionKinds
  <1>3. /\ outbox' \in Document
        /\ outbox'.pending = <<>>
        /\ outbox'.inFlight = outbox.inFlight
        /\ outbox'.keys = outbox.keys
        /\ outbox'.consumed = outbox.consumed
    BY <1>1, <1>2, ResolveEffect
  <1>4. TypeOK'
    BY <1>1, <1>2, <1>3 DEF TypeOK
  <1>5. SingleFlight' /\ LiveReserved'
    BY <1>3 DEF IInv, SingleFlight, LiveReserved
  <1>6. FlightUnspent' /\ FlownSpent' /\ UnspentUnattempted'
        /\ OneAttemptPerApproval'
    BY <1>1, <1>3 DEF IInv, FlightUnspent, FlownSpent, HasInFlight,
       UnspentUnattempted, OneAttemptPerApproval
  <1>7. QED
    BY <1>4, <1>5, <1>6 DEF IInv

-----------------------------------------------------------------------------

(* The inductive invariant holds in every state.                             *)
THEOREM Invariance == Spec => []IInv
  <1>1. IInv /\ [Next]_vars => IInv'
    <2> SUFFICES ASSUME IInv, [Next]_vars PROVE IInv'
      OBVIOUS
    <2>1. CASE ReserveStep
      BY <2>1, ReserveInv
    <2>2. CASE MarkAttemptedStep
      BY <2>2, MarkAttemptedInv
    <2>3. CASE CompleteStep
      BY <2>3, CompleteInv
    <2>4. CASE ResolveStep
      BY <2>4, ResolveInv
    <2>5. CASE OpenStep
      BY <2>5, OpenInv
    <2>6. CASE UNCHANGED vars
      BY <2>6 DEF vars, IInv, TypeOK, SingleFlight, LiveReserved, FlightUnspent,
         FlownSpent, HasInFlight, UnspentUnattempted, OneAttemptPerApproval
    <2>7. QED
      BY <2>1, <2>2, <2>3, <2>4, <2>5, <2>6 DEF Next
  <1>2. QED
    BY InitInv, <1>1, PTL DEF Spec

(* The document keeps its shape: a parked entry is never in the in-flight    *)
(* slot and an in-flight one never in the pending list.                      *)
THEOREM TypeCorrect == Spec => []TypeOK
  <1>1. IInv => TypeOK
    BY DEF IInv
  <1>2. QED
    BY Invariance, <1>1, PTL

(* One attempt at most is live, whatever the clients of the store do.        *)
THEOREM SingleFlightHolds == Spec => []SingleFlight
  <1>1. IInv => SingleFlight
    BY DEF IInv
  <1>2. QED
    BY Invariance, <1>1, PTL

(* A second attempt requires a second approval.                              *)
THEOREM OneAttemptHolds == Spec => []OneAttemptPerApproval
  <1>1. IInv => OneAttemptPerApproval
    BY DEF IInv
  <1>2. QED
    BY Invariance, <1>1, PTL

(* A remembered key that is not live has used up its approval.               *)
THEOREM ApprovalsSpentHolds == Spec => []ApprovalsSpent
  <1>1. IInv => ApprovalsSpent
    BY DEF IInv, FlownSpent, ApprovalsSpent, HasInFlight, LiveEntries
  <1>2. QED
    BY Invariance, <1>1, PTL

(* What a transaction may leave in the slot: nothing, the entry that was     *)
(* there, or one whose key was never reserved before.                        *)
SlotStep ==
  \/ outbox'.inFlight = NoEntry
  \/ outbox.inFlight # NoEntry /\ outbox'.inFlight.key = outbox.inFlight.key
  \/ outbox'.inFlight.key \notin outbox.keys

LEMMA SlotHolds ==
  ASSUME IInv, [Next]_vars
  PROVE  SlotStep
  <1>1. outbox \in Document
    BY DEF IInv, TypeOK
  <1>2. CASE ReserveStep
    <2>1. PICK key \in Key, permit \in BOOLEAN,
               staging \in Staging \cup {NoStaging}, now \in ClockReadings,
               max \in Maxima :
            /\ key \notin outbox.keys
            /\ outbox' = Reserve(outbox, key, permit, staging, now, max)
      BY <1>2 DEF ReserveStep, Transaction, CanReserve
    <2>2. outbox'.inFlight.key = key
      BY <1>1, <2>1 DEF Reserve, Document
    <2>3. QED
      BY <2>1, <2>2 DEF SlotStep
  <1>3. CASE MarkAttemptedStep
    <2>1. PICK key \in Key, now \in ClockReadings :
            /\ outbox.inFlight # NoEntry
            /\ outbox' = MarkAttempted(outbox, now)
      BY <1>3 DEF MarkAttemptedStep, Transaction, CanMarkAttempted, HasInFlight
    <2>2. outbox.inFlight \in Entry
      BY <1>1, <2>1 DEF Document, InFlightEntry
    <2>3. outbox'.inFlight.key = outbox.inFlight.key
      BY <1>1, <2>1, <2>2 DEF MarkAttempted, Document, Entry
    <2>4. QED
      BY <2>1, <2>3 DEF SlotStep
  <1>4. CASE CompleteStep
    <2>1. PICK key \in Key, now \in ClockReadings, attempted \in BOOLEAN,
               outcome \in Outcomes \ {"ObservedSent"} :
            /\ outbox.inFlight # NoEntry
            /\ outbox' = Complete(outbox, outcome, attempted, now)
      BY <1>4 DEF CompleteStep, Transaction, CanComplete, HasInFlight
    <2>2. now \in Nat /\ outcome \in Outcomes
      BY ClientAssumption
    <2>3. Complete(outbox, outcome, attempted, now).inFlight = NoEntry
      BY <1>1, <2>1, <2>2, CompleteEmptiesSlot
    <2>4. outbox'.inFlight = NoEntry
      BY <2>1, <2>3
    <2>5. QED
      BY <2>4 DEF SlotStep
  <1>5. CASE ResolveStep
    <2>1. PICK key \in Key, kind \in {"ObservedSent", "ObservedFailed"} :
            /\ CanResolve(outbox, key, kind)
            /\ outbox' = Resolve(outbox, key, kind)
      BY <1>5 DEF ResolveStep, Transaction
    <2>2. Len(outbox.pending) <= 1 /\ kind \in CompletionKinds
      BY DEF IInv, SingleFlight, CompletionKinds
    <2>3. outbox'.inFlight = outbox.inFlight
      BY <1>1, <2>1, <2>2, ResolveEffect
    <2>4. QED
      BY <2>3 DEF SlotStep
  <1>6. CASE OpenStep
    <2>1. outbox' = Recover(outbox)
      BY <1>6 DEF OpenStep, Transaction
    <2>2. outbox'.inFlight = NoEntry
      <3>1. CASE outbox.inFlight = NoEntry
        BY <2>1, <3>1 DEF Recover
      <3>2. CASE outbox.inFlight # NoEntry
        BY <1>1, <2>1, <3>2, RecoverEffect
      <3>3. QED
        BY <3>1, <3>2
    <2>3. QED
      BY <2>2 DEF SlotStep
  <1>7. CASE UNCHANGED vars
    BY <1>7 DEF vars, SlotStep
  <1>8. QED
    BY <1>2, <1>3, <1>4, <1>5, <1>6, <1>7 DEF Next

(* A key that left the slot does not return to it, whichever process retries *)
(* it, however often the outbox is opened and recovered in between.          *)
THEOREM NeverRedispatchedHolds == Spec => NeverRedispatched
  <1> DEFINE A == \A key \in Key :
                    (key \in outbox.keys /\ ~HasInFlight(outbox, key))
                      => ~HasInFlight(outbox', key)
  <1>1. SlotStep => A
    BY DEF SlotStep, HasInFlight
  <1>2. IInv /\ [Next]_vars => A
    BY <1>1, SlotHolds
  <1>3. NeverRedispatched <=> [][A]_vars
    BY PTL DEF NeverRedispatched
  <1>4. QED
    BY Invariance, <1>2, <1>3, PTL DEF Spec

-----------------------------------------------------------------------------
(* The totals: no reservation is lost and none is settled twice, although    *)
(* the document forgets its oldest completions.  The totals count what the   *)
(* invariant above bounds: with at most one live entry, the entries are the  *)
(* slot and the length of the pending list.                                  *)
\* The live entries of a document, told from the slot and the list
Live(d) == (IF d.inFlight = NoEntry THEN 0 ELSE 1) + Len(d.pending)

Totals ==
  /\ IsFiniteSet(outbox.keys)
  /\ outbox.reservedTotal = Cardinality(outbox.keys)
  /\ outbox.reservedTotal = outbox.completedTotal + Live(outbox)

TotalsInv == IInv /\ Totals

-----------------------------------------------------------------------------
LEMMA OneOrNone ==
  ASSUME NEW S, NEW entries \in Seq(S), Len(entries) <= 1, entries # <<>>
  PROVE  Len(entries) = 1 /\ DOMAIN entries = {1}
  <1>1. Len(entries) \in Nat /\ Len(entries) # 0 /\ DOMAIN entries = 1 .. Len(entries)
    OBVIOUS
  <1>2. Len(entries) = 1
    BY <1>1
  <1>3. QED
    BY <1>1, <1>2

LEMMA LiveCount ==
  ASSUME NEW d \in Document, Len(d.pending) <= 1,
         d.inFlight # NoEntry => d.pending = <<>>
  PROVE  Cardinality(LiveEntries(d)) = Live(d)
  <1>1. d.pending \in Seq(ParkedEntry) /\ Len(d.pending) \in Nat
    BY DEF Document
  <1>2. CASE d.pending = <<>>
    <2>1. PendingEntries(d) = {} /\ Len(d.pending) = 0
      BY <1>2 DEF PendingEntries
    <2>2. CASE d.inFlight = NoEntry
      <3>1. LiveEntries(d) = {} /\ Live(d) = 0
        BY <2>1, <2>2 DEF LiveEntries, Live
      <3>2. QED
        BY <3>1, FS_EmptySet
    <2>3. CASE d.inFlight # NoEntry
      <3>1. LiveEntries(d) = {d.inFlight} /\ Live(d) = 1
        BY <2>1, <2>3 DEF LiveEntries, Live
      <3>2. QED
        BY <3>1, FS_Singleton
    <2>4. QED
      BY <2>2, <2>3
  <1>3. CASE d.pending # <<>>
    <2>1. d.inFlight = NoEntry /\ Len(d.pending) = 1 /\ DOMAIN d.pending = {1}
      BY <1>1, <1>3, OneOrNone
    <2>2. PendingEntries(d) = {d.pending[1]}
      BY <2>1 DEF PendingEntries
    <2>3. LiveEntries(d) = {d.pending[1]} /\ Live(d) = 1
      BY <2>1, <2>2 DEF LiveEntries, Live
    <2>4. QED
      BY <2>3, FS_Singleton
  <1>4. QED
    BY <1>2, <1>3

LEMMA PushCompletionTotals ==
  ASSUME NEW d \in Document, NEW record \in Completion
  PROVE  LET e == PushCompletion(d, record) IN
         /\ e.reservedTotal = d.reservedTotal
         /\ e.completedTotal = d.completedTotal + 1
  BY DEF PushCompletion, Document

LEMMA ParkTotals ==
  ASSUME NEW d \in Document, NEW e
  PROVE  /\ Park(d, e).reservedTotal = d.reservedTotal
         /\ Park(d, e).completedTotal = d.completedTotal
  BY DEF Park, Document

\* An entry that lands is parked or counted as completed.
LEMMA CompleteTotals ==
  ASSUME NEW d \in Document, d.inFlight # NoEntry, NEW outcome \in Outcomes,
         NEW attempted \in BOOLEAN, NEW now \in Nat
  PROVE  LET f == Complete(d, outcome, attempted, now) IN
         /\ f.reservedTotal = d.reservedTotal
         /\ f.completedTotal = d.completedTotal
              + (IF outcome = "AwaitingReconciliation" THEN 0 ELSE 1)
  <1>1. CASE outcome = "AwaitingReconciliation"
    BY <1>1 DEF Complete, Park, Document
  <1>2. CASE outcome # "AwaitingReconciliation"
    BY <1>2 DEF Complete, PushCompletion, Document
  <1>3. QED
    BY <1>1, <1>2

LEMMA RecoverTotals ==
  ASSUME NEW d \in Document, d.inFlight # NoEntry
  PROVE  LET f == Recover(d) IN
         /\ f.reservedTotal = d.reservedTotal
         /\ f.completedTotal = d.completedTotal
              + (IF d.inFlight.state = "Attempted" THEN 0 ELSE 1)
  <1>1. CASE d.inFlight.state = "Attempted"
    BY <1>1 DEF Recover, Park, Document
  <1>2. CASE d.inFlight.state # "Attempted"
    BY <1>2 DEF Recover, PushCompletion, Document
  <1>3. QED
    BY <1>1, <1>2

LEMMA ResolveTotals ==
  ASSUME NEW d \in Document, NEW key, NEW kind
  PROVE  LET f == Resolve(d, key, kind) IN
         /\ f.reservedTotal = d.reservedTotal
         /\ f.completedTotal = d.completedTotal + 1
  BY DEF Resolve, PushCompletion, Document

-----------------------------------------------------------------------------
LEMMA InitTotals == Init => Totals
  <1> SUFFICES ASSUME Init PROVE Totals
    OBVIOUS
  <1>1. PICK now \in ClockReadings : outbox = NewDocument(now)
    BY DEF Init
  <1>2. /\ outbox.keys = {} /\ outbox.reservedTotal = 0 /\ outbox.completedTotal = 0
        /\ outbox.inFlight = NoEntry /\ outbox.pending = <<>>
    BY <1>1 DEF NewDocument
  <1>3. QED
    BY <1>2, FS_EmptySet DEF Totals, Live

LEMMA ReserveTotals ==
  ASSUME TotalsInv, ReserveStep
  PROVE  Totals'
  <1>1. PICK key \in Key, permit \in BOOLEAN,
             staging \in Staging \cup {NoStaging}, now \in ClockReadings,
             max \in Maxima :
          /\ CanReserve(outbox, key, now, max)
          /\ outbox' = Reserve(outbox, key, permit, staging, now, max)
    BY DEF ReserveStep, Transaction
  <1>2. outbox \in Document
    BY DEF TotalsInv, IInv, TypeOK
  <1> DEFINE entry == [key |-> key, permitSend |-> permit, state |-> "Reserved",
                       staging |-> staging, reservedAt |-> now, attemptedAt |-> Never]
  <1>3. entry # NoEntry
    <2>1. now \in Nat
      BY ClientAssumption
    <2>2. entry \in Entry
      BY <2>1 DEF Entry, EntryStates
    <2>3. QED
      BY <2>2, OutboxAssumption
  <1>4. /\ outbox'.inFlight = entry
        /\ outbox'.pending = outbox.pending
        /\ outbox'.keys = outbox.keys \cup {key}
        /\ outbox'.reservedTotal = outbox.reservedTotal + 1
        /\ outbox'.completedTotal = outbox.completedTotal
    BY <1>1, <1>2 DEF Reserve, Document
  <1> HIDE DEF entry
  <1>5. outbox.inFlight = NoEntry /\ outbox.pending = <<>> /\ key \notin outbox.keys
    BY <1>1 DEF CanReserve, Admitted
  <1>6. /\ IsFiniteSet(outbox'.keys)
        /\ Cardinality(outbox'.keys) = Cardinality(outbox.keys) + 1
    <2>1. IsFiniteSet(outbox.keys)
      BY DEF TotalsInv, Totals
    <2>2. /\ IsFiniteSet(outbox.keys \cup {key})
          /\ Cardinality(outbox.keys \cup {key}) = Cardinality(outbox.keys) + 1
      BY <1>5, <2>1, FS_AddElement
    <2>3. QED
      BY <1>4, <2>2
  <1>7. /\ outbox.reservedTotal = outbox.completedTotal /\ Live(outbox)' = 1
        /\ outbox.reservedTotal \in Nat /\ outbox.completedTotal \in Nat
    BY <1>2, <1>3, <1>4, <1>5 DEF TotalsInv, Totals, Live, Document
  <1>8. QED
    BY <1>4, <1>6, <1>7 DEF TotalsInv, Totals

(* The slot empties into the pending list or into the completed total.       *)
LEMMA LandingTotals ==
  ASSUME TotalsInv, outbox.inFlight # NoEntry,
         outbox'.inFlight = NoEntry, outbox'.keys = outbox.keys,
         outbox'.reservedTotal = outbox.reservedTotal, NEW parked \in BOOLEAN, NEW entry,
         outbox'.completedTotal = outbox.completedTotal + (IF parked THEN 0 ELSE 1),
         outbox'.pending = IF parked THEN Append(outbox.pending, entry) ELSE outbox.pending
  PROVE  Totals'
  <1>1. outbox \in Document /\ outbox.pending = <<>>
    BY DEF TotalsInv, IInv, TypeOK, SingleFlight
  <1>2. /\ outbox.completedTotal \in Nat /\ Live(outbox) = 1
        /\ outbox.reservedTotal = outbox.completedTotal + 1
    BY <1>1 DEF Document, Live, TotalsInv, Totals
  <1>3. outbox'.reservedTotal = outbox'.completedTotal + Live(outbox)'
    <2>1. CASE parked
      <3>1. outbox'.pending = <<entry>> /\ Live(outbox)' = 1
        BY <1>1, <2>1 DEF Live
      <3>2. QED
        BY <1>2, <2>1, <3>1
    <2>2. CASE ~ parked
      <3>1. Live(outbox)' = 0
        BY <1>1, <2>2 DEF Live
      <3>2. QED
        BY <1>2, <2>2, <3>1
    <2>3. QED
      BY <2>1, <2>2
  <1>4. QED
    BY <1>3 DEF TotalsInv, Totals

LEMMA CompleteStepTotals ==
  ASSUME TotalsInv, CompleteStep
  PROVE  Totals'
  <1>1. PICK key \in Key, now \in ClockReadings, attempted \in BOOLEAN,
             outcome \in Outcomes \ {"ObservedSent"} :
          /\ CanComplete(outbox, key, outcome)
          /\ outbox' = Complete(outbox, outcome, attempted, now)
    BY DEF CompleteStep, Transaction
  <1>2. /\ outbox.inFlight # NoEntry /\ outbox \in Document /\ now \in Nat
        /\ outcome \in Outcomes
    BY <1>1, ClientAssumption DEF CanComplete, HasInFlight, TotalsInv, IInv, TypeOK
  <1> DEFINE parked == outcome = "AwaitingReconciliation"
             entry == [outbox.inFlight EXCEPT !.state = "AwaitingReconciliation"]
  <1>3. /\ outbox'.inFlight = NoEntry /\ outbox'.keys = outbox.keys
        /\ outbox'.pending = IF parked THEN Append(outbox.pending, entry) ELSE outbox.pending
    BY <1>1, <1>2, CompleteEffect
  <1>4. /\ outbox'.reservedTotal = outbox.reservedTotal
        /\ outbox'.completedTotal = outbox.completedTotal + (IF parked THEN 0 ELSE 1)
    BY <1>1, <1>2, CompleteTotals
  <1>5. parked \in BOOLEAN
    OBVIOUS
  <1> HIDE DEF parked, entry
  <1>6. QED
    BY <1>2, <1>3, <1>4, <1>5, LandingTotals

LEMMA OpenStepTotals ==
  ASSUME TotalsInv, OpenStep
  PROVE  Totals'
  <1>1. outbox' = Recover(outbox) /\ outbox \in Document
    BY DEF OpenStep, Transaction, TotalsInv, IInv, TypeOK
  <1>2. CASE outbox.inFlight = NoEntry
    <2>1. outbox' = outbox
      BY <1>1, <1>2 DEF Recover
    <2>2. QED
      BY <2>1 DEF TotalsInv, Totals, Live
  <1>3. CASE outbox.inFlight # NoEntry
    <2> DEFINE parked == outbox.inFlight.state = "Attempted"
               entry == [outbox.inFlight EXCEPT !.state = "AwaitingReconciliation"]
    <2>1. /\ outbox'.inFlight = NoEntry /\ outbox'.keys = outbox.keys
          /\ outbox'.pending = IF parked THEN Append(outbox.pending, entry) ELSE outbox.pending
      BY <1>1, <1>3, RecoverEffect
    <2>2. /\ outbox'.reservedTotal = outbox.reservedTotal
          /\ outbox'.completedTotal = outbox.completedTotal + (IF parked THEN 0 ELSE 1)
      BY <1>1, <1>3, RecoverTotals
    <2>3. parked \in BOOLEAN
      OBVIOUS
    <2> HIDE DEF parked, entry
    <2>4. QED
      BY <1>3, <2>1, <2>2, <2>3, LandingTotals
  <1>4. QED
    BY <1>2, <1>3

LEMMA ResolveStepTotals ==
  ASSUME TotalsInv, ResolveStep
  PROVE  Totals'
  <1>1. PICK key \in Key, kind \in {"ObservedSent", "ObservedFailed"} :
          CanResolve(outbox, key, kind) /\ outbox' = Resolve(outbox, key, kind)
    BY DEF ResolveStep, Transaction
  <1>2. /\ outbox \in Document /\ Len(outbox.pending) <= 1 /\ kind \in CompletionKinds
        /\ outbox.inFlight # NoEntry => outbox.pending = <<>>
    BY DEF TotalsInv, IInv, TypeOK, SingleFlight, CompletionKinds
  <1>3. /\ outbox'.pending = <<>> /\ outbox'.inFlight = outbox.inFlight
        /\ outbox'.keys = outbox.keys
    BY <1>1, <1>2, ResolveEffect
  <1>4. /\ outbox'.reservedTotal = outbox.reservedTotal
        /\ outbox'.completedTotal = outbox.completedTotal + 1
    BY <1>1, <1>2, ResolveTotals
  <1>5. Len(outbox.pending) = 1 /\ outbox.inFlight = NoEntry
    <2>1. outbox.pending \in Seq(ParkedEntry) /\ outbox.pending # <<>>
      BY <1>1, <1>2 DEF CanResolve, PendingEntries, Document
    <2>2. QED
      BY <1>2, <2>1, OneOrNone
  <1>6. Live(outbox) = 1 /\ Live(outbox)' = 0
    BY <1>3, <1>5 DEF Live
  <1>7. /\ outbox.completedTotal \in Nat
        /\ outbox.reservedTotal = outbox.completedTotal + 1
    BY <1>2, <1>6 DEF Document, TotalsInv, Totals
  <1>8. outbox'.reservedTotal = outbox'.completedTotal + Live(outbox)'
    BY <1>4, <1>6, <1>7
  <1>9. QED
    BY <1>3, <1>4, <1>8 DEF TotalsInv, Totals

LEMMA MarkTotals ==
  ASSUME TotalsInv, MarkAttemptedStep
  PROVE  Totals'
  <1>1. PICK key \in Key, now \in ClockReadings :
          CanMarkAttempted(outbox, key) /\ outbox' = MarkAttempted(outbox, now)
    BY DEF MarkAttemptedStep, Transaction
  <1>2. outbox \in Document /\ outbox.inFlight # NoEntry /\ now \in Nat
    BY <1>1, ClientAssumption DEF TotalsInv, IInv, TypeOK, CanMarkAttempted, HasInFlight
  <1>3. outbox'.inFlight # NoEntry
    <2>1. outbox.inFlight \in Entry
      BY <1>2 DEF Document, InFlightEntry
    <2>2. outbox'.inFlight \in Entry
      BY <1>1, <1>2, <2>1 DEF MarkAttempted, Document, Entry, EntryStates
    <2>3. QED
      BY <2>2, OutboxAssumption
  <1>4. /\ outbox'.keys = outbox.keys /\ outbox'.pending = outbox.pending
        /\ outbox'.reservedTotal = outbox.reservedTotal
        /\ outbox'.completedTotal = outbox.completedTotal
    BY <1>1, <1>2 DEF MarkAttempted, Document
  <1>5. QED
    BY <1>2, <1>3, <1>4 DEF TotalsInv, Totals, Live

-----------------------------------------------------------------------------
(* Every reservation is live or was settled once, whatever the clients do    *)
(* and however many completions the document has forgotten.                  *)
THEOREM ReservationsAccountedHolds == Spec => []ReservationsAccounted
  <1>1. IInv /\ Totals /\ [Next]_vars => Totals'
    <2> SUFFICES ASSUME TotalsInv, [Next]_vars PROVE Totals'
      BY DEF TotalsInv
    <2>1. CASE UNCHANGED vars
      BY <2>1 DEF vars, TotalsInv, Totals, Live
    <2>2. QED
      BY <2>1, ReserveTotals, MarkTotals, CompleteStepTotals, ResolveStepTotals,
         OpenStepTotals DEF Next
  <1>2. IInv /\ Totals => ReservationsAccounted
    <2> SUFFICES ASSUME IInv, Totals PROVE ReservationsAccounted
      OBVIOUS
    <2>1. /\ outbox \in Document /\ Len(outbox.pending) <= 1
          /\ outbox.inFlight # NoEntry => outbox.pending = <<>>
      BY DEF IInv, TypeOK, SingleFlight
    <2>2. Cardinality(LiveEntries(outbox)) = Live(outbox)
      BY <2>1, LiveCount
    <2>3. QED
      BY <2>2 DEF Totals, ReservationsAccounted
  <1>3. QED
    BY Invariance, InitTotals, <1>1, <1>2, PTL DEF Spec
=============================================================================
