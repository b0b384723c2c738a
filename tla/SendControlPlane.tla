-------------------------- MODULE SendControlPlane --------------------------
(***************************************************************************)
(* The send control plane of send_adapter.rs: several command-line         *)
(* processes (execute, reconcile, and the commands that only open the      *)
(* outbox), the input helper that presses Return, the staged attachments,  *)
(* the journal, the client's chat and the replica that follows it.         *)
(*                                                                         *)
(* Each step of a process is one outbox transaction, one journal append or *)
(* one change of the staging root; processes interleave between them, and  *)
(* a process may stop at any of them for good (Crash).  A command reads    *)
(* the clock once, when it starts, and passes that reading to everything.  *)
(* The helper is a process of its own with a serial queue: a caller that   *)
(* times out stops waiting, the helper does not stop working.              *)
(*                                                                         *)
(* PRECHECK's conditions on the draft, the approval, the build and the     *)
(* screen are left out: failing one ends a command as Crash does.          *)
(***************************************************************************)
EXTENDS SendOutboxState

CONSTANTS
  Process,            \* processes of the control plane
  DryRun,             \* the keys whose capability does not permit Return
  Attachment,         \* the keys that carry an attachment
  BodyOf,             \* what reconciliation knows each key's message by: the
                      \* digest of its text, the name of its file, or nothing
                      \* but that it is a file
  Typed,              \* the messages the owner may send by hand, likewise
  DraftOf,            \* the draft each key was derived from
  MaxTyped,           \* bound on the messages typed
  Attested,           \* the keys an operator may write an observation for that
                      \* says the message was sent
  NoKey,              \* the key of a process that has none
  NoWork,             \* the helper is idle
  GeneralMaximum,     \* maximum_attempts_per_window
  AttachmentMaximum,  \* maximum_attachment_attempts_per_window
  Validity,           \* capability_validity_seconds
  Grace,              \* reconciliation_grace_seconds
  Lookback,           \* --lookback-seconds
  SkillTime,          \* the longest the skill works on one capability
  MaxTime,            \* bound on the clock
  MaxCommands         \* bound on the commands started

Time == 0 .. MaxTime

ASSUME ControlPlaneAssumption ==
  /\ DryRun \subseteq Key /\ Attachment \subseteq Key /\ Attested \subseteq Key
  /\ NoKey \notin Key
  /\ Staging = Process \X Key
  /\ {Grace, Validity} \subseteq Nat \ {0}
  /\ {Lookback, SkillTime, MaxTime, MaxCommands, MaxTyped, GeneralMaximum,
      AttachmentMaximum} \subseteq Nat
  /\ AttachmentMaximum <= GeneralMaximum

VARIABLES
  outbox,    \* outbox.json
  attempts,  \* history: how often each approval was marked attempted
  verdicts,  \* history: what reconciliation concluded of each key
  proc,      \* what each process is doing
  staged,    \* the directories under the staging root
  journal,   \* completed send stages per draft, in the connector journal
  queue,     \* capabilities waiting for the helper's serial queue
  work,      \* the capability the skill is executing
  returned,  \* history: how often Return went down for each key
  halfway,   \* history: the keys whose Return went down and was never released
  chat,      \* the outgoing messages the client recorded
  replica,   \* those of them the replica has
  now,       \* the clock
  commands   \* how many commands were started

storeVars == <<outbox, attempts, verdicts>>
helperVars == <<queue, work, returned, halfway, chat>>
vars == <<storeVars, proc, staged, journal, helperVars, replica, now, commands>>

-----------------------------------------------------------------------------
Idle == [cmd |-> "idle", pc |-> "idle", key |-> NoKey, start |-> 0,
         live |-> {}, opens |-> 0, clock |-> 0,
         outcome |-> "AwaitingReconciliation", attempted |-> FALSE]

PermitsSend(key) == key \notin DryRun

StagingOf(p, key) == IF key \in Attachment THEN <<p, key>> ELSE NoStaging

\* maximum_attempts_for
MaximumFor(key) ==
  IF key \in Attachment THEN AttachmentMaximum ELSE GeneralMaximum

\* An outgoing message; the owner's own has NoKey.
Message == [key : Key \cup {NoKey}, body : {BodyOf[k] : k \in Key} \cup Typed,
            at : Time]

Init ==
  /\ outbox = NewDocument(0)
  /\ attempts = [a \in Approval |-> 0]
  /\ verdicts = {}
  /\ proc = [p \in Process |-> Idle]
  /\ staged = {}
  /\ journal = [d \in {DraftOf[k] : k \in Key} |->
                 [approvals |-> 0, attempts |-> 0, reconciliations |-> 0]]
  /\ queue = <<>>
  /\ work = NoWork
  /\ returned = [k \in Key |-> 0]
  /\ halfway = {}
  /\ chat = {}
  /\ replica = {}
  /\ now = 0
  /\ commands = 0

\* Process p moves to pc, or ends.
Goto(p, pc) == proc' = [proc EXCEPT ![p].pc = pc]

\* From here on p uses nothing but its command and key.
Finish(p, pc) ==
  proc' = [proc EXCEPT ![p] = [Idle EXCEPT !.cmd = proc[p].cmd, !.pc = pc,
                                           !.key = proc[p].key]]

End(p) == proc' = [proc EXCEPT ![p] = Idle]

\* SendOutbox::transaction succeeds: what it read and what it made of it are
\* valid and fit.  Otherwise nothing is written and the error ends the command.
Transacts(document) == Readable(outbox) /\ Persistable(document)

-----------------------------------------------------------------------------
(* Opening the outbox: recovery, a read of the state, and the sweep of the   *)
(* staging root against what was read.                                       *)

Begin(p, cmd, key) ==
  /\ proc[p] = Idle /\ commands < MaxCommands
  /\ commands' = commands + 1
  /\ proc' = [proc EXCEPT ![p] = [Idle EXCEPT
                !.cmd = cmd, !.pc = "recover", !.key = key, !.start = now]]
  /\ UNCHANGED <<storeVars, staged, journal, helperVars, replica, now>>

\* `reconcile --observation`: the operator's document says what was observed,
\* the outbox is opened once.
Attest(p, key, outcome) ==
  /\ proc[p] = Idle /\ commands < MaxCommands
  /\ outcome = "ObservedSent" => key \in Attested
  /\ commands' = commands + 1
  /\ proc' = [proc EXCEPT ![p] = [Idle EXCEPT
                !.cmd = "reconcile", !.pc = "recover", !.key = key,
                !.start = now, !.opens = 1, !.outcome = outcome]]
  /\ UNCHANGED <<storeVars, staged, journal, helperVars, replica, now>>

RecoverOutbox(p) ==
  /\ proc[p].pc = "recover"
  /\ IF Transacts(Recover(outbox))
     THEN outbox' = Recover(outbox) /\ Goto(p, "readLive")
     ELSE End(p) /\ UNCHANGED outbox
  /\ UNCHANGED <<attempts, verdicts, staged, journal, helperVars, replica, now, commands>>

ReadLive(p) ==
  /\ proc[p].pc = "readLive"
  /\ IF Transacts(outbox)
     THEN proc' = [proc EXCEPT ![p].pc = "sweep", ![p].opens = @ + 1,
                     ![p].live = {e.staging : e \in LiveEntries(outbox)}]
     ELSE End(p)
  /\ UNCHANGED <<storeVars, staged, journal, helperVars, replica, now, commands>>

\* The outbox is open: `reconcile` opens it twice, first for the status it
\* takes the parked entry from.
Opened(p) ==
  CASE proc[p].cmd = "status" -> End(p)
    [] proc[p].cmd = "execute" ->
         proc' = [proc EXCEPT ![p].pc = "precheck", ![p].live = {}]
    [] proc[p].cmd = "reconcile" ->
         proc' = [proc EXCEPT ![p].live = {},
                    ![p].pc = IF proc[p].opens = 1 THEN "observe" ELSE "decide"]

\* sweep_staging_root
Sweep(p) ==
  /\ proc[p].pc = "sweep"
  /\ staged' = staged \cap proc[p].live
  /\ Opened(p)
  /\ UNCHANGED <<storeVars, journal, helperVars, replica, now, commands>>

-----------------------------------------------------------------------------
(* execute_with_artifacts                                                    *)

\* What PRECHECK asks of the outbox state: the guard's checks and admission.
PrecheckPermits(key, t) ==
  /\ Transacts(outbox)
  /\ Admitted(outbox, t)
  /\ key \notin outbox.keys
  /\ ApprovalOf[key] \notin outbox.consumed
  /\ Rolled(outbox.window, t, MaximumFor(key)).reserved < MaximumFor(key)

Precheck(p) ==
  /\ proc[p].pc = "precheck"
  /\ IF PrecheckPermits(proc[p].key, proc[p].start)
     THEN Goto(p, IF proc[p].key \in Attachment THEN "stage" ELSE "reserve")
     ELSE End(p)
  /\ UNCHANGED <<storeVars, staged, journal, helperVars, replica, now, commands>>

Stage(p) ==
  /\ proc[p].pc = "stage"
  /\ staged' = staged \cup {StagingOf(p, proc[p].key)}
  /\ Goto(p, "reserve")
  /\ UNCHANGED <<storeVars, journal, helperVars, replica, now, commands>>

\* mint_capability refuses the staged copy
MintRefused(p) ==
  /\ proc[p].pc = "reserve" /\ proc[p].key \in Attachment
  /\ staged' = staged \ {StagingOf(p, proc[p].key)}
  /\ End(p)
  /\ UNCHANGED <<storeVars, journal, helperVars, replica, now, commands>>

ReserveEntry(p) ==
  LET key == proc[p].key  start == proc[p].start
      reserved == Reserve(outbox, key, PermitsSend(key), StagingOf(p, key),
                          start, GeneralMaximum)
  IN
  /\ proc[p].pc = "reserve"
  /\ IF CanReserve(outbox, key, start, GeneralMaximum) /\ Transacts(reserved)
     THEN /\ outbox' = reserved
          /\ Goto(p, "journalApproval")
     ELSE /\ End(p)
          /\ UNCHANGED outbox
  /\ UNCHANGED <<attempts, verdicts, staged, journal, helperVars, replica, now, commands>>

\* Mutant: the dispatch of a send is not persisted ahead of itself.
JournalApprovalUnmarked(p) ==
  /\ proc[p].pc = "journalApproval"
  /\ journal' = [journal EXCEPT ![DraftOf[proc[p].key]].approvals = @ + 1]
  /\ Goto(p, "journalAttempt")
  /\ UNCHANGED <<storeVars, staged, helperVars, replica, now, commands>>

JournalApproval(p) ==
  /\ proc[p].pc = "journalApproval"
  /\ journal' = [journal EXCEPT ![DraftOf[proc[p].key]].approvals = @ + 1]
  /\ Goto(p, IF PermitsSend(proc[p].key) THEN "markAttempted" ELSE "journalAttempt")
  /\ UNCHANGED <<storeVars, staged, helperVars, replica, now, commands>>

\* Mutant: dispatched before the attempt is journaled.
MarkAttemptedUnjournaled(p) ==
  LET key == proc[p].key IN
  /\ proc[p].pc = "markAttempted"
  /\ CanMarkAttempted(outbox, key)
  /\ outbox' = MarkAttempted(outbox, proc[p].start)
  /\ attempts' = [attempts EXCEPT ![ApprovalOf[key]] = @ + 1]
  /\ Goto(p, "dispatch")
  /\ UNCHANGED <<verdicts, staged, journal, helperVars, replica, now, commands>>

MarkAttemptedEntry(p) ==
  LET key == proc[p].key  marked == MarkAttempted(outbox, proc[p].start) IN
  /\ proc[p].pc = "markAttempted"
  /\ IF CanMarkAttempted(outbox, key) /\ Transacts(marked)
     THEN /\ outbox' = marked
          /\ attempts' = [attempts EXCEPT ![ApprovalOf[key]] = @ + 1]
          /\ Goto(p, "journalAttempt")
     ELSE /\ End(p)
          /\ UNCHANGED <<outbox, attempts>>
  /\ UNCHANGED <<verdicts, staged, journal, helperVars, replica, now, commands>>

JournalAttempt(p) ==
  /\ proc[p].pc = "journalAttempt"
  /\ journal' = [journal EXCEPT ![DraftOf[proc[p].key]].attempts = @ + 1]
  /\ Goto(p, "dispatch")
  /\ UNCHANGED <<storeVars, staged, helperVars, replica, now, commands>>

\* Mutant: a dispatch that timed out did not send.
InconclusiveAsFailed(key) == "ObservedFailed"

\* settle_dispatch of an error: inconclusive when Return was permitted.
Inconclusive(key) ==
  IF PermitsSend(key) THEN "AwaitingReconciliation" ELSE "ObservedFailed"

Capability(p) ==
  [key |-> proc[p].key, permitSend |-> PermitsSend(proc[p].key),
   until |-> proc[p].start + Validity, by |-> p]

Dispatch(p) ==
  /\ proc[p].pc = "dispatch"
  /\ proc' = [proc EXCEPT ![p].pc = "await", ![p].clock = now]
  /\ queue' = Append(queue, Capability(p))
  /\ UNCHANGED <<storeVars, staged, journal, work, returned, halfway, chat, replica,
                 now, commands>>

\* The dispatch of p ended.  One logical clock: the command's reading plus
\* the measured length of the dispatch.
Settle(p, outcome, attempted) ==
  proc' = [proc EXCEPT
    ![p].pc = "complete", ![p].outcome = outcome, ![p].attempted = attempted,
    ![p].clock = proc[p].start + (IF proc[p].pc = "await" THEN now - @ ELSE 0)]

\* The dispatch failed to reach the helper, or its caller gave up on it.
DispatchFails(p) ==
  /\ proc[p].pc \in {"dispatch", "await"}
  /\ Settle(p, Inconclusive(proc[p].key), FALSE)
  /\ UNCHANGED <<storeVars, staged, journal, helperVars, replica, now, commands>>

CompleteEntry(p) ==
  LET key == proc[p].key  outcome == proc[p].outcome
      settled == Complete(outbox, outcome, proc[p].attempted, proc[p].clock)
  IN
  /\ proc[p].pc = "complete"
  /\ IF CanComplete(outbox, key, outcome) /\ Transacts(settled)
     THEN /\ outbox' = settled
          /\ Finish(p, IF outcome = "AwaitingReconciliation" \/ key \notin Attachment
                       THEN "journalReconciliation" ELSE "discard")
     ELSE /\ End(p)
          /\ UNCHANGED outbox
  /\ UNCHANGED <<attempts, verdicts, staged, journal, helperVars, replica, now, commands>>

Discard(p) ==
  /\ proc[p].pc = "discard"
  /\ staged' = staged \ {StagingOf(p, proc[p].key)}
  /\ Goto(p, "journalReconciliation")
  /\ UNCHANGED <<storeVars, journal, helperVars, replica, now, commands>>

JournalReconciliation(p) ==
  /\ proc[p].pc = "journalReconciliation"
  /\ journal' = [journal EXCEPT ![DraftOf[proc[p].key]].reconciliations = @ + 1]
  /\ End(p)
  /\ UNCHANGED <<storeVars, staged, helperVars, replica, now, commands>>

-----------------------------------------------------------------------------
(* reconcile                                                                 *)

ParkedWith(key) == {e \in PendingEntries(outbox) : e.key = key}

\* Mutant: any outgoing message will do.
FoundAny(e) == \E m \in replica : m.at + Lookback >= e.attemptedAt

\* observe_send_in_replica: an outgoing message of the same body, recorded no
\* earlier than Lookback before the attempt.
FoundInReplica(e) ==
  \E m \in replica :
    m.body = BodyOf[e.key] /\ m.at + Lookback >= e.attemptedAt

Observe(p) ==
  /\ proc[p].pc = "observe"
  /\ IF ParkedWith(proc[p].key) = {} \/ ~Transacts(outbox) THEN End(p)
     ELSE \E e \in ParkedWith(proc[p].key) :
            proc' = [proc EXCEPT ![p].pc = "recover",
                       ![p].outcome = IF FoundInReplica(e) THEN "ObservedSent"
                                      ELSE "AwaitingReconciliation"]
  /\ UNCHANGED <<storeVars, staged, journal, helperVars, replica, now, commands>>

\* Mutant: not found is failed.
NoGrace(p, e) == proc[p].start >= e.attemptedAt

GraceElapsed(p, e) ==
  proc[p].start >= e.attemptedAt /\ proc[p].start - e.attemptedAt >= Grace

\* Found: sent.  Not found and the grace elapsed: failed.  Otherwise wait.
Decide(p) ==
  LET found == proc[p].outcome = "ObservedSent" IN
  /\ proc[p].pc = "decide"
  /\ IF ParkedWith(proc[p].key) = {} \/ ~Transacts(outbox) THEN End(p)
     ELSE \E e \in ParkedWith(proc[p].key) :
            \/ found /\ Goto(p, "discardParked")
            \/ /\ ~found /\ GraceElapsed(p, e)
               /\ proc' = [proc EXCEPT ![p].pc = "discardParked",
                                       ![p].outcome = "ObservedFailed"]
            \/ ~found /\ ~GraceElapsed(p, e) /\ End(p)
  /\ UNCHANGED <<storeVars, staged, journal, helperVars, replica, now, commands>>

\* The entry's staging directory goes before the entry is resolved.
DiscardParked(p) ==
  /\ proc[p].pc = "discardParked"
  /\ staged' = staged \ {e.staging : e \in ParkedWith(proc[p].key)}
  /\ Goto(p, "resolve")
  /\ UNCHANGED <<storeVars, journal, helperVars, replica, now, commands>>

\* The verdict of p on a parked entry, and whether the client had a message of
\* that very attempt.
VerdictOn(p, e) ==
  [key |-> e.key, kind |-> proc[p].outcome, since |-> e.attemptedAt,
   at |-> proc[p].start, own |-> \E m \in chat : m.key = e.key]

ResolveEntry(p) ==
  LET key == proc[p].key  outcome == proc[p].outcome
      resolved == Resolve(outbox, key, outcome)
  IN
  /\ proc[p].pc = "resolve"
  /\ IF CanResolve(outbox, key, outcome) /\ Transacts(resolved)
     THEN /\ outbox' = resolved
          /\ verdicts' = verdicts \cup {VerdictOn(p, e) : e \in ParkedWith(key)}
          /\ Finish(p, "journalReconciliation")
     ELSE /\ End(p)
          /\ UNCHANGED <<outbox, verdicts>>
  /\ UNCHANGED <<attempts, staged, journal, helperVars, replica, now, commands>>

-----------------------------------------------------------------------------
(* The helper: one serial queue, a skill that works on one capability.       *)

\* The caller of a capability still waits for its reply.
Awaited(c) == proc[c.by].pc = "await" /\ proc[c.by].key = c.key

Reply(c, outcome, attempted) ==
  IF Awaited(c) THEN Settle(c.by, outcome, attempted) ELSE UNCHANGED proc

HelperStart ==
  LET c == Head(queue) IN
  /\ work = NoWork /\ queue # <<>>
  /\ queue' = Tail(queue)
  /\ IF now < c.until
     THEN /\ work' = [capability |-> c, since |-> now, pressed |-> FALSE]
          /\ UNCHANGED proc
     ELSE /\ Reply(c, Inconclusive(c.key), FALSE)
          /\ UNCHANGED work
  /\ UNCHANGED <<storeVars, staged, journal, returned, halfway, chat, replica, now,
                 commands>>

\* Both gates passed: Return goes down.  The client may or may not send.
PressReturn ==
  LET key == work.capability.key IN
  /\ work # NoWork /\ work.capability.permitSend /\ ~work.pressed
  /\ work' = [work EXCEPT !.pressed = TRUE]
  /\ returned' = [returned EXCEPT ![key] = @ + 1]
  /\ chat' \in {chat, chat \cup {[key |-> key, body |-> BodyOf[key], at |-> now]}}
  /\ UNCHANGED <<storeVars, proc, staged, journal, queue, halfway, replica, now,
                 commands>>

\* The event that releases Return cannot be made: the press failed, and the
\* skill has attempted nothing.
ReleaseFails ==
  /\ work # NoWork /\ work.pressed
  /\ Reply(work.capability, "ObservedFailed", FALSE)
  /\ halfway' = halfway \cup {work.capability.key}
  /\ work' = NoWork
  /\ UNCHANGED <<storeVars, staged, journal, queue, returned, chat, replica, now,
                 commands>>

\* The skill ends and replies: Return pressed, a refusal, or a dry run done.
SkillEnds ==
  /\ work # NoWork
  /\ LET c == work.capability IN
     \/ work.pressed /\ Reply(c, "AwaitingReconciliation", TRUE)
     \/ ~work.pressed /\ Reply(c, "ObservedFailed", FALSE)
     \/ ~c.permitSend /\ Reply(c, "DryRunCompleted", FALSE)
  /\ work' = NoWork
  /\ UNCHANGED <<storeVars, staged, journal, queue, returned, halfway, chat, replica,
                 now, commands>>

HelperDies ==
  /\ work # NoWork \/ queue # <<>>
  /\ work' = NoWork /\ queue' = <<>>
  /\ UNCHANGED <<storeVars, proc, staged, journal, returned, halfway, chat, replica,
                 now, commands>>

-----------------------------------------------------------------------------
OwnerTypes ==
  /\ Cardinality({m \in chat : m.key = NoKey}) < MaxTyped
  /\ \E body \in Typed :
       chat' = chat \cup {[key |-> NoKey, body |-> body, at |-> now]}
  /\ UNCHANGED <<storeVars, proc, staged, journal, queue, work, returned, halfway,
                 replica, now, commands>>

ReplicaFollows ==
  /\ replica # chat
  /\ replica' = chat
  /\ UNCHANGED <<storeVars, proc, staged, journal, helperVars, now, commands>>

Tick ==
  /\ now < MaxTime
  /\ work # NoWork => now < work.since + SkillTime
  /\ now' = now + 1
  /\ UNCHANGED <<storeVars, proc, staged, journal, helperVars, replica, commands>>

Crash(p) ==
  /\ proc[p] # Idle
  /\ End(p)
  /\ UNCHANGED <<storeVars, staged, journal, helperVars, replica, now, commands>>

ProcessStep(p) ==
  \/ Begin(p, "status", NoKey)
  \/ \E key \in Key : Begin(p, "execute", key) \/ Begin(p, "reconcile", key)
  \/ \E key \in Key, outcome \in {"ObservedSent", "AwaitingReconciliation"} :
       Attest(p, key, outcome)
  \/ RecoverOutbox(p) \/ ReadLive(p) \/ Sweep(p)
  \/ Precheck(p) \/ Stage(p) \/ MintRefused(p) \/ ReserveEntry(p)
  \/ JournalApproval(p) \/ MarkAttemptedEntry(p) \/ JournalAttempt(p)
  \/ Dispatch(p) \/ DispatchFails(p) \/ CompleteEntry(p)
  \/ Discard(p) \/ JournalReconciliation(p)
  \/ Observe(p) \/ Decide(p) \/ DiscardParked(p) \/ ResolveEntry(p)
  \/ Crash(p)

HelperStep == HelperStart \/ PressReturn \/ ReleaseFails \/ SkillEnds \/ HelperDies

Next == (\E p \in Process : ProcessStep(p)) \/ HelperStep \/ OwnerTypes \/ ReplicaFollows \/ Tick

Spec == Init /\ [][Next]_vars

-----------------------------------------------------------------------------
(* The processes act on the store only as SendOutbox allows: StoreSpec is    *)
(* Store!Spec, asked only of the steps that change the store.                *)
Store == INSTANCE SendOutbox WITH
  ClockReadings <- Time, Maxima <- {GeneralMaximum}

StoreChange == <<outbox, attempts>>' # <<outbox, attempts>> /\ Store!Next
StoreSpec == Store!Init /\ [][StoreChange]_<<outbox, attempts>>

CompletionsOf(key) ==
  {c \in {outbox.completions[i] : i \in DOMAIN outbox.completions} : c.key = key}

(* One approval, one Return: neither retries, crashes, recoveries by other   *)
(* processes nor late helpers press Return twice for an approval.            *)
OneReturnPerApproval ==
  \A j, k \in Key :
    returned[j] > 0 /\ ApprovalOf[j] = ApprovalOf[k]
      => returned[j] = 1 /\ (returned[k] = 0 \/ j = k)

(* An entry closed without reconciliation, by its own process or by the      *)
(* recovery of any other, sees no Return, then or later, unless the helper   *)
(* itself failed between pressing and releasing it.                          *)
ClosedUnattempted ==
  \A key \in Key : \A c \in CompletionsOf(key) :
    ~c.reconciled => returned[key] = 0 \/ key \in halfway

(* The journal knows before the client does: Return is pressed only for a    *)
(* draft whose approval and attempt are recorded.                            *)
ReturnJournaled ==
  \A key \in Key :
    returned[key] > 0 => journal[DraftOf[key]].attempts > 0
                         /\ journal[DraftOf[key]].approvals > 0

(* The helper holds a capability that may press Return.                      *)
MayPress(key) ==
  \/ work # NoWork /\ work.capability.key = key
       /\ work.capability.permitSend /\ ~work.pressed
  \/ \E i \in DOMAIN queue : queue[i].key = key /\ queue[i].permitSend
                            /\ now < queue[i].until

(* The keys reconciled before their time: as sent, when the message found    *)
(* was not theirs or the operator erred; as failed, when the grace of the    *)
(* configuration elapsed before the time a helper may take.                  *)
Misjudged ==
  {v.key : v \in {w \in verdicts :
     \/ w.kind = "ObservedSent" /\ ~w.own
     \/ /\ w.kind = "ObservedFailed"
        /\ w.at >= w.since + Grace
        /\ w.at < w.since + Validity + SkillTime}}

(* Single flight reaches the client: at most one key may still be sent,      *)
(* beside those reconciliation misjudged.                                    *)
OneSendAtATime ==
  \A j, k \in Key \ Misjudged : MayPress(j) /\ MayPress(k) => j = k

(* A resolved attempt is over: no capability of it may still press Return,   *)
(* unless reconciliation misjudged it.                                       *)
QuietWhenResolved ==
  \A key \in Key \ Misjudged : CompletionsOf(key) # {} => ~MayPress(key)

(* What is concluded sent was observed: the client has an outgoing message   *)
(* that reads the same, recorded no earlier than the lookback allows, or the *)
(* operator said so.                                                         *)
SentHasMatch ==
  \A v \in verdicts :
    v.kind = "ObservedSent" /\ v.key \notin Attested =>
      \E m \in chat : m.body = BodyOf[v.key] /\ m.at + Lookback >= v.since
=============================================================================
