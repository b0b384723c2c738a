----------------------------- MODULE Connector -----------------------------
(***************************************************************************)
(* connector.rs over one replica: the processes that serve requests, the   *)
(* checkpoint they read and the caches bound to it, the drafts they write, *)
(* the journal they share, and audit-connector-state.                      *)
(*                                                                         *)
(* A process serves one request at a time (serve_unix, ai-query, the       *)
(* owner's draft-attachment).  A request reads the replica in several      *)
(* steps, between which the follower may commit the next checkpoint.  What *)
(* a read returns is abstracted to the checkpoint it was read at: a        *)
(* response is assembled from the set of those, and a preview also shows   *)
(* what was read when its draft was made.                                  *)
(*                                                                         *)
(* The journal is a sequence of lines.  An append reads the last one and   *)
(* writes a record and then a line end under an exclusive lock; a process  *)
(* that is killed or whose write fails leaves any part of them.            *)
(***************************************************************************)
EXTENDS Naturals, Sequences, FiniteSets, SequencesExt

CONSTANTS
  Service,       \* processes that open the connector
  Requests,      \* the operations that are requested
  MaxRequests,   \* bound on the requests of all processes, which numbers them
  MaxCheckpoint, \* bound on the commits of the follower
  FingerprintOf, \* the source a checkpoint was restored from
  MaxFaults,     \* bound on kills and failed writes
  Nobody

ASSUME ConnectorAssumption ==
  /\ {MaxRequests, MaxCheckpoint, MaxFaults} \subseteq Nat \ {0}
  /\ DOMAIN FingerprintOf = 1 .. MaxCheckpoint
  /\ Requests \subseteq {"list", "query", "refused", "draft", "ownerDraft", "preview"}
  /\ Nobody \notin Service

Request == 1 .. MaxRequests
Checkpoint == 1 .. MaxCheckpoint

\* What an operation reads, in order: "fresh" is a read of the replica, the
\* other words are looked up in the caches of the process first.  The
\* operations that are left out read a part of what one of these does.
ListPlan == <<"fresh", "conversation", "participant", "resolved">>
SearchPlan == <<"stale", "fresh", "fresh">>  \* of all scopes, one by one
DraftPlan == <<"fresh", "participant", "stale", "binding">>
OwnerPlan == DraftPlan
PreviewPlan == <<"validate">>

Plan(op) ==
  CASE op = "list"       -> ListPlan
    [] op = "query"      -> SearchPlan
    [] op = "refused"    -> <<>>
    [] op = "draft"      -> DraftPlan
    [] op = "ownerDraft" -> OwnerPlan
    [] op = "preview"    -> PreviewPlan

VARIABLES
  checkpoint, \* the replica: the checkpoint committed last
  requests,   \* requests begun so far
  service,    \* what each process is doing
  cache,      \* the checkpoint-bound state of each process
  drafts,     \* files of the draft directory
  journal,    \* lines of the audit log
  holder,     \* who holds the lock of the journal
  reply,      \* the last response of each process
  auditor,    \* a run of audit-connector-state
  faults      \* the requests that were hit by a kill or a failed write

vars == <<checkpoint, requests, service, cache, drafts, journal, holder, reply, auditor, faults>>

NoCache == [binding |-> 0, stale |-> 0, conversation |-> 0, participant |-> 0, resolved |-> {}]

Idle == [phase |-> "idle", op |-> "refused", number |-> 0, plan |-> <<>>, before |-> 0,
         current |-> 0, moved |-> FALSE, observed |-> {}, shown |-> {}, bound |-> Nobody, target |-> 0,
         tail |-> 0, served |-> FALSE]

Down == [Idle EXCEPT !.phase = "down"]

NoReply == [outcome |-> "none", number |-> 0, op |-> "refused", observed |-> {}, shown |-> {},
            at |-> 0, target |-> 0]

NoAudit == [phase |-> "idle", log |-> {}, files |-> {}, verdict |-> "none"]

Init ==
  /\ checkpoint = 1
  /\ requests = 0
  /\ service = [s \in Service |-> Down]
  /\ cache = [s \in Service |-> NoCache]
  /\ drafts = {}
  /\ journal = <<>>
  /\ holder = Nobody
  /\ reply = [s \in Service |-> NoReply]
  /\ auditor = NoAudit
  /\ faults = {}

-----------------------------------------------------------------------------
\* The journal.  A line holds one record, unless a write was cut short (whole
\* is FALSE) or an append followed a record without its line end.
NewLine == [events |-> <<>>, whole |-> TRUE, ended |-> FALSE]

Readable(line) == line.whole /\ Len(line.events) = 1

\* The record an append binds itself to, and whether it can be read
TailReadable(lines) == lines # <<>> => Readable(Last(lines))
TailOf(lines) == IF lines = <<>> THEN 0 ELSE Last(Last(lines).events).number

\* audit_connector_log_file: every line is one record, bound to the one before
Verified(lines) ==
  \A i \in DOMAIN lines :
    /\ Readable(lines[i])
    /\ lines[i].events[1].previous = TailOf(SubSeq(lines, 1, i - 1))
    /\ \A j \in 1 .. i - 1 : lines[j].events[1].number # lines[i].events[1].number

Recorded(lines) == UNION {ToSet(lines[i].events) : i \in DOMAIN lines}

\* What a write leaves: all of it, or what was written when it stopped.  After
\* a record without a line end it goes on in the same line.
Part == {"nothing", "fragment", "record", "all"}

Written(lines, event, part) ==
  LET continues == lines # <<>> /\ ~Last(lines).ended
      begun == IF continues THEN Last(lines) ELSE NewLine
      line == IF part = "fragment" THEN [begun EXCEPT !.whole = FALSE]
              ELSE [begun EXCEPT !.events = Append(@, event), !.ended = part = "all"]
  IN IF part = "nothing" THEN lines
     ELSE Append(IF continues THEN Front(lines) ELSE lines, line)

KindOf(op) ==
  CASE op = "draft" -> "requested" [] op = "preview" -> "reviewed"
    [] op = "refused" -> "denied" [] OTHER -> "request"

EventOf(s) ==
  [number |-> service[s].number, previous |-> service[s].tail,
   kind |-> KindOf(service[s].op),
   draft |-> IF service[s].op = "draft" THEN service[s].number ELSE service[s].target]

-----------------------------------------------------------------------------
\* The follower commits the next checkpoint
Commit ==
  /\ checkpoint < MaxCheckpoint
  /\ checkpoint' = checkpoint + 1
  /\ UNCHANGED <<requests, service, cache, drafts, journal, holder, reply, auditor, faults>>

\* ConnectorService::open reads the binding, and then the stale databases of
\* the restoration report; an existing journal must verify.
Open(s) ==
  /\ service[s].phase = "down"
  /\ requests < MaxRequests
  /\ service' = [service EXCEPT ![s].phase = "opening"]
  /\ cache' = [cache EXCEPT ![s] = [NoCache EXCEPT !.binding = checkpoint]]
  /\ UNCHANGED <<checkpoint, requests, drafts, journal, holder, reply, auditor, faults>>

Opened(s) ==
  /\ service[s].phase = "opening"
  /\ holder = Nobody
  /\ service' = [service EXCEPT ![s] = IF Verified(journal) THEN Idle ELSE Down]
  /\ cache' = [cache EXCEPT ![s].stale = checkpoint]
  /\ UNCHANGED <<checkpoint, requests, drafts, journal, holder, reply, auditor, faults>>

\* ai-query and draft-attachment are commands: they open, serve one request
\* and end.
Command(op) == op \in {"query", "ownerDraft"}

\* A request arrives.  query_ai_context reads the checkpoint itself before it
\* prepares the service; the owner's attachment draft has no guard at all.
Begin(s, op) ==
  /\ service[s].phase = "idle"
  /\ requests < MaxRequests
  /\ Command(op) => ~service[s].served
  /\ requests' = requests + 1
  /\ \E target \in IF op = "preview" THEN {d.number : d \in drafts} ELSE {0} :
       service' = [service EXCEPT ![s] =
         [Idle EXCEPT !.phase = IF op = "ownerDraft" THEN "read" ELSE "refresh",
                      !.op = op, !.number = requests', !.plan = Plan(op), !.target = target,
                      !.before = IF op = "query" THEN checkpoint ELSE 0]]
  /\ reply' = [reply EXCEPT ![s] = NoReply]
  /\ UNCHANGED <<checkpoint, cache, drafts, journal, holder, auditor, faults>>

Response(s, outcome) ==
  [outcome |-> outcome, number |-> service[s].number, op |-> service[s].op,
   observed |-> service[s].observed, shown |-> service[s].shown, at |-> service[s].before,
   target |-> service[s].target]

\* What follows the reads of an operation
AfterReads(op) == IF op \in {"draft", "ownerDraft"} THEN "write" ELSE "append"

Reading(s, rest) == IF rest = <<>> THEN AfterReads(service[s].op) ELSE "read"

\* The request is answered; a command ends
Answer(s, outcome) ==
  /\ service' = [service EXCEPT ![s] =
       IF Command(service[s].op) THEN Down ELSE [Idle EXCEPT !.served = TRUE]]
  /\ reply' = [reply EXCEPT ![s] = Response(s, outcome)]

-----------------------------------------------------------------------------
\* refresh_checkpoint_bound_state compares the binding of the caches with the
\* current one, and replaces them when it changed: before the operation, or
\* after it, when the answer is a conflict.
Refreshed(s, current) ==
  IF service[s].moved THEN Answer(s, "conflict")
  ELSE /\ service' = [service EXCEPT ![s].phase = Reading(s, service[s].plan),
                        ![s].before = IF service[s].op = "query" THEN @ ELSE current]
       /\ UNCHANGED reply

Refresh(s) ==
  /\ service[s].phase = "refresh"
  /\ IF cache[s].binding = checkpoint THEN Refreshed(s, checkpoint)
     ELSE /\ service' = [service EXCEPT ![s].phase = "reload", ![s].current = checkpoint]
          /\ UNCHANGED reply
  /\ UNCHANGED <<checkpoint, requests, cache, drafts, journal, holder, auditor, faults>>

\* (mutant) keeps the profiles of the participants
ClearedButProfiles(s, stale) ==
  [NoCache EXCEPT !.binding = service[s].current, !.stale = stale,
                  !.participant = cache[s].participant]

Cleared(s, stale) == [NoCache EXCEPT !.binding = service[s].current, !.stale = stale]

Reload(s) ==
  /\ service[s].phase = "reload"
  /\ cache' = [cache EXCEPT ![s] = Cleared(s, checkpoint)]
  /\ Refreshed(s, service[s].current)
  /\ UNCHANGED <<checkpoint, requests, drafts, journal, holder, auditor, faults>>

-----------------------------------------------------------------------------
\* The reads of an operation, one step each
Observe(s, seen, rest) ==
  service' = [service EXCEPT ![s].observed = @ \cup seen, ![s].plan = rest,
                             ![s].phase = Reading(s, rest)]

ReadFresh(s, rest) ==
  /\ Observe(s, {checkpoint}, rest)
  /\ UNCHANGED cache

\* create_draft binds the draft to the source of the status it reads last
ReadBinding(s) ==
  /\ service' = [service EXCEPT ![s].observed = @ \cup {checkpoint}, ![s].plan = <<>>,
                                ![s].bound = FingerprintOf[checkpoint], ![s].phase = "write"]
  /\ UNCHANGED cache

\* cached_conversation, cached_participant and warm_conversation_caches
ReadCached(s, item, rest) ==
  LET known == IF cache[s][item] # 0 THEN cache[s][item] ELSE checkpoint IN
  /\ cache' = [cache EXCEPT ![s][item] = known]
  /\ Observe(s, {known}, rest)

\* resolve_conversation_by_id: from its cache, or from the conversation, its
\* participants and the stale databases
ReadResolved(s, rest) ==
  IF cache[s].resolved # {} THEN Observe(s, cache[s].resolved, rest) /\ UNCHANGED cache
  ELSE IF cache[s].conversation = 0 \/ cache[s].participant = 0
    THEN Observe(s, {}, <<"conversation", "participant", "resolved">> \o rest) /\ UNCHANGED cache
    ELSE LET parts == {cache[s].conversation, cache[s].participant, cache[s].stale} IN
         /\ cache' = [cache EXCEPT ![s].resolved = parts]
         /\ Observe(s, parts, rest)

\* Mutant: the source a draft is bound to is not compared with the current one.
PreviewableUnbound(s, d) == d.number = service[s].target /\ d.whole /\ ~d.owner

\* validate_draft: a whole draft, bound to the current source
Previewable(s, d) ==
  /\ d.number = service[s].target /\ d.whole
  /\ d.bound = FingerprintOf[checkpoint]
  /\ ~d.owner

\* preview releases the draft as it was stored.
ReadDraft(s, rest) ==
  /\ \E d \in drafts :
       /\ Previewable(s, d)
       /\ service' = [service EXCEPT ![s].observed = @ \cup {checkpoint}, ![s].shown = d.read,
                                     ![s].plan = rest, ![s].phase = Reading(s, rest)]
  /\ UNCHANGED cache

Read(s) ==
  LET item == Head(service[s].plan)
      rest == Tail(service[s].plan)
  IN
  /\ service[s].phase = "read"
  /\ \/ item = "fresh" /\ ReadFresh(s, rest)
     \/ item = "validate" /\ ReadDraft(s, rest)
     \/ item = "binding" /\ ReadBinding(s)
     \/ item = "stale" /\ Observe(s, {cache[s].stale}, rest) /\ UNCHANGED cache
     \/ item \in {"conversation", "participant"} /\ ReadCached(s, item, rest)
     \/ item = "resolved" /\ ReadResolved(s, rest)
  /\ UNCHANGED <<checkpoint, requests, drafts, journal, holder, reply, auditor, faults>>

\* A record that is not there, a replica that is busy, a draft that is stale:
\* the request fails, and nothing looks at the checkpoint again.
ReadFails(s) ==
  /\ service[s].phase = "read"
  /\ Head(service[s].plan) # "stale"
  /\ Answer(s, "error")
  /\ UNCHANGED <<checkpoint, requests, cache, drafts, journal, holder, auditor, faults>>

-----------------------------------------------------------------------------
\* The file of a draft.  read holds the checkpoints its contents are from.
DraftOf(s, whole) ==
  [number |-> service[s].number, read |-> service[s].observed, bound |-> service[s].bound,
   owner |-> service[s].op = "ownerDraft", whole |-> whole]

WithoutDraft(s) == {d \in drafts : d.number # service[s].number}

\* create_draft journals what it wrote; create_owner_attachment_draft is done
WriteDraft(s) ==
  /\ service[s].phase = "write"
  /\ drafts' = drafts \cup {DraftOf(s, TRUE)}
  /\ IF service[s].op = "ownerDraft" THEN Answer(s, "ok")
     ELSE service' = [service EXCEPT ![s].phase = "append"] /\ UNCHANGED reply
  /\ UNCHANGED <<checkpoint, requests, cache, journal, holder, auditor, faults>>

\* (mutant) appends without the lock
LockIgnored == TRUE

\* append_owner_only_connector_event takes the lock and reads the last line
LockFree == holder = Nobody

AppendLock(s) ==
  /\ service[s].phase = "append"
  /\ LockFree
  /\ TailReadable(journal)
  /\ holder' = s
  /\ service' = [service EXCEPT ![s].phase = "locked", ![s].tail = TailOf(journal)]
  /\ UNCHANGED <<checkpoint, requests, cache, drafts, journal, reply, auditor, faults>>

\* (mutant) create_draft leaves its file
AppendRefusedKeepsDraft(s) == Answer(s, "error")

\* An append failed: create_draft removes its file
AppendRefused(s) ==
  IF service[s].op = "draft" THEN service' = [service EXCEPT ![s].phase = "remove"] /\ UNCHANGED reply
  ELSE Answer(s, "error")

RemoveDraft(s) ==
  /\ service[s].phase = "remove"
  /\ drafts' = WithoutDraft(s)
  /\ Answer(s, "error")
  /\ UNCHANGED <<checkpoint, requests, cache, journal, holder, auditor, faults>>

AppendUnreadable(s) ==
  /\ service[s].phase = "append"
  /\ LockFree
  /\ ~TailReadable(journal)
  /\ AppendRefused(s)
  /\ UNCHANGED <<checkpoint, requests, cache, drafts, journal, holder, auditor, faults>>

\* The record, its line end and the unlock; a denial ends the request
AppendWrite(s) ==
  /\ service[s].phase = "locked"
  /\ journal' = Written(journal, EventOf(s), "all")
  /\ holder' = Nobody
  /\ IF service[s].op = "refused" THEN Answer(s, "error")
     ELSE service' = [service EXCEPT ![s].phase = "check"] /\ UNCHANGED reply
  /\ UNCHANGED <<checkpoint, requests, cache, drafts, auditor, faults>>

Moved(s) == checkpoint # service[s].before

\* The replica is compared with what it was before the request.  Only the
\* connector's own guard refreshes and answers with a retryable conflict.
Check(s) ==
  /\ service[s].phase = "check"
  /\ CASE ~Moved(s) -> Answer(s, "ok")
       [] Moved(s) /\ service[s].op = "query" -> Answer(s, "error")
       [] OTHER -> /\ service' = [service EXCEPT ![s].phase = "refresh", ![s].moved = TRUE]
                   /\ UNCHANGED reply
  /\ UNCHANGED <<checkpoint, requests, cache, drafts, journal, holder, auditor, faults>>

-----------------------------------------------------------------------------
Hit(s) ==
  /\ faults' = faults \cup {service[s].number}
  /\ Cardinality(faults') <= MaxFaults

\* A write of the journal fails part of the way, or its flush does.
AppendFails(s) ==
  /\ service[s].phase = "locked"
  /\ Hit(s)
  /\ \E part \in Part : journal' = Written(journal, EventOf(s), part)
  /\ holder' = Nobody
  /\ AppendRefused(s)
  /\ UNCHANGED <<checkpoint, requests, cache, drafts, auditor>>

\* A write of a draft fails part of the way: the file stays
WriteFails(s) ==
  /\ service[s].phase = "write"
  /\ Hit(s)
  /\ drafts' = drafts \cup {DraftOf(s, FALSE)}
  /\ Answer(s, "error")
  /\ UNCHANGED <<checkpoint, requests, cache, journal, holder, auditor>>

\* A process is killed while it serves a request, perhaps in the middle of what
\* it writes; its lock is released
Kill(s) ==
  /\ service[s].number # 0
  /\ Hit(s)
  /\ \/ service[s].phase = "locked" /\ UNCHANGED drafts
        /\ \E part \in Part : journal' = Written(journal, EventOf(s), part)
     \/ service[s].phase = "write" /\ UNCHANGED journal
        /\ \E whole \in BOOLEAN : drafts' = drafts \cup {DraftOf(s, whole)}
     \/ service[s].phase # "locked" /\ UNCHANGED <<drafts, journal>>
  /\ holder' = IF holder = s THEN Nobody ELSE holder
  /\ service' = [service EXCEPT ![s] = Down]
  /\ cache' = [cache EXCEPT ![s] = NoCache]
  /\ reply' = [reply EXCEPT ![s] = NoReply]
  /\ UNCHANGED <<checkpoint, requests, auditor>>

-----------------------------------------------------------------------------
\* audit_state: every draft has one completed request, and every request and
\* review has its draft.  It reads the journal and the directory twice, and
\* gives no verdict when they changed.
Completed(log) == {e \in log : e.kind = "requested"}

OneToOne(log, files) == {e.draft : e \in Completed(log)} = {d.number : d \in files}

Linked(log, files) ==
  /\ \A d \in files : d.whole
  /\ OneToOne(log, files)
  /\ \A e \in log : e.kind = "reviewed" => \E d \in files : d.number = e.draft

AuditRead ==
  /\ auditor.phase = "idle" /\ auditor.verdict = "none"
  /\ LockFree
  /\ auditor' = IF Verified(journal)
                THEN [NoAudit EXCEPT !.phase = "list", !.log = Recorded(journal)]
                ELSE [NoAudit EXCEPT !.verdict = "fails"]
  /\ UNCHANGED <<checkpoint, requests, service, cache, drafts, journal, holder, reply, faults>>

AuditList ==
  /\ auditor.phase = "list"
  /\ auditor' = IF Linked(auditor.log, drafts)
                THEN [auditor EXCEPT !.phase = "reread", !.files = drafts]
                ELSE [NoAudit EXCEPT !.verdict = "fails"]
  /\ UNCHANGED <<checkpoint, requests, service, cache, drafts, journal, holder, reply, faults>>

AuditReread ==
  /\ auditor.phase = "reread"
  /\ LockFree
  /\ auditor' = IF Verified(journal) /\ Recorded(journal) = auditor.log
                THEN [auditor EXCEPT !.phase = "relist"]
                ELSE [NoAudit EXCEPT !.verdict = "fails"]
  /\ UNCHANGED <<checkpoint, requests, service, cache, drafts, journal, holder, reply, faults>>

\* (mutant) takes the listing it already has
UnchangedSince(files) == files = files

SameListing(files) == drafts = files

AuditRelist ==
  /\ auditor.phase = "relist"
  /\ auditor' = IF SameListing(auditor.files) THEN [NoAudit EXCEPT !.verdict = "passes"]
                ELSE [NoAudit EXCEPT !.verdict = "fails"]
  /\ UNCHANGED <<checkpoint, requests, service, cache, drafts, journal, holder, reply, faults>>

Progress(s) ==
  \/ Opened(s) \/ Refresh(s) \/ Reload(s) \/ Read(s) \/ ReadFails(s)
  \/ WriteDraft(s) \/ AppendLock(s) \/ AppendUnreadable(s) \/ AppendWrite(s) \/ RemoveDraft(s)
  \/ Check(s)

Next ==
  \/ Commit
  \/ \E s \in Service :
       \/ Open(s) \/ Progress(s) \/ AppendFails(s) \/ WriteFails(s) \/ Kill(s)
       \/ \E op \in Requests : Begin(s, op)
  \/ AuditRead \/ AuditList \/ AuditReread \/ AuditRelist

Spec == Init /\ [][Next]_vars

-----------------------------------------------------------------------------

Released(s, op) == reply[s].outcome = "ok" /\ reply[s].op = op

\* Whatever was cached before, and whatever was committed in between, what a
\* response took from the replica or the caches is of the checkpoint it was
\* verified against (dispatch_internal).  The owner's attachment draft is not a
\* connector operation and has no guard.
OneCheckpoint ==
  \A s \in Service : reply[s].outcome = "ok" /\ reply[s].op # "ownerDraft" =>
    reply[s].observed \subseteq {reply[s].at}

\* A preview shows a stored draft beside what it read itself.  When the receipt
\* of that draft was released, all of it is of one source: "never release a
\* response assembled across two checkpoints" (dispatch_internal, preview).
PreviewOfOneSource ==
  \A s, t \in Service :
    /\ Released(t, "draft") /\ Released(s, "preview")
    /\ reply[s].target = reply[t].number
    => \A c \in reply[s].observed \cup reply[s].shown :
         FingerprintOf[c] = FingerprintOf[reply[s].at]

\* What was answered is in the journal, and without a fault the journal is one
\* chain, however many processes append to it.
JournalTrue ==
  /\ faults = {} => Verified(journal)
  /\ \A s \in Service : reply[s].outcome \in {"ok", "conflict"} /\ reply[s].op # "ownerDraft" =>
       \E e \in Recorded(journal) : e.number = reply[s].number

\* What audit-connector-state demands of drafts and requests can only fail for
\* a request that a fault hit, or one that is still being written: an append
\* that another process made impossible takes its draft with it.  A draft whose
\* receipt was released stays, and holds what the source it is bound to holds.
DraftsAccounted ==
  /\ \A d \in drafts :
       \/ d.owner
       \/ d.number \in faults
       \/ d.whole /\ \E e \in Completed(Recorded(journal)) : e.draft = d.number
       \/ \E s \in Service : service[s].number = d.number /\ service[s].phase \in {"append", "locked", "remove"}
  /\ \A e \in Completed(Recorded(journal)) :
       e.draft \in faults \/ \E d \in drafts : d.number = e.draft
  /\ \A s \in Service : Released(s, "draft") =>
       \E d \in drafts :
         /\ d.number = reply[s].number /\ d.whole
         /\ \A c \in d.read : FingerprintOf[c] = d.bound
         /\ \E e \in Completed(Recorded(journal)) : e.draft = d.number

\* An audit that passes is true of the journal and the drafts at the end of it:
\* a creation or an append beside it cannot make it pass over a mixed state,
\* unless a write of the journal fails at that moment.
AuditSound ==
  [][auditor.phase = "relist" /\ auditor'.verdict = "passes" /\ faults = {} =>
       Linked(Recorded(journal), drafts)]_vars
=============================================================================
