--------------------------- MODULE ConnectorProof ---------------------------
(***************************************************************************)
(* Theorems about Connector, for any processes, requests, sources and      *)
(* bounds: what a response reads of the replica is of one checkpoint, what *)
(* was answered is in the journal and the journal is one chain, drafts and *)
(* their requests stay paired, and an audit passes only over a state that  *)
(* is whole.                                                               *)
(***************************************************************************)
EXTENDS Connector, SequenceTheorems, TLAPS

Phase == {"down", "opening", "idle", "refresh", "reload", "read", "write", "append", "locked",
          "remove", "check"}

Operation == {"list", "query", "refused", "draft", "ownerDraft", "preview"}

Item == {"fresh", "conversation", "participant", "resolved", "stale", "binding", "validate"}

Source == {FingerprintOf[c] : c \in Checkpoint} \cup {Nobody}

Serving == [phase : Phase, op : Operation, number : Nat, plan : Seq(Item), before : Nat,
            current : Nat, moved : BOOLEAN, observed : SUBSET Nat, shown : SUBSET Nat,
            bound : Source, target : Nat, tail : Nat, served : BOOLEAN]

Cached == [binding : Nat, stale : Nat, conversation : Nat, participant : Nat,
           resolved : SUBSET Nat]

Draft == [number : Nat, read : SUBSET Nat, bound : Source, owner : BOOLEAN, whole : BOOLEAN]

Kind == {"requested", "reviewed", "denied", "request"}

Event == [number : Nat, previous : Nat, kind : Kind, draft : Nat]

Line == [events : Seq(Event), whole : BOOLEAN, ended : BOOLEAN]

Answered == [outcome : {"none", "ok", "error", "conflict"}, number : Nat, op : Operation,
             observed : SUBSET Nat, shown : SUBSET Nat, at : Nat, target : Nat]

Audit == [phase : {"idle", "list", "reread", "relist"}, log : SUBSET Event,
          files : SUBSET Draft, verdict : {"none", "fails", "passes"}]

TypeOK ==
  /\ checkpoint \in Checkpoint
  /\ requests \in Nat
  /\ service \in [Service -> Serving]
  /\ cache \in [Service -> Cached]
  /\ drafts \subseteq Draft
  /\ journal \in Seq(Line)
  /\ holder \in Service \cup {Nobody}
  /\ reply \in [Service -> Answered]
  /\ auditor \in Audit
  /\ faults \subseteq Nat

-----------------------------------------------------------------------------
(* Where a process is, by its phase.                                         *)

\* A request that looks at the replica for the second time
Rechecking(s) == service[s].phase \in {"refresh", "reload"} /\ service[s].moved

\* A request that has not looked at it yet
Starting(s) == service[s].phase \in {"refresh", "reload"} /\ ~service[s].moved

(* A process is inside an append exactly while it holds the lock, and there  *)
(* the journal is as it read it.  A plan is not done while it is read, and a *)
(* draft ends its own with the binding.                                      *)
Unbound == Item \ {"binding"}

DraftPlans == {DraftPlan, <<"participant", "stale", "binding">>, <<"stale", "binding">>,
               <<"binding">>}

ControlSound ==
  \A s \in Service :
    /\ service[s].phase = "locked" <=> holder = s
    /\ service[s].phase = "locked" =>
         TailReadable(journal) /\ service[s].tail = TailOf(journal)
    /\ service[s].phase = "read" => service[s].plan # <<>>
    /\ service[s].phase \in {"write", "remove"} => service[s].op \in {"draft", "ownerDraft"}
    /\ service[s].phase = "remove" => service[s].op = "draft"
    /\ service[s].phase \in {"refresh", "reload", "append", "locked", "check"} =>
         service[s].op # "ownerDraft"
    /\ service[s].op \notin {"draft", "ownerDraft"} => service[s].plan \in Seq(Unbound)
    /\ service[s].op = "draft" =>
         /\ Starting(s) => service[s].plan = DraftPlan
         /\ service[s].phase = "read" => service[s].plan \in DraftPlans
    /\ service[s].phase \in {"down", "opening", "idle"} =>
         service[s].op = "refused" /\ ~service[s].moved

(* What a process holds in its caches was read under the binding it has, and *)
(* what a request has read was read since the checkpoint it started from.    *)
Bounded(s, c) == cache[s].binding <= c /\ c <= checkpoint

CacheSound ==
  \A s \in Service :
    /\ cache[s].binding <= checkpoint
    /\ service[s].phase \notin {"down", "opening"} => Bounded(s, cache[s].stale)
    /\ cache[s].conversation # 0 => Bounded(s, cache[s].conversation)
    /\ cache[s].participant # 0 => Bounded(s, cache[s].participant)
    /\ \A c \in cache[s].resolved : Bounded(s, c)

ReadSound ==
  \A s \in Service :
    /\ service[s].before <= checkpoint
    /\ service[s].phase = "reload" =>
         /\ service[s].current <= checkpoint
         /\ service[s].op = "query" => service[s].before <= service[s].current
    /\ Starting(s) => service[s].observed = {}
    /\ service[s].phase \in {"read", "write", "append", "locked", "check"}
          /\ service[s].op # "ownerDraft" =>
         /\ service[s].before <= cache[s].binding
         /\ \A c \in service[s].observed : service[s].before <= c /\ c <= checkpoint

(* A draft is bound to the source of a checkpoint it was read from.          *)
BindSound ==
  \A s \in Service :
    service[s].op = "draft" /\ service[s].phase \in {"write", "append", "locked", "check"} =>
      \E c \in service[s].observed : service[s].bound = FingerprintOf[c]

-----------------------------------------------------------------------------
Events == Recorded(journal)

\* The requests that may still append their record, and those that have.
Unrecorded(s) ==
  Starting(s) \/ service[s].phase \in {"read", "write", "append", "locked"}

IsRecorded(s) == Rechecking(s) \/ service[s].phase = "check"

(* A number is of one request: the one that serves it, the last one answered *)
(* or one that is over.                                                      *)
NumberSound ==
  /\ \A s \in Service :
       /\ service[s].number <= requests
       /\ service[s].number = 0 <=> service[s].phase \in {"down", "opening", "idle"}
       /\ \A t \in Service :
            /\ service[s].number = service[t].number /\ service[s].number # 0 => s = t
            /\ reply[s].outcome # "none" => reply[s].number # service[t].number
       /\ reply[s].outcome # "none" => reply[s].number \in 1 .. requests
  /\ \A d \in drafts : d.number \in 1 .. requests
  /\ \A e \in Events : e.number \in 1 .. requests

(* A request appends one record, before it is answered.                      *)
RecordSound ==
  /\ \A s \in Service :
       /\ Unrecorded(s) => \A e \in Events : e.number # service[s].number
       /\ IsRecorded(s) => \E e \in Events :
            /\ e.number = service[s].number
            /\ service[s].op = "draft" => e.kind = "requested"
       /\ service[s].phase = "remove" =>
            \/ service[s].number \in faults
            \/ \A e \in Events : e.number # service[s].number
       /\ reply[s].outcome \in {"ok", "conflict"} /\ reply[s].op # "ownerDraft" =>
            \E e \in Events :
              /\ e.number = reply[s].number
              /\ reply[s].op = "draft" => e.kind = "requested"
  /\ \A e \in Events : e.kind = "requested" => e.draft = e.number

(* Without a fault the journal is a chain of whole lines, and every request  *)
(* that writes to it succeeds.                                               *)
ChainSound ==
  faults = {} =>
    /\ Verified(journal)
    /\ \A i \in DOMAIN journal : journal[i].ended
    /\ \A s \in Service : service[s].phase # "remove"

(* A draft is of a request that wrote it, whole unless a fault hit it; the   *)
(* one of a request that is not over yet is the one it holds in memory.      *)
DraftSound ==
  /\ \A d \in drafts :
       /\ d.whole \/ d.number \in faults
       /\ \A s \in Service : d.number = service[s].number =>
            /\ service[s].op = "draft"
            /\ service[s].phase \in {"append", "locked", "remove", "check"} \/ Rechecking(s)
  /\ \A s \in Service :
       service[s].op = "draft" /\ (IsRecorded(s) \/ service[s].phase \in {"append", "locked"}) =>
         DraftOf(s, TRUE) \in drafts

(* Without a fault, what a preview was recorded for is there.                *)
ReviewSound ==
  faults = {} =>
    /\ \A s \in Service : service[s].op = "preview" =>
         \E d \in drafts : d.number = service[s].target
    /\ \A e \in Events : e.kind = "reviewed" => \E d \in drafts : d.number = e.draft

(* An audit goes on with what it found whole, and the journal only grows.    *)
AuditInv ==
  auditor.phase # "idle" =>
    /\ auditor.verdict = "none"
    /\ auditor.log \subseteq Events
    /\ auditor.phase \in {"reread", "relist"} => Linked(auditor.log, auditor.files)

ConnectorInv ==
  /\ TypeOK
  /\ ControlSound
  /\ CacheSound
  /\ ReadSound
  /\ BindSound
  /\ OneCheckpoint
  /\ NumberSound
  /\ RecordSound
  /\ ChainSound
  /\ DraftSound
  /\ DraftsAccounted
  /\ ReviewSound
  /\ AuditInv

-----------------------------------------------------------------------------
(* The values the state is made of are of their types.                       *)
LEMMA Values ==
  /\ NoCache \in Cached
  /\ Idle \in Serving
  /\ Down \in Serving
  /\ NoReply \in Answered
  /\ NoAudit \in Audit
  /\ NewLine \in Line
  /\ \A op \in Operation : Plan(op) \in Seq(Item)
  <1>1. /\ NoCache \in Cached
        /\ NoReply \in Answered
        /\ NoAudit \in Audit
        /\ NewLine \in Line
    BY DEF NoCache, Cached, NoReply, Answered, NoAudit, Audit, NewLine, Line, Operation
  <1>2. Idle \in Serving
    BY DEF Idle, Serving, Operation, Phase, Source
  <1>3. Down \in Serving
    BY <1>2 DEF Down, Serving, Phase
  <1>4. \A op \in Operation : Plan(op) \in Seq(Item)
    <2>1. /\ ListPlan \in Seq(Item) /\ SearchPlan \in Seq(Item)
          /\ DraftPlan \in Seq(Item) /\ OwnerPlan \in Seq(Item)
          /\ PreviewPlan \in Seq(Item) /\ <<>> \in Seq(Item)
      BY DEF Item, ListPlan, SearchPlan, DraftPlan, OwnerPlan, PreviewPlan
    <2>2. QED
      BY <2>1 DEF Operation, Plan
  <1>5. QED
    BY <1>1, <1>2, <1>3, <1>4

(* What a write leaves of the journal: all its records, and the new one if   *)
(* it was written to its end.                                                *)
LEMMA WrittenFacts ==
  ASSUME NEW lines \in Seq(Line), NEW event \in Event, NEW part \in Part
  PROVE  /\ Written(lines, event, part) \in Seq(Line)
         /\ Recorded(lines) \subseteq Recorded(Written(lines, event, part))
         /\ Recorded(Written(lines, event, part)) \subseteq Recorded(lines) \cup {event}
         /\ part = "all" => event \in Recorded(Written(lines, event, part))
  <1> DEFINE continues == lines # <<>> /\ ~Last(lines).ended
             begun == IF continues THEN Last(lines) ELSE NewLine
             line == IF part = "fragment" THEN [begun EXCEPT !.whole = FALSE]
                     ELSE [begun EXCEPT !.events = Append(@, event), !.ended = part = "all"]
             before == IF continues THEN Front(lines) ELSE lines
  <1>1. CASE part = "nothing"
    BY <1>1 DEF Written
  <1>2. CASE part # "nothing"
    <2>1. Written(lines, event, part) = Append(before, line)
      BY <1>2 DEF Written
    <2>2. begun \in Line
      <3>1. lines # <<>> => Last(lines) \in Line
        BY DEF Last
      <3>2. QED
        BY <3>1, Values
    <2>3. /\ line \in Line
          /\ ToSet(begun.events) \subseteq ToSet(line.events)
          /\ ToSet(line.events) \subseteq ToSet(begun.events) \cup {event}
          /\ part = "all" => event \in ToSet(line.events)
      <3> HIDE DEF begun
      <3>1. begun.events \in Seq(Event)
        BY <2>2 DEF Line
      <3>2. /\ Append(begun.events, event) \in Seq(Event)
            /\ ToSet(Append(begun.events, event)) = ToSet(begun.events) \cup {event}
        <4>1. /\ Append(begun.events, event) \in Seq(Event)
              /\ DOMAIN Append(begun.events, event) = DOMAIN begun.events \cup {Len(begun.events) + 1}
              /\ \A i \in DOMAIN begun.events :
                   Append(begun.events, event)[i] = begun.events[i]
              /\ Append(begun.events, event)[Len(begun.events) + 1] = event
          BY <3>1
        <4>2. QED
          BY <4>1 DEF ToSet
      <3>3. \/ part = "fragment" /\ line = [begun EXCEPT !.whole = FALSE]
            \/ /\ part # "fragment"
               /\ line = [begun EXCEPT !.events = Append(@, event), !.ended = part = "all"]
        OBVIOUS
      <3>4. /\ line \in Line
            /\ \/ line.events = begun.events /\ part # "all"
               \/ line.events = Append(begun.events, event)
        BY <2>2, <3>2, <3>3 DEF Line
      <3>5. QED
        BY <3>2, <3>4
    <2>4. /\ before \in Seq(Line)
          /\ Recorded(lines) = Recorded(before) \cup ToSet(begun.events)
      <3>1. CASE ~continues
        BY <3>1 DEF NewLine, ToSet
      <3>2. CASE continues
        <4>1. Len(lines) \in Nat \ {0} /\ Len(lines) \in DOMAIN lines
          BY <3>2
        <4>2. /\ before \in Seq(Line)
              /\ DOMAIN before = 1 .. Len(lines) - 1
              /\ \A i \in 1 .. Len(lines) - 1 : before[i] = lines[i]
          BY <3>2, <4>1 DEF Front
        <4>3. DOMAIN lines = (1 .. Len(lines) - 1) \cup {Len(lines)}
          <5>1. DOMAIN lines = 1 .. Len(lines)
            OBVIOUS
          <5>2. QED
            BY <4>1, <5>1
        <4>4. begun = lines[Len(lines)]
          BY <3>2 DEF Last
        <4>5. QED
          BY <4>2, <4>3, <4>4 DEF Recorded
      <3>3. QED
        BY <3>1, <3>2
    <2>5. Recorded(Append(before, line)) = Recorded(before) \cup ToSet(line.events)
      <3> HIDE DEF before, line
      <3>1. /\ DOMAIN Append(before, line) = DOMAIN before \cup {Len(before) + 1}
            /\ \A i \in DOMAIN before : Append(before, line)[i] = before[i]
            /\ Append(before, line)[Len(before) + 1] = line
        BY <2>3, <2>4
      <3>2. QED
        BY <3>1 DEF Recorded
    <2>6. Append(before, line) \in Seq(Line)
      <3> HIDE DEF before, line
      <3>1. QED
        BY <2>3, <2>4
    <2>7. QED
      <3> HIDE DEF begun, before, line
      <3>1. QED
        BY <2>1, <2>3, <2>4, <2>5, <2>6
  <1>3. QED
    BY <1>1, <1>2

LEMMA RecordedEvents ==
  ASSUME NEW lines \in Seq(Line)
  PROVE  Recorded(lines) \subseteq Event
  <1>1. \A i \in DOMAIN lines : ToSet(lines[i].events) \subseteq Event
    <2> TAKE i \in DOMAIN lines
    <2>1. lines[i] \in Line
      OBVIOUS
    <2>2. lines[i].events \in Seq(Event)
      BY <2>1 DEF Line
    <2>3. QED
      BY <2>2 DEF ToSet
  <1>2. QED
    BY <1>1 DEF Recorded

(* What a readable journal is bound by is a number.                          *)
LEMMA TailNumber ==
  ASSUME NEW lines \in Seq(Line), TailReadable(lines)
  PROVE  TailOf(lines) \in Nat
  <1>1. CASE lines = <<>>
    BY <1>1 DEF TailOf
  <1>2. CASE lines # <<>>
    <2>1. Last(lines) \in Line /\ Len(Last(lines).events) = 1
      BY <1>2 DEF Last, TailReadable, Readable
    <2>2. Last(Last(lines).events) \in Event
      BY <2>1 DEF Last, Line
    <2>3. QED
      BY <1>2, <2>2 DEF TailOf, Event
  <1>3. QED
    BY <1>1, <1>2

(* A record bound to the last one continues a chain of whole lines.          *)
LEMMA ChainGrows ==
  ASSUME NEW lines \in Seq(Line), NEW event \in Event,
         Verified(lines), \A i \in DOMAIN lines : lines[i].ended,
         event.previous = TailOf(lines),
         \A e \in Recorded(lines) : e.number # event.number
  PROVE  /\ Verified(Written(lines, event, "all"))
         /\ \A i \in DOMAIN Written(lines, event, "all") : Written(lines, event, "all")[i].ended
  <1> DEFINE line == [NewLine EXCEPT !.events = Append(@, event), !.ended = TRUE]
             grown == Append(lines, line)
  <1>1. Written(lines, event, "all") = grown
    <2>1. lines # <<>> => Last(lines).ended
      BY DEF Last
    <2>2. QED
      BY <2>1 DEF Written
  <1>2. line.events = <<event>> /\ line.whole /\ line.ended
    <2>1. Append(<<>>, event) = <<event>>
      OBVIOUS
    <2>2. NewLine.events = <<>> /\ NewLine.whole /\ DOMAIN NewLine = {"events", "whole", "ended"}
      BY DEF NewLine
    <2>3. QED
      BY <2>1, <2>2
  <1>3. /\ DOMAIN lines = 1 .. Len(lines) /\ Len(lines) \in Nat
        /\ DOMAIN grown = 1 .. Len(lines) + 1
        /\ \A i \in DOMAIN lines : grown[i] = lines[i]
        /\ grown[Len(lines) + 1] = line
    <2> HIDE DEF line
    <2> QED
      OBVIOUS
  <1>4. \A i \in 1 .. Len(lines) + 1 : SubSeq(grown, 1, i - 1) = SubSeq(lines, 1, i - 1)
    <2> HIDE DEF grown
    <2>1. QED
      BY <1>3
  <1>5. SubSeq(lines, 1, Len(lines)) = lines
    BY <1>3
  <1> HIDE DEF line, grown
  <1>6. \A i \in DOMAIN grown :
          /\ grown[i].ended
          /\ Readable(grown[i])
          /\ grown[i].events[1].previous = TailOf(SubSeq(grown, 1, i - 1))
          /\ \A j \in 1 .. i - 1 : grown[j].events[1].number # grown[i].events[1].number
    <2> TAKE i \in DOMAIN grown
    <2>1. CASE i = Len(lines) + 1
      <3>1. grown[i] = line /\ Len(<<event>>) = 1
        BY <1>3, <2>1
      <3>2. SubSeq(grown, 1, i - 1) = lines
        BY <1>3, <1>4, <1>5, <2>1
      <3>3. \A j \in 1 .. i - 1 : grown[j].events[1] \in Recorded(lines)
        <4> TAKE j \in 1 .. i - 1
        <4>1. j \in DOMAIN lines /\ grown[j] = lines[j]
          BY <1>3, <2>1
        <4>2. Len(lines[j].events) = 1 /\ lines[j].events \in Seq(Event)
          <5>1. lines[j] \in Line /\ Readable(lines[j])
            BY <4>1 DEF Verified
          <5>2. QED
            BY <5>1 DEF Readable, Line
        <4>3. lines[j].events[1] \in ToSet(lines[j].events)
          BY <4>2 DEF ToSet
        <4>4. QED
          BY <4>1, <4>3 DEF Recorded
      <3>4. QED
        <4>1. line.events[1] = event /\ line.whole /\ line.ended /\ Len(line.events) = 1
          BY <1>2
        <4>2. QED
          BY <3>1, <3>2, <3>3, <4>1 DEF Readable
    <2>2. CASE i # Len(lines) + 1
      <3>1. i \in DOMAIN lines /\ \A j \in 1 .. i : grown[j] = lines[j]
        BY <1>3, <2>2
      <3>2. SubSeq(grown, 1, i - 1) = SubSeq(lines, 1, i - 1)
        BY <1>3, <1>4
      <3>3. i \in 1 .. i /\ \A j \in 1 .. i - 1 : j \in 1 .. i
        BY <1>3, <3>1
      <3>4. QED
        <4>1. grown[i] = lines[i] /\ \A j \in 1 .. i - 1 : grown[j] = lines[j]
          BY <3>1, <3>3
        <4>2. lines[i].ended
          BY <3>1
        <4>3. /\ Readable(lines[i])
              /\ lines[i].events[1].previous = TailOf(SubSeq(lines, 1, i - 1))
              /\ \A j \in 1 .. i - 1 : lines[j].events[1].number # lines[i].events[1].number
          BY <3>1 DEF Verified
        <4>4. QED
          BY <3>2, <4>1, <4>2, <4>3
    <2>3. QED
      BY <2>1, <2>2
  <1>7. QED
    BY <1>1, <1>6 DEF Verified

-----------------------------------------------------------------------------
(* The types.                                                                *)
LEMMA CheckpointNumber == ASSUME TypeOK PROVE checkpoint \in Nat
  BY ConnectorAssumption DEF TypeOK, Checkpoint

LEMMA PhaseTypes ==
  ASSUME TypeOK, NEW s \in Service, NEW phase \in Phase
  PROVE  [service EXCEPT ![s].phase = phase] \in [Service -> Serving]
  <1>1. service \in [Service -> Serving]
    BY DEF TypeOK
  <1>2. [service[s] EXCEPT !.phase = phase] \in Serving
    <2>1. service[s] \in Serving
      BY <1>1
    <2>2. QED
      BY <2>1 DEF Serving
  <1>3. [service EXCEPT ![s].phase = phase] = [service EXCEPT ![s] = [service[s] EXCEPT !.phase = phase]]
    OBVIOUS
  <1>4. QED
    BY <1>1, <1>2, <1>3

LEMMA AnswerTypes ==
  ASSUME TypeOK, NEW s \in Service, NEW outcome \in {"ok", "error", "conflict"},
         Answer(s, outcome)
  PROVE  service' \in [Service -> Serving] /\ reply' \in [Service -> Answered]
  <1>1. Response(s, outcome) \in Answered
    BY DEF TypeOK, Response, Serving, Answered
  <1>2. reply' \in [Service -> Answered]
    BY <1>1 DEF Answer, TypeOK
  <1>3. Down \in Serving /\ [Idle EXCEPT !.served = TRUE] \in Serving
    BY Values DEF Serving
  <1>4. service' \in [Service -> Serving]
    BY <1>3 DEF Answer, TypeOK
  <1>5. QED
    BY <1>2, <1>4

LEMMA EventTypes ==
  ASSUME TypeOK, NEW s \in Service
  PROVE  EventOf(s) \in Event
  <1>1. service[s] \in Serving
    BY DEF TypeOK
  <1>2. KindOf(service[s].op) \in Kind
    BY DEF KindOf, Kind
  <1>3. QED
    BY <1>1, <1>2 DEF EventOf, Event, Serving

LEMMA DraftTypes ==
  ASSUME TypeOK, NEW s \in Service, NEW whole \in BOOLEAN
  PROVE  DraftOf(s, whole) \in Draft
  <1>1. service[s] \in Serving
    BY DEF TypeOK
  <1>2. QED
    BY <1>1 DEF DraftOf, Draft, Serving

LEMMA ReadTypes ==
  ASSUME TypeOK, ControlSound, NEW s \in Service, Read(s)
  PROVE  service' \in [Service -> Serving] /\ cache' \in [Service -> Cached]
  <1> DEFINE item == Head(service[s].plan)
             rest == Tail(service[s].plan)
  <1>1. /\ service[s] \in Serving /\ cache[s] \in Cached /\ checkpoint \in Nat
        /\ service[s].plan \in Seq(Item)
    BY DEF TypeOK, Serving, Checkpoint
  <1>2. service[s].plan # <<>>
    BY DEF Read, ControlSound
  <1>3. item \in Item /\ rest \in Seq(Item)
    BY <1>1, <1>2
  <1> HIDE DEF item, rest
  <1>4. ASSUME NEW seen \in SUBSET Nat, NEW then \in Seq(Item), Observe(s, seen, then)
        PROVE  service' \in [Service -> Serving]
    <2>1. Reading(s, then) \in Phase
      BY DEF Reading, AfterReads, Phase
    <2>2. service[s].observed \cup seen \in SUBSET Nat
      BY <1>1 DEF Serving
    <2>3. QED
      BY <1>1, <1>4, <2>1, <2>2 DEF Observe, TypeOK, Serving
  <1>5. CASE item = "fresh" /\ ReadFresh(s, rest)
    <2>1. QED
      BY <1>1, <1>3, <1>4, <1>5 DEF ReadFresh, TypeOK
  <1>6. CASE item = "validate" /\ ReadDraft(s, rest)
    <2>1. PICK d \in drafts :
            service' = [service EXCEPT ![s].observed = @ \cup {checkpoint}, ![s].shown = d.read,
                                       ![s].plan = rest, ![s].phase = Reading(s, rest)]
      BY <1>6 DEF ReadDraft
    <2>2. d.read \in SUBSET Nat
      BY DEF TypeOK, Draft
    <2>3. Reading(s, rest) \in Phase
      BY DEF Reading, AfterReads, Phase
    <2>4. service[s].observed \cup {checkpoint} \in SUBSET Nat
      BY <1>1 DEF Serving
    <2>5. service' \in [Service -> Serving]
      BY <1>1, <1>3, <2>1, <2>2, <2>3, <2>4 DEF TypeOK, Serving
    <2>6. QED
      BY <1>6, <2>5 DEF ReadDraft, TypeOK
  <1>7. CASE item = "binding" /\ ReadBinding(s)
    <2>1. FingerprintOf[checkpoint] \in Source
      BY DEF TypeOK, Source
    <2>2. <<>> \in Seq(Item) /\ "write" \in Phase
      BY DEF Phase
    <2>3. service[s].observed \cup {checkpoint} \in SUBSET Nat
      BY <1>1 DEF Serving
    <2>4. service' \in [Service -> Serving]
      BY <1>1, <1>7, <2>1, <2>2, <2>3 DEF ReadBinding, TypeOK, Serving
    <2>5. QED
      BY <1>7, <2>4 DEF ReadBinding, TypeOK
  <1>8. CASE item = "stale" /\ Observe(s, {cache[s].stale}, rest) /\ UNCHANGED cache
    BY <1>1, <1>3, <1>4, <1>8 DEF TypeOK, Cached
  <1>9. CASE item \in {"conversation", "participant"} /\ ReadCached(s, item, rest)
    <2> DEFINE known == IF cache[s][item] # 0 THEN cache[s][item] ELSE checkpoint
    <2>1. known \in Nat
      BY <1>1, <1>9 DEF Cached
    <2>2. /\ cache' = [cache EXCEPT ![s][item] = known]
          /\ Observe(s, {known}, rest)
      BY <1>9 DEF ReadCached
    <2> HIDE DEF known
    <2>3. cache' \in [Service -> Cached]
      BY <1>1, <1>9, <2>1, <2>2 DEF TypeOK, Cached
    <2>4. QED
      BY <1>3, <1>4, <2>1, <2>2, <2>3
  <1>10. CASE item = "resolved" /\ ReadResolved(s, rest)
    <2>1. CASE cache[s].resolved # {}
      BY <1>1, <1>3, <1>4, <1>10, <2>1 DEF ReadResolved, TypeOK, Cached
    <2>2. CASE cache[s].resolved = {} /\ (cache[s].conversation = 0 \/ cache[s].participant = 0)
      <3>1. <<"conversation", "participant", "resolved">> \o rest \in Seq(Item)
        <4>1. <<"conversation", "participant", "resolved">> \in Seq(Item)
          BY DEF Item
        <4>2. QED
          BY <1>3, <4>1
      <3>2. Observe(s, {}, <<"conversation", "participant", "resolved">> \o rest)
            /\ UNCHANGED cache
        BY <1>10, <2>2 DEF ReadResolved
      <3>3. QED
        BY <1>4, <3>1, <3>2 DEF TypeOK
    <2>3. CASE cache[s].resolved = {} /\ cache[s].conversation # 0 /\ cache[s].participant # 0
      <3> DEFINE parts == {cache[s].conversation, cache[s].participant, cache[s].stale}
      <3>1. parts \in SUBSET Nat
        BY <1>1 DEF Cached
      <3>2. cache' = [cache EXCEPT ![s].resolved = parts] /\ Observe(s, parts, rest)
        BY <1>10, <2>3 DEF ReadResolved
      <3> HIDE DEF parts
      <3>3. cache' \in [Service -> Cached]
        BY <1>1, <3>1, <3>2 DEF TypeOK, Cached
      <3>4. QED
        BY <1>3, <1>4, <3>1, <3>2, <3>3
    <2>4. QED
      BY <2>1, <2>2, <2>3
  <1>11. QED
    BY <1>5, <1>6, <1>7, <1>8, <1>9, <1>10 DEF Read, item, rest

LEMMA RefreshedTypes ==
  ASSUME TypeOK, NEW s \in Service, NEW current \in Nat, Refreshed(s, current)
  PROVE  service' \in [Service -> Serving] /\ reply' \in [Service -> Answered]
  <1>1. CASE service[s].moved
    BY <1>1, AnswerTypes DEF Refreshed
  <1>2. CASE ~service[s].moved
    <2>1. Reading(s, service[s].plan) \in Phase
      BY DEF Reading, AfterReads, Phase
    <2> DEFINE before == IF service[s].op = "query" THEN service[s].before ELSE current
               next == [service[s] EXCEPT !.phase = Reading(s, service[s].plan),
                                          !.before = before]
    <2>2. before \in Nat /\ service[s] \in Serving
      BY DEF TypeOK, Serving
    <2>3. service' = [service EXCEPT ![s] = next]
      BY <1>2 DEF Refreshed, TypeOK
    <2> HIDE DEF before
    <2>4. next \in Serving
      BY <2>1, <2>2 DEF Serving
    <2>5. service' \in [Service -> Serving]
      BY <2>3, <2>4 DEF TypeOK
    <2>6. QED
      BY <1>2, <2>5 DEF Refreshed, TypeOK
  <1>3. QED
    BY <1>1, <1>2

LEMMA RefusedTypes ==
  ASSUME TypeOK, NEW s \in Service, AppendRefused(s)
  PROVE  service' \in [Service -> Serving] /\ reply' \in [Service -> Answered]
  <1>1. CASE service[s].op = "draft"
    BY <1>1, PhaseTypes DEF AppendRefused, TypeOK, Phase
  <1>2. CASE service[s].op # "draft"
    BY <1>2, AnswerTypes DEF AppendRefused
  <1>3. QED
    BY <1>1, <1>2

LEMMA JournalTypes ==
  ASSUME TypeOK, NEW s \in Service, NEW part \in Part,
         journal' = Written(journal, EventOf(s), part)
  PROVE  journal' \in Seq(Line)
  BY EventTypes, WrittenFacts DEF TypeOK

LEMMA InitTypes == ASSUME Init PROVE TypeOK
  <1>1. checkpoint \in Checkpoint
    BY ConnectorAssumption DEF Init, Checkpoint
  <1>2. journal \in Seq(Line)
    BY DEF Init
  <1>3. QED
    BY <1>1, <1>2, Values DEF Init, TypeOK

LEMMA BeginTypes ==
  ASSUME TypeOK, NEW s \in Service, NEW op \in Requests, Begin(s, op)
  PROVE  TypeOK'
  <1>1. op \in Operation /\ Plan(op) \in Seq(Item)
    BY ConnectorAssumption, Values DEF Operation
  <1>2. PICK target \in IF op = "preview" THEN {d.number : d \in drafts} ELSE {0} :
          service' = [service EXCEPT ![s] =
            [Idle EXCEPT !.phase = IF op = "ownerDraft" THEN "read" ELSE "refresh",
                         !.op = op, !.number = requests', !.plan = Plan(op), !.target = target,
                         !.before = IF op = "query" THEN checkpoint ELSE 0]]
    BY DEF Begin
  <1>3. target \in Nat
    <2>1. \A d \in drafts : d.number \in Nat
      BY DEF TypeOK, Draft
    <2>2. QED
      BY <2>1
  <1>4. requests' \in Nat /\ checkpoint \in Nat
    BY DEF Begin, TypeOK, Checkpoint
  <1>5. service' \in [Service -> Serving]
    BY <1>1, <1>2, <1>3, <1>4, Values DEF TypeOK, Serving, Phase
  <1>6. QED
    BY <1>4, <1>5, Values DEF Begin, TypeOK

LEMMA TypeStep ==
  ASSUME TypeOK, ControlSound, [Next]_vars
  PROVE  TypeOK'
  <1>1. CASE UNCHANGED vars
    BY <1>1 DEF vars, TypeOK
  <1>2. CASE Commit
    BY <1>2, ConnectorAssumption DEF Commit, TypeOK, Checkpoint
  <1>3. ASSUME NEW s \in Service, Open(s) PROVE TypeOK'
    <2>1. [NoCache EXCEPT !.binding = checkpoint] \in Cached
      BY Values, CheckpointNumber DEF Cached
    <2>2. cache' \in [Service -> Cached]
      BY <1>3, <2>1 DEF Open, TypeOK
    <2>3. service' \in [Service -> Serving]
      BY <1>3, PhaseTypes DEF Open, Phase
    <2>4. QED
      BY <1>3, <2>2, <2>3 DEF Open, TypeOK
  <1>4. ASSUME NEW s \in Service, Opened(s) PROVE TypeOK'
    <2>1. service' \in [Service -> Serving]
      BY <1>4, Values DEF Opened, TypeOK
    <2>2. cache' \in [Service -> Cached]
      <3>1. cache[s] \in Cached
        BY DEF TypeOK
      <3>2. [cache[s] EXCEPT !.stale = checkpoint] \in Cached
        BY <3>1, CheckpointNumber DEF Cached
      <3>3. cache' = [cache EXCEPT ![s] = [cache[s] EXCEPT !.stale = checkpoint]]
        BY <1>4 DEF Opened
      <3>4. QED
        BY <3>2, <3>3 DEF TypeOK
    <2>3. QED
      BY <1>4, <2>1, <2>2 DEF Opened, TypeOK
  <1>5. ASSUME NEW s \in Service, Refresh(s) PROVE TypeOK'
    <2>1. service' \in [Service -> Serving] /\ reply' \in [Service -> Answered]
      <3>1. CASE cache[s].binding = checkpoint
        BY <1>5, <3>1, RefreshedTypes, CheckpointNumber DEF Refresh
      <3>2. CASE cache[s].binding # checkpoint
        <4> DEFINE next == [service[s] EXCEPT !.phase = "reload", !.current = checkpoint]
        <4>1. service[s] \in Serving
          BY DEF TypeOK
        <4>2. next \in Serving
          BY <4>1, CheckpointNumber DEF Serving, Phase
        <4>3. service' = [service EXCEPT ![s] = next]
          BY <1>5, <3>2 DEF Refresh
        <4>4. QED
          BY <1>5, <3>2, <4>2, <4>3 DEF Refresh, TypeOK
      <3>3. QED
        BY <3>1, <3>2
    <2>2. QED
      BY <1>5, <2>1 DEF Refresh, TypeOK
  <1>6. ASSUME NEW s \in Service, Reload(s) PROVE TypeOK'
    <2>1. service[s] \in Serving /\ service[s].current \in Nat
      BY DEF TypeOK, Serving
    <2>2. service' \in [Service -> Serving] /\ reply' \in [Service -> Answered]
      BY <1>6, <2>1, RefreshedTypes DEF Reload
    <2>3. Cleared(s, checkpoint) \in Cached
      BY <2>1, Values, CheckpointNumber DEF Cleared, Cached
    <2>4. cache' \in [Service -> Cached]
      BY <1>6, <2>3 DEF Reload, TypeOK
    <2>5. QED
      BY <1>6, <2>2, <2>4 DEF Reload, TypeOK
  <1>7. ASSUME NEW s \in Service, Read(s) PROVE TypeOK'
    BY <1>7, ReadTypes DEF Read, TypeOK
  <1>8. ASSUME NEW s \in Service, ReadFails(s) PROVE TypeOK'
    BY <1>8, AnswerTypes DEF ReadFails, TypeOK
  <1>9. ASSUME NEW s \in Service, WriteDraft(s) PROVE TypeOK'
    <2>1. DraftOf(s, TRUE) \in Draft
      BY DraftTypes
    <2>2. service' \in [Service -> Serving] /\ reply' \in [Service -> Answered]
      <3>1. CASE service[s].op = "ownerDraft"
        BY <1>9, <3>1, AnswerTypes DEF WriteDraft
      <3>2. CASE service[s].op # "ownerDraft"
        <4>1. service' = [service EXCEPT ![s].phase = "append"] /\ reply' = reply
          BY <1>9, <3>2 DEF WriteDraft
        <4>2. QED
          BY <4>1, PhaseTypes DEF TypeOK, Phase
      <3>3. QED
        BY <3>1, <3>2
    <2>3. QED
      BY <1>9, <2>1, <2>2 DEF WriteDraft, TypeOK
  <1>10. ASSUME NEW s \in Service, AppendLock(s) PROVE TypeOK'
    <2>1. TailOf(journal) \in Nat
      BY <1>10, TailNumber DEF AppendLock, TypeOK
    <2>2. service' \in [Service -> Serving]
      <3> DEFINE next == [service[s] EXCEPT !.phase = "locked", !.tail = TailOf(journal)]
      <3>1. service[s] \in Serving
        BY DEF TypeOK
      <3>2. next \in Serving
        BY <2>1, <3>1 DEF Serving, Phase
      <3>3. service' = [service EXCEPT ![s] = next]
        BY <1>10 DEF AppendLock
      <3>4. QED
        BY <3>2, <3>3 DEF TypeOK
    <2>3. QED
      BY <1>10, <2>2 DEF AppendLock, TypeOK
  <1>11. ASSUME NEW s \in Service, AppendUnreadable(s) PROVE TypeOK'
    BY <1>11, RefusedTypes DEF AppendUnreadable, TypeOK
  <1>12. ASSUME NEW s \in Service, AppendWrite(s) PROVE TypeOK'
    <2>1. journal' \in Seq(Line)
      BY <1>12, JournalTypes DEF AppendWrite, Part
    <2>2. service' \in [Service -> Serving] /\ reply' \in [Service -> Answered]
      <3>1. CASE service[s].op = "refused"
        BY <1>12, <3>1, AnswerTypes DEF AppendWrite
      <3>2. CASE service[s].op # "refused"
        <4>1. service' = [service EXCEPT ![s].phase = "check"] /\ reply' = reply
          BY <1>12, <3>2 DEF AppendWrite
        <4>2. QED
          BY <4>1, PhaseTypes DEF TypeOK, Phase
      <3>3. QED
        BY <3>1, <3>2
    <2>3. QED
      BY <1>12, <2>1, <2>2 DEF AppendWrite, TypeOK
  <1>13. ASSUME NEW s \in Service, RemoveDraft(s) PROVE TypeOK'
    BY <1>13, AnswerTypes DEF RemoveDraft, WithoutDraft, TypeOK
  <1>14. ASSUME NEW s \in Service, Check(s) PROVE TypeOK'
    <2>1. service' \in [Service -> Serving] /\ reply' \in [Service -> Answered]
      <3>1. CASE ~Moved(s)
        BY <1>14, <3>1, AnswerTypes DEF Check
      <3>2. CASE Moved(s) /\ service[s].op = "query"
        BY <1>14, <3>2, AnswerTypes DEF Check
      <3>3. CASE Moved(s) /\ service[s].op # "query"
        <4> DEFINE next == [service[s] EXCEPT !.phase = "refresh", !.moved = TRUE]
        <4>1. service[s] \in Serving
          BY DEF TypeOK
        <4>2. next \in Serving
          BY <4>1 DEF Serving, Phase
        <4>3. service' = [service EXCEPT ![s] = next]
          BY <1>14, <3>3 DEF Check
        <4>4. QED
          BY <1>14, <3>3, <4>2, <4>3 DEF Check, TypeOK
      <3>4. QED
        BY <3>1, <3>2, <3>3
    <2>2. QED
      BY <1>14, <2>1 DEF Check, TypeOK
  <1>15. ASSUME NEW s \in Service, AppendFails(s) PROVE TypeOK'
    <2>1. journal' \in Seq(Line)
      BY <1>15, JournalTypes DEF AppendFails
    <2>2. faults' \subseteq Nat
      BY <1>15 DEF AppendFails, Hit, TypeOK, Serving
    <2>3. QED
      BY <1>15, <2>1, <2>2, RefusedTypes DEF AppendFails, TypeOK
  <1>16. ASSUME NEW s \in Service, WriteFails(s) PROVE TypeOK'
    <2>1. DraftOf(s, FALSE) \in Draft
      BY DraftTypes
    <2>2. faults' \subseteq Nat
      BY <1>16 DEF WriteFails, Hit, TypeOK, Serving
    <2>3. QED
      BY <1>16, <2>1, <2>2, AnswerTypes DEF WriteFails, TypeOK
  <1>17. ASSUME NEW s \in Service, Kill(s) PROVE TypeOK'
    <2>1. journal' \in Seq(Line)
      BY <1>17, JournalTypes DEF Kill, TypeOK
    <2>2. drafts' \subseteq Draft
      BY <1>17, DraftTypes DEF Kill, TypeOK
    <2>3. faults' \subseteq Nat
      BY <1>17 DEF Kill, Hit, TypeOK, Serving
    <2>4. /\ service' \in [Service -> Serving]
          /\ cache' \in [Service -> Cached]
          /\ reply' \in [Service -> Answered]
      BY <1>17, Values DEF Kill, TypeOK
    <2>5. holder' \in Service \cup {Nobody}
      BY <1>17 DEF Kill, TypeOK
    <2>6. QED
      BY <1>17, <2>1, <2>2, <2>3, <2>4, <2>5 DEF Kill, TypeOK
  <1>18. ASSUME NEW s \in Service, NEW op \in Requests, Begin(s, op) PROVE TypeOK'
    BY <1>18, BeginTypes
  <1>19. CASE AuditRead
    <2>1. Recorded(journal) \in SUBSET Event
      BY RecordedEvents DEF TypeOK
    <2>2. auditor' \in Audit
      BY <1>19, <2>1, Values DEF AuditRead, Audit
    <2>3. QED
      BY <1>19, <2>2 DEF AuditRead, TypeOK
  <1>20. CASE AuditList
    <2>1. auditor' \in Audit
      BY <1>20, Values DEF AuditList, Audit, TypeOK
    <2>2. QED
      BY <1>20, <2>1 DEF AuditList, TypeOK
  <1>21. CASE AuditReread
    <2>1. auditor' \in Audit
      BY <1>21, Values DEF AuditReread, Audit, TypeOK
    <2>2. QED
      BY <1>21, <2>1 DEF AuditReread, TypeOK
  <1>22. CASE AuditRelist
    <2>1. auditor' \in Audit
      BY <1>22, Values DEF AuditRelist, Audit, TypeOK
    <2>2. QED
      BY <1>22, <2>1 DEF AuditRelist, TypeOK
  <1>23. QED
    BY <1>1, <1>2, <1>3, <1>4, <1>5, <1>6, <1>7, <1>8, <1>9, <1>10, <1>11, <1>12, <1>13, <1>14,
       <1>15, <1>16, <1>17, <1>18, <1>19, <1>20, <1>21, <1>22 DEF Next, Progress

-----------------------------------------------------------------------------
(* What a step does to the request it belongs to, field by field: the proofs *)
(* of the invariants go by these.                                            *)

\* The other processes are where they were.
Alone(s) == \A t \in Service : t # s => service'[t] = service[t] /\ reply'[t] = reply[t]

Carries(s) ==
  /\ service'[s].op = service[s].op
  /\ service'[s].number = service[s].number
  /\ service'[s].target = service[s].target

\* The request goes on, and has read nothing.
Passes(s, phase) ==
  /\ Alone(s) /\ Carries(s) /\ reply'[s] = reply[s]
  /\ service'[s].phase = phase
  /\ service'[s].plan = service[s].plan
  /\ service'[s].before = service[s].before
  /\ service'[s].moved = service[s].moved
  /\ service'[s].observed = service[s].observed
  /\ service'[s].bound = service[s].bound

\* The request is over.
Ends(s) ==
  /\ Alone(s)
  /\ service'[s].phase \in {"down", "opening", "idle"}
  /\ service'[s].op = "refused" /\ service'[s].number = 0
  /\ service'[s].before = 0 /\ service'[s].observed = {}
  /\ service'[s].moved = FALSE /\ service'[s].plan = <<>>

Replies(s, outcome) ==
  /\ Ends(s)
  /\ reply'[s].outcome = outcome
  /\ reply'[s].number = service[s].number
  /\ reply'[s].op = service[s].op
  /\ reply'[s].observed = service[s].observed
  /\ reply'[s].at = service[s].before

LEMMA PhaseEffect ==
  ASSUME TypeOK, NEW s \in Service, NEW phase,
         service' = [service EXCEPT ![s].phase = phase], reply' = reply
  PROVE  Passes(s, phase)
  <1>1. service \in [Service -> Serving] /\ service[s] \in Serving
    BY DEF TypeOK
  <1>2. service'[s] = [service[s] EXCEPT !.phase = phase]
    BY <1>1
  <1>3. Alone(s)
    BY <1>1 DEF Alone
  <1>4. QED
    BY <1>1, <1>2, <1>3 DEF Passes, Carries, Serving

LEMMA AnswerEffect ==
  ASSUME TypeOK, NEW s \in Service, NEW outcome, Answer(s, outcome)
  PROVE  Replies(s, outcome)
  <1>1. service \in [Service -> Serving] /\ reply \in [Service -> Answered]
    BY DEF TypeOK
  <1>2. Alone(s) /\ reply'[s] = Response(s, outcome)
    BY <1>1 DEF Alone, Answer
  <1>3. service'[s] = Down \/ service'[s] = [Idle EXCEPT !.served = TRUE]
    BY <1>1 DEF Answer
  <1>4. Ends(s)
    <2>1. CASE service'[s] = Down
      BY <1>2, <2>1 DEF Ends, Down, Idle
    <2>2. CASE service'[s] = [Idle EXCEPT !.served = TRUE]
      BY <1>2, <2>2 DEF Ends, Idle
    <2>3. QED
      BY <1>3, <2>1, <2>2
  <1>5. QED
    BY <1>2, <1>4 DEF Replies, Response

\* What the second look at the replica leads to, or the first.
LEMMA RefreshedEffect ==
  ASSUME TypeOK, NEW s \in Service, NEW current, Refreshed(s, current)
  PROVE  \/ service[s].moved /\ Replies(s, "conflict")
         \/ /\ ~service[s].moved /\ Alone(s) /\ Carries(s) /\ reply'[s] = reply[s]
            /\ service'[s].phase = Reading(s, service[s].plan)
            /\ service'[s].plan = service[s].plan
            /\ service'[s].before = IF service[s].op = "query" THEN service[s].before ELSE current
            /\ service'[s].moved = service[s].moved
            /\ service'[s].observed = service[s].observed
            /\ service'[s].bound = service[s].bound
  <1>1. CASE service[s].moved
    BY <1>1, AnswerEffect DEF Refreshed
  <1>2. CASE ~service[s].moved
    <2>1. service \in [Service -> Serving] /\ service[s] \in Serving
      BY DEF TypeOK
    <2>2. Alone(s) /\ reply'[s] = reply[s]
      BY <1>2, <2>1 DEF Refreshed, Alone
    <2> DEFINE before == IF service[s].op = "query" THEN service[s].before ELSE current
    <2>3. service'[s] = [service[s] EXCEPT !.phase = Reading(s, service[s].plan),
                                          !.before = before]
      BY <1>2, <2>1 DEF Refreshed
    <2> HIDE DEF before
    <2>4. /\ Carries(s) /\ service'[s].phase = Reading(s, service[s].plan)
          /\ service'[s].plan = service[s].plan
          /\ service'[s].before = before
          /\ service'[s].moved = service[s].moved
          /\ service'[s].observed = service[s].observed
          /\ service'[s].bound = service[s].bound
      BY <2>1, <2>3 DEF Carries, Serving
    <2>5. QED
      BY <1>2, <2>2, <2>4 DEF before
  <1>3. QED
    BY <1>1, <1>2

LEMMA RefreshEffect ==
  ASSUME TypeOK, NEW s \in Service, Refresh(s)
  PROVE  \/ cache[s].binding = checkpoint /\ Refreshed(s, checkpoint)
         \/ /\ Alone(s) /\ Carries(s) /\ reply'[s] = reply[s]
            /\ service'[s].phase = "reload"
            /\ service'[s].plan = service[s].plan
            /\ service'[s].before = service[s].before
            /\ service'[s].current = checkpoint
            /\ service'[s].moved = service[s].moved
            /\ service'[s].observed = service[s].observed
  <1>1. CASE cache[s].binding = checkpoint
    BY <1>1 DEF Refresh
  <1>2. CASE cache[s].binding # checkpoint
    <2>1. service \in [Service -> Serving] /\ service[s] \in Serving
      BY DEF TypeOK
    <2>2. service'[s] = [service[s] EXCEPT !.phase = "reload", !.current = checkpoint]
      BY <1>2, <2>1 DEF Refresh
    <2>3. Alone(s) /\ reply'[s] = reply[s]
      BY <1>2, <2>1 DEF Refresh, Alone
    <2>4. QED
      BY <2>1, <2>2, <2>3 DEF Carries, Serving
  <1>3. QED
    BY <1>1, <1>2

LEMMA BeginEffect ==
  ASSUME TypeOK, NEW s \in Service, NEW op \in Requests, Begin(s, op)
  PROVE  /\ Alone(s)
         /\ service'[s].phase = IF op = "ownerDraft" THEN "read" ELSE "refresh"
         /\ service'[s].op = op
         /\ service'[s].number = requests + 1
         /\ service'[s].plan = Plan(op)
         /\ service'[s].before = IF op = "query" THEN checkpoint ELSE 0
         /\ service'[s].moved = FALSE
         /\ service'[s].observed = {}
         /\ op = "preview" => \E d \in drafts : d.number = service'[s].target
         /\ reply'[s].outcome = "none"
  <1>1. service \in [Service -> Serving] /\ reply \in [Service -> Answered]
    BY DEF TypeOK
  <1>2. PICK target \in IF op = "preview" THEN {d.number : d \in drafts} ELSE {0} :
          service' = [service EXCEPT ![s] =
            [Idle EXCEPT !.phase = IF op = "ownerDraft" THEN "read" ELSE "refresh",
                         !.op = op, !.number = requests', !.plan = Plan(op), !.target = target,
                         !.before = IF op = "query" THEN checkpoint ELSE 0]]
    BY DEF Begin
  <1>3. requests' = requests + 1 /\ reply' = [reply EXCEPT ![s] = NoReply]
    BY DEF Begin
  <1>4. Alone(s) /\ reply'[s].outcome = "none"
    BY <1>1, <1>2, <1>3 DEF Alone, NoReply
  <1>5. service'[s] = [Idle EXCEPT !.phase = IF op = "ownerDraft" THEN "read" ELSE "refresh",
                         !.op = op, !.number = requests', !.plan = Plan(op), !.target = target,
                         !.before = IF op = "query" THEN checkpoint ELSE 0]
    BY <1>1, <1>2
  <1>6. /\ service'[s].phase = IF op = "ownerDraft" THEN "read" ELSE "refresh"
        /\ service'[s].op = op
        /\ service'[s].number = requests'
        /\ service'[s].plan = Plan(op)
        /\ service'[s].target = target
        /\ service'[s].before = IF op = "query" THEN checkpoint ELSE 0
        /\ service'[s].moved = FALSE
        /\ service'[s].observed = {}
    BY <1>5 DEF Idle
  <1>7. op = "preview" => \E d \in drafts : d.number = service'[s].target
    BY <1>2, <1>6
  <1>8. QED
    BY <1>3, <1>4, <1>6, <1>7

LEMMA LockEffect ==
  ASSUME TypeOK, NEW s \in Service, AppendLock(s)
  PROVE  Passes(s, "locked") /\ service'[s].tail = TailOf(journal)
  <1>1. service \in [Service -> Serving] /\ service[s] \in Serving
    BY DEF TypeOK
  <1>2. service'[s] = [service[s] EXCEPT !.phase = "locked", !.tail = TailOf(journal)]
    BY <1>1 DEF AppendLock
  <1>3. Alone(s) /\ reply'[s] = reply[s]
    BY <1>1 DEF Alone, AppendLock
  <1>4. QED
    BY <1>1, <1>2, <1>3 DEF Passes, Carries, Serving

LEMMA CheckEffect ==
  ASSUME TypeOK, NEW s \in Service, Check(s)
  PROVE  \/ checkpoint = service[s].before /\ Replies(s, "ok")
         \/ service[s].op = "query" /\ Replies(s, "error")
         \/ /\ Alone(s) /\ Carries(s) /\ reply'[s] = reply[s]
            /\ service'[s].phase = "refresh"
            /\ service'[s].plan = service[s].plan
            /\ service'[s].before = service[s].before
            /\ service'[s].moved = TRUE
            /\ service'[s].observed = service[s].observed
            /\ service'[s].bound = service[s].bound
  <1>1. CASE ~Moved(s)
    BY <1>1, AnswerEffect DEF Check, Moved
  <1>2. CASE Moved(s) /\ service[s].op = "query"
    BY <1>2, AnswerEffect DEF Check
  <1>3. CASE Moved(s) /\ service[s].op # "query"
    <2>1. service \in [Service -> Serving] /\ service[s] \in Serving
      BY DEF TypeOK
    <2>2. service' = [service EXCEPT ![s].phase = "refresh", ![s].moved = TRUE] /\ reply' = reply
      BY <1>3 DEF Check
    <2>3. service'[s] = [service[s] EXCEPT !.phase = "refresh", !.moved = TRUE]
      BY <2>1, <2>2
    <2>4. Alone(s) /\ reply'[s] = reply[s]
      BY <2>1, <2>2 DEF Alone
    <2>5. QED
      BY <2>1, <2>3, <2>4 DEF Carries, Serving
  <1>4. QED
    BY <1>1, <1>2, <1>3

LEMMA RefusedEffect ==
  ASSUME TypeOK, NEW s \in Service, AppendRefused(s)
  PROVE  \/ service[s].op = "draft" /\ Passes(s, "remove")
         \/ service[s].op # "draft" /\ Replies(s, "error")
  <1>1. CASE service[s].op = "draft"
    BY <1>1, PhaseEffect DEF AppendRefused
  <1>2. CASE service[s].op # "draft"
    BY <1>2, AnswerEffect DEF AppendRefused
  <1>3. QED
    BY <1>1, <1>2

LEMMA KillEffect ==
  ASSUME TypeOK, NEW s \in Service, Kill(s)
  PROVE  Ends(s) /\ reply'[s].outcome = "none"
  <1>1. service \in [Service -> Serving] /\ reply \in [Service -> Answered]
    BY DEF TypeOK
  <1>2. service'[s] = Down /\ reply'[s] = NoReply /\ Alone(s)
    BY <1>1 DEF Kill, Alone
  <1>3. QED
    BY <1>2 DEF Ends, Down, Idle, NoReply

LEMMA OpenedEffect ==
  ASSUME TypeOK, NEW s \in Service, Opened(s)
  PROVE  Ends(s) /\ reply' = reply
  <1>1. service \in [Service -> Serving]
    BY DEF TypeOK
  <1>2. Alone(s) /\ (service'[s] = Down \/ service'[s] = Idle) /\ reply' = reply
    BY <1>1 DEF Opened, Alone
  <1>3. QED
    BY <1>2 DEF Ends, Down, Idle

LEMMA OpenEffect ==
  ASSUME TypeOK, ControlSound, NEW s \in Service, Open(s)
  PROVE  Passes(s, "opening")
  BY PhaseEffect DEF Open

LEMMA WriteEffect ==
  ASSUME TypeOK, NEW s \in Service, WriteDraft(s)
  PROVE  \/ service[s].op = "ownerDraft" /\ Replies(s, "ok")
         \/ service[s].op # "ownerDraft" /\ Passes(s, "append")
  <1>1. CASE service[s].op = "ownerDraft"
    BY <1>1, AnswerEffect DEF WriteDraft
  <1>2. CASE service[s].op # "ownerDraft"
    <2>1. service' = [service EXCEPT ![s].phase = "append"] /\ reply' = reply
      BY <1>2 DEF WriteDraft
    <2>2. QED
      BY <1>2, <2>1, PhaseEffect
  <1>3. QED
    BY <1>1, <1>2

LEMMA AppendEffect ==
  ASSUME TypeOK, NEW s \in Service, AppendWrite(s)
  PROVE  \/ service[s].op = "refused" /\ Replies(s, "error")
         \/ service[s].op # "refused" /\ Passes(s, "check")
  <1>1. CASE service[s].op = "refused"
    BY <1>1, AnswerEffect DEF AppendWrite
  <1>2. CASE service[s].op # "refused"
    <2>1. service' = [service EXCEPT ![s].phase = "check"] /\ reply' = reply
      BY <1>2 DEF AppendWrite
    <2>2. QED
      BY <1>2, <2>1, PhaseEffect
  <1>3. QED
    BY <1>1, <1>2

LEMMA DraftPlansRead ==
  ASSUME NEW plan \in DraftPlans
  PROVE  /\ Head(plan) # "resolved"
         /\ Head(plan) # "binding" => Tail(plan) \in DraftPlans /\ Tail(plan) # <<>>
  <1>1. CASE plan = <<"fresh", "participant", "stale", "binding">>
    <2>1. Head(plan) = "fresh" /\ Tail(plan) = <<"participant", "stale", "binding">>
      BY <1>1
    <2>2. QED
      BY <2>1 DEF DraftPlans
  <1>2. CASE plan = <<"participant", "stale", "binding">>
    <2>1. Head(plan) = "participant" /\ Tail(plan) = <<"stale", "binding">>
      BY <1>2
    <2>2. QED
      BY <2>1 DEF DraftPlans
  <1>3. CASE plan = <<"stale", "binding">>
    <2>1. Head(plan) = "stale" /\ Tail(plan) = <<"binding">>
      BY <1>3
    <2>2. <<"binding">> \in DraftPlans /\ <<"binding">> # <<>>
      BY SMTT(30) DEF DraftPlans
    <2>3. QED
      BY <2>1, <2>2
  <1>4. CASE plan = <<"binding">>
    <2>1. Head(plan) = "binding"
      BY <1>4
    <2>2. QED
      BY <2>1
  <1>5. QED
    BY <1>1, <1>2, <1>3, <1>4 DEF DraftPlans, DraftPlan

\* The types of the fields of a process, for the steps that follow.
LEMMA Fields ==
  ASSUME TypeOK, NEW s \in Service
  PROVE  /\ checkpoint \in Nat
         /\ service[s] \in Serving
         /\ service[s].number \in Nat /\ service[s].before \in Nat
         /\ service[s].current \in Nat /\ service[s].target \in Nat
         /\ service[s].observed \in SUBSET Nat
         /\ service[s].plan \in Seq(Item)
         /\ service[s].moved \in BOOLEAN
         /\ cache[s] \in Cached
         /\ cache[s].binding \in Nat /\ cache[s].stale \in Nat
         /\ cache[s].conversation \in Nat /\ cache[s].participant \in Nat
         /\ cache[s].resolved \in SUBSET Nat
  <1>1. service[s] \in Serving /\ cache[s] \in Cached
    BY DEF TypeOK
  <1>2. QED
    BY <1>1, CheckpointNumber DEF Serving, Cached

LEMMA ObserveEffect ==
  ASSUME TypeOK, NEW s \in Service, NEW seen, NEW then, Observe(s, seen, then), reply' = reply
  PROVE  /\ Alone(s) /\ Carries(s) /\ reply'[s] = reply[s]
         /\ service'[s].before = service[s].before
         /\ service'[s].moved = service[s].moved
         /\ service'[s].observed = service[s].observed \cup seen
         /\ service'[s].plan = then
         /\ service'[s].phase = Reading(s, then)
  <1>1. service \in [Service -> Serving] /\ service[s] \in Serving
    BY DEF TypeOK
  <1>2. service'[s] = [service[s] EXCEPT !.observed = @ \cup seen, !.plan = then,
                                        !.phase = Reading(s, then)]
    BY <1>1 DEF Observe
  <1>3. Alone(s) /\ reply'[s] = reply[s]
    BY <1>1 DEF Observe, Alone
  <1>4. QED
    BY <1>1, <1>2, <1>3 DEF Carries, Serving

\* What a read leaves in the caches is of the time they are bound to.
CachesBounded(s) ==
  /\ \A t \in Service : t # s => cache'[t] = cache[t]
  /\ cache'[s].binding = cache[s].binding
  /\ cache'[s].stale = cache[s].stale
  /\ cache'[s].conversation # 0 => Bounded(s, cache'[s].conversation)
  /\ cache'[s].participant # 0 => Bounded(s, cache'[s].participant)
  /\ \A c \in cache'[s].resolved : Bounded(s, c)

ReadsOn(s) ==
  /\ Alone(s) /\ Carries(s) /\ reply'[s] = reply[s]
  /\ service'[s].before = service[s].before
  /\ service'[s].moved = service[s].moved
  /\ \A c \in service'[s].observed : c \in service[s].observed \/ Bounded(s, c)
  /\ \/ service'[s].phase = "read" /\ service'[s].plan # <<>>
     \/ service'[s].phase = AfterReads(service[s].op)
  /\ service[s].op \notin {"draft", "ownerDraft"} => service'[s].plan \in Seq(Unbound)
  /\ service[s].op = "draft" =>
       \/ service'[s].phase = "read" /\ service'[s].plan \in DraftPlans
       \/ /\ service'[s].phase = "write"
          /\ \E c \in service'[s].observed : service'[s].bound = FingerprintOf[c]

LEMMA ReadEffect ==
  ASSUME TypeOK, ControlSound, CacheSound, NEW s \in Service, Read(s)
  PROVE  ReadsOn(s) /\ CachesBounded(s)
  <1> DEFINE item == Head(service[s].plan)
             rest == Tail(service[s].plan)
  <1>1. /\ service[s].phase = "read" /\ service[s].plan # <<>>
        /\ service[s].op = "draft" => service[s].plan \in DraftPlans
        /\ reply' = reply
    BY DEF Read, ControlSound
  <1>2. /\ item # "resolved" \/ service[s].op # "draft"
        /\ item # "binding" /\ service[s].op = "draft" => rest \in DraftPlans /\ rest # <<>>
    BY <1>1, DraftPlansRead
  <1>21. service[s].op \notin {"draft", "ownerDraft"} =>
           rest \in Seq(Unbound) /\ item # "binding"
    <2>1. service[s].op \notin {"draft", "ownerDraft"} => service[s].plan \in Seq(Unbound)
      BY DEF ControlSound
    <2>2. QED
      BY <1>1, <2>1 DEF Unbound
  <1>3. Bounded(s, checkpoint) /\ Bounded(s, cache[s].stale)
    BY <1>1, Fields DEF CacheSound, Bounded
  <1>4. /\ cache[s].conversation # 0 => Bounded(s, cache[s].conversation)
        /\ cache[s].participant # 0 => Bounded(s, cache[s].participant)
        /\ \A c \in cache[s].resolved : Bounded(s, c)
    BY DEF CacheSound
  <1>5. UNCHANGED cache => CachesBounded(s)
    BY <1>4 DEF CachesBounded, Bounded
  <1> HIDE DEF item, rest
  <1>6. ASSUME NEW seen, NEW then, Observe(s, seen, then), \A c \in seen : Bounded(s, c),
               service[s].op = "draft" => then \in DraftPlans /\ then # <<>>,
               service[s].op \notin {"draft", "ownerDraft"} => then \in Seq(Unbound)
        PROVE  ReadsOn(s)
    <2>1. service'[s].observed = service[s].observed \cup seen
      BY <1>1, <1>6, ObserveEffect
    <2>2. /\ Alone(s) /\ Carries(s) /\ reply'[s] = reply[s]
          /\ service'[s].before = service[s].before
          /\ service'[s].moved = service[s].moved
          /\ service'[s].plan = then
          /\ service'[s].phase = Reading(s, then)
      BY <1>1, <1>6, ObserveEffect
    <2>3. \A c \in service'[s].observed : c \in service[s].observed \/ Bounded(s, c)
      BY <1>6, <2>1
    <2>4. QED
      BY <1>6, <2>2, <2>3 DEF ReadsOn, Reading
  <1>7. CASE item = "fresh" /\ ReadFresh(s, rest)
    BY <1>2, <1>21, <1>3, <1>5, <1>6, <1>7 DEF ReadFresh
  <1>8. CASE item = "validate" /\ ReadDraft(s, rest)
    <2>1. PICK d \in drafts :
            service' = [service EXCEPT ![s].observed = @ \cup {checkpoint}, ![s].shown = d.read,
                                       ![s].plan = rest, ![s].phase = Reading(s, rest)]
      BY <1>8 DEF ReadDraft
    <2>2. service \in [Service -> Serving] /\ service[s] \in Serving
      BY DEF TypeOK
    <2>3. service'[s] = [service[s] EXCEPT !.observed = @ \cup {checkpoint}, !.shown = d.read,
                           !.plan = rest, !.phase = Reading(s, rest)]
      BY <2>1, <2>2
    <2>4. Alone(s) /\ reply'[s] = reply[s]
      BY <1>1, <2>1, <2>2 DEF Alone
    <2>5. /\ Carries(s) /\ service'[s].plan = rest
          /\ service'[s].phase = Reading(s, rest)
          /\ service'[s].before = service[s].before
          /\ service'[s].moved = service[s].moved
          /\ service'[s].observed = service[s].observed \cup {checkpoint}
      BY <2>2, <2>3 DEF Carries, Serving
    <2>6. UNCHANGED cache
      BY <1>8 DEF ReadDraft
    <2>7. QED
      BY <1>2, <1>21, <1>3, <1>5, <1>8, <2>4, <2>5, <2>6 DEF ReadsOn, Reading
  <1>9. CASE item = "binding" /\ ReadBinding(s)
    <2>1. service \in [Service -> Serving] /\ service[s] \in Serving
      BY DEF TypeOK
    <2>2. service'[s] = [service[s] EXCEPT !.observed = @ \cup {checkpoint}, !.plan = <<>>,
                           !.bound = FingerprintOf[checkpoint], !.phase = "write"]
      BY <1>9, <2>1 DEF ReadBinding
    <2>3. Alone(s) /\ reply'[s] = reply[s]
      BY <1>1, <1>9, <2>1 DEF ReadBinding, Alone
    <2>4. /\ Carries(s) /\ service'[s].phase = "write"
          /\ service'[s].before = service[s].before
          /\ service'[s].moved = service[s].moved
          /\ service'[s].observed = service[s].observed \cup {checkpoint}
          /\ service'[s].bound = FingerprintOf[checkpoint]
      BY <2>1, <2>2 DEF Carries, Serving
    <2>5. service[s].op \in {"draft", "ownerDraft"}
      BY <1>9, <1>21
    <2>6. QED
      BY <1>3, <1>5, <1>9, <2>3, <2>4, <2>5 DEF ReadsOn, ReadBinding, AfterReads
  <1>10. CASE item = "stale" /\ Observe(s, {cache[s].stale}, rest) /\ UNCHANGED cache
    BY <1>2, <1>21, <1>3, <1>5, <1>6, <1>10
  <1>11. CASE item \in {"conversation", "participant"} /\ ReadCached(s, item, rest)
    <2> DEFINE known == IF cache[s][item] # 0 THEN cache[s][item] ELSE checkpoint
    <2>1. /\ cache' = [cache EXCEPT ![s][item] = known]
          /\ Observe(s, {known}, rest)
      BY <1>11 DEF ReadCached
    <2>2. Bounded(s, known)
      BY <1>3, <1>4, <1>11
    <2> HIDE DEF known
    <2>3. ReadsOn(s)
      BY <1>2, <1>21, <1>6, <1>11, <2>1, <2>2
    <2>4. cache \in [Service -> Cached] /\ cache[s] \in Cached
      BY DEF TypeOK
    <2>5. CachesBounded(s)
      <3>1. \A t \in Service : t # s => cache'[t] = cache[t]
        BY <2>1, <2>4
      <3>2. CASE item = "conversation"
        <4>1. cache'[s] = [cache[s] EXCEPT !.conversation = known]
          BY <2>1, <2>4, <3>2
        <4>2. QED
          BY <1>4, <2>2, <2>4, <3>1, <4>1 DEF CachesBounded, Cached
      <3>3. CASE item = "participant"
        <4>1. cache'[s] = [cache[s] EXCEPT !.participant = known]
          BY <2>1, <2>4, <3>3
        <4>2. QED
          BY <1>4, <2>2, <2>4, <3>1, <4>1 DEF CachesBounded, Cached
      <3>4. QED
        BY <1>11, <3>2, <3>3
    <2>6. QED
      BY <2>3, <2>5
  <1>12. CASE item = "resolved" /\ ReadResolved(s, rest)
    <2>1. service[s].op # "draft"
      BY <1>2, <1>12
    <2>2. CASE cache[s].resolved # {}
      BY <1>4, <1>5, <1>6, <1>12, <1>21, <2>1, <2>2 DEF ReadResolved
    <2>3. CASE cache[s].resolved = {} /\ (cache[s].conversation = 0 \/ cache[s].participant = 0)
      <3> DEFINE first == <<"conversation", "participant", "resolved">>
                 then == first \o rest
      <3>1. Observe(s, {}, then) /\ UNCHANGED cache
        BY <1>12, <2>3 DEF ReadResolved
      <3>2. service[s].op \notin {"draft", "ownerDraft"} => then \in Seq(Unbound)
        <4>1. first \in Seq(Unbound)
          BY DEF Unbound, Item
        <4> HIDE DEF first
        <4>2. service[s].op \notin {"draft", "ownerDraft"} => rest \in Seq(Unbound)
          BY <1>21
        <4>3. QED
          BY <4>1, <4>2
      <3> HIDE DEF then
      <3>3. QED
        BY <1>5, <1>6, <2>1, <3>1, <3>2
    <2>4. CASE cache[s].resolved = {} /\ cache[s].conversation # 0 /\ cache[s].participant # 0
      <3> DEFINE parts == {cache[s].conversation, cache[s].participant, cache[s].stale}
      <3>1. \A c \in parts : Bounded(s, c)
        BY <1>3, <1>4, <2>4
      <3>2. cache' = [cache EXCEPT ![s].resolved = parts] /\ Observe(s, parts, rest)
        BY <1>12, <2>4 DEF ReadResolved
      <3> HIDE DEF parts
      <3>3. ReadsOn(s)
        BY <1>6, <1>21, <2>1, <3>1, <3>2
      <3>4. cache \in [Service -> Cached] /\ cache[s] \in Cached
        BY DEF TypeOK
      <3>5. /\ cache'[s] = [cache[s] EXCEPT !.resolved = parts]
            /\ \A t \in Service : t # s => cache'[t] = cache[t]
        BY <3>2, <3>4
      <3>6. CachesBounded(s)
        BY <1>4, <3>1, <3>4, <3>5 DEF CachesBounded, Cached
      <3>7. QED
        BY <3>3, <3>6
    <2>5. QED
      BY <2>2, <2>3, <2>4
  <1>13. QED
    BY <1>7, <1>8, <1>9, <1>10, <1>11, <1>12 DEF Read, item, rest

-----------------------------------------------------------------------------
(* The control of the processes and the lock of the journal.                 *)
LEMMA PlanFacts ==
  /\ Plan("draft") = DraftPlan /\ DraftPlan \in DraftPlans /\ DraftPlan # <<>>
  /\ \A plan \in DraftPlans : plan # <<>>
  /\ Plan("ownerDraft") # <<>>
  /\ <<>> \in Seq(Unbound)
  /\ \A op \in Operation \ {"draft", "ownerDraft"} : Plan(op) \in Seq(Unbound)
  <1>1. Plan("draft") = DraftPlan /\ DraftPlan \in DraftPlans
    BY DEF Plan, DraftPlans
  <1>2. \A plan \in DraftPlans : plan # <<>>
    BY DEF DraftPlans, DraftPlan
  <1>3. Plan("ownerDraft") = DraftPlan
    BY DEF Plan, OwnerPlan
  <1>4. /\ ListPlan \in Seq(Unbound) /\ SearchPlan \in Seq(Unbound)
        /\ PreviewPlan \in Seq(Unbound) /\ <<>> \in Seq(Unbound)
    BY DEF Unbound, Item, ListPlan, SearchPlan, PreviewPlan
  <1>5. \A op \in Operation \ {"draft", "ownerDraft"} : Plan(op) \in Seq(Unbound)
    BY <1>4 DEF Operation, Plan
  <1>6. QED
    BY <1>1, <1>2, <1>3, <1>4, <1>5

LEMMA ControlInit == ASSUME Init PROVE ControlSound
  <1>1. \A s \in Service : service[s] = Down /\ holder = Nobody
    BY DEF Init
  <1>2. \A s \in Service : holder # s
    BY <1>1, ConnectorAssumption
  <1>3. \A s \in Service :
          /\ service[s].phase = "down" /\ service[s].op = "refused"
          /\ service[s].moved = FALSE /\ service[s].plan = <<>>
    BY <1>1 DEF Down, Idle
  <1>4. QED
    BY <1>2, <1>3, PlanFacts DEF ControlSound, Starting

\* A request that is over or goes on without the journal and the lock.
LEMMA ControlEnds ==
  ASSUME TypeOK, ControlSound, NEW s \in Service, Ends(s),
         \/ service[s].phase # "locked" /\ journal' = journal /\ holder' = holder
         \/ service[s].phase = "locked" /\ holder' = Nobody
  PROVE  ControlSound'
  <1>1. \A t \in Service : t # s => service'[t] = service[t]
    BY DEF Ends, Alone
  <1>2. \A t \in Service : t # s =>
          /\ service[t].phase = "locked" <=> holder' = t
          /\ service[t].phase = "locked" => journal' = journal
    BY ConnectorAssumption DEF ControlSound
  <1>3. holder' # s
    BY ConnectorAssumption DEF ControlSound
  <1>4. QED
    <2>1. service'[s].plan \in Seq(Unbound)
      BY PlanFacts DEF Ends
    <2>2. /\ service'[s].phase \in {"down", "opening", "idle"}
          /\ service'[s].op = "refused" /\ service'[s].moved = FALSE
      BY DEF Ends
    <2>3. QED
      BY <1>1, <1>2, <1>3, <2>1, <2>2 DEF ControlSound, Starting

LEMMA ControlPasses ==
  ASSUME TypeOK, ControlSound, NEW s \in Service, NEW phase, Passes(s, phase),
         phase \notin {"locked", "read", "refresh", "reload"},
         phase \in {"write", "remove"} => service[s].op \in {"draft", "ownerDraft"},
         phase = "remove" => service[s].op = "draft",
         phase \in {"append", "check"} => service[s].op # "ownerDraft",
         phase \in {"down", "opening", "idle"} =>
           service[s].phase \in {"down", "opening", "idle"},
         \/ service[s].phase # "locked" /\ journal' = journal /\ holder' = holder
         \/ service[s].phase = "locked" /\ holder' = Nobody
  PROVE  ControlSound'
  <1>1. \A t \in Service : t # s => service'[t] = service[t]
    BY DEF Passes, Alone
  <1>2. \A t \in Service : t # s =>
          /\ service[t].phase = "locked" <=> holder' = t
          /\ service[t].phase = "locked" => journal' = journal
    BY ConnectorAssumption DEF ControlSound
  <1>3. holder' # s
    BY ConnectorAssumption DEF ControlSound
  <1>4. /\ service'[s].phase = phase /\ service'[s].op = service[s].op
        /\ service'[s].plan = service[s].plan /\ service'[s].moved = service[s].moved
    BY DEF Passes, Carries
  <1>5. QED
    BY <1>1, <1>2, <1>3, <1>4 DEF ControlSound, Starting

LEMMA ControlRefreshed ==
  ASSUME TypeOK, ControlSound, NEW s \in Service, NEW current, Refreshed(s, current),
         service[s].phase \in {"refresh", "reload"}, journal' = journal, holder' = holder
  PROVE  ControlSound'
  <1>1. CASE Replies(s, "conflict")
    BY <1>1, ControlEnds DEF Replies
  <1>2. CASE /\ ~service[s].moved /\ Alone(s) /\ Carries(s)
             /\ service'[s].phase = Reading(s, service[s].plan)
             /\ service'[s].plan = service[s].plan
             /\ service'[s].moved = service[s].moved
    <2>1. \A t \in Service : t # s => service'[t] = service[t]
      BY <1>2 DEF Alone
    <2>2. holder # s /\ service[s].op # "ownerDraft"
      BY DEF ControlSound
    <2>3. service[s].op = "draft" => service[s].plan = DraftPlan
      BY <1>2 DEF ControlSound, Starting
    <2>4. \/ service'[s].phase = "read" /\ service'[s].plan # <<>>
          \/ service'[s].phase = "append" /\ service[s].op # "draft"
      BY <1>2, <2>2, <2>3, PlanFacts DEF Reading, AfterReads
    <2>5. QED
      BY <1>2, <2>1, <2>2, <2>3, <2>4, PlanFacts DEF ControlSound, Starting, Carries
  <1>3. QED
    BY <1>1, <1>2, RefreshedEffect

LEMMA ControlStep ==
  ASSUME TypeOK, ControlSound, CacheSound, [Next]_vars
  PROVE  ControlSound'
  <1>1. CASE UNCHANGED vars
    BY <1>1 DEF vars, ControlSound, Starting
  <1>2. CASE Commit
    BY <1>2 DEF Commit, ControlSound, Starting
  <1>3. ASSUME NEW s \in Service, Open(s) PROVE ControlSound'
    <2>1. Passes(s, "opening")
      BY <1>3, OpenEffect
    <2>2. QED
      BY <1>3, <2>1, ControlPasses DEF Open
  <1>4. ASSUME NEW s \in Service, Opened(s) PROVE ControlSound'
    BY <1>4, OpenedEffect, ControlEnds DEF Opened
  <1>5. ASSUME NEW s \in Service, Refresh(s) PROVE ControlSound'
    <2>1. /\ service[s].phase = "refresh" /\ journal' = journal /\ holder' = holder
      BY <1>5 DEF Refresh
    <2>2. CASE Refreshed(s, checkpoint)
      BY <2>1, <2>2, ControlRefreshed
    <2>3. CASE /\ Alone(s) /\ Carries(s)
               /\ service'[s].phase = "reload"
               /\ service'[s].plan = service[s].plan
               /\ service'[s].moved = service[s].moved
      <3>1. \A t \in Service : t # s => service'[t] = service[t]
        BY <2>3 DEF Alone
      <3>2. holder # s /\ service[s].op # "ownerDraft"
        BY <2>1 DEF ControlSound
      <3>3. QED
        BY <2>1, <2>3, <3>1, <3>2 DEF ControlSound, Starting, Carries
    <2>4. QED
      BY <1>5, <2>2, <2>3, RefreshEffect
  <1>6. ASSUME NEW s \in Service, Reload(s) PROVE ControlSound'
    BY <1>6, ControlRefreshed DEF Reload
  <1>7. ASSUME NEW s \in Service, Read(s) PROVE ControlSound'
    <2>1. ReadsOn(s)
      BY <1>7, ReadEffect
    <2>2. \A t \in Service : t # s => service'[t] = service[t]
      BY <2>1 DEF ReadsOn, Alone
    <2>3. service[s].phase = "read" /\ journal' = journal /\ holder' = holder /\ holder # s
      BY <1>7 DEF Read, ControlSound
    <2>4. QED
      BY <2>1, <2>2, <2>3, PlanFacts DEF ReadsOn, Carries, ControlSound, Starting, AfterReads
  <1>8. ASSUME NEW s \in Service, ReadFails(s) PROVE ControlSound'
    BY <1>8, AnswerEffect, ControlEnds DEF ReadFails, Replies
  <1>9. ASSUME NEW s \in Service, WriteDraft(s) PROVE ControlSound'
    <2>1. CASE Replies(s, "ok")
      BY <1>9, <2>1, ControlEnds DEF WriteDraft, Replies
    <2>2. CASE service[s].op # "ownerDraft" /\ Passes(s, "append")
      BY <1>9, <2>2, ControlPasses DEF WriteDraft
    <2>3. QED
      BY <1>9, <2>1, <2>2, WriteEffect
  <1>10. ASSUME NEW s \in Service, AppendLock(s) PROVE ControlSound'
    <2>1. Passes(s, "locked") /\ service'[s].tail = TailOf(journal)
      BY <1>10, LockEffect
    <2>2. /\ service[s].phase = "append" /\ TailReadable(journal) /\ journal' = journal
          /\ holder = Nobody /\ holder' = s
      BY <1>10 DEF AppendLock, LockFree
    <2>3. \A t \in Service : t # s => service'[t] = service[t]
      BY <2>1 DEF Passes, Alone
    <2>4. \A t \in Service : service[t].phase # "locked"
      BY <2>2, ConnectorAssumption DEF ControlSound
    <2>5. QED
      BY <2>1, <2>2, <2>3, <2>4 DEF ControlSound, Starting, Passes, Carries
  <1>11. ASSUME NEW s \in Service, AppendUnreadable(s) PROVE ControlSound'
    <2>1. service[s].phase = "append" /\ journal' = journal /\ holder' = holder
      BY <1>11 DEF AppendUnreadable
    <2>2. QED
      BY <1>11, <2>1, RefusedEffect, ControlPasses, ControlEnds DEF AppendUnreadable, Replies
  <1>12. ASSUME NEW s \in Service, AppendWrite(s) PROVE ControlSound'
    <2>1. service[s].phase = "locked" /\ holder' = Nobody /\ service[s].op # "ownerDraft"
      BY <1>12 DEF AppendWrite, ControlSound
    <2>2. QED
      BY <1>12, <2>1, AppendEffect, ControlPasses, ControlEnds DEF Replies
  <1>13. ASSUME NEW s \in Service, RemoveDraft(s) PROVE ControlSound'
    BY <1>13, AnswerEffect, ControlEnds DEF RemoveDraft, Replies
  <1>14. ASSUME NEW s \in Service, Check(s) PROVE ControlSound'
    <2>1. /\ service[s].phase = "check" /\ journal' = journal /\ holder' = holder
          /\ holder # s /\ service[s].op # "ownerDraft"
      BY <1>14 DEF Check, ControlSound
    <2>2. CASE Ends(s)
      BY <2>1, <2>2, ControlEnds
    <2>3. CASE /\ Alone(s) /\ Carries(s)
               /\ service'[s].phase = "refresh"
               /\ service'[s].plan = service[s].plan
               /\ service'[s].moved = TRUE
      <3>1. \A t \in Service : t # s => service'[t] = service[t]
        BY <2>3 DEF Alone
      <3>2. QED
        BY <2>1, <2>3, <3>1 DEF ControlSound, Starting, Carries
    <2>4. QED
      BY <1>14, <2>2, <2>3, CheckEffect DEF Replies
  <1>15. ASSUME NEW s \in Service, AppendFails(s) PROVE ControlSound'
    <2>1. service[s].phase = "locked" /\ holder' = Nobody
      BY <1>15 DEF AppendFails
    <2>2. QED
      BY <1>15, <2>1, RefusedEffect, ControlPasses, ControlEnds DEF AppendFails, Replies
  <1>16. ASSUME NEW s \in Service, WriteFails(s) PROVE ControlSound'
    BY <1>16, AnswerEffect, ControlEnds DEF WriteFails, Replies
  <1>17. ASSUME NEW s \in Service, Kill(s) PROVE ControlSound'
    <2>1. \/ service[s].phase # "locked" /\ journal' = journal /\ holder' = holder
          \/ service[s].phase = "locked" /\ holder' = Nobody
      BY <1>17 DEF Kill, ControlSound
    <2>2. QED
      BY <1>17, <2>1, KillEffect, ControlEnds
  <1>18. ASSUME NEW s \in Service, NEW op \in Requests, Begin(s, op) PROVE ControlSound'
    <2>1. service[s].phase = "idle" /\ journal' = journal /\ holder' = holder /\ holder # s
      BY <1>18 DEF Begin, ControlSound
    <2>2. op \in Operation
      BY ConnectorAssumption DEF Operation
    <2>3. /\ \A t \in Service : t # s => service'[t] = service[t]
          /\ service'[s].phase = IF op = "ownerDraft" THEN "read" ELSE "refresh"
          /\ service'[s].op = op
          /\ service'[s].plan = Plan(op)
      BY <1>18, BeginEffect DEF Alone
    <2>4. QED
      BY <2>1, <2>2, <2>3, PlanFacts DEF ControlSound, Starting
  <1>19. CASE AuditRead \/ AuditList \/ AuditReread \/ AuditRelist
    BY <1>19 DEF AuditRead, AuditList, AuditReread, AuditRelist, ControlSound, Starting
  <1>20. QED
    BY <1>1, <1>2, <1>3, <1>4, <1>5, <1>6, <1>7, <1>8, <1>9, <1>10, <1>11, <1>12, <1>13, <1>14,
       <1>15, <1>16, <1>17, <1>18, <1>19 DEF Next, Progress

-----------------------------------------------------------------------------
(* The caches, and what a request has read.                                  *)

\* A step that leaves the caches and the replica to the processes that have
\* opened.
LEMMA CacheFrame ==
  ASSUME TypeOK, CacheSound, cache' = cache, checkpoint' = checkpoint,
         NEW s \in Service, \A t \in Service : t # s => service'[t] = service[t],
         service'[s].phase \in {"down", "opening"} \/ service[s].phase \notin {"down", "opening"}
  PROVE  CacheSound'
  BY DEF CacheSound, Bounded

\* One process changes its caches.
LEMMA CacheChanges ==
  ASSUME TypeOK, CacheSound, checkpoint' = checkpoint, NEW s \in Service,
         \A t \in Service : t # s => service'[t] = service[t] /\ cache'[t] = cache[t],
         cache'[s].binding <= checkpoint,
         \/ service'[s].phase \in {"down", "opening"}
         \/ cache'[s].binding <= cache'[s].stale /\ cache'[s].stale <= checkpoint,
         cache'[s].conversation # 0 =>
           cache'[s].binding <= cache'[s].conversation /\ cache'[s].conversation <= checkpoint,
         cache'[s].participant # 0 =>
           cache'[s].binding <= cache'[s].participant /\ cache'[s].participant <= checkpoint,
         \A c \in cache'[s].resolved : cache'[s].binding <= c /\ c <= checkpoint
  PROVE  CacheSound'
  BY DEF CacheSound, Bounded

LEMMA CacheStep ==
  ASSUME TypeOK, ControlSound, CacheSound, ReadSound, [Next]_vars
  PROVE  CacheSound'
  <1>1. CASE UNCHANGED vars
    BY <1>1 DEF vars, CacheSound, Bounded
  <1>2. CASE Commit
    <2>1. checkpoint \in Nat /\ checkpoint' = checkpoint + 1
      BY <1>2, CheckpointNumber DEF Commit
    <2>2. \A s \in Service, c \in Nat : c <= checkpoint => c <= checkpoint'
      BY <2>1
    <2>3. \A s \in Service : /\ cache[s].binding \in Nat /\ cache[s].stale \in Nat
                             /\ cache[s].conversation \in Nat /\ cache[s].participant \in Nat
                             /\ cache[s].resolved \in SUBSET Nat
      BY Fields
    <2>4. cache' = cache /\ service' = service
      BY <1>2 DEF Commit
    <2>5. ASSUME NEW s \in Service
          PROVE  /\ cache[s].binding <= checkpoint'
                 /\ service[s].phase \notin {"down", "opening"} =>
                      cache[s].binding <= cache[s].stale /\ cache[s].stale <= checkpoint'
                 /\ cache[s].conversation # 0 =>
                      cache[s].binding <= cache[s].conversation
                        /\ cache[s].conversation <= checkpoint'
                 /\ cache[s].participant # 0 =>
                      cache[s].binding <= cache[s].participant
                        /\ cache[s].participant <= checkpoint'
                 /\ \A c \in cache[s].resolved : cache[s].binding <= c /\ c <= checkpoint'
      <3>1. /\ cache[s].binding <= checkpoint
            /\ service[s].phase \notin {"down", "opening"} =>
                 cache[s].binding <= cache[s].stale /\ cache[s].stale <= checkpoint
            /\ cache[s].conversation # 0 =>
                 cache[s].binding <= cache[s].conversation /\ cache[s].conversation <= checkpoint
            /\ cache[s].participant # 0 =>
                 cache[s].binding <= cache[s].participant /\ cache[s].participant <= checkpoint
            /\ \A c \in cache[s].resolved : cache[s].binding <= c /\ c <= checkpoint
        BY DEF CacheSound, Bounded
      <3>2. /\ cache[s].binding \in Nat /\ cache[s].stale \in Nat
            /\ cache[s].conversation \in Nat /\ cache[s].participant \in Nat
        BY <2>3
      <3>3. \A c \in cache[s].resolved : c \in Nat
        BY <2>3
      <3>4. QED
        BY <2>2, <3>1, <3>2, <3>3
    <2>6. QED
      BY <2>4, <2>5 DEF CacheSound, Bounded
  <1>3. ASSUME NEW s \in Service, Open(s) PROVE CacheSound'
    <2>1. cache \in [Service -> Cached]
      BY DEF TypeOK
    <2>2. /\ cache'[s] = [NoCache EXCEPT !.binding = checkpoint]
          /\ \A t \in Service : t # s => cache'[t] = cache[t]
          /\ checkpoint' = checkpoint
      BY <1>3, <2>1 DEF Open
    <2>3. /\ \A t \in Service : t # s => service'[t] = service[t]
          /\ service'[s].phase = "opening"
      BY <1>3, OpenEffect DEF Passes, Alone
    <2>4. /\ cache'[s].binding = checkpoint /\ cache'[s].conversation = 0
          /\ cache'[s].participant = 0 /\ cache'[s].resolved = {}
      BY <2>2 DEF NoCache
    <2>5. cache'[s].binding <= checkpoint
      BY <2>4, CheckpointNumber
    <2>6. QED
      BY <2>2, <2>3, <2>4, <2>5, CacheChanges
  <1>4. ASSUME NEW s \in Service, Opened(s) PROVE CacheSound'
    <2>1. cache \in [Service -> Cached] /\ cache[s] \in Cached
      BY DEF TypeOK
    <2>2. /\ cache'[s] = [cache[s] EXCEPT !.stale = checkpoint]
          /\ \A t \in Service : t # s => cache'[t] = cache[t]
          /\ checkpoint' = checkpoint
      BY <1>4, <2>1 DEF Opened
    <2>3. \A t \in Service : t # s => service'[t] = service[t]
      BY <1>4, OpenedEffect DEF Ends, Alone
    <2>4. /\ cache'[s].binding = cache[s].binding /\ cache'[s].stale = checkpoint
          /\ cache'[s].conversation = cache[s].conversation
          /\ cache'[s].participant = cache[s].participant
          /\ cache'[s].resolved = cache[s].resolved
      BY <2>1, <2>2 DEF Cached
    <2>5. /\ cache[s].binding <= checkpoint /\ checkpoint <= checkpoint
          /\ cache[s].conversation # 0 => Bounded(s, cache[s].conversation)
          /\ cache[s].participant # 0 => Bounded(s, cache[s].participant)
          /\ \A c \in cache[s].resolved : Bounded(s, c)
      BY CheckpointNumber DEF CacheSound
    <2>6. QED
      BY <2>2, <2>3, <2>4, <2>5, CacheChanges DEF Bounded
  <1>5. ASSUME NEW s \in Service, Refresh(s) PROVE CacheSound'
    <2>1. cache' = cache /\ checkpoint' = checkpoint /\ service[s].phase = "refresh"
      BY <1>5 DEF Refresh
    <2>2. Alone(s)
      BY <1>5, RefreshEffect, RefreshedEffect DEF Replies, Ends
    <2>3. QED
      BY <2>1, <2>2, CacheFrame DEF Alone
  <1>6. ASSUME NEW s \in Service, Reload(s) PROVE CacheSound'
    <2>1. cache \in [Service -> Cached]
      BY DEF TypeOK
    <2>2. /\ cache'[s] = Cleared(s, checkpoint)
          /\ \A t \in Service : t # s => cache'[t] = cache[t]
          /\ checkpoint' = checkpoint
          /\ service[s].phase = "reload"
      BY <1>6, <2>1 DEF Reload
    <2>3. Alone(s)
      BY <1>6, RefreshedEffect DEF Reload, Replies, Ends
    <2>4. /\ cache'[s].binding = service[s].current /\ cache'[s].stale = checkpoint
          /\ cache'[s].conversation = 0 /\ cache'[s].participant = 0 /\ cache'[s].resolved = {}
      BY <2>2 DEF Cleared, NoCache
    <2>5. service[s].current <= checkpoint /\ checkpoint <= checkpoint
      BY <2>2, CheckpointNumber DEF ReadSound
    <2>6. QED
      BY <2>2, <2>3, <2>4, <2>5, CacheChanges DEF Alone
  <1>7. ASSUME NEW s \in Service, Read(s) PROVE CacheSound'
    <2>1. ReadsOn(s) /\ CachesBounded(s)
      BY <1>7, ReadEffect
    <2>2. checkpoint' = checkpoint /\ service[s].phase = "read"
      BY <1>7 DEF Read
    <2>3. Bounded(s, cache[s].stale)
      BY <2>2 DEF CacheSound
    <2>4. \A t \in Service : t # s => service'[t] = service[t]
      BY <2>1 DEF ReadsOn, Alone
    <2>5. QED
      BY <2>1, <2>2, <2>3, <2>4, CacheChanges DEF CachesBounded, Bounded, CacheSound
  <1>8. ASSUME NEW s \in Service,
               ReadFails(s) \/ WriteDraft(s) \/ AppendLock(s) \/ AppendUnreadable(s)
                 \/ AppendWrite(s) \/ RemoveDraft(s) \/ Check(s) \/ AppendFails(s) \/ WriteFails(s)
        PROVE  CacheSound'
    <2>1. cache' = cache /\ checkpoint' = checkpoint
      BY <1>8 DEF ReadFails, WriteDraft, AppendLock, AppendUnreadable, AppendWrite, RemoveDraft,
                  Check, AppendFails, WriteFails
    <2>2. service[s].phase \notin {"down", "opening"}
      BY <1>8 DEF ReadFails, WriteDraft, AppendLock, AppendUnreadable, AppendWrite, RemoveDraft,
                  Check, AppendFails, WriteFails
    <2>3. Alone(s)
      <3>1. CASE ReadFails(s) \/ RemoveDraft(s) \/ WriteFails(s)
        BY <3>1, AnswerEffect DEF ReadFails, RemoveDraft, WriteFails, Replies, Ends
      <3>2. CASE WriteDraft(s)
        BY <3>2, WriteEffect DEF Replies, Ends, Passes
      <3>3. CASE AppendLock(s)
        BY <3>3, LockEffect DEF Passes
      <3>4. CASE AppendUnreadable(s) \/ AppendFails(s)
        BY <3>4, RefusedEffect DEF AppendUnreadable, AppendFails, Replies, Ends, Passes
      <3>5. CASE AppendWrite(s)
        BY <3>5, AppendEffect DEF Replies, Ends, Passes
      <3>6. CASE Check(s)
        BY <3>6, CheckEffect DEF Replies, Ends
      <3>7. QED
        BY <1>8, <3>1, <3>2, <3>3, <3>4, <3>5, <3>6
    <2>4. QED
      BY <2>1, <2>2, <2>3, CacheFrame DEF Alone
  <1>9. ASSUME NEW s \in Service, Kill(s) PROVE CacheSound'
    <2>1. cache \in [Service -> Cached] /\ service \in [Service -> Serving]
      BY DEF TypeOK
    <2>2. /\ cache'[s] = NoCache /\ service'[s] = Down
          /\ \A t \in Service : t # s => cache'[t] = cache[t] /\ service'[t] = service[t]
          /\ checkpoint' = checkpoint
      BY <1>9, <2>1 DEF Kill
    <2>3. /\ service'[s].phase = "down" /\ cache'[s].binding = 0 /\ cache'[s].conversation = 0
          /\ cache'[s].participant = 0 /\ cache'[s].resolved = {}
      BY <2>2 DEF NoCache, Down, Idle
    <2>4. 0 <= checkpoint
      BY CheckpointNumber
    <2>5. QED
      BY <2>2, <2>3, <2>4, CacheChanges
  <1>10. ASSUME NEW s \in Service, NEW op \in Requests, Begin(s, op) PROVE CacheSound'
    <2>1. cache' = cache /\ checkpoint' = checkpoint /\ service[s].phase = "idle"
      BY <1>10 DEF Begin
    <2>2. QED
      BY <1>10, <2>1, BeginEffect, CacheFrame DEF Alone
  <1>11. CASE AuditRead \/ AuditList \/ AuditReread \/ AuditRelist
    BY <1>11 DEF AuditRead, AuditList, AuditReread, AuditRelist, CacheSound, Bounded
  <1>12. QED
    BY <1>1, <1>2, <1>3, <1>4, <1>5, <1>6, <1>7, <1>8, <1>9, <1>10, <1>11 DEF Next, Progress

\* The request of one process changes, its caches do not.
LEMMA ReadFrame ==
  ASSUME TypeOK, ReadSound, checkpoint' = checkpoint,
         NEW s \in Service, Alone(s), cache' = cache,
         \/ Ends(s)
         \/ /\ service'[s].before <= checkpoint
            /\ service'[s].phase = "reload" =>
                 /\ service'[s].current <= checkpoint
                 /\ service'[s].op = "query" => service'[s].before <= service'[s].current
            /\ service'[s].phase \in {"refresh", "reload"} /\ ~service'[s].moved =>
                 service'[s].observed = {}
            /\ service'[s].phase \in {"read", "write", "append", "locked", "check"}
                 /\ service'[s].op # "ownerDraft" =>
                 /\ service'[s].before <= cache[s].binding
                 /\ \A c \in service'[s].observed : service'[s].before <= c /\ c <= checkpoint
  PROVE  ReadSound'
  <1>1. \A t \in Service : t # s => service'[t] = service[t]
    BY DEF Alone
  <1>2. CASE Ends(s)
    <2>1. /\ service'[s].phase \in {"down", "opening", "idle"} /\ service'[s].before = 0
          /\ service'[s].observed = {}
      BY <1>2 DEF Ends
    <2>2. 0 <= checkpoint
      BY CheckpointNumber
    <2>3. QED
      BY <1>1, <2>1, <2>2 DEF ReadSound, Starting
  <1>3. CASE ~Ends(s)
    BY <1>1, <1>3 DEF ReadSound, Starting
  <1>4. QED
    BY <1>2, <1>3

LEMMA ReadPasses ==
  ASSUME TypeOK, ReadSound, checkpoint' = checkpoint, cache' = cache,
         NEW s \in Service, NEW phase, Passes(s, phase),
         phase \notin {"refresh", "reload"},
         phase \in {"read", "write", "append", "locked", "check"} =>
           service[s].phase \in {"read", "write", "append", "locked", "check"}
  PROVE  ReadSound'
  <1>1. /\ Alone(s)
        /\ service'[s].phase = phase /\ service'[s].op = service[s].op
        /\ service'[s].before = service[s].before
        /\ service'[s].observed = service[s].observed
    BY DEF Passes, Carries
  <1>2. service[s].before <= checkpoint
    BY DEF ReadSound
  <1>3. phase \in {"read", "write", "append", "locked", "check"} /\ service[s].op # "ownerDraft" =>
          /\ service[s].before <= cache[s].binding
          /\ \A c \in service[s].observed : service[s].before <= c /\ c <= checkpoint
    BY DEF ReadSound
  <1>4. QED
    BY <1>1, <1>2, <1>3, ReadFrame

LEMMA ReadRefreshed ==
  ASSUME TypeOK, ControlSound, ReadSound, checkpoint' = checkpoint,
         NEW s \in Service, service[s].phase \in {"refresh", "reload"},
         NEW current \in Nat, current <= checkpoint, Refreshed(s, current),
         cache'[s].binding = current,
         \A t \in Service : t # s => cache'[t] = cache[t],
         service[s].op = "query" => service[s].before <= current
  PROVE  ReadSound'
  <1>1. CASE Replies(s, "conflict")
    <2>1. /\ \A t \in Service : t # s => service'[t] = service[t]
          /\ service'[s].phase \in {"down", "opening", "idle"}
          /\ service'[s].observed = {} /\ service'[s].before = 0
      BY <1>1 DEF Replies, Ends, Alone
    <2>2. 0 <= checkpoint
      BY CheckpointNumber
    <2>3. QED
      BY <2>1, <2>2 DEF ReadSound, Starting
  <1>2. CASE /\ ~service[s].moved /\ Alone(s) /\ Carries(s)
             /\ service'[s].phase = Reading(s, service[s].plan)
             /\ service'[s].before = IF service[s].op = "query" THEN service[s].before ELSE current
             /\ service'[s].observed = service[s].observed
    <2>1. service[s].observed = {}
      BY <1>2 DEF ReadSound, Starting
    <2>2. service'[s].phase \notin {"refresh", "reload"}
      BY <1>2 DEF Reading, AfterReads
    <2>3. service'[s].before <= current /\ service'[s].before <= checkpoint
      BY <1>2 DEF ReadSound
    <2>4. \A t \in Service : t # s => service'[t] = service[t]
      BY <1>2 DEF Alone
    <2>5. QED
      BY <1>2, <2>1, <2>2, <2>3, <2>4 DEF ReadSound, Starting
  <1>3. QED
    BY <1>1, <1>2, RefreshedEffect

LEMMA ReadStep ==
  ASSUME TypeOK, ControlSound, CacheSound, ReadSound, [Next]_vars
  PROVE  ReadSound'
  <1>1. CASE UNCHANGED vars
    BY <1>1 DEF vars, ReadSound, Starting
  <1>2. CASE Commit
    <2>1. checkpoint \in Nat /\ checkpoint' = checkpoint + 1
      BY <1>2, CheckpointNumber DEF Commit
    <2>2. \A c \in Nat : c <= checkpoint => c <= checkpoint'
      BY <2>1
    <2>3. service' = service /\ cache' = cache
      BY <1>2 DEF Commit
    <2>4. \A s \in Service : /\ service[s].before \in Nat /\ service[s].current \in Nat
                             /\ service[s].observed \in SUBSET Nat
      BY Fields
    <2>5. QED
      BY <2>2, <2>3, <2>4 DEF ReadSound, Starting
  <1>3. ASSUME NEW s \in Service, Open(s) PROVE ReadSound'
    <2>1. cache \in [Service -> Cached]
      BY DEF TypeOK
    <2>2. /\ \A t \in Service : t # s => service'[t] = service[t] /\ cache'[t] = cache[t]
          /\ service'[s].phase = "opening" /\ service'[s].before = service[s].before
          /\ checkpoint' = checkpoint
      BY <1>3, <2>1, OpenEffect DEF Open, Passes, Alone
    <2>3. QED
      BY <2>2 DEF ReadSound, Starting
  <1>4. ASSUME NEW s \in Service, Opened(s) PROVE ReadSound'
    <2>1. cache \in [Service -> Cached]
      BY DEF TypeOK
    <2>2. /\ \A t \in Service : t # s => service'[t] = service[t] /\ cache'[t] = cache[t]
          /\ service'[s].phase \in {"down", "opening", "idle"}
          /\ service'[s].before = 0
          /\ checkpoint' = checkpoint
      BY <1>4, <2>1, OpenedEffect DEF Opened, Ends, Alone
    <2>3. 0 <= checkpoint
      BY CheckpointNumber
    <2>4. QED
      BY <2>2, <2>3 DEF ReadSound, Starting
  <1>5. ASSUME NEW s \in Service, Refresh(s) PROVE ReadSound'
    <2>1. cache' = cache /\ checkpoint' = checkpoint /\ service[s].phase = "refresh"
      BY <1>5 DEF Refresh
    <2>2. service[s].before <= checkpoint /\ checkpoint <= checkpoint
      BY CheckpointNumber DEF ReadSound
    <2>3. CASE cache[s].binding = checkpoint /\ Refreshed(s, checkpoint)
      BY <2>1, <2>2, <2>3, ReadRefreshed, CheckpointNumber
    <2>4. CASE /\ Alone(s) /\ Carries(s)
               /\ service'[s].phase = "reload"
               /\ service'[s].before = service[s].before
               /\ service'[s].current = checkpoint
               /\ service'[s].moved = service[s].moved
               /\ service'[s].observed = service[s].observed
      <3>1. ~service[s].moved => service[s].observed = {}
        BY <2>1 DEF ReadSound, Starting
      <3>2. QED
        BY <2>1, <2>2, <2>4, <3>1, ReadFrame
    <2>5. QED
      BY <1>5, <2>3, <2>4, RefreshEffect
  <1>6. ASSUME NEW s \in Service, Reload(s) PROVE ReadSound'
    <2>1. cache \in [Service -> Cached] /\ service[s].current \in Nat
      BY Fields DEF TypeOK
    <2>2. /\ cache'[s] = Cleared(s, checkpoint)
          /\ \A t \in Service : t # s => cache'[t] = cache[t]
          /\ checkpoint' = checkpoint
          /\ service[s].phase = "reload" /\ Refreshed(s, service[s].current)
      BY <1>6, <2>1 DEF Reload
    <2>3. cache'[s].binding = service[s].current
      BY <2>2 DEF Cleared, NoCache
    <2>4. /\ service[s].current <= checkpoint
          /\ service[s].op = "query" => service[s].before <= service[s].current
      BY <2>2 DEF ReadSound
    <2>5. QED
      BY <2>1, <2>2, <2>3, <2>4, ReadRefreshed
  <1>7. ASSUME NEW s \in Service, Read(s) PROVE ReadSound'
    <2>1. ReadsOn(s) /\ CachesBounded(s)
      BY <1>7, ReadEffect
    <2>2. checkpoint' = checkpoint /\ service[s].phase = "read"
      BY <1>7 DEF Read
    <2>3. \A t \in Service : t # s => service'[t] = service[t] /\ cache'[t] = cache[t]
      BY <2>1 DEF ReadsOn, CachesBounded, Alone
    <2>4. /\ service'[s].before = service[s].before /\ service'[s].op = service[s].op
          /\ cache'[s].binding = cache[s].binding
          /\ service'[s].phase \notin {"refresh", "reload"}
      BY <2>1 DEF ReadsOn, CachesBounded, Carries, AfterReads
    <2>5. service[s].op # "ownerDraft" =>
            /\ service[s].before <= cache[s].binding
            /\ \A c \in service'[s].observed : service[s].before <= c /\ c <= checkpoint
      <3>1. /\ service[s].before \in Nat /\ cache[s].binding \in Nat /\ checkpoint \in Nat
            /\ service[s].observed \in SUBSET Nat
        BY Fields
      <3>2. \A c \in service'[s].observed : c \in Nat
        <4>1. service' \in [Service -> Serving]
          BY <1>7, ReadTypes
        <4>2. service'[s] \in Serving
          BY <4>1
        <4>3. QED
          BY <4>2 DEF Serving
      <3>3. service[s].op # "ownerDraft" =>
              /\ service[s].before <= cache[s].binding
              /\ \A c \in service[s].observed : service[s].before <= c /\ c <= checkpoint
        BY <2>2 DEF ReadSound
      <3>4. QED
        BY <2>1, <3>1, <3>2, <3>3 DEF ReadsOn, Bounded
    <2>6. service[s].before <= checkpoint
      BY DEF ReadSound
    <2>7. QED
      BY <2>2, <2>3, <2>4, <2>5, <2>6 DEF ReadSound, Starting
  <1>8. ASSUME NEW s \in Service, ReadFails(s) \/ RemoveDraft(s) \/ WriteFails(s)
        PROVE  ReadSound'
    <2>1. cache' = cache /\ checkpoint' = checkpoint
      BY <1>8 DEF ReadFails, RemoveDraft, WriteFails
    <2>2. Ends(s) /\ Alone(s)
      BY <1>8, AnswerEffect DEF ReadFails, RemoveDraft, WriteFails, Replies, Ends
    <2>3. QED
      BY <2>1, <2>2, ReadFrame
  <1>9. ASSUME NEW s \in Service, WriteDraft(s) PROVE ReadSound'
    <2>1. cache' = cache /\ checkpoint' = checkpoint /\ service[s].phase = "write"
      BY <1>9 DEF WriteDraft
    <2>2. QED
      BY <1>9, <2>1, WriteEffect, ReadPasses, ReadFrame DEF Replies, Ends
  <1>10. ASSUME NEW s \in Service, AppendLock(s) PROVE ReadSound'
    <2>1. cache' = cache /\ checkpoint' = checkpoint /\ service[s].phase = "append"
      BY <1>10 DEF AppendLock
    <2>2. QED
      BY <1>10, <2>1, LockEffect, ReadPasses
  <1>11. ASSUME NEW s \in Service, AppendUnreadable(s) \/ AppendFails(s) PROVE ReadSound'
    <2>1. cache' = cache /\ checkpoint' = checkpoint /\ AppendRefused(s)
      BY <1>11 DEF AppendUnreadable, AppendFails
    <2>2. QED
      BY <2>1, RefusedEffect, ReadPasses, ReadFrame DEF Replies, Ends
  <1>12. ASSUME NEW s \in Service, AppendWrite(s) PROVE ReadSound'
    <2>1. cache' = cache /\ checkpoint' = checkpoint /\ service[s].phase = "locked"
      BY <1>12 DEF AppendWrite
    <2>2. QED
      BY <1>12, <2>1, AppendEffect, ReadPasses, ReadFrame DEF Replies, Ends
  <1>13. ASSUME NEW s \in Service, Check(s) PROVE ReadSound'
    <2>1. cache' = cache /\ checkpoint' = checkpoint /\ service[s].before <= checkpoint
      BY <1>13 DEF Check, ReadSound
    <2>2. CASE Ends(s)
      BY <2>1, <2>2, ReadFrame DEF Ends
    <2>3. CASE /\ Alone(s) /\ service'[s].phase = "refresh" /\ service'[s].moved = TRUE
               /\ service'[s].before = service[s].before
      BY <2>1, <2>3, ReadFrame
    <2>4. QED
      BY <1>13, <2>2, <2>3, CheckEffect DEF Replies
  <1>14. ASSUME NEW s \in Service, Kill(s) PROVE ReadSound'
    <2>1. cache \in [Service -> Cached]
      BY DEF TypeOK
    <2>2. /\ \A t \in Service : t # s => service'[t] = service[t] /\ cache'[t] = cache[t]
          /\ service'[s].phase \in {"down", "opening", "idle"}
          /\ service'[s].before = 0
          /\ checkpoint' = checkpoint
      BY <1>14, <2>1, KillEffect DEF Kill, Ends, Alone
    <2>3. 0 <= checkpoint
      BY CheckpointNumber
    <2>4. QED
      BY <2>2, <2>3 DEF ReadSound, Starting
  <1>15. ASSUME NEW s \in Service, NEW op \in Requests, Begin(s, op) PROVE ReadSound'
    <2>1. cache' = cache /\ checkpoint' = checkpoint
      BY <1>15 DEF Begin
    <2>2. /\ Alone(s)
          /\ service'[s].phase = IF op = "ownerDraft" THEN "read" ELSE "refresh"
          /\ service'[s].op = op
          /\ service'[s].before = IF op = "query" THEN checkpoint ELSE 0
          /\ service'[s].observed = {}
      BY <1>15, BeginEffect
    <2>3. service'[s].before <= checkpoint
      BY <2>2, CheckpointNumber
    <2>4. QED
      BY <2>1, <2>2, <2>3, ReadFrame
  <1>16. CASE AuditRead \/ AuditList \/ AuditReread \/ AuditRelist
    BY <1>16 DEF AuditRead, AuditList, AuditReread, AuditRelist, ReadSound, Starting
  <1>17. QED
    BY <1>1, <1>2, <1>3, <1>4, <1>5, <1>6, <1>7, <1>8, <1>9, <1>10, <1>11, <1>12, <1>13, <1>14,
       <1>15, <1>16 DEF Next, Progress

-----------------------------------------------------------------------------
(* The kinds of steps, as what is written and what is answered tells them    *)
(* apart.                                                                    *)
Untouched == UNCHANGED <<requests, drafts, journal, faults>>

Holding == {"write", "append", "locked"}

Waits == UNCHANGED <<requests, drafts, journal, faults, service, reply>>

\* A process opens, or closes again.
Opens(s) ==
  /\ Untouched /\ Alone(s) /\ reply'[s] = reply[s]
  /\ service[s].phase \in {"down", "opening", "idle"}
  /\ service'[s].phase \in {"down", "opening", "idle"}
  /\ service'[s].op = "refused" /\ service'[s].moved = FALSE
  /\ service'[s].number = 0 \/ service'[s].number = service[s].number

\* A request on its way to its record.
Proceeds(s) ==
  /\ Untouched /\ Alone(s) /\ Carries(s) /\ reply'[s] = reply[s]
  /\ Unrecorded(s)
  /\ \/ service'[s].phase \in {"refresh", "reload"} /\ service'[s].moved = FALSE
     \/ service'[s].phase \in {"read", "write", "append", "locked"}
  /\ service[s].op = "draft" =>
       \/ service[s].phase \notin Holding /\ service'[s].phase \notin Holding
       \/ /\ service[s].phase \notin Holding /\ service'[s].phase = "write"
          /\ \E c \in service'[s].observed : service'[s].bound = FingerprintOf[c]
       \/ /\ service[s].phase = "append" /\ service'[s].phase = "locked"
          /\ service'[s].observed = service[s].observed
          /\ service'[s].bound = service[s].bound

\* A request looks again after its record.
Rechecks(s) ==
  /\ Untouched /\ Alone(s) /\ Carries(s) /\ reply'[s] = reply[s]
  /\ IsRecorded(s)
  /\ service'[s].phase \in {"refresh", "reload"} /\ service'[s].moved = TRUE
  /\ service'[s].observed = service[s].observed
  /\ service'[s].bound = service[s].bound

\* The append of a draft is refused: it is going to be removed.
Recants(s) ==
  /\ Untouched /\ service[s].phase = "append" /\ service[s].op = "draft"
  /\ ~TailReadable(journal)
  /\ Passes(s, "remove")

\* A request that wrote no draft fails.
Errs(s) ==
  /\ Untouched /\ Replies(s, "error")
  /\ service[s].phase \in {"read", "append", "check"}
  /\ service[s].phase = "read" \/ service[s].op # "draft"

Conflicts(s) == Untouched /\ Rechecking(s) /\ Replies(s, "conflict")

Completes(s) ==
  /\ Untouched /\ service[s].phase = "check" /\ checkpoint = service[s].before
  /\ Replies(s, "ok")

Writes(s) ==
  /\ service[s].phase = "write"
  /\ drafts' = drafts \cup {DraftOf(s, TRUE)}
  /\ UNCHANGED <<requests, journal, faults>>
  /\ \/ service[s].op = "ownerDraft" /\ Replies(s, "ok")
     \/ service[s].op # "ownerDraft" /\ Passes(s, "append")

Appends(s) ==
  /\ service[s].phase = "locked"
  /\ journal' = Written(journal, EventOf(s), "all")
  /\ UNCHANGED <<requests, drafts, faults>>
  /\ \/ service[s].op = "refused" /\ Replies(s, "error")
     \/ service[s].op # "refused" /\ Passes(s, "check")

Removes(s) ==
  /\ service[s].phase = "remove"
  /\ drafts' = WithoutDraft(s)
  /\ UNCHANGED <<requests, journal, faults>>
  /\ Replies(s, "error")

AppendsInPart(s) ==
  /\ service[s].phase = "locked"
  /\ faults' = faults \cup {service[s].number}
  /\ \E part \in Part : journal' = Written(journal, EventOf(s), part)
  /\ UNCHANGED <<requests, drafts>>
  /\ \/ service[s].op = "draft" /\ Passes(s, "remove")
     \/ service[s].op # "draft" /\ Replies(s, "error")

\* A process ends in the middle of its request.
Stops(s) ==
  /\ service[s].number # 0
  /\ faults' = faults \cup {service[s].number}
  /\ requests' = requests
  /\ \/ service[s].phase = "locked" /\ drafts' = drafts
        /\ \E part \in Part : journal' = Written(journal, EventOf(s), part)
     \/ service[s].phase = "write" /\ journal' = journal
        /\ \E whole \in BOOLEAN : drafts' = drafts \cup {DraftOf(s, whole)}
     \/ drafts' = drafts /\ journal' = journal
  /\ Ends(s) /\ reply'[s].outcome \in {"none", "error"}
  /\ reply'[s].outcome = "error" => reply'[s].number = service[s].number

Begins(s) ==
  /\ UNCHANGED <<drafts, journal, faults>>
  /\ requests' = requests + 1
  /\ Alone(s) /\ reply'[s].outcome = "none"
  /\ service[s].phase = "idle"
  /\ service'[s].number = requests + 1
  /\ service'[s].phase \in {"refresh", "read"} /\ service'[s].moved = FALSE
  /\ service'[s].op = "preview" => \E d \in drafts : d.number = service'[s].target

LEMMA RefreshedKinds ==
  ASSUME TypeOK, ControlSound, NEW s \in Service, NEW current, Refreshed(s, current),
         service[s].phase \in {"refresh", "reload"}, Untouched
  PROVE  Conflicts(s) \/ Proceeds(s)
  <1>1. CASE service[s].moved /\ Replies(s, "conflict")
    BY <1>1 DEF Conflicts, Rechecking
  <1>2. CASE /\ ~service[s].moved /\ Alone(s) /\ Carries(s) /\ reply'[s] = reply[s]
             /\ service'[s].phase = Reading(s, service[s].plan)
    <2>1. service[s].op = "draft" => service[s].plan = DraftPlan
      BY <1>2 DEF ControlSound, Starting
    <2>2. service[s].op # "ownerDraft"
      BY DEF ControlSound
    <2>3. \/ service'[s].phase = "read"
          \/ service'[s].phase = "append" /\ service[s].op # "draft"
      BY <1>2, <2>1, <2>2, PlanFacts DEF Reading, AfterReads
    <2>4. QED
      BY <1>2, <2>3 DEF Proceeds, Unrecorded, Starting, Holding
  <1>3. QED
    BY <1>1, <1>2, RefreshedEffect

LEMMA Kinds ==
  ASSUME TypeOK, ControlSound, CacheSound, NumberSound, [Next]_vars
  PROVE  \/ Waits
         \/ \E s \in Service :
              \/ Opens(s) \/ Proceeds(s) \/ Rechecks(s) \/ Recants(s)
              \/ Errs(s) \/ Conflicts(s) \/ Completes(s)
              \/ Writes(s) \/ Appends(s) \/ Removes(s)
              \/ AppendsInPart(s) \/ Stops(s) \/ Begins(s)
  <1>1. CASE UNCHANGED vars
    BY <1>1 DEF vars, Waits
  <1>2. CASE Commit \/ AuditRead \/ AuditList \/ AuditReread \/ AuditRelist
    BY <1>2 DEF Commit, AuditRead, AuditList, AuditReread, AuditRelist, Waits
  <1>3. ASSUME NEW s \in Service, Open(s) PROVE Opens(s)
    <2>1. /\ Passes(s, "opening") /\ Untouched
          /\ service[s].phase = "down" /\ service[s].op = "refused" /\ ~service[s].moved
      BY <1>3, OpenEffect DEF Open, Untouched, ControlSound
    <2>2. QED
      BY <2>1, Fields DEF Passes, Carries, Opens
  <1>4. ASSUME NEW s \in Service, Opened(s) PROVE Opens(s)
    BY <1>4, OpenedEffect DEF Opened, Opens, Untouched, Ends
  <1>5. ASSUME NEW s \in Service, Refresh(s)
        PROVE  Conflicts(s) \/ Proceeds(s) \/ Rechecks(s)
    <2>1. Untouched /\ service[s].phase = "refresh" /\ service[s].moved \in BOOLEAN
      BY <1>5, Fields DEF Refresh, Untouched
    <2>2. CASE Refreshed(s, checkpoint)
      BY <2>1, <2>2, RefreshedKinds
    <2>3. CASE ~Refreshed(s, checkpoint)
      <3>1. /\ Alone(s) /\ Carries(s) /\ reply'[s] = reply[s]
            /\ service'[s].phase = "reload"
            /\ service'[s].moved = service[s].moved
            /\ service'[s].observed = service[s].observed
        BY <1>5, <2>3, RefreshEffect
      <3>2. service'[s].bound = service[s].bound
        <4>1. service \in [Service -> Serving] /\ service[s] \in Serving
          BY DEF TypeOK
        <4>2. service'[s] = [service[s] EXCEPT !.phase = "reload", !.current = checkpoint]
          BY <1>5, <2>3, <4>1 DEF Refresh
        <4>3. QED
          BY <4>1, <4>2 DEF Serving
      <3>3. CASE service[s].moved
        BY <2>1, <3>1, <3>2, <3>3 DEF Rechecks, IsRecorded, Rechecking
      <3>4. CASE ~service[s].moved
        BY <2>1, <3>1, <3>4 DEF Proceeds, Unrecorded, Starting, Holding
      <3>5. QED
        BY <3>3, <3>4
    <2>4. QED
      BY <2>2, <2>3
  <1>6. ASSUME NEW s \in Service, Reload(s) PROVE Conflicts(s) \/ Proceeds(s)
    BY <1>6, RefreshedKinds DEF Reload, Untouched
  <1>7. ASSUME NEW s \in Service, Read(s) PROVE Proceeds(s)
    <2>1. ReadsOn(s) /\ service[s].phase = "read" /\ Untouched
      BY <1>7, ReadEffect DEF Read, Untouched
    <2>2. service'[s].phase \in {"read", "write", "append"}
      BY <2>1 DEF ReadsOn, AfterReads
    <2>3. QED
      BY <2>1, <2>2 DEF ReadsOn, Proceeds, Unrecorded, Holding
  <1>8. ASSUME NEW s \in Service, ReadFails(s) PROVE Errs(s)
    BY <1>8, AnswerEffect DEF ReadFails, Errs, Untouched
  <1>9. ASSUME NEW s \in Service, WriteDraft(s) PROVE Writes(s)
    BY <1>9, WriteEffect DEF WriteDraft, Writes
  <1>10. ASSUME NEW s \in Service, AppendLock(s) PROVE Proceeds(s)
    <2>1. Passes(s, "locked") /\ service[s].phase = "append" /\ Untouched
      BY <1>10, LockEffect DEF AppendLock, Untouched
    <2>2. QED
      BY <2>1 DEF Passes, Proceeds, Unrecorded, Holding
  <1>11. ASSUME NEW s \in Service, AppendUnreadable(s) PROVE Recants(s) \/ Errs(s)
    BY <1>11, RefusedEffect DEF AppendUnreadable, Recants, Errs, Untouched
  <1>12. ASSUME NEW s \in Service, AppendWrite(s) PROVE Appends(s)
    BY <1>12, AppendEffect DEF AppendWrite, Appends
  <1>13. ASSUME NEW s \in Service, RemoveDraft(s) PROVE Removes(s)
    BY <1>13, AnswerEffect DEF RemoveDraft, Removes
  <1>14. ASSUME NEW s \in Service, Check(s)
         PROVE  Completes(s) \/ Errs(s) \/ Rechecks(s)
    <2>1. service[s].phase = "check" /\ Untouched
      BY <1>14 DEF Check, Untouched
    <2>2. QED
      BY <1>14, <2>1, CheckEffect DEF Completes, Errs, Rechecks, IsRecorded
  <1>15. ASSUME NEW s \in Service, AppendFails(s) PROVE AppendsInPart(s)
    BY <1>15, RefusedEffect DEF AppendFails, Hit, AppendsInPart
  <1>16. ASSUME NEW s \in Service, WriteFails(s) PROVE Stops(s)
    <2>1. Replies(s, "error")
      BY <1>16, AnswerEffect DEF WriteFails
    <2>2. service[s].number # 0
      BY <1>16 DEF WriteFails, NumberSound
    <2>3. /\ faults' = faults \cup {service[s].number} /\ requests' = requests
          /\ service[s].phase = "write" /\ journal' = journal
          /\ drafts' = drafts \cup {DraftOf(s, FALSE)}
      BY <1>16 DEF WriteFails, Hit
    <2>4. QED
      BY <2>1, <2>2, <2>3 DEF Stops, Replies
  <1>17. ASSUME NEW s \in Service, Kill(s) PROVE Stops(s)
    BY <1>17, KillEffect DEF Kill, Hit, Stops
  <1>18. ASSUME NEW s \in Service, NEW op \in Requests, Begin(s, op) PROVE Begins(s)
    <2>1. /\ UNCHANGED <<drafts, journal, faults>> /\ requests' = requests + 1
          /\ service[s].phase = "idle"
      BY <1>18 DEF Begin
    <2>2. QED
      BY <1>18, <2>1, BeginEffect DEF Begins
  <1>19. QED
    BY <1>1, <1>2, <1>3, <1>4, <1>5, <1>6, <1>7, <1>8, <1>9, <1>10, <1>11, <1>12, <1>13, <1>14,
       <1>15, <1>16, <1>17, <1>18 DEF Next, Progress

-----------------------------------------------------------------------------
(* The source of a draft, and the checkpoint of a response.                  *)
LEMMA BindStep ==
  ASSUME TypeOK, ControlSound, CacheSound, NumberSound, BindSound, [Next]_vars
  PROVE  BindSound'
  <1> DEFINE Bind(t) ==
        service'[t].op = "draft" /\ service'[t].phase \in {"write", "append", "locked", "check"} =>
          \E c \in service'[t].observed : service'[t].bound = FingerprintOf[c]
  <1>1. ASSUME NEW t \in Service, service'[t] = service[t] PROVE Bind(t)
    BY <1>1 DEF BindSound
  <1>2. CASE Waits
    BY <1>2 DEF Waits, BindSound
  <1>3. ASSUME NEW s \in Service,
               Opens(s) \/ Rechecks(s) \/ Recants(s) \/ Errs(s) \/ Conflicts(s) \/ Completes(s)
                 \/ Removes(s) \/ Stops(s) \/ Begins(s)
        PROVE  Bind(s) /\ Alone(s)
    BY <1>3 DEF Opens, Rechecks, Recants, Errs, Conflicts, Completes, Removes, Stops, Begins,
                Replies, Passes, Ends
  <1>4. ASSUME NEW s \in Service, Proceeds(s) PROVE Bind(s) /\ Alone(s)
    BY <1>4 DEF Proceeds, Carries, Holding, BindSound
  <1>5. ASSUME NEW s \in Service, Writes(s) \/ Appends(s) \/ AppendsInPart(s)
        PROVE  Bind(s) /\ Alone(s)
    BY <1>5 DEF Writes, Appends, AppendsInPart, Passes, Carries, Replies, Ends, BindSound
  <1>6. ASSUME NEW s \in Service, Bind(s), Alone(s) PROVE BindSound'
    <2>1. \A t \in Service : Bind(t)
      BY <1>1, <1>6 DEF Alone
    <2>2. QED
      BY <2>1 DEF BindSound
  <1> HIDE DEF Bind
  <1>7. QED
    BY <1>2, <1>3, <1>4, <1>5, <1>6, Kinds

LEMMA CheckpointStep ==
  ASSUME TypeOK, ControlSound, CacheSound, NumberSound, ReadSound, OneCheckpoint, [Next]_vars
  PROVE  OneCheckpoint'
  <1> DEFINE One(t) ==
        reply'[t].outcome = "ok" /\ reply'[t].op # "ownerDraft" =>
          reply'[t].observed \subseteq {reply'[t].at}
  <1>1. ASSUME NEW t \in Service, reply'[t] = reply[t] PROVE One(t)
    BY <1>1 DEF OneCheckpoint
  <1>2. CASE Waits
    BY <1>2 DEF Waits, OneCheckpoint
  <1>3. ASSUME NEW s \in Service, Opens(s) \/ Proceeds(s) \/ Rechecks(s) \/ Recants(s)
        PROVE  One(s) /\ Alone(s)
    <2>1. reply'[s] = reply[s] /\ Alone(s)
      BY <1>3 DEF Opens, Proceeds, Rechecks, Recants, Passes
    <2>2. QED
      BY <1>1, <2>1
  <1>4. ASSUME NEW s \in Service,
               Errs(s) \/ Conflicts(s) \/ Removes(s) \/ Stops(s) \/ Begins(s)
        PROVE  One(s) /\ Alone(s)
    BY <1>4 DEF Errs, Conflicts, Removes, Stops, Begins, Replies, Ends
  <1>5. ASSUME NEW s \in Service, Writes(s) \/ Appends(s) \/ AppendsInPart(s)
        PROVE  One(s) /\ Alone(s)
    <2>1. CASE reply'[s] = reply[s] /\ Alone(s)
      BY <1>1, <2>1
    <2>2. CASE service[s].op = "ownerDraft" /\ Replies(s, "ok")
      BY <2>2 DEF Replies, Ends
    <2>3. CASE Replies(s, "error")
      BY <2>3 DEF Replies, Ends
    <2>4. QED
      BY <1>5, <2>1, <2>2, <2>3 DEF Writes, Appends, AppendsInPart, Passes
  <1>6. ASSUME NEW s \in Service, Completes(s) PROVE One(s) /\ Alone(s)
    <2>1. /\ service[s].phase = "check" /\ checkpoint = service[s].before
          /\ Replies(s, "ok") /\ service[s].op # "ownerDraft"
      BY <1>6 DEF Completes, ControlSound
    <2>2. \A c \in service[s].observed : service[s].before <= c /\ c <= checkpoint
      BY <2>1 DEF ReadSound
    <2>3. \A c \in service[s].observed : c = service[s].before
      BY <2>1, <2>2, Fields
    <2>4. QED
      BY <2>1, <2>3 DEF Replies, Ends
  <1>7. ASSUME NEW s \in Service, One(s), Alone(s) PROVE OneCheckpoint'
    <2>1. \A t \in Service : One(t)
      BY <1>1, <1>7 DEF Alone
    <2>2. QED
      BY <2>1 DEF OneCheckpoint
  <1> HIDE DEF One
  <1>8. QED
    BY <1>2, <1>3, <1>4, <1>5, <1>6, <1>7, Kinds

-----------------------------------------------------------------------------
(* The numbers of the requests.                                              *)

\* What a step may add to the records and to the drafts.
LEMMA Grows ==
  ASSUME TypeOK, NEW s \in Service, NEW part \in Part,
         journal' = Written(journal, EventOf(s), part)
  PROVE  /\ Events \subseteq Events'
         /\ Events' \subseteq Events \cup {EventOf(s)}
         /\ part = "all" => EventOf(s) \in Events'
         /\ EventOf(s).number = service[s].number
  BY EventTypes, WrittenFacts DEF TypeOK, Events, EventOf

LEMMA NumberStep ==
  ASSUME TypeOK, ControlSound, CacheSound, NumberSound, [Next]_vars
  PROVE  NumberSound'
  <1>1. CASE Waits
    BY <1>1 DEF Waits, NumberSound, Events
  <1>2. \A t \in Service : reply[t] \in Answered /\ service[t].number \in Nat /\ reply[t].number \in Nat
    <2>1. \A t \in Service : reply[t] \in Answered
      BY DEF TypeOK
    <2>2. QED
      BY <2>1, Fields DEF Answered
  <1>3. requests \in Nat
    BY DEF TypeOK
  \* A request that goes on, or is over: the numbers stay.
  <1>4. ASSUME NEW s \in Service, Alone(s), requests' = requests,
               \/ /\ service'[s].number = service[s].number
                  /\ service'[s].phase \in {"down", "opening", "idle"}
                       <=> service[s].phase \in {"down", "opening", "idle"}
                  /\ reply'[s] = reply[s]
               \/ /\ service'[s].number = 0
                  /\ service'[s].phase \in {"down", "opening", "idle"}
                  /\ \/ reply'[s] = reply[s]
                     \/ reply'[s].outcome = "none"
                     \/ service[s].number # 0 /\ reply'[s].number = service[s].number,
               \A d \in drafts' : d \in drafts \/ d.number \in {service[s].number} \ {0},
               \A e \in Events' : e \in Events \/ e.number \in {service[s].number} \ {0}
        PROVE  NumberSound'
    <2>1. \A t \in Service : t # s => service'[t] = service[t] /\ reply'[t] = reply[t]
      BY <1>4 DEF Alone
    <2>2. service[s].number \in Nat /\ service[s].number <= requests
      BY <1>2 DEF NumberSound
    <2>3. \A d \in drafts' : d.number \in 1 .. requests
      BY <1>3, <1>4, <2>2 DEF NumberSound
    <2>4. \A e \in Events' : e.number \in 1 .. requests
      BY <1>3, <1>4, <2>2 DEF NumberSound
    <2>5. \A t \in Service :
            /\ service'[t].number <= requests
            /\ service'[t].number = 0 <=> service'[t].phase \in {"down", "opening", "idle"}
      BY <1>3, <1>4, <2>1 DEF NumberSound
    <2>6. \A t \in Service : reply'[t].outcome # "none" => reply'[t].number \in 1 .. requests
      BY <1>3, <1>4, <2>1, <2>2 DEF NumberSound
    <2>7. \A t, u \in Service :
            /\ service'[t].number = service'[u].number /\ service'[t].number # 0 => t = u
            /\ reply'[t].outcome # "none" => reply'[t].number # service'[u].number
      <3>1. \A t, u \in Service :
              service'[t].number = service'[u].number /\ service'[t].number # 0 => t = u
        BY <1>4, <2>1 DEF NumberSound
      <3>2. ASSUME NEW t \in Service, NEW u \in Service, reply'[t].outcome # "none"
            PROVE  reply'[t].number # service'[u].number
        <4>1. CASE reply'[t] = reply[t]
          <5>1. reply[t].number # service[u].number /\ reply[t].number # 0
            BY <1>3, <3>2, <4>1 DEF NumberSound
          <5>2. service'[u].number = service[u].number \/ service'[u].number = 0
            BY <1>4, <2>1
          <5>3. QED
            BY <4>1, <5>1, <5>2
        <4>2. CASE reply'[t] # reply[t]
          <5>1. /\ t = s /\ service'[s].number = 0
                /\ service[s].number # 0 /\ reply'[s].number = service[s].number
            BY <1>4, <2>1, <3>2, <4>2
          <5>2. u # s => service'[u].number = service[u].number /\ service[u].number # service[s].number
            BY <2>1, <5>1 DEF NumberSound
          <5>3. QED
            BY <5>1, <5>2
        <4>3. QED
          BY <4>1, <4>2
      <3>3. QED
        BY <3>1, <3>2
    <2>8. QED
      BY <1>4, <2>3, <2>4, <2>5, <2>6, <2>7 DEF NumberSound
  <1>5. ASSUME NEW s \in Service, Opens(s) PROVE NumberSound'
    <2>1. Alone(s) /\ requests' = requests /\ drafts' = drafts /\ Events' = Events
      BY <1>5 DEF Opens, Untouched, Events
    <2>2. /\ service'[s].number = service[s].number
          /\ service'[s].phase \in {"down", "opening", "idle"}
          /\ service[s].phase \in {"down", "opening", "idle"}
          /\ reply'[s] = reply[s]
      BY <1>5 DEF Opens, NumberSound
    <2>3. QED
      BY <1>4, <2>1, <2>2
  <1>6. ASSUME NEW s \in Service, Proceeds(s) \/ Rechecks(s) \/ Recants(s) PROVE NumberSound'
    <2>1. Alone(s) /\ requests' = requests /\ drafts' = drafts /\ Events' = Events
      BY <1>6 DEF Proceeds, Rechecks, Recants, Untouched, Passes, Events
    <2>2. /\ service'[s].number = service[s].number
          /\ service'[s].phase \notin {"down", "opening", "idle"}
          /\ service[s].phase \notin {"down", "opening", "idle"}
          /\ reply'[s] = reply[s]
      BY <1>6 DEF Proceeds, Rechecks, Recants, Passes, Carries, Unrecorded, IsRecorded, Starting,
                  Rechecking
    <2>3. QED
      BY <1>4, <2>1, <2>2
  <1>7. ASSUME NEW s \in Service, Errs(s) \/ Conflicts(s) \/ Completes(s) \/ Removes(s)
        PROVE  NumberSound'
    <2>1. Alone(s) /\ requests' = requests /\ Events' = Events /\ drafts' \subseteq drafts
      BY <1>7 DEF Errs, Conflicts, Completes, Removes, WithoutDraft, Untouched, Replies, Ends,
                  Events
    <2>2. /\ service'[s].number = 0 /\ service'[s].phase \in {"down", "opening", "idle"}
          /\ reply'[s].number = service[s].number
          /\ reply'[s].outcome # "none"
      BY <1>7 DEF Errs, Conflicts, Completes, Removes, Replies, Ends
    <2>3. service[s].number # 0
      BY <1>7 DEF Errs, Conflicts, Completes, Removes, Rechecking, NumberSound
    <2>4. QED
      BY <1>4, <2>1, <2>2, <2>3
  <1>8. ASSUME NEW s \in Service, Writes(s) PROVE NumberSound'
    <2>1. /\ requests' = requests /\ Events' = Events /\ service[s].phase = "write"
          /\ drafts' = drafts \cup {DraftOf(s, TRUE)}
      BY <1>8 DEF Writes, Events
    <2>2. DraftOf(s, TRUE).number = service[s].number
      BY DEF DraftOf
    <2>3. service[s].number # 0
      BY <2>1 DEF NumberSound
    <2>4. \A d \in drafts' : d \in drafts \/ d.number \in {service[s].number} \ {0}
      BY <2>1, <2>2, <2>3
    <2>5. CASE Replies(s, "ok")
      <3>1. /\ Alone(s) /\ service'[s].number = 0
            /\ service'[s].phase \in {"down", "opening", "idle"}
            /\ reply'[s].number = service[s].number
        BY <2>5 DEF Replies, Ends
      <3>2. QED
        BY <1>4, <2>1, <2>3, <2>4, <3>1
    <2>6. CASE Passes(s, "append")
      <3>1. /\ Alone(s) /\ service'[s].number = service[s].number
            /\ service'[s].phase = "append" /\ reply'[s] = reply[s]
        BY <2>6 DEF Passes, Carries
      <3>2. QED
        BY <1>4, <2>1, <2>4, <3>1
    <2>7. QED
      BY <1>8, <2>5, <2>6 DEF Writes
  <1>9. ASSUME NEW s \in Service, Appends(s) \/ AppendsInPart(s) PROVE NumberSound'
    <2>1. /\ requests' = requests /\ drafts' = drafts /\ service[s].phase = "locked"
          /\ \E part \in Part : journal' = Written(journal, EventOf(s), part)
      BY <1>9 DEF Appends, AppendsInPart, Part
    <2>2. service[s].number # 0
      BY <2>1 DEF NumberSound
    <2>3. \A e \in Events' : e \in Events \/ e.number \in {service[s].number} \ {0}
      BY <2>1, <2>2, Grows
    <2>4. CASE Replies(s, "error")
      <3>1. /\ Alone(s) /\ service'[s].number = 0
            /\ service'[s].phase \in {"down", "opening", "idle"}
            /\ reply'[s].number = service[s].number
        BY <2>4 DEF Replies, Ends
      <3>2. QED
        BY <1>4, <2>1, <2>2, <2>3, <3>1
    <2>5. CASE Passes(s, "check") \/ Passes(s, "remove")
      <3>1. /\ Alone(s) /\ service'[s].number = service[s].number
            /\ service'[s].phase \in {"check", "remove"} /\ reply'[s] = reply[s]
        BY <2>5 DEF Passes, Carries
      <3>2. QED
        BY <1>4, <2>1, <2>3, <3>1
    <2>6. QED
      BY <1>9, <2>4, <2>5 DEF Appends, AppendsInPart
  <1>10. ASSUME NEW s \in Service, Stops(s) PROVE NumberSound'
    <2>1. /\ requests' = requests /\ service[s].number # 0
          /\ Alone(s) /\ service'[s].number = 0
          /\ service'[s].phase \in {"down", "opening", "idle"}
          /\ \/ reply'[s].outcome = "none"
             \/ reply'[s].number = service[s].number
      BY <1>10 DEF Stops, Ends
    <2>2. \A whole \in BOOLEAN : DraftOf(s, whole).number = service[s].number
      BY DEF DraftOf
    <2>3. \A d \in drafts' : d \in drafts \/ d.number \in {service[s].number} \ {0}
      BY <1>10, <2>1, <2>2 DEF Stops
    <2>4. \A e \in Events' : e \in Events \/ e.number \in {service[s].number} \ {0}
      <3>1. journal' = journal => Events' = Events
        BY DEF Events
      <3>2. QED
        BY <1>10, <2>1, <3>1, Grows DEF Stops
    <2>5. QED
      BY <1>4, <2>1, <2>3, <2>4
  <1>11. ASSUME NEW s \in Service, Begins(s) PROVE NumberSound'
    <2>1. /\ requests' = requests + 1 /\ drafts' = drafts /\ Events' = Events
          /\ service'[s].number = requests + 1 /\ service'[s].phase \in {"refresh", "read"}
          /\ reply'[s].outcome = "none"
          /\ \A t \in Service : t # s => service'[t] = service[t] /\ reply'[t] = reply[t]
      BY <1>11 DEF Begins, Alone, Events
    <2>2. \A n \in 1 .. requests : n \in 1 .. requests' /\ n # requests + 1
      BY <1>3, <2>1
    <2>3. \A t \in Service : /\ service[t].number <= requests'
                             /\ service[t].number # requests + 1
      BY <1>2, <1>3, <2>1 DEF NumberSound
    <2>4. requests + 1 # 0 /\ requests + 1 <= requests'
      BY <1>3, <2>1
    <2>5. QED
      BY <2>1, <2>2, <2>3, <2>4 DEF NumberSound
  <1>12. QED
    BY <1>1, <1>5, <1>6, <1>7, <1>8, <1>9, <1>10, <1>11, Kinds

-----------------------------------------------------------------------------
(* A request and its record.                                                 *)
LEMMA RecordStep ==
  ASSUME TypeOK, ControlSound, CacheSound, NumberSound, RecordSound, [Next]_vars
  PROVE  RecordSound'
  <1> DEFINE Rec(t) ==
        /\ \/ service'[t].phase \in {"refresh", "reload"} /\ ~service'[t].moved
           \/ service'[t].phase \in {"read", "write", "append", "locked"}
           => \A e \in Events' : e.number # service'[t].number
        /\ \/ service'[t].phase \in {"refresh", "reload"} /\ service'[t].moved
           \/ service'[t].phase = "check"
           => \E e \in Events' :
                /\ e.number = service'[t].number
                /\ service'[t].op = "draft" => e.kind = "requested"
        /\ service'[t].phase = "remove" =>
             \/ service'[t].number \in faults'
             \/ \A e \in Events' : e.number # service'[t].number
        /\ reply'[t].outcome \in {"ok", "conflict"} /\ reply'[t].op # "ownerDraft" =>
             \E e \in Events' :
               /\ e.number = reply'[t].number
               /\ reply'[t].op = "draft" => e.kind = "requested"
             New(s, e) ==
               /\ e.number = service[s].number /\ service[s].number # 0
               /\ e.kind = "requested" => e.draft = e.number
  <1>1. CASE Waits
    BY <1>1 DEF Waits, RecordSound, Unrecorded, IsRecorded, Starting, Rechecking, Events
  <1>2. ASSUME NEW s \in Service, Alone(s), Rec(s), Events \subseteq Events',
               faults \subseteq faults', \A e \in Events' : e \in Events \/ New(s, e)
        PROVE  RecordSound'
    <2>1. \A t \in Service : t # s => service'[t] = service[t] /\ reply'[t] = reply[t]
      BY <1>2 DEF Alone
    <2>2. \A e \in Events' : e.kind = "requested" => e.draft = e.number
      BY <1>2 DEF RecordSound
    <2>3. ASSUME NEW t \in Service, t # s PROVE Rec(t)
      <3>1. \A e \in Events' : e \in Events \/ e.number # service[t].number
        BY <1>2, <2>3 DEF NumberSound
      <3>2. service'[t] = service[t] /\ reply'[t] = reply[t]
        BY <2>1, <2>3
      <3>3. /\ Unrecorded(t) => \A e \in Events : e.number # service[t].number
            /\ IsRecorded(t) => \E e \in Events :
                 /\ e.number = service[t].number
                 /\ service[t].op = "draft" => e.kind = "requested"
            /\ service[t].phase = "remove" =>
                 \/ service[t].number \in faults
                 \/ \A e \in Events : e.number # service[t].number
            /\ reply[t].outcome \in {"ok", "conflict"} /\ reply[t].op # "ownerDraft" =>
                 \E e \in Events :
                   /\ e.number = reply[t].number
                   /\ reply[t].op = "draft" => e.kind = "requested"
        BY DEF RecordSound
      <3>4. QED
        BY <1>2, <3>1, <3>2, <3>3 DEF Unrecorded, IsRecorded, Starting, Rechecking
    <2>4. \A t \in Service : Rec(t)
      BY <1>2, <2>3
    <2>5. QED
      BY <2>2, <2>4 DEF RecordSound, Unrecorded, IsRecorded, Starting, Rechecking
  <1>3. ASSUME NEW s \in Service
        PROVE  /\ Unrecorded(s) => \A e \in Events : e.number # service[s].number
               /\ IsRecorded(s) => \E e \in Events :
                    /\ e.number = service[s].number
                    /\ service[s].op = "draft" => e.kind = "requested"
               /\ reply[s].outcome \in {"ok", "conflict"} /\ reply[s].op # "ownerDraft" =>
                    \E e \in Events :
                      /\ e.number = reply[s].number
                      /\ reply[s].op = "draft" => e.kind = "requested"
    BY DEF RecordSound
  <1>4. ASSUME NEW s \in Service, Opens(s) \/ Proceeds(s) \/ Rechecks(s) \/ Recants(s)
        PROVE  RecordSound'
    <2>1. Alone(s) /\ Events' = Events /\ faults' = faults /\ reply'[s] = reply[s]
      BY <1>4 DEF Opens, Proceeds, Rechecks, Recants, Untouched, Passes, Events
    <2>2. Rec(s)
      <3>1. CASE Opens(s)
        BY <1>3, <2>1, <3>1 DEF Opens
      <3>2. CASE Proceeds(s)
        BY <1>3, <2>1, <3>2 DEF Proceeds, Carries
      <3>3. CASE Rechecks(s)
        BY <1>3, <2>1, <3>3 DEF Rechecks, Carries
      <3>4. CASE Recants(s)
        BY <1>3, <2>1, <3>4 DEF Recants, Passes, Carries, Unrecorded
      <3>5. QED
        BY <1>4, <3>1, <3>2, <3>3, <3>4
    <2> HIDE DEF Rec
    <2>3. QED
      BY <1>2, <2>1, <2>2
  <1>5. ASSUME NEW s \in Service, Errs(s) \/ Conflicts(s) \/ Completes(s) \/ Removes(s)
        PROVE  RecordSound'
    <2>1. Alone(s) /\ Events' = Events /\ faults' = faults
      BY <1>5 DEF Errs, Conflicts, Completes, Removes, Untouched, Replies, Ends, Events
    <2>2. /\ service'[s].phase \in {"down", "opening", "idle"}
          /\ reply'[s].outcome \in {"ok", "conflict"} => IsRecorded(s)
          /\ reply'[s].number = service[s].number /\ reply'[s].op = service[s].op
      BY <1>5 DEF Errs, Conflicts, Completes, Removes, Replies, Ends, IsRecorded
    <2>3. Rec(s)
      BY <1>3, <2>1, <2>2
    <2> HIDE DEF Rec
    <2>4. QED
      BY <1>2, <2>1, <2>3
  <1>6. ASSUME NEW s \in Service, Writes(s) PROVE RecordSound'
    <2>1. Events' = Events /\ faults' = faults /\ service[s].phase = "write"
      BY <1>6 DEF Writes, Events
    <2>2. CASE service[s].op = "ownerDraft" /\ Replies(s, "ok")
      <3>1. Alone(s) /\ Rec(s)
        BY <2>2 DEF Replies, Ends
      <3> HIDE DEF Rec
      <3>2. QED
        BY <1>2, <2>1, <3>1
    <2>3. CASE Passes(s, "append")
      <3>1. /\ Alone(s) /\ reply'[s] = reply[s] /\ service'[s].phase = "append"
            /\ service'[s].number = service[s].number
        BY <2>3 DEF Passes, Carries
      <3>2. Rec(s)
        BY <1>3, <2>1, <3>1 DEF Unrecorded
      <3> HIDE DEF Rec
      <3>3. QED
        BY <1>2, <2>1, <3>1, <3>2
    <2>4. QED
      BY <1>6, <2>2, <2>3 DEF Writes
  <1>7. ASSUME NEW s \in Service PROVE EventOf(s).kind = "requested" <=> service[s].op = "draft"
    BY DEF EventOf, KindOf
  <1>8. ASSUME NEW s \in Service, service[s].number # 0 PROVE New(s, EventOf(s))
    BY <1>7, <1>8 DEF EventOf
  <1>9. ASSUME NEW s \in Service, Appends(s) PROVE RecordSound'
    <2>1. /\ service[s].phase = "locked" /\ faults' = faults
          /\ journal' = Written(journal, EventOf(s), "all") /\ "all" \in Part
      BY <1>9 DEF Appends, Part
    <2>2. service[s].number # 0
      BY <2>1 DEF NumberSound
    <2>3. /\ Events \subseteq Events' /\ Events' \subseteq Events \cup {EventOf(s)}
          /\ EventOf(s) \in Events' /\ EventOf(s).number = service[s].number
      BY <2>1, Grows
    <2>4. CASE Replies(s, "error")
      <3>1. Alone(s) /\ Rec(s)
        BY <2>4 DEF Replies, Ends
      <3> HIDE DEF Rec, New
      <3>2. QED
        BY <1>2, <1>8, <2>1, <2>2, <2>3, <3>1
    <2>5. CASE Passes(s, "check")
      <3>1. /\ Alone(s) /\ reply'[s] = reply[s] /\ service'[s].phase = "check"
            /\ service'[s].number = service[s].number /\ service'[s].op = service[s].op
        BY <2>5 DEF Passes, Carries
      <3>2. Rec(s)
        BY <1>3, <1>7, <2>3, <3>1
      <3> HIDE DEF Rec, New
      <3>3. QED
        BY <1>2, <1>8, <2>1, <2>2, <2>3, <3>1, <3>2
    <2>6. QED
      BY <1>9, <2>4, <2>5 DEF Appends
  <1>10. ASSUME NEW s \in Service, AppendsInPart(s) \/ Stops(s) PROVE RecordSound'
    <2>1. service[s].number # 0 /\ faults' = faults \cup {service[s].number}
      BY <1>10 DEF AppendsInPart, Stops, NumberSound
    <2>2. Events \subseteq Events' /\ Events' \subseteq Events \cup {EventOf(s)}
      <3>1. journal' = journal => Events' = Events
        BY DEF Events
      <3>2. QED
        BY <1>10, <3>1, Grows DEF AppendsInPart, Stops
    <2>3. Alone(s) /\ Rec(s)
      <3>1. CASE Passes(s, "remove")
        <4>1. /\ Alone(s) /\ reply'[s] = reply[s] /\ service'[s].phase = "remove"
              /\ service'[s].number = service[s].number
          BY <3>1 DEF Passes, Carries
        <4>2. QED
          BY <1>3, <2>1, <2>2, <4>1
      <3>2. CASE Ends(s) /\ reply'[s].outcome \in {"none", "error"}
        BY <3>2 DEF Ends
      <3>3. QED
        BY <1>10, <3>1, <3>2 DEF AppendsInPart, Stops, Replies
    <2> HIDE DEF Rec, New
    <2>4. QED
      BY <1>2, <1>8, <2>1, <2>2, <2>3
  <1>11. ASSUME NEW s \in Service, Begins(s) PROVE RecordSound'
    <2>1. /\ Alone(s) /\ Events' = Events /\ faults' = faults
          /\ reply'[s].outcome = "none"
          /\ service'[s].phase \in {"refresh", "read"} /\ service'[s].moved = FALSE
          /\ service'[s].number = requests + 1
      BY <1>11 DEF Begins, Events
    <2>2. \A e \in Events : e.number # requests + 1
      <3>1. requests \in Nat
        BY DEF TypeOK
      <3>2. QED
        BY <3>1 DEF NumberSound
    <2>3. Rec(s)
      BY <2>1, <2>2
    <2> HIDE DEF Rec
    <2>4. QED
      BY <1>2, <2>1, <2>3
  <1>12. QED
    BY <1>1, <1>4, <1>5, <1>6, <1>9, <1>10, <1>11, Kinds

(* Without a fault nothing cuts an append short, and what a process read     *)
(* under the lock is still the end of the journal when it writes.            *)
LEMMA ChainStep ==
  ASSUME TypeOK, ControlSound, CacheSound, NumberSound, RecordSound, ChainSound, [Next]_vars
  PROVE  ChainSound'
  <1> SUFFICES ASSUME faults' = {}
               PROVE  /\ Verified(journal')
                      /\ \A i \in DOMAIN journal' : journal'[i].ended
                      /\ \A t \in Service : service'[t].phase # "remove"
    BY DEF ChainSound
  <1>1. ASSUME faults = {}
        PROVE  /\ Verified(journal)
               /\ \A i \in DOMAIN journal : journal[i].ended
               /\ \A t \in Service : service[t].phase # "remove"
    BY <1>1 DEF ChainSound
  <1>2. CASE Waits
    BY <1>1, <1>2 DEF Waits
  <1>3. ASSUME NEW s \in Service,
               Opens(s) \/ Proceeds(s) \/ Rechecks(s) \/ Errs(s) \/ Conflicts(s) \/ Completes(s)
                 \/ Writes(s) \/ Removes(s) \/ Begins(s)
        PROVE  /\ faults' = faults /\ journal' = journal /\ Alone(s)
               /\ service'[s].phase # "remove"
    BY <1>3 DEF Opens, Proceeds, Rechecks, Errs, Conflicts, Completes, Writes, Removes, Begins,
                Untouched, Replies, Passes, Ends
  <1>4. ASSUME NEW s \in Service, faults' = faults, journal' = journal, Alone(s),
               service'[s].phase # "remove"
        PROVE  /\ Verified(journal')
               /\ \A i \in DOMAIN journal' : journal'[i].ended
               /\ \A t \in Service : service'[t].phase # "remove"
    BY <1>1, <1>4 DEF Alone
  <1>5. ASSUME NEW s \in Service, Recants(s) PROVE FALSE
    <2>1. Verified(journal) /\ ~TailReadable(journal)
      BY <1>1, <1>5 DEF Recants, Untouched
    <2>2. journal # <<>> => Len(journal) \in DOMAIN journal
      BY DEF TypeOK
    <2>3. QED
      BY <2>1, <2>2 DEF Verified, TailReadable, Last
  <1>6. ASSUME NEW s \in Service, Appends(s)
        PROVE  /\ Verified(journal')
               /\ \A i \in DOMAIN journal' : journal'[i].ended
               /\ \A t \in Service : service'[t].phase # "remove"
    <2>1. /\ faults = {} /\ service[s].phase = "locked"
          /\ journal' = Written(journal, EventOf(s), "all")
      BY <1>6 DEF Appends
    <2>2. EventOf(s).previous = TailOf(journal) /\ EventOf(s).number = service[s].number
      BY <2>1 DEF EventOf, ControlSound
    <2>3. \A e \in Recorded(journal) : e.number # EventOf(s).number
      BY <2>1, <2>2 DEF RecordSound, Unrecorded, Events
    <2>4. Verified(journal') /\ \A i \in DOMAIN journal' : journal'[i].ended
      BY <1>1, <2>1, <2>2, <2>3, EventTypes, ChainGrows DEF TypeOK
    <2>5. service'[s].phase # "remove" /\ Alone(s)
      BY <1>6 DEF Appends, Replies, Ends, Passes
    <2>6. QED
      BY <1>1, <2>1, <2>4, <2>5 DEF Alone
  <1>7. ASSUME NEW s \in Service, AppendsInPart(s) \/ Stops(s) PROVE FALSE
    BY <1>7 DEF AppendsInPart, Stops
  <1>8. QED
    BY <1>2, <1>3, <1>4, <1>5, <1>6, <1>7, Kinds

-----------------------------------------------------------------------------
(* The drafts and their requests.                                            *)
LEMMA DraftStep ==
  ASSUME TypeOK, ControlSound, CacheSound, NumberSound, DraftSound, [Next]_vars
  PROVE  DraftSound'
  <1> DEFINE Own(t) ==
        /\ \A d \in drafts' : d.number = service'[t].number =>
             /\ service'[t].op = "draft"
             /\ \/ service'[t].phase \in {"append", "locked", "remove", "check"}
                \/ service'[t].phase \in {"refresh", "reload"} /\ service'[t].moved
        /\ /\ service'[t].op = "draft"
           /\ \/ service'[t].phase \in {"append", "locked", "check"}
              \/ service'[t].phase \in {"refresh", "reload"} /\ service'[t].moved
           => [number |-> service'[t].number, read |-> service'[t].observed,
               bound |-> service'[t].bound, owner |-> FALSE, whole |-> TRUE] \in drafts'
  <1>1. CASE Waits
    BY <1>1 DEF Waits, DraftSound, IsRecorded, Rechecking, DraftOf
  <1>2. ASSUME NEW s \in Service
        PROVE  /\ \A d \in drafts : d.number = service[s].number =>
                    /\ service[s].op = "draft"
                    /\ \/ service[s].phase \in {"append", "locked", "remove", "check"}
                       \/ Rechecking(s)
               /\ service[s].op = "draft"
                    /\ (IsRecorded(s) \/ service[s].phase \in {"append", "locked"}) =>
                    [number |-> service[s].number, read |-> service[s].observed,
                     bound |-> service[s].bound, owner |-> FALSE, whole |-> TRUE] \in drafts
    BY DEF DraftSound, DraftOf
  <1>3. \A d \in drafts : d.number # 0
    BY DEF NumberSound
  <1>4. ASSUME NEW s \in Service, Alone(s), Own(s),
               \A d \in drafts' : d \in drafts \/ d.number = service[s].number,
               \A d \in drafts : d \in drafts' \/ d.number = service[s].number,
               service[s].number # 0 \/ drafts' = drafts,
               \A d \in drafts' : d.whole \/ d.number \in faults'
        PROVE  DraftSound'
    <2>1. ASSUME NEW t \in Service, t # s PROVE Own(t)
      <3>1. service'[t] = service[t]
        BY <1>4, <2>1 DEF Alone
      <3>2. \A d \in drafts' : d.number = service[t].number => d \in drafts
        <4>1. service[t].number = service[s].number => service[s].number = 0
          BY <2>1 DEF NumberSound
        <4>2. QED
          BY <1>4, <4>1
      <3>3. \A d \in drafts : d.number = service[t].number => d \in drafts'
        BY <1>3, <1>4, <2>1 DEF NumberSound
      <3>4. /\ \A d \in drafts' : d.number = service'[t].number =>
                 /\ service'[t].op = "draft"
                 /\ \/ service'[t].phase \in {"append", "locked", "remove", "check"}
                    \/ service'[t].phase \in {"refresh", "reload"} /\ service'[t].moved
        BY <1>2, <3>1, <3>2 DEF Rechecking
      <3>5. QED
        BY <1>2, <3>1, <3>3, <3>4 DEF IsRecorded, Rechecking
    <2>2. \A t \in Service : Own(t)
      BY <1>4, <2>1
    <2>3. QED
      BY <1>4, <2>2 DEF DraftSound, IsRecorded, Rechecking, DraftOf
  <1>5. \A d \in drafts : d.whole \/ d.number \in faults
    BY DEF DraftSound
  <1>6. ASSUME NEW s \in Service, Opens(s) \/ Proceeds(s) \/ Rechecks(s) \/ Recants(s)
        PROVE  DraftSound'
    <2>1. Alone(s) /\ drafts' = drafts /\ faults' = faults
      BY <1>6 DEF Opens, Proceeds, Rechecks, Recants, Untouched, Passes
    <2>2. Own(s)
      <3>1. CASE Opens(s)
        <4>1. service[s].number = 0
          BY <3>1 DEF Opens, NumberSound
        <4>2. QED
          BY <1>3, <2>1, <3>1, <4>1 DEF Opens
      <3>2. CASE Proceeds(s)
        BY <1>2, <2>1, <3>2 DEF Proceeds, Carries, Holding, Unrecorded, Starting, Rechecking
      <3>3. CASE Rechecks(s)
        BY <1>2, <2>1, <3>3 DEF Rechecks, Carries, IsRecorded, Rechecking
      <3>4. CASE Recants(s)
        BY <1>2, <2>1, <3>4 DEF Recants, Passes, Carries
      <3>5. QED
        BY <1>6, <3>1, <3>2, <3>3, <3>4
    <2> HIDE DEF Own
    <2>3. QED
      BY <1>4, <1>5, <2>1, <2>2
  <1>7. ASSUME NEW s \in Service, Errs(s) \/ Conflicts(s) \/ Completes(s) \/ Removes(s)
        PROVE  DraftSound'
    <2>1. Alone(s) /\ faults' = faults
      <3>1. Ends(s) /\ faults' = faults
        BY <1>7 DEF Errs, Conflicts, Completes, Removes, Replies, Untouched
      <3>2. QED
        BY <3>1 DEF Ends
    <2>2. /\ service'[s].phase \in {"down", "opening", "idle"}
          /\ service'[s].number = 0 /\ service'[s].op = "refused"
      BY <1>7 DEF Errs, Conflicts, Completes, Removes, Replies, Ends
    <2>3. /\ drafts' \subseteq drafts
          /\ \A d \in drafts : d \in drafts' \/ d.number = service[s].number
          /\ service[s].number # 0 \/ drafts' = drafts
      <3>1. CASE Errs(s) \/ Conflicts(s) \/ Completes(s)
        <4>1. drafts' = drafts
          BY <3>1 DEF Errs, Conflicts, Completes, Untouched
        <4>2. QED
          BY <4>1
      <3>2. CASE Removes(s)
        <4>1. drafts' = WithoutDraft(s) /\ service[s].number # 0
          BY <3>2 DEF Removes, NumberSound
        <4>2. QED
          BY <4>1 DEF WithoutDraft
      <3>3. QED
        BY <1>7, <3>1, <3>2
    <2>4. Own(s)
      BY <1>3, <2>2, <2>3
    <2> HIDE DEF Own
    <2>5. QED
      BY <1>4, <1>5, <2>1, <2>3, <2>4
  <1>8. ASSUME NEW s \in Service, Writes(s) PROVE DraftSound'
    <2>1. /\ service[s].phase = "write" /\ faults' = faults
          /\ drafts' = drafts \cup {DraftOf(s, TRUE)}
      BY <1>8 DEF Writes
    <2>2. /\ DraftOf(s, TRUE) = [number |-> service[s].number, read |-> service[s].observed,
               bound |-> service[s].bound, owner |-> service[s].op = "ownerDraft", whole |-> TRUE]
          /\ DraftOf(s, TRUE).number = service[s].number /\ DraftOf(s, TRUE).whole
      BY DEF DraftOf
    <2>3. service[s].number # 0 /\ service[s].op \in {"draft", "ownerDraft"}
      BY <2>1 DEF NumberSound, ControlSound
    <2>4. Alone(s) /\ Own(s)
      <3>1. CASE Replies(s, "ok")
        BY <1>3, <2>1, <2>2, <2>3, <3>1 DEF Replies, Ends
      <3>2. CASE service[s].op # "ownerDraft" /\ Passes(s, "append")
        <4>1. DraftOf(s, TRUE) = [number |-> service[s].number, read |-> service[s].observed,
                bound |-> service[s].bound, owner |-> FALSE, whole |-> TRUE]
          BY <2>2, <3>2
        <4>2. /\ Alone(s) /\ service'[s].phase = "append" /\ service'[s].op = "draft"
              /\ service'[s].number = service[s].number
              /\ service'[s].observed = service[s].observed
              /\ service'[s].bound = service[s].bound
          BY <2>3, <3>2 DEF Passes, Carries
        <4>3. QED
          BY <2>1, <4>1, <4>2
      <3>3. QED
        BY <1>8, <3>1, <3>2 DEF Writes
    <2> HIDE DEF Own
    <2>5. /\ \A d \in drafts' : d \in drafts \/ d.number = service[s].number
          /\ \A d \in drafts : d \in drafts'
          /\ \A d \in drafts' : d.whole \/ d.number \in faults'
      BY <1>5, <2>1, <2>2
    <2>6. QED
      BY <1>4, <2>3, <2>4, <2>5
  <1>9. ASSUME NEW s \in Service, Appends(s) \/ AppendsInPart(s) PROVE DraftSound'
    <2>1. /\ service[s].phase = "locked" /\ drafts' = drafts /\ faults \subseteq faults'
      BY <1>9 DEF Appends, AppendsInPart
    <2>2. Alone(s) /\ Own(s)
      <3>1. CASE Replies(s, "error")
        BY <1>3, <2>1, <3>1 DEF Replies, Ends
      <3>2. CASE Passes(s, "check") \/ Passes(s, "remove")
        <4>1. /\ Alone(s) /\ service'[s].phase \in {"check", "remove"}
              /\ service'[s].op = service[s].op
              /\ service'[s].number = service[s].number
              /\ service'[s].observed = service[s].observed
              /\ service'[s].bound = service[s].bound
          BY <3>2 DEF Passes, Carries
        <4>2. QED
          BY <1>2, <2>1, <4>1 DEF Rechecking
      <3>3. QED
        BY <1>9, <3>1, <3>2 DEF Appends, AppendsInPart
    <2> HIDE DEF Own
    <2>3. QED
      BY <1>4, <1>5, <2>1, <2>2
  <1>10. ASSUME NEW s \in Service, Stops(s) PROVE DraftSound'
    <2>1. /\ service[s].number # 0 /\ faults' = faults \cup {service[s].number}
          /\ Alone(s) /\ service'[s].phase \in {"down", "opening", "idle"}
          /\ service'[s].number = 0 /\ service'[s].op = "refused"
      BY <1>10 DEF Stops, Ends
    <2>2. \A whole \in BOOLEAN : DraftOf(s, whole).number = service[s].number
      BY DEF DraftOf
    <2>3. /\ drafts \subseteq drafts'
          /\ \A d \in drafts' : d \in drafts \/ d.number = service[s].number
      BY <1>10, <2>2 DEF Stops
    <2>4. \A d \in drafts' : d.whole \/ d.number \in faults'
      BY <1>5, <2>1, <2>3
    <2>5. Own(s)
      BY <1>3, <2>1, <2>3
    <2> HIDE DEF Own
    <2>6. QED
      BY <1>4, <2>1, <2>3, <2>4, <2>5
  <1>11. ASSUME NEW s \in Service, Begins(s) PROVE DraftSound'
    <2>1. /\ Alone(s) /\ drafts' = drafts /\ faults' = faults
          /\ service'[s].phase \in {"refresh", "read"} /\ service'[s].moved = FALSE
          /\ service'[s].number = requests + 1
      BY <1>11 DEF Begins
    <2>2. \A d \in drafts : d.number # requests + 1
      <3>1. requests \in Nat
        BY DEF TypeOK
      <3>2. QED
        BY <3>1 DEF NumberSound
    <2>3. Own(s)
      BY <2>1, <2>2
    <2> HIDE DEF Own
    <2>4. QED
      BY <1>4, <1>5, <2>1, <2>3
  <1>12. QED
    BY <1>1, <1>6, <1>7, <1>8, <1>9, <1>10, <1>11, Kinds

LEMMA Grown ==
  ASSUME TypeOK, ControlSound, CacheSound, NumberSound, [Next]_vars
  PROVE  Events \subseteq Events' /\ faults \subseteq faults'
  <1>1. journal' = journal => Events' = Events
    BY DEF Events
  <1>2. CASE Waits
    BY <1>1, <1>2 DEF Waits
  <1>3. ASSUME NEW s \in Service, Appends(s)
        PROVE  Events \subseteq Events' /\ faults \subseteq faults'
    BY <1>3, Grows DEF Appends, Part
  <1>4. ASSUME NEW s \in Service, AppendsInPart(s) \/ Stops(s)
        PROVE  Events \subseteq Events' /\ faults \subseteq faults'
    BY <1>1, <1>4, Grows DEF AppendsInPart, Stops
  <1>5. ASSUME NEW s \in Service,
               Opens(s) \/ Proceeds(s) \/ Rechecks(s) \/ Recants(s) \/ Errs(s) \/ Conflicts(s)
                 \/ Completes(s) \/ Writes(s) \/ Removes(s) \/ Begins(s)
        PROVE  Events \subseteq Events' /\ faults \subseteq faults'
    <2>1. journal' = journal /\ faults' = faults
      BY <1>5 DEF Opens, Proceeds, Rechecks, Recants, Errs, Conflicts, Completes, Writes, Removes,
                  Begins, Untouched
    <2>2. QED
      BY <1>1, <2>1
  <1>6. QED
    BY <1>2, <1>3, <1>4, <1>5, Kinds

\* A draft is taken away by the request it is of, after its append failed.
LEMMA DraftsKept ==
  ASSUME TypeOK, ControlSound, CacheSound, NumberSound, [Next]_vars, NEW d \in drafts
  PROVE  d \in drafts' \/ \E s \in Service : Removes(s) /\ d.number = service[s].number
  <1>1. CASE Waits
    BY <1>1 DEF Waits
  <1>2. ASSUME NEW s \in Service, Writes(s) \/ Stops(s) PROVE d \in drafts'
    BY <1>2 DEF Writes, Stops
  <1>3. ASSUME NEW s \in Service,
               Opens(s) \/ Proceeds(s) \/ Rechecks(s) \/ Recants(s) \/ Errs(s) \/ Conflicts(s)
                 \/ Completes(s) \/ Appends(s) \/ AppendsInPart(s) \/ Begins(s)
        PROVE  d \in drafts'
    <2>1. drafts' = drafts
      BY <1>3 DEF Opens, Proceeds, Rechecks, Recants, Errs, Conflicts, Completes, Appends,
                  AppendsInPart, Begins, Untouched
    <2>2. QED
      BY <2>1
  <1>4. ASSUME NEW s \in Service, Removes(s)
        PROVE  d \in drafts' \/ d.number = service[s].number
    BY <1>4 DEF Removes, WithoutDraft
  <1>5. QED
    BY <1>1, <1>2, <1>3, <1>4, Kinds

DraftHeld(d) ==
  \/ d.owner
  \/ d.number \in faults
  \/ d.whole /\ \E e \in Events : e.kind = "requested" /\ e.draft = d.number
  \/ \E s \in Service :
       service[s].number = d.number /\ service[s].phase \in {"append", "locked", "remove"}

\* A draft that was accounted for is, or it is gone.
LEMMA HeldStep ==
  ASSUME TypeOK, ControlSound, CacheSound, NumberSound, RecordSound, DraftSound, [Next]_vars,
         NEW d \in drafts, DraftHeld(d)
  PROVE  \/ d \notin drafts'
         \/ d.owner
         \/ d.number \in faults'
         \/ d.whole /\ \E e \in Events' : e.kind = "requested" /\ e.draft = d.number
         \/ \E s \in Service :
              service'[s].number = d.number /\ service'[s].phase \in {"append", "locked", "remove"}
  <1> DEFINE Goal ==
        \/ d \notin drafts'
        \/ d.owner
        \/ d.number \in faults'
        \/ d.whole /\ \E e \in Events' : e.kind = "requested" /\ e.draft = d.number
        \/ \E s \in Service :
             service'[s].number = d.number /\ service'[s].phase \in {"append", "locked", "remove"}
  <1>1. CASE \/ d.owner
             \/ d.number \in faults
             \/ d.whole /\ \E e \in Events : e.kind = "requested" /\ e.draft = d.number
    BY <1>1, Grown
  <1>2. ASSUME NEW s \in Service, service[s].number = d.number,
               service[s].phase \in {"append", "locked", "remove"}
        PROVE  Goal
    <2>1. service[s].op = "draft"
      BY <1>2 DEF DraftSound
    <2>2. CASE service'[s] = service[s]
      BY <1>2, <2>2
    <2>3. CASE service'[s] # service[s]
      <3>1. ASSUME NEW t \in Service, Alone(t) PROVE t = s
        BY <2>3, <3>1 DEF Alone
      <3>2. ~Waits
        BY <2>3 DEF Waits
      <3>3. ASSUME NEW t \in Service, Opens(t) \/ Rechecks(t) \/ Errs(t) \/ Conflicts(t)
                     \/ Completes(t) \/ Writes(t) \/ Begins(t)
            PROVE  FALSE
        <4>1. t = s
          BY <3>1, <3>3 DEF Opens, Rechecks, Errs, Conflicts, Completes, Writes, Begins, Replies,
                            Ends, Passes
        <4>2. QED
          BY <1>2, <2>1, <3>3, <4>1 DEF Opens, Rechecks, Errs, Conflicts, Completes, Writes,
                                        Begins, IsRecorded, Rechecking
      <3>4. ASSUME NEW t \in Service, Proceeds(t) \/ Recants(t) PROVE Goal
        <4>1. t = s
          BY <3>1, <3>4 DEF Proceeds, Recants, Passes
        <4>2. /\ service'[s].number = service[s].number
              /\ service'[s].phase \in {"append", "locked", "remove"}
          BY <1>2, <2>1, <3>4, <4>1 DEF Proceeds, Recants, Passes, Carries, Holding, Unrecorded,
                                        Starting
        <4>3. QED
          BY <1>2, <4>2
      <3>5. ASSUME NEW t \in Service, Removes(t) PROVE Goal
        <4>1. t = s
          BY <3>1, <3>5 DEF Removes, Replies, Ends
        <4>2. QED
          BY <1>2, <3>5, <4>1 DEF Removes, WithoutDraft
      <3>6. ASSUME NEW t \in Service, AppendsInPart(t) \/ Stops(t) PROVE Goal
        <4>1. t = s
          BY <3>1, <3>6 DEF AppendsInPart, Stops, Passes, Replies, Ends
        <4>2. QED
          BY <1>2, <3>6, <4>1 DEF AppendsInPart, Stops
      <3>7. ASSUME NEW t \in Service, Appends(t) PROVE Goal
        <4>1. t = s
          BY <3>1, <3>7 DEF Appends, Passes, Replies, Ends
        <4>2. EventOf(s) \in Events'
          BY <3>7, <4>1, Grows DEF Appends, Part
        <4>3. EventOf(s).kind = "requested" /\ EventOf(s).draft = d.number
          BY <1>2, <2>1 DEF EventOf, KindOf
        <4>4. d.whole \/ d.number \in faults'
          BY Grown DEF DraftSound
        <4>5. QED
          BY <4>2, <4>3, <4>4
      <3> HIDE DEF Goal
      <3>8. QED
        BY <3>2, <3>3, <3>4, <3>5, <3>6, <3>7, Kinds
    <2> HIDE DEF Goal
    <2>4. QED
      BY <2>2, <2>3
  <1>3. QED
    BY <1>1, <1>2 DEF DraftHeld


\* A record that was completed stays, and so does its draft: only the append
\* of a record that a fault hit can fail and leave it.
LEMMA PairedStep ==
  ASSUME TypeOK, ControlSound, CacheSound, NumberSound, RecordSound, DraftSound, DraftsAccounted,
         [Next]_vars, NEW e \in Events', e.kind = "requested"
  PROVE  e.draft \in faults' \/ \E d \in drafts' : d.number = e.draft
  <1>1. CASE e \in Events
    <2>1. e.draft \in faults \/ \E d \in drafts : d.number = e.draft
      BY <1>1 DEF DraftsAccounted, Completed, Events
    <2>2. ASSUME NEW d \in drafts, d.number = e.draft, d \notin drafts'
          PROVE  e.draft \in faults'
      <3>1. PICK s \in Service : Removes(s) /\ d.number = service[s].number
        BY <2>2, DraftsKept
      <3>2. service[s].phase = "remove" /\ e.number = service[s].number
        BY <1>1, <2>2, <3>1 DEF Removes, RecordSound
      <3>3. service[s].number \in faults
        BY <1>1, <3>2 DEF RecordSound
      <3>4. QED
        BY <2>2, <3>1, <3>3, Grown
    <2>3. QED
      BY <2>1, <2>2, Grown
  <1>2. CASE e \notin Events
    <2>1. ASSUME NEW s \in Service, NEW part \in Part,
                 journal' = Written(journal, EventOf(s), part)
          PROVE  e.draft = service[s].number /\ service[s].op = "draft"
      <3>1. e = EventOf(s)
        BY <1>2, <2>1, Grows
      <3>2. QED
        BY <3>1 DEF EventOf, KindOf
    <2>2. journal' # journal
      BY <1>2 DEF Events
    <2>3. ASSUME NEW s \in Service, Appends(s) PROVE \E d \in drafts' : d.number = e.draft
      <3>1. e.draft = service[s].number /\ service[s].op = "draft"
        BY <2>1, <2>3 DEF Appends, Part
      <3>2. DraftOf(s, TRUE) \in drafts' /\ DraftOf(s, TRUE).number = service[s].number
        BY <2>3, <3>1 DEF Appends, DraftSound, DraftOf
      <3>3. QED
        BY <3>1, <3>2
    <2>4. ASSUME NEW s \in Service, AppendsInPart(s) \/ Stops(s) PROVE e.draft \in faults'
      BY <2>1, <2>2, <2>4 DEF AppendsInPart, Stops
    <2>5. QED
      BY <2>2, <2>3, <2>4, Kinds DEF Waits, Opens, Proceeds, Rechecks, Recants, Errs, Conflicts,
                                     Completes, Writes, Removes, Begins, Untouched
  <1>3. QED
    BY <1>1, <1>2

\* A draft that was answered for is not taken away again.
LEMMA ReleasedStep ==
  ASSUME TypeOK, ControlSound, CacheSound, ReadSound, BindSound, NumberSound, RecordSound,
         DraftSound, DraftsAccounted, [Next]_vars, NEW t \in Service,
         reply'[t].outcome = "ok", reply'[t].op = "draft"
  PROVE  \E d \in drafts' :
           /\ d.number = reply'[t].number /\ d.whole
           /\ \A c \in d.read : FingerprintOf[c] = d.bound
           /\ \E e \in Events' : e.kind = "requested" /\ e.draft = d.number
  <1>1. CASE reply'[t] = reply[t]
    <2>1. PICK d \in drafts :
            /\ d.number = reply[t].number /\ d.whole
            /\ \A c \in d.read : FingerprintOf[c] = d.bound
            /\ \E e \in Events : e.kind = "requested" /\ e.draft = d.number
      BY <1>1 DEF DraftsAccounted, Released, Completed, Events
    <2>2. d \in drafts'
      BY <1>1, <2>1, DraftsKept DEF NumberSound
    <2>3. QED
      BY <1>1, <2>1, <2>2, Grown
  <1>2. CASE reply'[t] # reply[t]
    <2>1. ASSUME NEW s \in Service, Alone(s) PROVE t = s
      BY <1>2, <2>1 DEF Alone
    <2>2. ASSUME NEW s \in Service,
                 \/ Opens(s) \/ Proceeds(s) \/ Rechecks(s) \/ Recants(s) \/ Errs(s) \/ Conflicts(s)
                 \/ Writes(s) \/ Appends(s) \/ Removes(s)
                 \/ AppendsInPart(s) \/ Stops(s) \/ Begins(s)
          PROVE  FALSE
      <3>1. Alone(s)
        BY <2>2 DEF Opens, Proceeds, Rechecks, Recants, Errs, Conflicts, Writes, Appends, Removes,
                    AppendsInPart, Stops, Begins, Replies, Ends, Passes
      <3>2. t = s
        BY <2>1, <3>1
      <3>3. QED
        BY <1>2, <2>2, <3>2 DEF Opens, Proceeds, Rechecks, Recants, Errs, Conflicts, Writes,
                    Appends, Removes, AppendsInPart, Stops, Begins, Replies, Passes
    <2>3. ASSUME NEW s \in Service, Completes(s)
          PROVE  \E d \in drafts' :
                   /\ d.number = reply'[t].number /\ d.whole
                   /\ \A c \in d.read : FingerprintOf[c] = d.bound
                   /\ \E e \in Events' : e.kind = "requested" /\ e.draft = d.number
      <3>1. t = s
        BY <2>1, <2>3 DEF Completes, Replies, Ends
      <3>2. /\ service[s].op = "draft" /\ service[s].phase = "check"
            /\ service[s].before = checkpoint /\ drafts' = drafts
            /\ reply'[s].number = service[s].number
        BY <2>3, <3>1 DEF Completes, Replies, Untouched
      <3>3. \A c \in service[s].observed : c = checkpoint
        <4>1. \A c \in service[s].observed : checkpoint <= c /\ c <= checkpoint /\ c \in Nat
          <5>1. service[s].observed \subseteq Nat
            BY Fields
          <5>2. QED
            BY <3>2, <5>1 DEF ReadSound
        <4>2. QED
          BY <4>1, CheckpointNumber
      <3>4. \A c \in service[s].observed : FingerprintOf[c] = service[s].bound
        <4>1. \E c \in service[s].observed : service[s].bound = FingerprintOf[c]
          BY <3>2 DEF BindSound
        <4>2. QED
          BY <3>3, <4>1
      <3>5. DraftOf(s, TRUE) \in drafts
        BY <3>2 DEF DraftSound, IsRecorded
      <3>6. PICK e \in Events : e.number = service[s].number /\ e.kind = "requested"
        BY <3>2 DEF RecordSound, IsRecorded
      <3>7. e.draft = service[s].number
        BY <3>6 DEF RecordSound
      <3>8. /\ DraftOf(s, TRUE).number = service[s].number /\ DraftOf(s, TRUE).whole
            /\ DraftOf(s, TRUE).read = service[s].observed
            /\ DraftOf(s, TRUE).bound = service[s].bound
        BY DEF DraftOf
      <3>9. QED
        BY <3>1, <3>2, <3>4, <3>5, <3>6, <3>7, <3>8, Grown
    <2>4. QED
      BY <1>2, <2>2, <2>3, Kinds DEF Waits
  <1>3. QED
    BY <1>1, <1>2

\* A draft is written by the request that goes on to journal it.
LEMMA NewDraft ==
  ASSUME TypeOK, ControlSound, CacheSound, NumberSound, [Next]_vars,
         NEW d \in drafts', d \notin drafts
  PROVE  \/ d.owner
         \/ d.number \in faults'
         \/ \E s \in Service :
              service'[s].number = d.number /\ service'[s].phase \in {"append", "locked", "remove"}
  <1>1. \A s \in Service, whole \in BOOLEAN :
          /\ DraftOf(s, whole).number = service[s].number
          /\ DraftOf(s, whole).owner = (service[s].op = "ownerDraft")
    BY DEF DraftOf
  <1>2. ASSUME NEW s \in Service, Writes(s)
        PROVE  \/ d.owner
               \/ service'[s].number = d.number /\ service'[s].phase = "append"
    <2>1. d = DraftOf(s, TRUE)
      BY <1>2 DEF Writes
    <2>2. QED
      BY <1>1, <1>2, <2>1 DEF Writes, Passes, Carries
  <1>3. ASSUME NEW s \in Service, Stops(s) PROVE d.number \in faults'
    BY <1>1, <1>3 DEF Stops
  <1>4. ASSUME NEW s \in Service,
               \/ Opens(s) \/ Proceeds(s) \/ Rechecks(s) \/ Recants(s) \/ Errs(s) \/ Conflicts(s)
               \/ Completes(s) \/ Appends(s) \/ Removes(s) \/ AppendsInPart(s) \/ Begins(s)
        PROVE  FALSE
    <2>1. drafts' \subseteq drafts
      BY <1>4 DEF Opens, Proceeds, Rechecks, Recants, Errs, Conflicts, Completes, Appends, Removes,
                  AppendsInPart, Begins, Untouched, WithoutDraft
    <2>2. QED
      BY <2>1
  <1>5. ~Waits
    BY DEF Waits
  <1>6. QED
    BY <1>2, <1>3, <1>4, <1>5, Kinds

LEMMA AccountedStep ==
  ASSUME TypeOK, ControlSound, CacheSound, ReadSound, BindSound, NumberSound, RecordSound,
         DraftSound, DraftsAccounted, [Next]_vars
  PROVE  DraftsAccounted'
  <1> DEFINE Held(d) ==
        \/ d.owner
        \/ d.number \in faults'
        \/ d.whole /\ \E e \in Events' : e.kind = "requested" /\ e.draft = d.number
        \/ \E s \in Service :
             service'[s].number = d.number /\ service'[s].phase \in {"append", "locked", "remove"}
  <1>1. ASSUME NEW d \in drafts' PROVE Held(d)
    <2>1. CASE d \in drafts
      <3>1. DraftHeld(d)
        BY <2>1 DEF DraftsAccounted, DraftHeld, Completed, Events
      <3>2. QED
        BY <2>1, <3>1, HeldStep
    <2>2. CASE d \notin drafts
      BY <2>2, NewDraft
    <2>3. QED
      BY <2>1, <2>2
  <1>2. \A e \in Events' : e.kind = "requested" =>
          e.draft \in faults' \/ \E d \in drafts' : d.number = e.draft
    BY PairedStep
  <1>3. \A t \in Service : reply'[t].outcome = "ok" /\ reply'[t].op = "draft" =>
          \E d \in drafts' :
            /\ d.number = reply'[t].number /\ d.whole
            /\ \A c \in d.read : FingerprintOf[c] = d.bound
            /\ \E e \in Events' : e.kind = "requested" /\ e.draft = d.number
    BY ReleasedStep
  <1>4. Events' = Recorded(journal')
    BY DEF Events
  <1>5. Completed(Events') = {e \in Events' : e.kind = "requested"}
    BY DEF Completed
  <1>6. QED
    <2>1. \A d \in drafts' :
            \/ d.owner
            \/ d.number \in faults'
            \/ d.whole /\ \E e \in Completed(Recorded(journal')) : e.draft = d.number
            \/ \E s \in Service : service'[s].number = d.number
                 /\ service'[s].phase \in {"append", "locked", "remove"}
      BY <1>1, <1>4, <1>5
    <2>2. \A e \in Completed(Recorded(journal')) :
            e.draft \in faults' \/ \E d \in drafts' : d.number = e.draft
      BY <1>2, <1>4, <1>5
    <2>3. \A s \in Service : reply'[s].outcome = "ok" /\ reply'[s].op = "draft" =>
            \E d \in drafts' :
              /\ d.number = reply'[s].number /\ d.whole
              /\ \A c \in d.read : FingerprintOf[c] = d.bound
              /\ \E e \in Completed(Recorded(journal')) : e.draft = d.number
      BY <1>3, <1>4, <1>5
    <2>4. QED
      BY <2>1, <2>2, <2>3 DEF DraftsAccounted, Released


-----------------------------------------------------------------------------
(* Reviews and audits.                                                       *)
LEMMA ReviewStep ==
  ASSUME TypeOK, ControlSound, CacheSound, NumberSound, ChainSound, ReviewSound, [Next]_vars
  PROVE  ReviewSound'
  <1> SUFFICES ASSUME faults' = {}
               PROVE  /\ \A t \in Service : service'[t].op = "preview" =>
                           \E d \in drafts' : d.number = service'[t].target
                      /\ \A e \in Events' : e.kind = "reviewed" =>
                           \E d \in drafts' : d.number = e.draft
    BY DEF ReviewSound
  <1>1. faults = {} /\ Events \subseteq Events'
    BY Grown
  <1>2. drafts \subseteq drafts'
    <2>1. \A s \in Service : ~Removes(s)
      BY <1>1 DEF ChainSound, Removes
    <2>2. QED
      BY <2>1, DraftsKept
  <1>3. ASSUME NEW t \in Service, service'[t].op = "preview"
        PROVE  \E d \in drafts' : d.number = service'[t].target
    <2>1. CASE service'[t] = service[t]
      BY <1>1, <1>2, <1>3, <2>1 DEF ReviewSound
    <2>2. CASE service'[t] # service[t]
      <3>1. ASSUME NEW s \in Service, Alone(s) PROVE t = s
        BY <2>2, <3>1 DEF Alone
      <3>2. ASSUME NEW s \in Service,
                   \/ Opens(s) \/ Errs(s) \/ Conflicts(s) \/ Completes(s) \/ Removes(s) \/ Stops(s)
            PROVE  FALSE
        <4>1. t = s
          BY <3>1, <3>2 DEF Opens, Errs, Conflicts, Completes, Removes, Stops, Replies, Ends
        <4>2. QED
          BY <1>3, <3>2, <4>1 DEF Opens, Errs, Conflicts, Completes, Removes, Stops, Replies, Ends
      <3>3. ASSUME NEW s \in Service,
                   \/ Proceeds(s) \/ Rechecks(s) \/ Recants(s)
                   \/ Writes(s) \/ Appends(s) \/ AppendsInPart(s)
            PROVE  service[t].op = "preview" /\ service'[t].target = service[t].target
        <4>1. Replies(s, "ok") \/ Replies(s, "error") \/ (Alone(s) /\ Carries(s))
          BY <3>3 DEF Proceeds, Rechecks, Recants, Writes, Appends, AppendsInPart, Passes
        <4>2. t = s
          BY <3>1, <4>1 DEF Replies, Ends
        <4>3. QED
          BY <1>3, <4>1, <4>2 DEF Replies, Ends, Carries
      <3>4. ASSUME NEW s \in Service, Begins(s)
            PROVE  \E d \in drafts : d.number = service'[t].target
        BY <1>3, <3>1, <3>4 DEF Begins
      <3>5. QED
        BY <1>1, <1>2, <2>2, <3>2, <3>3, <3>4, Kinds DEF Waits, ReviewSound
    <2>3. QED
      BY <2>1, <2>2
  <1>4. ASSUME NEW e \in Events', e.kind = "reviewed"
        PROVE  \E d \in drafts' : d.number = e.draft
    <2>1. CASE e \in Events
      BY <1>1, <1>2, <1>4, <2>1 DEF ReviewSound
    <2>2. CASE e \notin Events
      <3>1. journal' # journal
        BY <2>2 DEF Events
      <3>2. PICK s \in Service : Appends(s)
        <4>1. \A s \in Service : ~AppendsInPart(s) /\ ~Stops(s)
          BY DEF AppendsInPart, Stops
        <4>2. QED
          BY <3>1, <4>1, Kinds DEF Waits, Opens, Proceeds, Rechecks, Recants, Errs, Conflicts,
                                   Completes, Writes, Removes, Begins, Untouched
      <3>3. e = EventOf(s)
        BY <2>2, <3>2, Grows DEF Appends, Part
      <3>4. service[s].op = "preview" /\ e.draft = service[s].target
        <4>1. e.kind = KindOf(service[s].op)
          BY <3>3 DEF EventOf
        <4>2. service[s].op = "preview"
          BY <1>4, <4>1 DEF KindOf
        <4>3. QED
          BY <3>3, <4>2 DEF EventOf
      <3>5. QED
        BY <1>1, <1>2, <3>4 DEF ReviewSound
    <2>3. QED
      BY <2>1, <2>2
  <1>5. QED
    BY <1>3, <1>4

LEMMA AuditorKept ==
  ASSUME [Next]_vars
  PROVE  auditor' = auditor \/ AuditRead \/ AuditList \/ AuditReread \/ AuditRelist
  <1>1. CASE UNCHANGED vars
    BY <1>1 DEF vars
  <1>2. CASE Commit
    BY <1>2 DEF Commit
  <1>3. ASSUME NEW s \in Service, Open(s) \/ Opened(s) \/ Refresh(s) \/ Reload(s) \/ Read(s)
                                    \/ ReadFails(s) \/ WriteDraft(s) \/ AppendLock(s)
        PROVE  auditor' = auditor
    BY <1>3 DEF Open, Opened, Refresh, Reload, Read, ReadFails, WriteDraft, AppendLock
  <1>4. ASSUME NEW s \in Service, AppendUnreadable(s) \/ AppendWrite(s) \/ RemoveDraft(s)
                                    \/ Check(s) \/ AppendFails(s) \/ WriteFails(s) \/ Kill(s)
        PROVE  auditor' = auditor
    BY <1>4 DEF AppendUnreadable, AppendWrite, RemoveDraft, Check, AppendFails, WriteFails, Kill
  <1>5. ASSUME NEW s \in Service, NEW op \in Requests, Begin(s, op) PROVE auditor' = auditor
    BY <1>5 DEF Begin
  <1>6. QED
    BY <1>1, <1>2, <1>3, <1>4, <1>5 DEF Next, Progress

LEMMA AuditStep ==
  ASSUME TypeOK, ControlSound, CacheSound, NumberSound, AuditInv, [Next]_vars
  PROVE  AuditInv'
  <1>1. Events \subseteq Events'
    BY Grown
  <1>2. CASE auditor' = auditor
    BY <1>1, <1>2 DEF AuditInv
  <1>3. CASE AuditRead
    <2>1. auditor'.phase = "idle" \/ auditor' = [NoAudit EXCEPT !.phase = "list", !.log = Events]
      BY <1>3 DEF AuditRead, NoAudit, Events
    <2>2. CASE auditor' = [NoAudit EXCEPT !.phase = "list", !.log = Events]
      <3>1. auditor'.phase = "list" /\ auditor'.verdict = "none" /\ auditor'.log = Events
        BY <2>2 DEF NoAudit
      <3>2. QED
        BY <1>1, <3>1 DEF AuditInv
    <2>3. QED
      BY <2>1, <2>2 DEF AuditInv
  <1>4. auditor \in Audit
    BY DEF TypeOK
  <1>5. CASE AuditList
    <2>1. CASE Linked(auditor.log, drafts)
      <3>1. auditor' = [auditor EXCEPT !.phase = "reread", !.files = drafts]
        BY <1>5, <2>1 DEF AuditList
      <3>2. /\ auditor'.phase = "reread" /\ auditor'.files = drafts
            /\ auditor'.log = auditor.log /\ auditor'.verdict = auditor.verdict
        BY <1>4, <3>1 DEF Audit
      <3>3. auditor.verdict = "none" /\ auditor.log \subseteq Events
        BY <1>5 DEF AuditInv, AuditList
      <3>4. QED
        BY <1>1, <2>1, <3>2, <3>3 DEF AuditInv
    <2>2. CASE ~Linked(auditor.log, drafts)
      BY <1>5, <2>2 DEF AuditList, AuditInv, NoAudit
    <2>3. QED
      BY <2>1, <2>2
  <1>6. CASE AuditReread
    <2>1. auditor'.phase = "idle" \/ auditor' = [auditor EXCEPT !.phase = "relist"]
      BY <1>6 DEF AuditReread, NoAudit
    <2>2. CASE auditor' = [auditor EXCEPT !.phase = "relist"]
      <3>1. /\ auditor'.phase = "relist" /\ auditor'.files = auditor.files
            /\ auditor'.log = auditor.log /\ auditor'.verdict = auditor.verdict
        BY <1>4, <2>2 DEF Audit
      <3>2. /\ auditor.verdict = "none" /\ auditor.log \subseteq Events
            /\ Linked(auditor.log, auditor.files)
        BY <1>6 DEF AuditInv, AuditReread
      <3>3. QED
        BY <1>1, <3>1, <3>2 DEF AuditInv
    <2>3. QED
      BY <2>1, <2>2 DEF AuditInv
  <1>7. CASE AuditRelist
    BY <1>7 DEF AuditRelist, AuditInv, NoAudit
  <1>8. QED
    BY <1>2, <1>3, <1>5, <1>6, <1>7, AuditorKept

-----------------------------------------------------------------------------
LEMMA InvariantInit == ASSUME Init PROVE ConnectorInv
  <1>1. TypeOK
    BY InitTypes
  <1>2. /\ checkpoint = 1 /\ requests = 0 /\ drafts = {} /\ faults = {} /\ journal = <<>>
        /\ \A s \in Service :
             /\ service[s].phase = "down" /\ service[s].op = "refused" /\ service[s].number = 0
             /\ service[s].before = 0 /\ service[s].moved = FALSE /\ service[s].observed = {}
             /\ cache[s] = NoCache /\ reply[s] = NoReply
        /\ auditor = NoAudit
    BY DEF Init, Down, Idle
  <1>3. Events = {}
    BY <1>2 DEF Events, Recorded
  <1>4. ControlSound
    BY ControlInit
  <1>5. CacheSound /\ ReadSound /\ BindSound
    BY <1>2 DEF CacheSound, ReadSound, BindSound, NoCache, Starting
  <1>6. OneCheckpoint
    BY <1>2 DEF OneCheckpoint, NoReply
  <1>7. NumberSound
    BY <1>2, <1>3 DEF NumberSound, NoReply
  <1>8. RecordSound
    BY <1>2, <1>3 DEF RecordSound, NoReply, Unrecorded, IsRecorded, Starting, Rechecking
  <1>9. ChainSound
    BY <1>2 DEF ChainSound, Verified
  <1>10. DraftSound /\ ReviewSound
    BY <1>2, <1>3 DEF DraftSound, ReviewSound
  <1>11. DraftsAccounted
    BY <1>2, <1>3 DEF DraftsAccounted, Completed, Released, NoReply, Events
  <1>12. AuditInv
    BY <1>2 DEF AuditInv, NoAudit
  <1>13. QED
    BY <1>1, <1>4, <1>5, <1>6, <1>7, <1>8, <1>9, <1>10, <1>11, <1>12 DEF ConnectorInv

LEMMA InvariantStep == ASSUME ConnectorInv, [Next]_vars PROVE ConnectorInv'
  <1>1. /\ TypeOK /\ ControlSound /\ CacheSound /\ ReadSound /\ BindSound /\ OneCheckpoint
        /\ NumberSound /\ RecordSound /\ ChainSound /\ DraftSound /\ DraftsAccounted
        /\ ReviewSound /\ AuditInv
    BY DEF ConnectorInv
  <1>2. TypeOK' /\ ControlSound'
    BY <1>1, TypeStep, ControlStep
  <1>3. CacheSound'
    BY <1>1, CacheStep
  <1>4. ReadSound'
    BY <1>1, ReadStep
  <1>5. BindSound'
    BY <1>1, BindStep
  <1>6. OneCheckpoint'
    BY <1>1, CheckpointStep
  <1>7. NumberSound'
    BY <1>1, NumberStep
  <1>8. RecordSound'
    BY <1>1, RecordStep
  <1>9. ChainSound'
    BY <1>1, ChainStep
  <1>10. DraftSound'
    BY <1>1, DraftStep
  <1>11. DraftsAccounted'
    BY <1>1, AccountedStep
  <1>12. ReviewSound'
    BY <1>1, ReviewStep
  <1>13. AuditInv'
    BY <1>1, AuditStep
  <1>14. QED
    BY <1>2, <1>3, <1>4, <1>5, <1>6, <1>7, <1>8, <1>9, <1>10, <1>11, <1>12, <1>13
    DEF ConnectorInv


\* An audit that passes found each draft with its request, and what was
\* appended since has its draft too.
LEMMA AuditTrue ==
  ASSUME ConnectorInv, Next, auditor.phase = "relist", auditor'.verdict = "passes", faults = {}
  PROVE  Linked(Recorded(journal), drafts)
  <1>1. /\ auditor \in Audit /\ auditor.verdict = "none" /\ auditor.log \subseteq Events
        /\ Linked(auditor.log, auditor.files)
    BY DEF ConnectorInv, TypeOK, AuditInv
  <1>2. AuditRelist
    BY <1>1, AuditorKept DEF AuditRead, AuditList, AuditReread
  <1>3. drafts = auditor.files
    BY <1>2 DEF AuditRelist, SameListing, NoAudit
  <1>4. /\ \A d \in drafts : d.whole
        /\ {e.draft : e \in Completed(auditor.log)} = {d.number : d \in drafts}
    BY <1>1, <1>3 DEF Linked, OneToOne
  <1>5. \A d \in drafts : \E e \in Completed(Events) : e.draft = d.number
    <2>1. ASSUME NEW d \in drafts PROVE \E e \in Completed(Events) : e.draft = d.number
      <3>1. d.number \in {e.draft : e \in Completed(auditor.log)}
        BY <1>4
      <3>2. QED
        BY <1>1, <3>1 DEF Completed
    <2>2. QED
      BY <2>1
  <1>6. \A e \in Completed(Events) : \E d \in drafts : d.number = e.draft
    BY DEF ConnectorInv, DraftsAccounted, Events
  <1>7. \A e \in Events : e.kind = "reviewed" => \E d \in drafts : d.number = e.draft
    BY DEF ConnectorInv, ReviewSound
  <1>8. {e.draft : e \in Completed(Events)} = {d.number : d \in drafts}
    BY <1>5, <1>6
  <1>9. QED
    BY <1>4, <1>7, <1>8 DEF Linked, OneToOne, Events

-----------------------------------------------------------------------------
\* In every state of every behaviour the caches of a process were read under
\* the binding it has, what a request read it read since the checkpoint it
\* started from, a number is of one request, a record is of one number, and
\* the drafts and the records of requests that no fault hit are paired
\* (refresh_checkpoint_bound_state, append_owner_only_connector_event,
\* create_draft, audit_state).
THEOREM ConnectorInvariance == Spec => []ConnectorInv
  <1>1. Init => ConnectorInv
    BY InvariantInit
  <1>2. ConnectorInv /\ [Next]_vars => ConnectorInv'
    BY InvariantStep
  <1>3. QED
    BY <1>1, <1>2, PTL DEF Spec

\* What a response took from the replica and the caches is of the one checkpoint
\* it was verified against, whatever was cached and whatever the follower
\* committed meanwhile (dispatch_internal).  The stored draft a preview shows
\* beside it is not read for the response: PreviewOfOneSource is about that.
THEOREM OneCheckpointHolds == Spec => []OneCheckpoint
  <1>1. ConnectorInv => OneCheckpoint
    BY DEF ConnectorInv
  <1>2. QED
    BY <1>1, ConnectorInvariance, PTL

\* What was answered is in the journal, and without a fault the journal is one
\* chain, however many processes append to it
\* (append_owner_only_connector_event, audit_connector_log_file).
THEOREM JournalTrueHolds == Spec => []JournalTrue
  <1>1. ConnectorInv => JournalTrue
    BY DEF ConnectorInv, ChainSound, RecordSound, JournalTrue, Events
  <1>2. QED
    BY <1>1, ConnectorInvariance, PTL

\* A draft and its completed request are there together unless a fault hit the
\* request or it is still being written, and a draft whose receipt was released
\* stays and is of the source it is bound to (create_draft, validate_draft).
THEOREM DraftsAccountedHolds == Spec => []DraftsAccounted
  <1>1. ConnectorInv => DraftsAccounted
    BY DEF ConnectorInv
  <1>2. QED
    BY <1>1, ConnectorInvariance, PTL

\* An audit that passes is true of the journal and the drafts at its end,
\* although both were read while processes went on writing (audit_state).
THEOREM AuditSoundHolds == Spec => AuditSound
  <1>1. ConnectorInv /\ [Next]_vars =>
          [auditor.phase = "relist" /\ auditor'.verdict = "passes" /\ faults = {} =>
             Linked(Recorded(journal), drafts)]_vars
    BY AuditTrue
  <1>2. QED
    BY <1>1, ConnectorInvariance, PTL DEF Spec, AuditSound
=============================================================================
