---------------------------- MODULE MemoryScopes ----------------------------
(***************************************************************************)
(* personal_memory.rs, what a memory command computes from a prepared      *)
(* corpus: the units a scope selects, the messages of each unit it keeps,  *)
(* the batch the next units fill, the pages a batch is delivered in and    *)
(* the pages of the wiki it may change.                                    *)
(*                                                                         *)
(* A corpus is a sequence of units, a unit the consecutive messages of one *)
(* conversation.  A message has its alias, its sender, its time and its    *)
(* size; the wording of a message and the JSON around it are left out.  A  *)
(* selector of a scope is a set, empty when the scope does not name it; a  *)
(* bound on time is a set of at most one time.                             *)
(***************************************************************************)
EXTENDS Naturals, Sequences, FiniteSets, SequencesExt, FiniteSetsExt

CONSTANTS
  Units,        \* the units of the corpus, in order
  Scopes,       \* the scopes the commands name
  PageMessages, \* messages that fit one page
  BatchMessages \* MAXIMUM_BATCH_MESSAGES

Anyone == {"self", "unknown"}   \* senders that are not a known person

\* A unit is not empty, and its messages were sorted by time when it was made
ASSUME UnitsAssumption ==
  /\ PageMessages \in Nat \ {0} /\ BatchMessages \in Nat \ {0}
  /\ Units \in Seq(ToSet(Units))
  /\ \A u \in DOMAIN Units :
       LET messages == Units[u].messages
       IN  /\ messages \in Seq(ToSet(messages)) \ {<<>>}
           /\ \A i \in DOMAIN messages : messages[i].at \in Nat
           /\ \A i, j \in DOMAIN messages : i <= j => messages[i].at <= messages[j].at

ASSUME ScopesAssumption ==
  \A scope \in Scopes : scope.notBefore \cup scope.notAfter \subseteq Nat

\* What a sequence holds at some of its positions, in order
Kept(s, positions) ==
  FlattenSeq([i \in DOMAIN s |-> IF i \in positions THEN <<s[i]>> ELSE <<>>])

Persons(messages) == {messages[i].sender : i \in DOMAIN messages} \ Anyone

\* The entry of a unit in batches/index.json: what it holds, without its text
IndexEntry(unit) ==
  [conversation |-> unit.conversation,
   from |-> Head(unit.messages).at, to |-> Last(unit.messages).at,
   senders |-> {unit.messages[i].sender : i \in DOMAIN unit.messages}]

\* (mutant) a unit is skipped as soon as it starts before the scope does
EntryStartsInside(entry, scope) ==
  /\ scope.conversations = {} \/ entry.conversation \in scope.conversations
  /\ \A bound \in scope.notBefore : entry.from >= bound
  /\ \A bound \in scope.notAfter : entry.from <= bound
  /\ scope.senders = {} \/ entry.senders \cap scope.senders # {}

\* The negative filter of select_scope_units, on the index alone
EntryMayMatch(entry, scope) ==
  /\ scope.conversations = {} \/ entry.conversation \in scope.conversations
  /\ \A bound \in scope.notBefore : entry.to >= bound
  /\ \A bound \in scope.notAfter : entry.from <= bound
  /\ scope.senders = {} \/ entry.senders \cap scope.senders # {}

KindMatches(unit, scope) ==
  scope.kinds = {} \/ unit.kinds \cap scope.kinds # {}

MessageMatches(unit, message, scope) ==
  /\ scope.conversations = {} \/ unit.conversation \in scope.conversations
  /\ \A bound \in scope.notBefore : message.at >= bound
  /\ \A bound \in scope.notAfter : message.at <= bound
  /\ scope.senders = {} \/ message.sender \in scope.senders

\* The positions of a unit the bitmap of its selection has
MessageBitmap(unit, scope) ==
  {i \in DOMAIN unit.messages : MessageMatches(unit, unit.messages[i], scope)}

\* A unit reduced to the messages of its bitmap
Selection(unit, scope) ==
  [conversation |-> unit.conversation, kinds |-> unit.kinds, people |-> unit.people,
   messages |-> Kept(unit.messages, MessageBitmap(unit, scope))]

SelectsAllEvidence(scope) ==
  /\ scope.conversations = {} /\ scope.kinds = {} /\ scope.senders = {}
  /\ scope.notBefore = {} /\ scope.notAfter = {}

SelectScopeUnits(scope) ==
  Kept([u \in DOMAIN Units |-> Selection(Units[u], scope)],
       {u \in DOMAIN Units :
          /\ EntryMayMatch(IndexEntry(Units[u]), scope)
          /\ KindMatches(Units[u], scope)
          /\ MessageBitmap(Units[u], scope) # {}})

\* effective_scope_and_units: a scope over everything stores no selection
ScopedUnits(scope) ==
  IF SelectsAllEvidence(scope) THEN Units ELSE SelectScopeUnits(scope)

Total(scope) == Len(ScopedUnits(scope))

\* The messages of units first + 1 .. last, flattened
Evidence(scope, first, last) ==
  FlattenSeq([u \in 1 .. last - first |-> ScopedUnits(scope)[first + u].messages])

Bytes(messages) == FoldSeq(LAMBDA message, sum : message.bytes + sum, 0, messages)

\* A batch takes its first unit whole, and further ones while both bounds
\* hold.
BatchEnd(scope, first, maximumBytes, maximumMessages) ==
  Max({last \in first + 1 .. Total(scope) :
         \/ last = first + 1
         \/ /\ Bytes(Evidence(scope, first, last)) <= maximumBytes
            /\ Len(Evidence(scope, first, last)) <= maximumMessages})

\* What refuses a batch: its first unit alone exceeds the safety bound
FirstUnitFits(scope, first, maximumBytes) ==
  /\ Bytes(Evidence(scope, first, first + 1)) <= maximumBytes
  /\ Len(Evidence(scope, first, first + 1)) <= BatchMessages

Aliases(messages) == {messages[i].alias : i \in DOMAIN messages}

\* The pages of a batch: each takes the messages that fit, in order
DeliveryPages(messages) ==
  [p \in 1 .. (Len(messages) + PageMessages - 1) \div PageMessages |->
     SubSeq(messages, (p - 1) * PageMessages + 1,
            IF p * PageMessages < Len(messages) THEN p * PageMessages ELSE Len(messages))]

\* The pages of the wiki the messages of one unit may change
UnitTargets(scope, unit) ==
  {<<"index">>, <<"conversation", unit.conversation>>} \cup
  CASE scope.subject = "accountHolder" ->
         {<<"me">>} \cup {<<"people", p>> : p \in unit.people \cup Persons(unit.messages)}
    [] scope.subject = "none" -> {}
    [] OTHER -> {<<"people", scope.subject>>}

TargetPages(scope, first, last) ==
  UNION {UnitTargets(scope, ScopedUnits(scope)[u]) : u \in first + 1 .. last}

\* (reference) every message of the corpus the scope means, in corpus order
MeantBy(scope) ==
  FlattenSeq(
    [u \in DOMAIN Units |->
       LET messages == Units[u].messages
       IN  Kept(messages,
                {i \in DOMAIN messages :
                   KindMatches(Units[u], scope) /\ MessageMatches(Units[u], messages[i], scope)})])
=============================================================================
