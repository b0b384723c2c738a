--------------------------- MODULE ChangeConsumer ---------------------------
(***************************************************************************)
(* examples/change_consumer.rs over the connector (connector.rs) and the   *)
(* replica: a copy of the authorized conversations, kept up to date from   *)
(* the change stream.                                                      *)
(*                                                                         *)
(* Every request reads the replica as it is then, and checkpoints are      *)
(* committed between any two requests.  A run of the consumer works on a   *)
(* copy of its stored state and writes it back at the end; an error or the *)
(* end of the process leaves the stored state as it was.                   *)
(***************************************************************************)
EXTENDS ReplicaStore, FiniteSetsExt

CONSTANTS
  Authorized,   \* the conversations the policy of the connector releases
  PageSize      \* records in a page, of changes or of messages

ASSUME ConsumerAssumption ==
  /\ Authorized \subseteq Conversation /\ PageSize \in Nat \ {0}
  /\ Nothing \notin [id : Nat, checkpoint : Nat, after : Nat, conversation : Authorized]

VARIABLES
  stored,       \* the state file, or Nothing
  run           \* the run of the consumer

consumerVars == <<stored, run>>
vars == <<storeVars, consumerVars>>

\* A change cursor, and a message cursor, which names its checkpoint as well
Cursor == [id : 1 .. MaxReplica, after : Nat]
PageCursor == [id : 1 .. MaxReplica, checkpoint : 1 .. MaxCheckpoint, after : Nat,
               conversation : Authorized]

\* minimize_message keeps what a record says of a message.
State == [cursor : Cursor, names : [Authorized -> Name], messages : Functions(Message, Record)]

\* left: the conversations that are not paged to their end; page: the cursor of
\* the page to come; todo: the changes of a page that are still to be applied
Run == [pc : {"list", "page", "select", "changes", "apply", "relist", "write"},
        state : State \cup [cursor : Cursor], left : SUBSET Authorized,
        page : PageCursor \cup {Nothing}, todo : Seq(Change), refresh : BOOLEAN]

ConsumerInit == StoreInit /\ stored = Nothing /\ run = Nothing

-----------------------------------------------------------------------------
\* The requests

Resumable(cursor) == store # Nothing /\ cursor.id = store.id

AuthorizedNames == [c \in Authorized |-> store.names[c]]

\* getChanges examines the records after the cursor, released or not.
Scanned(cursor) ==
  SubSeq(store.log, cursor.after + 1, Min({cursor.after + PageSize, Len(store.log)}))

Released(change) ==
  \/ change.entity \in Authorized
  \/ change.entity \in Message /\ Home[change.entity] \in Authorized

\* Of these it returns what the policy of the connector releases.
ReleasedOf(changes) ==
  LET kept == Sorted({i \in DOMAIN changes : Released(changes[i])})
  IN  [i \in DOMAIN kept |-> changes[kept[i]]]

\* getMessages selects the first PageSize messages of a conversation after the
\* one the cursor names; the numbers of messages are their order.
Following(c, after) == {m \in DOMAIN store.records : Home[m] = c /\ m > after}

Selected(c, after) ==
  {m \in Following(c, after) :
     Cardinality({k \in Following(c, after) : k < m}) < PageSize}

More(c, after) == Selected(c, after) # Following(c, after)

Put(messages, S) ==
  [m \in DOMAIN messages \cup S |-> IF m \in S THEN store.records[m] ELSE messages[m]]

Drop(messages, m) == [k \in DOMAIN messages \ {m} |-> messages[k]]

-----------------------------------------------------------------------------
\* A run

\* bootstrap drains the change stream first.  Nothing is kept of the pages
\* before the last, so the drain is one step.
Begin ==
  /\ run = Nothing /\ store # Nothing
  /\ run' = [pc |-> "list", left |-> {}, page |-> Nothing, todo |-> <<>>, refresh |-> FALSE,
             state |-> [cursor |-> [id |-> store.id, after |-> Len(store.log)]]]
  /\ UNCHANGED <<storeVars, stored>>

List ==
  /\ run # Nothing /\ run.pc = "list" /\ store # Nothing
  /\ run' = [run EXCEPT !.pc = "page", !.left = Authorized,
                        !.state = [cursor |-> @.cursor, names |-> AuthorizedNames,
                                   messages |-> <<>>]]
  /\ UNCHANGED <<storeVars, stored>>

\* search_replica_messages reads the checkpoint and compares the cursor with
\* it, and then reads the rows, without a transaction around the two.
OpenPage(c) ==
  /\ run # Nothing /\ run.pc = "page" /\ c \in run.left /\ store # Nothing
  /\ run.page # Nothing =>
       /\ run.page.conversation = c
       /\ run.page.id = store.id /\ run.page.checkpoint = store.checkpoint
  /\ run' = [run EXCEPT !.pc = "select",
                        !.page = [id |-> store.id, checkpoint |-> store.checkpoint,
                                  after |-> IF @ = Nothing THEN 0 ELSE @.after,
                                  conversation |-> c]]
  /\ UNCHANGED <<storeVars, stored>>

\* (mutant) the change cursor is taken after the messages were read
SelectPageLate ==
  /\ run # Nothing /\ run.pc = "select" /\ store # Nothing
  /\ LET c == run.page.conversation
         after == run.page.after
         left == IF More(c, after) THEN run.left ELSE run.left \ {c}
     IN  run' = [run EXCEPT !.pc = IF left = {} THEN "changes" ELSE "page", !.left = left,
                            !.state.messages = Put(@, Selected(c, after)),
                            !.state.cursor.after = Len(store.log),
                            !.page = IF More(c, after) THEN [@ EXCEPT !.after = Max(Selected(c, after))]
                                                       ELSE Nothing]
  /\ UNCHANGED <<storeVars, stored>>

SelectPage ==
  /\ run # Nothing /\ run.pc = "select"
  /\ LET c == run.page.conversation
         after == run.page.after
         left == IF More(c, after) THEN run.left ELSE run.left \ {c}
     IN  run' = [run EXCEPT !.pc = IF left = {} THEN "changes" ELSE "page", !.left = left,
                            !.state.messages = Put(@, Selected(c, after)),
                            !.page = IF More(c, after) THEN [@ EXCEPT !.after = Max(Selected(c, after))]
                                                       ELSE Nothing]
  /\ UNCHANGED <<storeVars, stored>>

Resume ==
  /\ run = Nothing /\ stored # Nothing
  /\ run' = [pc |-> "changes", left |-> {}, page |-> Nothing, todo |-> <<>>, refresh |-> FALSE,
             state |-> stored]
  /\ UNCHANGED <<storeVars, stored>>

GetChanges ==
  /\ run # Nothing /\ run.pc = "changes" /\ Resumable(run.state.cursor)
  /\ LET scanned == Scanned(run.state.cursor)
         todo == ReleasedOf(scanned)
     IN  run' = [run EXCEPT !.pc = IF scanned = <<>>
                                     THEN IF run.refresh THEN "relist" ELSE "write"
                                     ELSE IF todo = <<>> THEN "changes" ELSE "apply",
                            !.state.cursor.after = @ + Len(scanned), !.todo = todo]
  /\ UNCHANGED <<storeVars, stored>>

\* A removal is taken from the change, anything else from the replica.
Refreshed(messages, change) ==
  IF change.kind # "removed" /\ change.entity \in DOMAIN store.records
    THEN Put(messages, {change.entity})
    ELSE Drop(messages, change.entity)

ApplyChange ==
  /\ run # Nothing /\ run.pc = "apply" /\ store # Nothing
  /\ LET change == Head(run.todo)
     IN  run' = [run EXCEPT !.todo = Tail(@),
                            !.pc = IF Len(run.todo) = 1 THEN "changes" ELSE "apply",
                            !.refresh = @ \/ change.entity \in Conversation,
                            !.state.messages = IF change.entity \in Message
                                                 THEN Refreshed(@, change) ELSE @]
  /\ UNCHANGED <<storeVars, stored>>

Relist ==
  /\ run # Nothing /\ run.pc = "relist" /\ store # Nothing
  /\ run' = [run EXCEPT !.pc = "write", !.state.names = AuthorizedNames]
  /\ UNCHANGED <<storeVars, stored>>

Write ==
  /\ run # Nothing /\ run.pc = "write"
  /\ stored' = run.state
  /\ run' = Nothing
  /\ UNCHANGED storeVars

\* A refused cursor, any other error, or the end of the process
End ==
  /\ run # Nothing
  /\ run' = Nothing
  /\ UNCHANGED <<storeVars, stored>>

\* A replica is replaced with the connector stopped, not within a request.
ConsumerNext ==
  \/ Synchronizing /\ UNCHANGED consumerVars
  \/ Replacing /\ (run # Nothing => run.pc # "select") /\ UNCHANGED consumerVars
  \/ Begin \/ List \/ SelectPage \/ Resume \/ GetChanges \/ ApplyChange \/ Relist
  \/ Write \/ End
  \/ \E c \in Authorized : OpenPage(c)

ConsumerSpec == ConsumerInit /\ [][ConsumerNext]_vars

\* The same, with replicas that are recovered from a backup
RecoverySpec ==
  ConsumerInit /\ [][\/ ConsumerNext
                     \/ Recovering /\ (run # Nothing => run.pc # "select")
                                   /\ UNCHANGED consumerVars]_vars

-----------------------------------------------------------------------------
Same(messages, m) ==
  /\ m \in DOMAIN messages <=> m \in DOMAIN store.records
  /\ m \in DOMAIN messages => messages[m] = store.records[m]

Pending(state, entity) ==
  \E i \in DOMAIN store.log : i > state.cursor.after /\ store.log[i].entity = entity

\* The stored copy is the replica's, but for what the change stream still has
\* to say to it, whatever was committed while it was read and wherever a run
\* ended.
NothingMissed ==
  stored # Nothing /\ Resumable(stored.cursor) =>
    /\ \A m \in Message :
         Home[m] \in Authorized => Same(stored.messages, m) \/ Pending(stored, m)
    /\ \A c \in Authorized : stored.names[c] = store.names[c] \/ Pending(stored, c)

\* The last a stream says of a message is whether the replica holds it.
LogExplains ==
  store # Nothing =>
    \A m \in Message, i \in DOMAIN store.log :
      /\ store.log[i].entity = m
      /\ \A j \in i + 1 .. Len(store.log) : store.log[j].entity # m
      => (store.log[i].kind = "removed" <=> m \notin DOMAIN store.records)
=============================================================================
