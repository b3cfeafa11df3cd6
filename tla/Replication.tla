---- MODULE Replication ----
(***************************************************************************)
(* From the outbox to the relation tuples: InventoryConsumer reads the     *)
(* tuple events in order, works out from the database which workspace      *)
(* tuples to create and delete, writes them, stores the consistency token  *)
(* on the resource, and commits offsets in batches.  It stops on what it   *)
(* cannot process, may crash anywhere, and resumes at the committed offset. *)
(*                                                                         *)
(* The log is the outbox: Debezium and Kafka (external) deliver it in      *)
(* commit order on one partition; the event at offset o is outbox[o + 1].  *)
(* The consumer owns the partition throughout: rebalances and the fencing  *)
(* of tuple writes are the subject of ConsumerGroup.                       *)
(***************************************************************************)
EXTENDS Inventory

CONSTANTS CommitModulo,          \* consumer.commit-modulo
          OperationMaxRetries,   \* attempts of one tuple operation
          ConsumerMaxRetries,    \* consumers that one process creates
          UnderflowRejected,     \* the driver refuses version 2^64 - 1 as a bigint
          MaxEvents,             \* bound: events published
          MaxFailures,           \* bound: failed calls, crashes and terminations
          MaxProcesses           \* bound: processes started

ASSUME CommitModuloAssumption == CommitModulo \in Nat \ {0}
ASSUME RetriesAssumption == OperationMaxRetries \in Nat \ {0} /\ ConsumerMaxRetries \in Nat \ {0}
ASSUME UnderflowAssumption == UnderflowRejected \in BOOLEAN

VARIABLES tuples,      \* the workspaces each key's resource is bound to in the tuple store
          rev,         \* revision of the tuple store; a consistency token names one
          cpc,         \* where the consume loop is
          pos,         \* offset of the current or next message
          work,        \* tuples to create and delete for the current message
          attempts,    \* failed attempts of the current tuple operation
          token,       \* token the current tuple operation returned, 0 for ""
          stored,      \* OffsetStorage
          committed,   \* offset committed at the broker
          retries,     \* consumers of this process that ended: serve.go's retries
          failures,    \* failures so far
          processes,   \* processes so far
          done,        \* history: offsets whose tuple writes were completed
          created,     \* history: key -> revision of the last create of its tuples
          untokened    \* history: offsets passed over because their token was not stored

messageVars == <<work, attempts, token>>
tupleVars == <<tuples, rev, created, done>>
processVars == <<retries, processes>>
consumerVars == <<messageVars, tupleVars, processVars, cpc, pos, stored, committed, failures, untokened>>
vars == <<row, common, reps, outbox, consumerVars>>

NoWork == [create |-> {}, delete |-> {}]

TypeOK ==
  /\ InventoryTypeOK
  /\ tuples \in [Keys -> SUBSET Workspaces]
  /\ rev \in Nat
  /\ cpc \in {"poll", "create", "delete", "token", "store", "commit", "stopping", "down", "exited"}
  /\ pos \in 0 .. Len(outbox)
  /\ work \in [create : SUBSET Workspaces, delete : SUBSET Workspaces]
  /\ attempts \in 0 .. OperationMaxRetries
  /\ token \in 0 .. rev
  /\ stored \in Seq(Nat)
  /\ committed \in Nat
  /\ failures \in 0 .. MaxFailures
  /\ done \in SUBSET Nat
  /\ created \in [Keys -> 0 .. rev]
  /\ untokened \in SUBSET Nat
  /\ retries \in 0 .. ConsumerMaxRetries
  /\ processes \in 1 .. MaxProcesses

Init ==
  /\ InventoryInit
  /\ tuples = [k \in Keys |-> {}]
  /\ rev = 0
  /\ cpc = "poll"
  /\ pos = 0
  /\ work = NoWork
  /\ attempts = 0
  /\ token = 0
  /\ stored = <<>>
  /\ committed = 0
  /\ failures = 0
  /\ done = {}
  /\ created = [k \in Keys |-> 0]
  /\ untokened = {}
  /\ retries = 0
  /\ processes = 1

Fail == failures < MaxFailures /\ failures' = failures + 1

\* The locals of one message go out of scope.
EndMessage == work' = NoWork /\ attempts' = 0 /\ token' = 0

----
(* The producers: Inventory's operations, with generated transaction ids   *)

FreshTxId == CHOOSE t \in TxIds : ~HasTransactionIdBeenProcessed(t)

Produce ==
  /\ Len(outbox) < MaxEvents
  /\ \E t \in TxIds : ~HasTransactionIdBeenProcessed(t)
  /\ \E k \in Keys :
       \/ \E ws \in Workspaces \cup {NoWorkspace} : Report(k, ws, TRUE, FreshTxId)
       \/ DeleteResource(k)
  /\ UNCHANGED consumerVars

----
(* Reading the representations of the current message *)

Message == outbox[pos + 1]

WorkspaceAt(k, v) ==
  IF \E c \in common[k] : c.version = v
  THEN (CHOOSE c \in common[k] : c.version = v).ws ELSE NoWorkspace

\* FindCurrentAndPreviousVersionedRepresentations, for created and updated
CurrentWorkspace(e) ==
  IF e.cv = NoVersion THEN NoWorkspace ELSE WorkspaceAt(e.key, e.cv)

\* A mistaken variant: the previous version is not looked up.
PreviousWorkspace_Missing(e) == NoWorkspace

PreviousWorkspace(e) ==
  IF e.cv = NoVersion \/ e.op = "created" \/ e.cv = 0 THEN NoWorkspace
  ELSE WorkspaceAt(e.key, e.cv - 1)

\* FindLatestRepresentations, for deleted: the latest when the message is
\* processed, not when the resource was deleted.
LatestWorkspace(k) == WorkspaceAt(k, LastCommonVersion(k))

\* The two queries that can only fail: no common representation to read for a
\* delete, and version - 1 of an unsigned version 0.
Unprocessable(e) ==
  \/ e.op = "deleted" /\ LatestWorkspace(e.key) = NoWorkspace
  \/ e.op = "updated" /\ e.cv = 0 /\ UnderflowRejected

TuplesFor(e) ==
  IF e.op = "deleted" THEN CalculateTuples(NoWorkspace, LatestWorkspace(e.key))
  ELSE CalculateTuples(CurrentWorkspace(e), PreviousWorkspace(e))

----
(* The consume loop *)

FirstCall(w) ==
  IF w.create # {} THEN "create" ELSE IF w.delete # {} THEN "delete" ELSE "token"

Poll ==
  /\ cpc = "poll"
  /\ pos < Len(outbox)
  /\ ~Unprocessable(Message)
  /\ work' = TuplesFor(Message)
  /\ cpc' = FirstCall(TuplesFor(Message))
  /\ done' = IF TuplesFor(Message) = NoWork THEN done \cup {pos} ELSE done
  /\ UNCHANGED <<inventoryVars, processVars, attempts, token, tuples, rev, created, pos, stored, committed, failures, untokened>>

\* The loop ends at a message it cannot process, without storing its offset.
StopConsuming ==
  /\ cpc' = "stopping"
  /\ EndMessage

\* A mistaken variant: the message is passed over and the loop goes on.
PollFails_Skips ==
  /\ cpc = "poll"
  /\ pos < Len(outbox)
  /\ IF Unprocessable(Message) THEN UNCHANGED failures ELSE Fail
  /\ pos' = pos + 1
  /\ UNCHANGED <<inventoryVars, messageVars, tupleVars, processVars, cpc, stored, committed, untokened>>

\* The database refuses the query, now or always.
PollFails ==
  /\ cpc = "poll"
  /\ pos < Len(outbox)
  /\ IF Unprocessable(Message) THEN UNCHANGED failures ELSE Fail
  /\ StopConsuming
  /\ UNCHANGED <<inventoryVars, tupleVars, retries, processes, pos, stored, committed, untokened>>

\* One write of the tuple store (external): create upserts, delete matches by
\* filter, so repeating either is harmless.
Apply(call) ==
  /\ tuples' = [tuples EXCEPT ![Message.key] =
                  IF call = "create" THEN @ \cup work.create ELSE @ \ work.delete]
  /\ rev' = rev + 1
  /\ created' = IF call = "create" THEN [created EXCEPT ![Message.key] = rev'] ELSE created

CreateTuple ==
  /\ cpc = "create"
  /\ Apply("create")
  /\ token' = rev'
  /\ cpc' = IF work.delete # {} THEN "delete" ELSE "token"
  /\ done' = IF work.delete # {} THEN done ELSE done \cup {pos}
  /\ UNCHANGED <<inventoryVars, processVars, pos, work, attempts, stored, committed, failures, untokened>>

\* An update keeps the token of its create.
DeleteTuple ==
  /\ cpc = "delete"
  /\ Apply("delete")
  /\ token' = IF token = 0 THEN rev' ELSE token
  /\ cpc' = "token"
  /\ done' = done \cup {pos}
  /\ UNCHANGED <<inventoryVars, processVars, pos, work, attempts, stored, committed, failures, untokened>>

\* A mistaken variant: the error of a tuple call is only logged.
TupleCallFails_Ignored ==
  /\ cpc \in {"create", "delete"}
  /\ Fail
  /\ cpc' = "token"
  /\ UNCHANGED <<inventoryVars, messageVars, tupleVars, processVars, pos, stored, committed, untokened>>

\* Retry repeats the whole operation, create first; the failed call may or
\* may not have taken effect.
TupleCallFails ==
  /\ cpc \in {"create", "delete"}
  /\ Fail
  /\ UNCHANGED <<tuples, rev, created>> \/ Apply(cpc)
  /\ \/ /\ attempts + 1 < OperationMaxRetries
        /\ cpc' = FirstCall(work)
        /\ attempts' = attempts + 1
        /\ token' = 0
        /\ UNCHANGED work
     \/ /\ attempts + 1 >= OperationMaxRetries
        /\ StopConsuming
  /\ UNCHANGED <<inventoryVars, retries, processes, pos, stored, committed, done, untokened>>

\* A mistaken variant: only a creation stores its token.
StoreToken_OnlyCreated ==
  /\ cpc = "token"
  /\ IF Message.op = "created" /\ token # 0
     THEN UpdateConsistencyToken(Message.key, token) ELSE UNCHANGED inventoryVars
  /\ untokened' = untokened \ {pos}
  /\ cpc' = "store"
  /\ EndMessage
  /\ UNCHANGED <<tupleVars, processVars, pos, stored, committed, failures>>

\* UPDATE resource SET ktn, for a message that is not a delete and whose
\* operation returned a token.
StoreToken ==
  /\ cpc = "token"
  /\ IF Message.op # "deleted" /\ token # 0
     THEN UpdateConsistencyToken(Message.key, token) ELSE UNCHANGED inventoryVars
  /\ untokened' = untokened \ {pos}
  /\ cpc' = "store"
  /\ EndMessage
  /\ UNCHANGED <<tupleVars, processVars, pos, stored, committed, failures>>

\* The message is passed over: its offset is not stored, and it is not read
\* again unless a new consumer starts before it.
StoreTokenFails ==
  /\ cpc = "token"
  /\ Message.op # "deleted" /\ token # 0
  /\ Fail
  /\ untokened' = untokened \cup {pos}
  /\ cpc' = "poll"
  /\ pos' = pos + 1
  /\ EndMessage
  /\ UNCHANGED <<inventoryVars, tupleVars, processVars, stored, committed>>

checkIfCommit(offset) == offset % CommitModulo = 0

StoreOffset ==
  /\ cpc = "store"
  /\ stored' = Append(stored, pos)
  /\ cpc' = IF checkIfCommit(pos) THEN "commit" ELSE "poll"
  /\ pos' = pos + 1
  /\ UNCHANGED <<inventoryVars, messageVars, tupleVars, processVars, committed, failures, untokened>>

\* The broker keeps the last of the offsets it is sent. A message's own
\* offset is committed, so a restart reads that message again.
CommitStoredOffsets ==
  /\ committed' = IF stored = <<>> THEN committed ELSE stored[Len(stored)]
  /\ stored' = <<>>

Commit ==
  /\ cpc = "commit"
  /\ cpc' = "poll"
  /\ CommitStoredOffsets
  /\ UNCHANGED <<inventoryVars, messageVars, tupleVars, processVars, pos, failures, untokened>>

\* The offsets are put back.
CommitFails ==
  /\ cpc = "commit"
  /\ Fail
  /\ cpc' = "poll"
  /\ UNCHANGED <<inventoryVars, messageVars, tupleVars, processVars, pos, stored, committed, untokened>>

----
(* Ends and new beginnings *)

\* A mistaken variant: without stored offsets the consumer is not closed.
Shutdown_OnlyWithOffsets ==
  /\ cpc = "stopping"
  /\ stored # <<>>
  /\ CommitStoredOffsets
  /\ retries' = retries + 1
  /\ cpc' = IF retries' < ConsumerMaxRetries THEN "down" ELSE "exited"
  /\ pos' = 0
  /\ UNCHANGED <<inventoryVars, messageVars, tupleVars, processes, untokened, failures>>

\* Shutdown commits what is stored, or fails to, and closes the consumer.
\* serve.go counts the consumers that ended and gives up at the maximum.
Shutdown ==
  /\ cpc = "stopping"
  /\ \/ CommitStoredOffsets /\ UNCHANGED failures
     \/ Fail /\ stored' = <<>> /\ UNCHANGED committed
  /\ retries' = retries + 1
  /\ cpc' = IF retries' < ConsumerMaxRetries THEN "down" ELSE "exited"
  /\ pos' = 0
  /\ UNCHANGED <<inventoryVars, messageVars, tupleVars, processes, untokened>>

\* consumer.New: start at the committed offset (the earliest when there is none).
Restart ==
  /\ cpc = "down"
  /\ cpc' = "poll"
  /\ pos' = committed
  /\ UNCHANGED <<inventoryVars, messageVars, tupleVars, processVars, stored, committed, failures, untokened>>

\* SIGTERM between two messages: Shutdown, and the process exits.
Terminate ==
  /\ cpc = "poll"
  /\ Fail
  /\ CommitStoredOffsets
  /\ cpc' = "exited"
  /\ pos' = 0
  /\ UNCHANGED <<inventoryVars, messageVars, tupleVars, processVars, untokened>>

\* Whatever the consumer holds in memory is lost.
Crash ==
  /\ cpc # "exited"
  /\ Fail
  /\ cpc' = "exited"
  /\ stored' = <<>>
  /\ pos' = 0
  /\ EndMessage
  /\ UNCHANGED <<inventoryVars, tupleVars, processVars, committed, untokened>>

\* The platform (external) starts a process again.
StartProcess ==
  /\ cpc = "exited"
  /\ processes < MaxProcesses
  /\ processes' = processes + 1
  /\ retries' = 0
  /\ cpc' = "down"
  /\ UNCHANGED <<inventoryVars, messageVars, tupleVars, pos, stored, committed, failures, untokened>>

Consume ==
  \/ Poll \/ PollFails
  \/ CreateTuple \/ DeleteTuple \/ TupleCallFails
  \/ StoreToken \/ StoreTokenFails
  \/ StoreOffset \/ Commit \/ CommitFails
  \/ Shutdown \/ Restart \/ StartProcess

Next == Produce \/ Consume \/ Terminate \/ Crash

\* The loop runs whenever it can and an exited process is started again;
\* nobody need report.
Spec == Init /\ [][Next]_vars /\ WF_vars(Consume)

----
(* Properties *)

CaughtUp == cpc = "poll" /\ pos = Len(outbox)

\* An offset is committed only when the tuple writes of every message before
\* it were completed: whatever crashes, fails or is retried, no message is
\* dropped. (Offsets are stored after processing, and passed over only when
\* the tuples are written.)
CommittedIsApplied == \A o \in 0 .. committed - 1 : o \in done

\* When the consumer has caught up, a resource is bound to no workspace but
\* the last one reported, and a deleted resource to none, although a delete
\* reads the latest representation rather than the one it deleted and although
\* messages are replayed after a crash.
NoStaleTuples ==
  CaughtUp => \A k \in Keys :
    /\ tuples[k] \subseteq {LatestWorkspace(k)}
    /\ row[k] # NoRow /\ row[k].tomb => tuples[k] = {}

\* The resource was deleted at some event, and every workspace reported from
\* the last one before that event on is the same.
RevivedInPlace(k) ==
  \E d \in 1 .. Len(outbox) :
    /\ outbox[d].key = k /\ outbox[d].op = "deleted"
    /\ \A c \in common[k] :
         (\A i \in 1 .. d : outbox[i].key = k => outbox[i].cv <= c.version)
           => c.ws = LatestWorkspace(k)

\* When the consumer has caught up, a live resource is bound to the workspace
\* last reported, unless it was revived in the workspace it was deleted in.
LiveIsReplicated ==
  CaughtUp => \A k \in Keys :
    row[k] # NoRow /\ ~row[k].tomb /\ ~RevivedInPlace(k)
      => tuples[k] = {LatestWorkspace(k)} \ {NoWorkspace}

\* What the lifecycle test says of reviving: re-reporting restores access.
RevivedHasAccess ==
  CaughtUp => \A k \in Keys :
    row[k] # NoRow /\ row[k].cv # NoVersion /\ ~row[k].tomb
      => tuples[k] = {LatestWorkspace(k)}

\* The stored token covers the last creation of the resource's tuple, except
\* after a token update that failed and was passed over.
TokenCoversCreate ==
  CaughtUp => \A k \in Keys :
    row[k] # NoRow /\ (\A o \in untokened : outbox[o + 1].key # k)
      => row[k].ktn >= created[k]

\* The consumer catches up for good, unless it is stuck at a message that it
\* can never process.
EventuallyCaughtUp ==
  <>[](CaughtUp \/ \E o \in committed .. Len(outbox) - 1 : Unprocessable(outbox[o + 1]))
====
