---- MODULE ResourceStore ----
(***************************************************************************)
(* ReportResource and Delete as they run: concurrent request handlers,     *)
(* an idempotency check outside the transaction, a serializable            *)
(* transaction that reads the resource and writes back what it computed    *)
(* from what it read, and the retry loops around it.  Postgres is modelled *)
(* by what HandleSerializableTransaction relies on: a transaction whose    *)
(* reads are stale does not commit (SQLSTATE 40001), and unique indexes    *)
(* refuse a second row.                                                    *)
(***************************************************************************)
EXTENDS Inventory

CONSTANTS Handlers,                  \* request handlers, one request each
          ServerTxIds,               \* ids getNextTransactionID can generate
          IdempotencyCheckEnabled,   \* consistency.idempotency-check-enabled
          MaxSerializationRetries,   \* storage.max-serialization-retries
          NoRequest

ASSUME RetriesAssumption == MaxSerializationRetries \in Nat
ASSUME ServerTxIdsAssumption == ServerTxIds \subseteq TxIds
ASSUME IdempotencyAssumption == IdempotencyCheckEnabled \in BOOLEAN

VARIABLES pc,         \* where each handler is
          req,        \* its request
          snap,       \* what its transaction read: the row and the last common version
          attempts,   \* serialization attempts of the current transaction
          issued,     \* server-generated ids handed out so far
          applied     \* history: handlers whose transaction took effect

handlerVars == <<pc, req, snap, attempts, issued, applied>>
vars == <<row, common, reps, outbox, pc, req, snap, attempts, issued, applied>>

Request ==
  [op : {"report", "delete"}, key : Keys, ws : Workspaces \cup {NoWorkspace},
   rep : BOOLEAN, txid : TxIds \cup {NoTxId}, retried : BOOLEAN]

Snapshot == [row : Resource \cup {NoRow}, last : Version]
NoSnapshot == [row |-> NoRow, last |-> NoVersion]

\* "commitfailed": the caller got "committing transaction failed".
Answered == {"ok", "skipped", "notfound", "failed", "commitfailed"}
States == {"idle", "check", "begin", "commit"} \cup Answered

HandlerTypeOK ==
  /\ pc \in [Handlers -> States]
  /\ req \in [Handlers -> Request \cup {NoRequest}]
  /\ \A h \in Handlers : pc[h] # "idle" => req[h] \in Request
  /\ snap \in [Handlers -> Snapshot]
  /\ attempts \in [Handlers -> Nat]
  /\ issued \in SUBSET ServerTxIds
  /\ applied \in SUBSET Handlers

TypeOK == InventoryTypeOK /\ HandlerTypeOK

Init ==
  /\ InventoryInit
  /\ pc = [h \in Handlers |-> "idle"]
  /\ req = [h \in Handlers |-> NoRequest]
  /\ snap = [h \in Handlers |-> NoSnapshot]
  /\ attempts = [h \in Handlers |-> 0]
  /\ issued = {}
  /\ applied = {}

Goto(h, state) == pc' = [pc EXCEPT ![h] = state]

\* A transaction ends, and what it read is forgotten.
EndTransaction(h) == snap' = [snap EXCEPT ![h] = NoSnapshot]

\* The handler answers; its locals go out of scope.
Return(h, answer) ==
  /\ Goto(h, answer)
  /\ EndTransaction(h)
  /\ attempts' = [attempts EXCEPT ![h] = 0]

----
(* Requests arrive *)

\* getNextTransactionID: a UUID, so never one that was generated before.
\* Generated ids are interchangeable.
NextTransactionID == CHOOSE t \in ServerTxIds : t \notin issued

\* A mistaken variant: the id is not carried over to the representations.
ReceiveReport_NoId(h, k, ws, rep, t) ==
  /\ pc[h] = "idle"
  /\ ws # NoWorkspace \/ rep
  /\ req' = [req EXCEPT ![h] =
       [op |-> "report", key |-> k, ws |-> ws, rep |-> rep, txid |-> NoTxId, retried |-> FALSE]]
  /\ Goto(h, "check")
  /\ UNCHANGED <<inventoryVars, snap, attempts, issued, applied>>

\* The generated id replaces the client's when the request carries none. A
\* client that retries sends its id again.
ReceiveReport(h, k, ws, rep, t) ==
  /\ pc[h] = "idle"
  /\ ws # NoWorkspace \/ rep
  /\ req' = [req EXCEPT ![h] =
       [op |-> "report", key |-> k, ws |-> ws, rep |-> rep, txid |-> t, retried |-> FALSE]]
  /\ issued' = issued \cup ({t} \cap ServerTxIds)
  /\ Goto(h, "check")
  /\ UNCHANGED <<inventoryVars, snap, attempts, applied>>

ReceiveDelete(h, k) ==
  /\ pc[h] = "idle"
  /\ req' = [req EXCEPT ![h] =
       [op |-> "delete", key |-> k, ws |-> NoWorkspace, rep |-> FALSE, txid |-> NoTxId, retried |-> FALSE]]
  /\ Goto(h, "begin")
  /\ UNCHANGED <<inventoryVars, snap, attempts, issued, applied>>

\* Read outside the transaction, so that it takes no predicate lock.
CheckIdempotency(h) ==
  /\ pc[h] = "check"
  /\ IF IdempotencyCheckEnabled /\ HasTransactionIdBeenProcessed(req[h].txid)
     THEN Return(h, "skipped")
     ELSE Goto(h, "begin") /\ UNCHANGED <<snap, attempts>>
  /\ UNCHANGED <<inventoryVars, req, issued, applied>>

----
(* One attempt of the serializable transaction *)

\* FindResourceByKeys inside the transaction fixes its snapshot.
Begin(h) ==
  /\ pc[h] = "begin"
  /\ attempts[h] < MaxSerializationRetries
  /\ LET k == req[h].key
     IN  IF req[h].op = "delete" /\ row[k] = NoRow THEN Return(h, "notfound")
         ELSE /\ snap' = [snap EXCEPT ![h] = [row |-> row[k], last |-> LastCommonVersion(k)]]
              /\ Goto(h, "commit")
              /\ UNCHANGED attempts
  /\ UNCHANGED <<inventoryVars, req, issued, applied>>

\* A mistaken variant: only the common versions are read in the transaction.
Stale_RowUnchecked(h) == snap[h].last # LastCommonVersion(req[h].key)

\* What was read has changed: another transaction committed, or the consumer
\* updated the consistency token.
Stale(h) ==
  LET k == req[h].key
  IN  snap[h].row # row[k] \/ snap[h].last # LastCommonVersion(k)

\* A mistaken variant: the attempts are not counted.
SerializationFailure_Uncounted(h) ==
  /\ pc[h] = "commit"
  /\ EndTransaction(h)
  /\ Goto(h, "begin")
  /\ UNCHANGED <<inventoryVars, req, attempts, issued, applied>>

\* 40001: always when the reads are stale; otherwise possible as well, since
\* SSI aborts on dangerous structures that need not be real conflicts.
SerializationFailure(h) ==
  /\ pc[h] = "commit"
  /\ EndTransaction(h)
  /\ attempts' = [attempts EXCEPT ![h] = @ + 1]
  /\ Goto(h, "begin")
  /\ UNCHANGED <<inventoryVars, req, issued, applied>>

\* Any other error, of the check or of a statement of the transaction, is
\* returned after a rollback: a lost connection, or the unique index of
\* reporter_resources that a concurrent create of the same key has filled.
OperationFails(h) ==
  /\ pc[h] \in {"check", "begin", "commit"}
  /\ Return(h, "failed")
  /\ UNCHANGED <<inventoryVars, req, issued, applied>>

Exhausted(h) ==
  /\ pc[h] = "begin"
  /\ attempts[h] >= MaxSerializationRetries
  /\ Return(h, "failed")
  /\ UNCHANGED <<inventoryVars, req, issued, applied>>

\* Everything written is computed from the snapshot.
Writes(h) ==
  LET q == req[h] IN Reported(snap[h].row, snap[h].last, q.ws, q.rep, q.txid)

\* The transaction takes effect. When the connection breaks before COMMIT is
\* answered, the error is not a 40001: the caller is told of a failure.
Committed(h) ==
  /\ applied' = applied \cup {h}
  /\ Return(h, "ok") \/ Return(h, "commitfailed")
  /\ UNCHANGED <<req, issued>>

\* The connection breaks before COMMIT is received.
CommitLost(h) ==
  /\ pc[h] = "commit"
  /\ Return(h, "commitfailed")
  /\ UNCHANGED <<inventoryVars, req, issued, applied>>

CommitReport(h) ==
  LET w == Writes(h)
  IN  /\ pc[h] = "commit"
      /\ req[h].op = "report"
      /\ ~Stale(h)
      /\ Save(req[h].key, w.r, w.cs, w.rs, w.op)
      /\ Committed(h)

\* A mistaken variant: the duplicate is taken for a success.
DuplicateTransaction_Swallowed(h) ==
  /\ pc[h] = "commit"
  /\ req[h].op = "report"
  /\ ~Stale(h)
  /\ LET w == Writes(h)
     IN  ~(PrimaryKeysFree(req[h].key, w.cs, w.rs) /\ TxIdsFree(w.cs, w.rs))
  /\ Return(h, "ok")
  /\ UNCHANGED <<inventoryVars, req, issued, applied>>

\* Any duplicate key of a representation table is taken for a reused
\* transaction id: an error for the client, unless the idempotency check is
\* off; then one more transaction with a generated id.
DuplicateTransaction(h) ==
  /\ pc[h] = "commit"
  /\ req[h].op = "report"
  /\ ~Stale(h)
  /\ LET w == Writes(h)
     IN  ~(PrimaryKeysFree(req[h].key, w.cs, w.rs) /\ TxIdsFree(w.cs, w.rs))
  /\ \/ /\ IdempotencyCheckEnabled \/ req[h].retried
        /\ Return(h, "failed")
        /\ UNCHANGED <<req, issued>>
     \/ /\ ~IdempotencyCheckEnabled /\ ~req[h].retried
        /\ ServerTxIds # issued
        /\ req' = [req EXCEPT ![h].txid = NextTransactionID, ![h].retried = TRUE]
        /\ issued' = issued \cup {NextTransactionID}
        /\ EndTransaction(h)
        /\ attempts' = [attempts EXCEPT ![h] = 0]
        /\ Goto(h, "begin")
  /\ UNCHANGED <<inventoryVars, applied>>

\* Saving a tombstoned resource rewrites the row it read and publishes nothing.
CommitDelete(h) ==
  LET k == req[h].key
      r == Delete(snap[h].row)
  IN  /\ pc[h] = "commit"
      /\ req[h].op = "delete"
      /\ ~Stale(h)
      /\ IF snap[h].row.tomb
         THEN /\ row' = [row EXCEPT ![k] = r]
              /\ UNCHANGED <<common, reps, outbox>>
         ELSE Save(k, r, {}, DeletedReporter(r), "deleted")
      /\ Committed(h)

----
\* The consumer stores the token of a later write of the tuple store.
StoreToken(k) ==
  /\ row[k] # NoRow
  /\ \E token \in Tokens : token > row[k].ktn /\ UpdateConsistencyToken(k, token)
  /\ UNCHANGED handlerVars

Receive(h) ==
  \E k \in Keys :
    \/ \E ws \in Workspaces \cup {NoWorkspace}, rep \in BOOLEAN :
         \/ \E t \in TxIds \ ServerTxIds : ReceiveReport(h, k, ws, rep, t)
         \/ ServerTxIds # issued /\ ReceiveReport(h, k, ws, rep, NextTransactionID)
    \/ ReceiveDelete(h, k)

Handle(h) ==
  \/ CheckIdempotency(h)
  \/ Begin(h)
  \/ SerializationFailure(h)
  \/ OperationFails(h)
  \/ Exhausted(h)
  \/ CommitLost(h)
  \/ CommitReport(h)
  \/ DuplicateTransaction(h)
  \/ CommitDelete(h)

Next ==
  \/ \E h \in Handlers : Receive(h) \/ Handle(h)
  \/ \E k \in Keys : StoreToken(k)

\* A goroutine that can run does; requests and the consumer may stop coming.
Spec == Init /\ [][Next]_vars /\ \A h \in Handlers : WF_vars(Handle(h))

----
(* Properties *)

ReportsIn(state) == {h \in Handlers : pc[h] = state /\ req[h].op = "report"}
ReportEvents == {i \in 1 .. Len(outbox) : outbox[i].op # "deleted"}

\* A report that was acknowledged published exactly one event; one whose
\* commit failed published one or none, since the answer of COMMIT may have
\* been lost; one that was skipped, refused, failed otherwise or still runs
\* published none.
OneEventPerReport ==
  LET acknowledged == Cardinality(ReportsIn("ok"))
      uncertain    == Cardinality(ReportsIn("commitfailed"))
  IN  Cardinality(ReportEvents) \in acknowledged .. acknowledged + uncertain

\* Requests that repeat a transaction id with the same payload, as a client
\* does after a timeout or an error, are applied once: even when both pass
\* the advisory check before either commits, and even when the first took
\* effect but its caller was told that the commit failed.
AppliedOnce ==
  IdempotencyCheckEnabled =>
    \A h, i \in applied :
      /\ h # i
      /\ req[h].op = "report" /\ req[i].op = "report"
      /\ req[h].key = req[i].key /\ req[h].ws = req[i].ws /\ req[h].rep = req[i].rep
      => req[h].txid # req[i].txid

\* Save writes back every column it read, the consistency token included;
\* it never overwrites a token the consumer stored meanwhile with an older one.
TokenNotLost ==
  [][\A k \in Keys : row[k] # NoRow => row'[k].ktn >= row[k].ktn]_vars

\* Every request gets an answer, whatever the conflicts.
EveryRequestAnswered ==
  \A h \in Handlers :
    pc[h] # "idle" ~> pc[h] \in Answered
====
