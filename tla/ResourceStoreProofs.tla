---- MODULE ResourceStoreProofs ----
(***************************************************************************)
(* Concurrent handlers over serializable transactions implement the atomic *)
(* inventory, for any number of handlers, resources and retries.           *)
(*                                                                         *)
(* The argument.  A transaction commits only when what it read is still    *)
(* current (~Stale), so what it computed from its snapshot is what         *)
(* Inventory's operation computes from the database at that instant; every *)
(* other step of a handler leaves the database alone.  The invariant says  *)
(* that requests under way are ones the operations accept; the invariant   *)
(* of the inventory then carries over (StepKeepsInv), and gives the type   *)
(* of the next snapshot.                                                   *)
(***************************************************************************)
EXTENDS ResourceStore, InventoryProofs, FiniteSetTheorems

\* Most leaves are first-order: Zenon is tried before the SMT solver.
USE ZenonT(5), SMTT(30)

\* A report under way carries a representation and a transaction id; a delete
\* that goes on to commit found a resource.
RequestsWellFormed ==
  \A h \in Handlers :
    /\ pc[h] # "idle" /\ req[h].op = "report" =>
         (req[h].ws # NoWorkspace \/ req[h].rep) /\ req[h].txid \in TxIds
    /\ pc[h] = "commit" /\ req[h].op = "delete" => snap[h].row # NoRow

\* A transaction that took effect has ended, in an acknowledgement or in a
\* failed commit; an acknowledged request took effect.
AppliedReturned ==
  /\ \A h \in applied : pc[h] \in {"ok", "commitfailed"}
  /\ \A h \in Handlers : pc[h] = "ok" => h \in applied

StoreInv == InventoryInv /\ HandlerTypeOK /\ RequestsWellFormed /\ AppliedReturned

----
\* A generated id is one of the server's.
LEMMA NextTransactionIDType ==
  ASSUME HandlerTypeOK, ServerTxIds # issued
  PROVE  NextTransactionID \in ServerTxIds /\ NextTransactionID \in TxIds
<1>1. \E t \in ServerTxIds : t \notin issued  BY DEF HandlerTypeOK
<1> QED  BY <1>1, ServerTxIdsAssumption DEF NextTransactionID

\* A transaction that commits does what the atomic operation does; nothing
\* else a handler or the consumer does is visible, but for the token.
LEMMA StepRefines ==
  ASSUME StoreInv, [Next]_vars
  PROVE  [InventoryNext]_inventoryVars
<1> USE DEF StoreInv
<1>1. ASSUME NEW h \in Handlers, CommitReport(h) PROVE InventoryNext
  <2> DEFINE k == req[h].key
  <2>1. req[h] \in Request /\ req[h].op = "report" /\ pc[h] # "idle"
    BY <1>1 DEF CommitReport, HandlerTypeOK
  <2>2. k \in Keys /\ req[h].ws \in Workspaces \cup {NoWorkspace} /\ req[h].rep \in BOOLEAN
    BY <2>1 DEF Request
  <2>3. (req[h].ws # NoWorkspace \/ req[h].rep) /\ req[h].txid \in TxIds
    BY <2>1 DEF RequestsWellFormed
  <2>4. Writes(h) = Reported(row[k], LastCommonVersion(k), req[h].ws, req[h].rep, req[h].txid)
    BY <1>1 DEF CommitReport, Stale, Writes
  <2>5. Report(k, req[h].ws, req[h].rep, req[h].txid)
    BY <1>1, <2>3, <2>4 DEF CommitReport, Report
  <2> QED  BY <2>2, <2>3, <2>5 DEF InventoryNext
<1>2. ASSUME NEW h \in Handlers, CommitDelete(h) PROVE InventoryNext \/ UNCHANGED inventoryVars
  <2> DEFINE k == req[h].key
  <2>1. req[h] \in Request /\ pc[h] = "commit" /\ req[h].op = "delete"
    BY <1>2 DEF CommitDelete, HandlerTypeOK
  <2>2. k \in Keys  BY <2>1 DEF Request
  <2>3. snap[h].row = row[k] /\ row[k] # NoRow
    BY <1>2, <2>1 DEF CommitDelete, Stale, RequestsWellFormed
  <2>4. CASE row[k].tomb
    <3>1. row' = [row EXCEPT ![k] = row[k]] /\ UNCHANGED <<common, reps, outbox>>
      BY <1>2, <2>3, <2>4 DEF CommitDelete, Delete
    <3>2. row' = row  BY <2>2, <3>1 DEF InventoryInv, InventoryTypeOK
    <3> QED  BY <3>1, <3>2 DEF inventoryVars
  <2>5. CASE ~row[k].tomb
    <3>1. DeleteResource(k)  BY <1>2, <2>3, <2>5 DEF CommitDelete, DeleteResource
    <3> QED  BY <2>2, <3>1 DEF InventoryNext
  <2> QED  BY <2>4, <2>5
<1>3. ASSUME NEW k \in Keys, StoreToken(k) PROVE InventoryNext
  BY <1>3 DEF StoreToken, InventoryNext
<1>4. ASSUME NEW h \in Handlers, Receive(h) PROVE UNCHANGED inventoryVars
  BY <1>4 DEF Receive, ReceiveReport, ReceiveDelete
<1>5. ASSUME NEW h \in Handlers, Handle(h)
      PROVE  InventoryNext \/ UNCHANGED inventoryVars
  <2>1. CASE CheckIdempotency(h)  BY <2>1 DEF CheckIdempotency
  <2>2. CASE Begin(h)  BY <2>2 DEF Begin
  <2>3. CASE SerializationFailure(h)  BY <2>3 DEF SerializationFailure
  <2>4. CASE OperationFails(h) \/ CommitLost(h)  BY <2>4 DEF OperationFails, CommitLost
  <2>5. CASE Exhausted(h)  BY <2>5 DEF Exhausted
  <2>6. CASE DuplicateTransaction(h)  BY <2>6 DEF DuplicateTransaction
  <2> QED  BY <1>1, <1>2, <1>5, <2>1, <2>2, <2>3, <2>4, <2>5, <2>6 DEF Handle
<1>6. CASE UNCHANGED vars  BY <1>6 DEF vars, inventoryVars
<1> QED  BY <1>3, <1>4, <1>5, <1>6 DEF Next

\* The handlers keep their types and the requests under way stay acceptable.
LEMMA StepKeepsHandlers ==
  ASSUME StoreInv, [Next]_vars
  PROVE  HandlerTypeOK' /\ RequestsWellFormed'
<1> USE DEF StoreInv
<1> DEFINE Goal == HandlerTypeOK' /\ RequestsWellFormed'
<1>1. ASSUME NEW h \in Handlers, NEW k \in Keys, NEW ws \in Workspaces \cup {NoWorkspace},
             NEW rep \in BOOLEAN, NEW t \in TxIds, ReceiveReport(h, k, ws, rep, t)
      PROVE  Goal
  <2> DEFINE q == [op |-> "report", key |-> k, ws |-> ws, rep |-> rep, txid |-> t, retried |-> FALSE]
  <2>1. q \in Request  BY DEF Request
  <2>2. pc' = [pc EXCEPT ![h] = "check"] /\ req' = [req EXCEPT ![h] = q] /\ snap' = snap
        /\ attempts' = attempts /\ issued' \in SUBSET ServerTxIds /\ applied' = applied
    BY <1>1 DEF ReceiveReport, Goto, HandlerTypeOK
  <2>3. q.op = "report" /\ (q.ws # NoWorkspace \/ q.rep) /\ q.txid \in TxIds
    BY <1>1 DEF ReceiveReport
  <2> HIDE DEF q
  <2>4. HandlerTypeOK'  BY <2>1, <2>2 DEF HandlerTypeOK, States
  <2>5. RequestsWellFormed'  BY <2>2, <2>3 DEF HandlerTypeOK, RequestsWellFormed
  <2> QED  BY <2>4, <2>5
<1>2. ASSUME NEW h \in Handlers, NEW k \in Keys, ReceiveDelete(h, k)
      PROVE  Goal
  <2> DEFINE q == [op |-> "delete", key |-> k, ws |-> NoWorkspace, rep |-> FALSE,
                   txid |-> NoTxId, retried |-> FALSE]
  <2>1. q \in Request /\ q.op = "delete"  BY DEF Request
  <2>2. pc' = [pc EXCEPT ![h] = "begin"] /\ req' = [req EXCEPT ![h] = q] /\ snap' = snap
        /\ attempts' = attempts /\ issued' = issued /\ applied' = applied
    BY <1>2 DEF ReceiveDelete, Goto
  <2> HIDE DEF q
  <2>3. HandlerTypeOK'  BY <2>1, <2>2 DEF HandlerTypeOK, States
  <2>4. RequestsWellFormed'  BY <2>1, <2>2 DEF HandlerTypeOK, RequestsWellFormed
  <2> QED  BY <2>3, <2>4
<1>3. ASSUME NEW h \in Handlers, NEW state \in States \ {"idle", "commit"}, pc[h] # "idle",
             Goto(h, state), EndTransaction(h) \/ UNCHANGED snap, UNCHANGED <<req, issued>>,
             attempts' \in [Handlers -> Nat], applied' \in SUBSET Handlers
      PROVE  Goal
  <2>1. NoSnapshot \in Snapshot  BY DEF NoSnapshot, Snapshot, Version
  <2>2. snap' \in [Handlers -> Snapshot] /\ \A i \in Handlers : i # h => snap'[i] = snap[i]
    BY <1>3, <2>1 DEF EndTransaction, HandlerTypeOK
  <2>3. HandlerTypeOK'  BY <1>3, <2>2 DEF Goto, HandlerTypeOK
  <2>4. RequestsWellFormed'  BY <1>3, <2>2 DEF Goto, HandlerTypeOK, RequestsWellFormed
  <2> QED  BY <2>3, <2>4
<1>r. ASSUME NEW h \in Handlers, NEW state \in Answered, pc[h] # "idle",
             Return(h, state), UNCHANGED <<req, issued>>, applied' \in SUBSET Handlers
      PROVE  Goal
  <2>1. state \in States \ {"idle", "commit"}  BY <1>r DEF States, Answered
  <2>2. Goto(h, state) /\ EndTransaction(h) /\ attempts' \in [Handlers -> Nat]
    BY <1>r DEF Return, HandlerTypeOK
  <2> QED  BY <1>3, <1>r, <2>1, <2>2
<1>4. ASSUME NEW h \in Handlers, Begin(h) PROVE Goal
  <2> DEFINE k == req[h].key
             s == [row |-> row[k], last |-> LastCommonVersion(k)]
  <2>1. req[h] \in Request /\ pc[h] = "begin"  BY <1>4 DEF Begin, HandlerTypeOK
  <2>2. k \in Keys  BY <2>1 DEF Request
  <2>3. s \in Snapshot
    BY <2>2 DEF Snapshot, InventoryInv, InventoryTypeOK
  <2>4. CASE Return(h, "notfound") /\ UNCHANGED <<req, issued, applied>>
    BY <1>r, <2>1, <2>4 DEF Answered, HandlerTypeOK
  <2>5. CASE /\ snap' = [snap EXCEPT ![h] = s] /\ UNCHANGED <<req, attempts, issued, applied>>
             /\ pc' = [pc EXCEPT ![h] = "commit"] /\ (req[h].op = "delete" => s.row # NoRow)
    <3> HIDE DEF s
    <3>1. HandlerTypeOK'  BY <2>1, <2>3, <2>5 DEF HandlerTypeOK, States
    <3>2. RequestsWellFormed'  BY <2>1, <2>5 DEF HandlerTypeOK, RequestsWellFormed
    <3> QED  BY <3>1, <3>2
  <2> QED  BY <1>4, <2>4, <2>5 DEF Begin, Goto
<1>5. ASSUME NEW h \in Handlers, DuplicateTransaction(h) PROVE Goal
  <2>1. req[h] \in Request /\ pc[h] = "commit" /\ req[h].op = "report"
    BY <1>5 DEF DuplicateTransaction, HandlerTypeOK
  <2>2. CASE Return(h, "failed") /\ UNCHANGED <<req, issued, applied>>
    BY <1>r, <2>1, <2>2 DEF Answered, HandlerTypeOK
  <2>3. CASE /\ ServerTxIds # issued
             /\ req' = [req EXCEPT ![h].txid = NextTransactionID, ![h].retried = TRUE]
             /\ issued' = issued \cup {NextTransactionID}
             /\ attempts' = [attempts EXCEPT ![h] = 0]
             /\ Goto(h, "begin") /\ EndTransaction(h) /\ applied' = applied
    <3> DEFINE n == NextTransactionID
               a == [req[h] EXCEPT !.txid = n]
               b == [a EXCEPT !.retried = TRUE]
    <3>1. n \in ServerTxIds /\ n \in TxIds  BY <2>3, NextTransactionIDType
    <3> HIDE DEF n
    <3>2. a \in Request /\ a.op = "report" /\ a.ws = req[h].ws /\ a.rep = req[h].rep /\ a.txid = n
      BY <2>1, <3>1 DEF Request
    <3>3. req' = [req EXCEPT ![h] = b]  BY <2>3 DEF n
    <3> HIDE DEF a
    <3>4. b \in Request /\ b.op = "report" /\ b.ws = a.ws /\ b.rep = a.rep /\ b.txid = n
      BY <3>2 DEF Request
    <3> HIDE DEF b
    <3>5. req[h].ws # NoWorkspace \/ req[h].rep  BY <2>1 DEF RequestsWellFormed
    <3>6. HandlerTypeOK'
      <4>1. pc' = [pc EXCEPT ![h] = "begin"] /\ snap' = [snap EXCEPT ![h] = NoSnapshot]
            /\ attempts' = [attempts EXCEPT ![h] = 0] /\ issued' = issued \cup {n} /\ applied' = applied
        BY ONLY <2>3 DEF Goto, EndTransaction, n
      <4>2. pc' \in [Handlers -> States]  BY <4>1 DEF HandlerTypeOK, States
      <4>3. req' \in [Handlers -> Request \cup {NoRequest}]  BY <3>3, <3>4 DEF HandlerTypeOK
      <4>4. \A i \in Handlers : pc'[i] # "idle" => req'[i] \in Request
        BY <2>1, <3>3, <3>4, <4>1 DEF HandlerTypeOK
      <4>5. snap' \in [Handlers -> Snapshot] /\ attempts' \in [Handlers -> Nat]
        BY <4>1 DEF HandlerTypeOK, NoSnapshot, Snapshot, Version
      <4>6. issued' \in SUBSET ServerTxIds /\ applied' \in SUBSET Handlers
        BY <3>1, <4>1 DEF HandlerTypeOK
      <4> QED  BY ONLY <4>2, <4>3, <4>4, <4>5, <4>6 DEF HandlerTypeOK
    <3>7. (b.ws # NoWorkspace \/ b.rep) /\ b.txid \in TxIds  BY <3>1, <3>2, <3>4, <3>5
    <3>8. pc' = [pc EXCEPT ![h] = "begin"] /\ snap' = [snap EXCEPT ![h] = NoSnapshot]
      BY <2>3 DEF Goto, EndTransaction
    <3>9. RequestsWellFormed'
      BY <3>3, <3>4, <3>7, <3>8 DEF HandlerTypeOK, RequestsWellFormed
    <3> QED  BY <3>6, <3>9
  <2> QED  BY <1>5, <2>2, <2>3 DEF DuplicateTransaction
<1>6. ASSUME NEW h \in Handlers, Receive(h) PROVE Goal
  BY <1>1, <1>2, <1>6, NextTransactionIDType, ServerTxIdsAssumption DEF Receive
<1>7. ASSUME NEW h \in Handlers, Handle(h) PROVE Goal
  <2> USE DEF Answered, HandlerTypeOK
  <2>1. CASE CheckIdempotency(h)
    <3>1. CASE Return(h, "skipped")  BY <1>r, <2>1, <3>1 DEF CheckIdempotency
    <3>2. CASE Goto(h, "begin") /\ UNCHANGED <<snap, attempts>>
      BY <1>3, <2>1, <3>2 DEF CheckIdempotency, States
    <3> QED  BY <2>1, <3>1, <3>2 DEF CheckIdempotency
  <2>2. CASE SerializationFailure(h)
    BY <1>3, <2>2 DEF SerializationFailure, States
  <2>3. CASE OperationFails(h)  BY <1>r, <2>3 DEF OperationFails
  <2>4. CASE Exhausted(h)  BY <1>r, <2>4 DEF Exhausted
  <2>5. CASE CommitLost(h)  BY <1>r, <2>5 DEF CommitLost
  <2>6. ASSUME pc[h] = "commit", Committed(h) PROVE Goal  BY <1>r, <2>6 DEF Committed
  <2> QED  BY <1>4, <1>5, <1>7, <2>1, <2>2, <2>3, <2>4, <2>5, <2>6 DEF Handle, CommitReport, CommitDelete
<1>8. ASSUME UNCHANGED handlerVars PROVE Goal
  BY <1>8 DEF handlerVars, HandlerTypeOK, RequestsWellFormed
<1> QED  BY <1>6, <1>7, <1>8 DEF Next, StoreToken, vars, handlerVars

\* A step moves at most one handler, which had not answered; it is
\* acknowledged only if its transaction takes effect in that step.
LEMMA OneHandlerMoves ==
  ASSUME StoreInv, [Next]_vars
  PROVE  \/ UNCHANGED <<pc, req, applied>>
         \/ \E h \in Handlers :
              /\ pc[h] \notin Answered
              /\ \A i \in Handlers : i # h => pc'[i] = pc[i] /\ req'[i] = req[i]
              /\ \/ applied' = applied /\ pc'[h] # "ok" /\ ~CommitReport(h)
                 \/ /\ CommitReport(h) \/ CommitDelete(h)
                    /\ req' = req /\ applied' = applied \cup {h}
                    /\ pc'[h] \in {"ok", "commitfailed"}
<1> DEFINE Waits(h) == pc[h] \notin Answered
           Keeps(h) == \A i \in Handlers : i # h => pc'[i] = pc[i] /\ req'[i] = req[i]
<1>1. pc \in [Handlers -> States] /\ req \in [Handlers -> Request \cup {NoRequest}] /\ applied \in SUBSET Handlers
  BY DEF StoreInv, HandlerTypeOK
<1>2. ASSUME NEW h \in Handlers, NEW s, Goto(h, s), NEW q, req' = [req EXCEPT ![h] = q]
      PROVE  Keeps(h) /\ pc'[h] = s
  BY ONLY <1>1, <1>2, h \in Handlers DEF Goto
<1>3. ASSUME NEW h \in Handlers, NEW s, Goto(h, s), req' = req PROVE Keeps(h) /\ pc'[h] = s
  BY ONLY <1>1, <1>3, h \in Handlers DEF Goto
<1>4. ASSUME NEW h \in Handlers, Receive(h)
      PROVE  Waits(h) /\ Keeps(h) /\ applied' = applied /\ pc'[h] # "ok" /\ ~CommitReport(h)
  <2>1. ASSUME NEW k, NEW ws, NEW rep, NEW t, ReceiveReport(h, k, ws, rep, t)
        PROVE  Waits(h) /\ Keeps(h) /\ applied' = applied /\ pc'[h] # "ok" /\ ~CommitReport(h)
    <3>1. /\ pc[h] = "idle" /\ applied' = applied /\ Goto(h, "check")
          /\ \E q : req' = [req EXCEPT ![h] = q]
      BY ONLY <2>1 DEF ReceiveReport
    <3>2. PICK q : req' = [req EXCEPT ![h] = q]  BY ONLY <3>1
    <3>3. Keeps(h) /\ pc'[h] = "check"  BY ONLY <1>2, <3>1, <3>2, h \in Handlers
    <3> QED  BY ONLY <3>1, <3>3 DEF Answered, CommitReport
  <2>2. ASSUME NEW k, ReceiveDelete(h, k)
        PROVE  Waits(h) /\ Keeps(h) /\ applied' = applied /\ pc'[h] # "ok" /\ ~CommitReport(h)
    <3>1. /\ pc[h] = "idle" /\ applied' = applied /\ Goto(h, "begin")
          /\ \E q : req' = [req EXCEPT ![h] = q]
      BY ONLY <2>2 DEF ReceiveDelete
    <3>2. PICK q : req' = [req EXCEPT ![h] = q]  BY ONLY <3>1
    <3>3. Keeps(h) /\ pc'[h] = "begin"  BY ONLY <1>2, <3>1, <3>2, h \in Handlers
    <3> QED  BY ONLY <3>1, <3>3 DEF Answered, CommitReport
  <2> QED  BY ONLY <1>4, <2>1, <2>2 DEF Receive
<1>5. ASSUME NEW h \in Handlers, pc[h] = "commit", Committed(h)
      PROVE  Waits(h) /\ Keeps(h) /\ req' = req /\ applied' = applied \cup {h}
             /\ pc'[h] \in {"ok", "commitfailed"}
  BY ONLY <1>3, <1>5, h \in Handlers DEF Committed, Return, Answered
<1>6. ASSUME NEW h \in Handlers, Handle(h), ~CommitReport(h), ~CommitDelete(h)
      PROVE  Waits(h) /\ Keeps(h) /\ applied' = applied /\ pc'[h] # "ok"
  <2>1. CASE CheckIdempotency(h)
    BY ONLY <1>3, <2>1, h \in Handlers DEF CheckIdempotency, Return, Answered
  <2>2. CASE Begin(h)  BY ONLY <1>3, <2>2, h \in Handlers DEF Begin, Return, Answered
  <2>3. CASE SerializationFailure(h)
    BY ONLY <1>3, <2>3, h \in Handlers DEF SerializationFailure, Answered
  <2>4. CASE OperationFails(h) \/ Exhausted(h) \/ CommitLost(h)
    BY ONLY <1>3, <2>4, h \in Handlers DEF OperationFails, Exhausted, CommitLost, Return, Answered
  <2>5. CASE DuplicateTransaction(h)
    <3>1. Waits(h) /\ applied' = applied  BY ONLY <2>5 DEF DuplicateTransaction, Answered
    <3>2. CASE req' = req /\ Return(h, "failed")  BY ONLY <1>3, <3>1, <3>2, h \in Handlers DEF Return
    <3>3. CASE /\ req' = [req EXCEPT ![h].txid = NextTransactionID, ![h].retried = TRUE]
               /\ Goto(h, "begin")
      <4>1. \E q : req' = [req EXCEPT ![h] = q]  BY ONLY <3>3
      <4>2. PICK q : req' = [req EXCEPT ![h] = q]  BY ONLY <4>1
      <4>3. Goto(h, "begin")  BY ONLY <3>3
      <4>4. Keeps(h) /\ pc'[h] = "begin"  BY ONLY <1>2, <4>2, <4>3, h \in Handlers
      <4> QED  BY ONLY <3>1, <4>4
    <3> QED  BY ONLY <2>5, <3>2, <3>3 DEF DuplicateTransaction
  <2> QED  BY ONLY <1>6, <2>1, <2>2, <2>3, <2>4, <2>5 DEF Handle
<1>7. ASSUME NEW h \in Handlers, CommitReport(h) \/ CommitDelete(h) PROVE pc[h] = "commit" /\ Committed(h)
  BY ONLY <1>7 DEF CommitReport, CommitDelete
<1>8. CASE UNCHANGED <<pc, req, applied>>  BY <1>8
<1>9. CASE \E h \in Handlers : Receive(h) \/ Handle(h)
  BY ONLY <1>4, <1>5, <1>6, <1>7, <1>9
<1> QED  BY <1>8, <1>9 DEF Next, StoreToken, vars, handlerVars

\* What took effect stays answered, and only that is acknowledged.
LEMMA StepKeepsApplied ==
  ASSUME StoreInv, [Next]_vars
  PROVE  AppliedReturned'
<1>1. applied \in SUBSET Handlers /\ AppliedReturned  BY DEF StoreInv, HandlerTypeOK
<1>2. CASE UNCHANGED <<pc, req, applied>>  BY <1>1, <1>2 DEF AppliedReturned
<1>3. ASSUME NEW h \in Handlers, pc[h] \notin Answered,
             \A i \in Handlers : i # h => pc'[i] = pc[i],
             \/ applied' = applied /\ pc'[h] # "ok"
             \/ applied' = applied \cup {h} /\ pc'[h] \in {"ok", "commitfailed"}
      PROVE  AppliedReturned'
  <2>1. h \notin applied  BY ONLY <1>1, <1>3 DEF AppliedReturned, Answered
  <2> QED  BY ONLY <1>1, <1>3, <2>1 DEF AppliedReturned
<1> QED  BY ONLY <1>2, <1>3, StoreInv, [Next]_vars, OneHandlerMoves

----
(* Results *)

\* The inductive invariant holds throughout.
THEOREM StoreInvariant == Spec => []StoreInv
<1>1. Init => StoreInv
  <2> SUFFICES ASSUME Init PROVE StoreInv  OBVIOUS
  <2>1. InventoryInv  BY InitHasInv DEF Init
  <2>2. NoSnapshot \in Snapshot  BY DEF NoSnapshot, Snapshot, Version
  <2>3. HandlerTypeOK  BY <2>2 DEF Init, HandlerTypeOK, States
  <2>4. RequestsWellFormed /\ AppliedReturned  BY DEF Init, RequestsWellFormed, AppliedReturned
  <2> QED  BY <2>1, <2>3, <2>4 DEF StoreInv
<1>2. StoreInv /\ [Next]_vars => StoreInv'
  <2> SUFFICES ASSUME StoreInv, [Next]_vars PROVE StoreInv'  OBVIOUS
  <2>1. InventoryInv'  BY StepRefines, StepKeepsInv DEF StoreInv
  <2> QED  BY <2>1, StepKeepsHandlers, StepKeepsApplied DEF StoreInv
<1> QED  BY <1>1, <1>2, PTL DEF Spec

\* The database, the outbox and the handlers hold what their types say.
THEOREM StoreTypeCorrect == Spec => []TypeOK
<1>1. StoreInv => TypeOK  BY DEF StoreInv, InventoryInv, TypeOK
<1> QED  BY <1>1, StoreInvariant, PTL

\* Handlers that interleave, conflict, retry and give up do no more than
\* atomic reports, deletes and token updates: no update is lost, no version
\* is computed from stale reads.
THEOREM StoreImplementsInventory == Spec => InventorySpec
<1>1. Init => InventoryInit  BY DEF Init
<1>2. StoreInv /\ [Next]_vars => [InventoryNext]_inventoryVars  BY StepRefines
<1> QED  BY <1>1, <1>2, StoreInvariant, PTL DEF Spec, InventorySpec

\* Hence what holds of the atomic inventory holds of the handlers' database.
THEOREM StoreKeysNeverCollide == Spec => []PrimaryKeysNeverCollide
BY StoreImplementsInventory, NoPrimaryKeyCollision, PTL

\* The events of concurrent reports reach the outbox in version order too.
THEOREM StoreOutboxInVersionOrder == Spec => []OutboxFollowsVersions
BY StoreImplementsInventory, OutboxInVersionOrder, PTL

\* Saving a resource never overwrites a consistency token that the consumer
\* stored after the resource was read.
THEOREM StoreKeepsTokens == Spec => TokenNotLost
<1> DEFINE Kept == \A k \in Keys : row[k] # NoRow => row'[k].ktn >= row[k].ktn
<1>1. StoreInv /\ [Next]_vars => [Kept]_vars
  <2> SUFFICES ASSUME StoreInv, Next, NEW j \in Keys, row[j] # NoRow
               PROVE  row'[j].ktn >= row[j].ktn
    OBVIOUS
  <2> USE DEF StoreInv
  <2>1. row \in [Keys -> Resource \cup {NoRow}] /\ row[j] \in Resource
    BY DEF InventoryInv, InventoryTypeOK
  <2>2. row[j].ktn \in Nat  BY <2>1 DEF Resource
  <2>3. ASSUME UNCHANGED row PROVE row'[j].ktn >= row[j].ktn
    BY <2>2, <2>3
  <2>4. ASSUME NEW k \in Keys, NEW r, row' = [row EXCEPT ![k] = r], k = j => r.ktn = row[j].ktn
        PROVE  row'[j].ktn >= row[j].ktn
    BY <2>1, <2>2, <2>4
  <2>5. ASSUME NEW h \in Handlers, CommitReport(h) PROVE row'[j].ktn >= row[j].ktn
    <3> DEFINE k == req[h].key
               last == LastCommonVersion(k)
    <3>1. req[h] \in Request  BY <2>5 DEF CommitReport, HandlerTypeOK
    <3>2. k \in Keys /\ req[h].ws \in Workspaces \cup {NoWorkspace}  BY <3>1 DEF Request
    <3>3. row' = [row EXCEPT ![k] = Writes(h).r] /\ snap[h].row = row[k] /\ snap[h].last = last
      BY <2>5 DEF CommitReport, Save, Stale
    <3>4. ASSUME k = j PROVE Writes(h).r.ktn = row[j].ktn
      <4>1. Writes(h).r = Update(row[j], last, req[h].ws)
        BY <3>3, <3>4 DEF Writes, Reported
      <4>2. last \in Version /\ row[j].cv \in {NoVersion, last}
        BY <3>4 DEF InventoryInv, CommonVersionsContiguous
      <4> QED  BY <2>1, <3>2, <4>1, <4>2, UpdateFields
    <3> QED  BY <2>4, <3>2, <3>3, <3>4
  <2>6. ASSUME NEW h \in Handlers, CommitDelete(h) PROVE row'[j].ktn >= row[j].ktn
    <3> DEFINE k == req[h].key
    <3>1. req[h] \in Request  BY <2>6 DEF CommitDelete, HandlerTypeOK
    <3>2. k \in Keys  BY <3>1 DEF Request
    <3>3. row' = [row EXCEPT ![k] = Delete(snap[h].row)] /\ snap[h].row = row[k]
      BY <2>6 DEF CommitDelete, Save, Stale
    <3>4. ASSUME k = j PROVE Delete(row[k]).ktn = row[j].ktn
      BY <2>1, <3>4, ReporterDeleteFields DEF Delete
    <3> QED  BY <2>4, <3>2, <3>3, <3>4
  <2>7. ASSUME NEW k \in Keys, StoreToken(k) PROVE row'[j].ktn >= row[j].ktn
    <3>1. PICK token \in Tokens : token > row[k].ktn /\ row' = [row EXCEPT ![k].ktn = token]
      BY <2>7 DEF StoreToken, UpdateConsistencyToken
    <3>2. token \in Nat  BY TokensAssumption
    <3>3. CASE k = j
      <4>1. row'[j].ktn = token  BY <2>1, <3>1, <3>3 DEF Resource
      <4> QED  BY <2>2, <3>1, <3>2, <3>3, <4>1
    <3>4. CASE k # j  BY <2>1, <2>2, <3>1, <3>4
    <3> QED  BY <3>3, <3>4
  <2>8. ASSUME NEW h \in Handlers, Receive(h) PROVE UNCHANGED row
    BY <2>8 DEF Receive, ReceiveReport, ReceiveDelete, inventoryVars
  <2>9. ASSUME NEW h \in Handlers, Handle(h), ~CommitReport(h), ~CommitDelete(h) PROVE UNCHANGED row
    BY <2>9 DEF Handle, CheckIdempotency, Begin, SerializationFailure, OperationFails, Exhausted,
         CommitLost, DuplicateTransaction, inventoryVars
  <2> QED  BY <2>3, <2>5, <2>6, <2>7, <2>8, <2>9 DEF Next
<1> QED  BY <1>1, StoreInvariant, PTL DEF Spec, TokenNotLost

\* A report that took effect left its transaction id in each table it wrote.
ReportsRecorded ==
  \A h \in applied : req[h].op = "report" =>
    /\ req[h].ws # NoWorkspace => \E c \in common[req[h].key] : c.txid = req[h].txid
    /\ req[h].rep => \E r \in reps[req[h].key] : r.txid = req[h].txid

\* Representations are never removed or changed.
LEMMA RepresentationsStay ==
  ASSUME InventoryInv, [InventoryNext]_inventoryVars, NEW k \in Keys
  PROVE  common[k] \subseteq common'[k] /\ reps[k] \subseteq reps'[k]
<1>1. ASSUME NEW j \in Keys, NEW r, NEW cs, NEW rs, NEW op, Save(j, r, cs, rs, op)
      PROVE  common[k] \subseteq common'[k] /\ reps[k] \subseteq reps'[k]
  BY <1>1 DEF Save, InventoryInv, InventoryTypeOK
<1>2. ASSUME NEW j \in Keys, NEW ws, NEW rep, NEW t, Report(j, ws, rep, t)
      PROVE  common[k] \subseteq common'[k] /\ reps[k] \subseteq reps'[k]
  BY <1>1, <1>2 DEF Report
<1>3. ASSUME NEW j \in Keys, DeleteResource(j)
      PROVE  common[k] \subseteq common'[k] /\ reps[k] \subseteq reps'[k]
  BY <1>1, <1>3 DEF DeleteResource
<1> QED  BY <1>2, <1>3 DEF InventoryNext, UpdateConsistencyToken, inventoryVars

\* Two requests that repeat a transaction id with the same payload do not
\* both take effect, however they interleave and whatever their callers were
\* told: the second finds the id of the first in the unique index of a table
\* that it writes too.
THEOREM ReportsAppliedOnce == Spec => []AppliedOnce
<1> DEFINE Same(h, i) == /\ req[h].op = "report" /\ req[i].op = "report"
                         /\ req[h].key = req[i].key /\ req[h].ws = req[i].ws
                         /\ req[h].rep = req[i].rep /\ req[h].txid = req[i].txid
           Distinct == \A h, i \in applied : h # i => ~Same(h, i)
           Inv == ReportsRecorded /\ Distinct
<1>1. Init => Inv  BY DEF Init, ReportsRecorded
<1>2. StoreInv /\ Inv /\ [Next]_vars => Inv'
  <2> SUFFICES ASSUME StoreInv, Inv, [Next]_vars PROVE Inv'  OBVIOUS
  <2>1. \A k \in Keys : common[k] \subseteq common'[k] /\ reps[k] \subseteq reps'[k]
    BY StepRefines, RepresentationsStay DEF StoreInv
  <2>2. \A h \in applied : h \in Handlers /\ pc[h] \in Answered /\ req[h] \in Request /\ req[h].key \in Keys
    BY DEF StoreInv, HandlerTypeOK, AppliedReturned, Answered, Request
  <2>3. ASSUME \A h \in applied' : req'[h] = req[h] /\ (h \in applied \/ req[h].op # "report")
        PROVE  Inv'
    <3>1. ReportsRecorded'
      <4> SUFFICES ASSUME NEW h \in applied', req'[h].op = "report"
                   PROVE  /\ req'[h].ws # NoWorkspace => \E c \in common'[req'[h].key] : c.txid = req'[h].txid
                          /\ req'[h].rep => \E r \in reps'[req'[h].key] : r.txid = req'[h].txid
        BY DEF ReportsRecorded
      <4>1. req'[h] = req[h] /\ h \in applied /\ req[h].op = "report"
        BY ONLY <2>3, h \in applied', req'[h].op = "report"
      <4>2. req[h].key \in Keys  BY <2>2, <4>1
      <4>3. ReportsRecorded  OBVIOUS
      <4> QED  BY ONLY <2>1, <4>1, <4>2, <4>3 DEF ReportsRecorded
    <3>2. Distinct'
      <4> SUFFICES ASSUME NEW h \in applied', NEW i \in applied', h # i, Same(h, i)'
                   PROVE  FALSE
        OBVIOUS
      <4>1. req'[h] = req[h] /\ req'[i] = req[i]  BY ONLY <2>3, h \in applied', i \in applied'
      <4>2. Same(h, i)  BY <4>1
      <4>3. h \in applied /\ i \in applied  BY <2>3, <4>2
      <4> QED  BY <4>2, <4>3
    <3> QED  BY <3>1, <3>2
  <2>4. ASSUME NEW h \in Handlers, CommitReport(h) PROVE Inv'
    <3> DEFINE k == req[h].key
               w == Writes(h)
    <3>1. /\ req[h] \in Request /\ req[h].op = "report" /\ pc[h] = "commit"
          /\ req' = req /\ applied' = applied \cup {h}
      BY <2>4 DEF CommitReport, Committed, StoreInv, HandlerTypeOK
    <3>2. k \in Keys  BY <3>1 DEF Request
    <3>3. /\ req[h].ws # NoWorkspace => \E c \in w.cs : c.txid = req[h].txid
          /\ req[h].rep => \E r \in w.rs : r.txid = req[h].txid
      BY DEF Writes, Reported, ReportedCommon, ReportedReporter
    <3>4. Save(k, w.r, w.cs, w.rs, w.op)  BY <2>4 DEF CommitReport
    <3>5. (req[h].ws # NoWorkspace \/ req[h].rep) /\ req[h].txid \in TxIds
      BY <3>1 DEF StoreInv, RequestsWellFormed
    <3> HIDE DEF w
    <3>6. w.cs \subseteq common'[k] /\ w.rs \subseteq reps'[k] /\ TxIdsFree(w.cs, w.rs)
      BY <3>2, <3>4 DEF Save, StoreInv, InventoryInv, InventoryTypeOK
    <3>7. ReportsRecorded'
      <4> SUFFICES ASSUME NEW i \in applied \cup {h}, req[i].op = "report"
                   PROVE  /\ req[i].ws # NoWorkspace => \E c \in common'[req[i].key] : c.txid = req[i].txid
                          /\ req[i].rep => \E r \in reps'[req[i].key] : r.txid = req[i].txid
        BY <3>1, ZenonT(20) DEF ReportsRecorded
      <4>1. CASE i = h  BY <3>3, <3>6, <4>1
      <4>2. CASE i \in applied  BY <2>1, <2>2, <4>2 DEF ReportsRecorded
      <4> QED  BY <4>1, <4>2
    <3>8. ASSUME NEW i \in applied, Same(h, i) PROVE FALSE
      <4>a. /\ req[i].op = "report" /\ req[i].key = k
            /\ req[i].ws = req[h].ws /\ req[i].rep = req[h].rep /\ req[i].txid = req[h].txid
        BY <3>8
      <4>b. /\ req[i].ws # NoWorkspace => \E c \in common[req[i].key] : c.txid = req[i].txid
            /\ req[i].rep => \E r \in reps[req[i].key] : r.txid = req[i].txid
        <5>1. ReportsRecorded  OBVIOUS
        <5> QED  BY ONLY <5>1, <3>8, <4>a DEF ReportsRecorded
      <4> HIDE DEF k
      <4>1. CASE req[h].ws # NoWorkspace
        <5>1. PICK c \in common[k] : c.txid = req[h].txid
          BY ONLY <4>a, <4>b, <4>1
        <5> QED  BY <3>2, <3>3, <3>6, <4>1, <5>1 DEF TxIdsFree
      <4>2. CASE req[h].rep
        <5>1. PICK r \in reps[k] : r.txid = req[h].txid
          BY ONLY <4>a, <4>b, <4>2
        <5> QED  BY <3>2, <3>3, <3>5, <3>6, <4>2, <5>1, TxIdAssumption, ZenonT(20) DEF TxIdsFree
      <4> QED  BY <3>5, <4>1, <4>2
    <3>9. ASSUME NEW i \in applied', NEW j \in applied', i # j, Same(i, j)' PROVE FALSE
      <4>1. i \in applied \cup {h} /\ j \in applied \cup {h}  BY ONLY <3>1, <3>9
      <4>2. Same(i, j) /\ Same(j, i)  BY ONLY <3>1, <3>9
      <4>3. CASE i = h  BY ONLY <3>8, <3>9, <4>1, <4>2, <4>3
      <4>4. CASE j = h  BY ONLY <3>8, <3>9, <4>1, <4>2, <4>4
      <4>5. CASE i \in applied /\ j \in applied  BY <3>9, <4>2, <4>5
      <4> QED  BY ONLY <4>1, <4>3, <4>4, <4>5
    <3>10. Distinct'  BY ONLY <3>9
    <3> QED  BY <3>7, <3>10
  <2>5. ASSUME NEW h \in Handlers, CommitDelete(h), req' = req, applied' = applied \cup {h} PROVE Inv'
    <3>1. req[h].op # "report"  BY ONLY <2>5 DEF CommitDelete
    <3> QED  BY ONLY <2>3, <2>5, <3>1
  <2>6. ASSUME NEW h \in Handlers, pc[h] \notin Answered, applied' = applied,
               \A i \in Handlers : i # h => req'[i] = req[i]
        PROVE  Inv'
    BY ONLY <2>2, <2>3, <2>6
  <2>7. CASE UNCHANGED <<pc, req, applied>>  BY ONLY <2>3, <2>7
  <2> QED  BY ONLY <2>4, <2>5, <2>6, <2>7, OneHandlerMoves, StoreInv, [Next]_vars
<1>3. Inv => AppliedOnce  BY DEF AppliedOnce
<1> QED  BY <1>1, <1>2, <1>3, StoreInvariant, PTL DEF Spec

\* Reports that took effect, acknowledged or not.
AppliedReports == {h \in applied : req[h].op = "report"}

\* A step that commits no report publishes no report event.
LEMMA OnlyCommitsPublish ==
  ASSUME StoreInv, [Next]_vars, \A h \in Handlers : ~CommitReport(h)
  PROVE  ReportEvents' = ReportEvents
<1>1. ASSUME UNCHANGED outbox PROVE ReportEvents' = ReportEvents  BY <1>1 DEF ReportEvents
<1>2. ASSUME NEW h \in Handlers, Receive(h) PROVE UNCHANGED outbox
  BY <1>2 DEF Receive, ReceiveReport, ReceiveDelete, inventoryVars
<1>3. ASSUME NEW h \in Handlers, CommitDelete(h) PROVE ReportEvents' = ReportEvents
  <2>1. CASE UNCHANGED outbox  BY <1>1, <2>1
  <2>2. ASSUME NEW k, NEW r, NEW rs, Save(k, r, {}, rs, "deleted") PROVE ReportEvents' = ReportEvents
    <3> DEFINE e == [op |-> "deleted", key |-> k, cv |-> NoVersion, rv |-> IF rs = {} THEN NoVersion ELSE r.rv]
    <3>1. outbox' = Append(outbox, e) /\ outbox \in Seq(Event)
      BY <2>2 DEF Save, NewTupleEvent, StoreInv, InventoryInv, InventoryTypeOK
    <3>2. e.op = "deleted"  OBVIOUS
    <3> HIDE DEF e
    <3>3. /\ Len(outbox) \in Nat /\ Len(outbox') = Len(outbox) + 1 /\ outbox'[Len(outbox) + 1] = e
          /\ \A i \in 1 .. Len(outbox) : outbox'[i] = outbox[i]
      BY <3>1
    <3> QED  BY <3>2, <3>3 DEF ReportEvents
  <2> QED  BY <1>3, <2>1, <2>2 DEF CommitDelete
<1>4. ASSUME NEW h \in Handlers, Handle(h), ~CommitDelete(h) PROVE UNCHANGED outbox
  BY <1>4 DEF Handle, CheckIdempotency, Begin, SerializationFailure, OperationFails, Exhausted,
       CommitLost, DuplicateTransaction, inventoryVars
<1>5. ASSUME NEW k \in Keys, StoreToken(k) PROVE UNCHANGED outbox
  BY <1>5 DEF StoreToken, UpdateConsistencyToken
<1>6. CASE UNCHANGED vars  BY <1>1, <1>6 DEF vars
<1> QED  BY <1>1, <1>2, <1>3, <1>4, <1>5, <1>6 DEF Next

\* Finitely many reports have taken effect or failed to commit, and those
\* that took effect are as many as the report events.
EventsCounted ==
  /\ IsFiniteSet(AppliedReports) /\ IsFiniteSet(ReportEvents) /\ IsFiniteSet(ReportsIn("commitfailed"))
  /\ Cardinality(AppliedReports) = Cardinality(ReportEvents)

\* Each report that takes effect publishes one event; nothing else does.
LEMMA StepKeepsEventsCounted ==
  ASSUME StoreInv, EventsCounted, [Next]_vars
  PROVE  EventsCounted'
<1>1. \A h \in applied : h \in Handlers /\ pc[h] \in Answered
  BY DEF StoreInv, HandlerTypeOK, AppliedReturned, Answered
<1>2. IsFiniteSet(ReportsIn("commitfailed"))'
  <2>1. CASE UNCHANGED <<pc, req, applied>>
    <3>1. ReportsIn("commitfailed")' = ReportsIn("commitfailed")  BY <2>1 DEF ReportsIn
    <3> QED  BY <3>1 DEF EventsCounted
  <2>2. ASSUME NEW h \in Handlers, \A i \in Handlers : i # h => pc'[i] = pc[i] /\ req'[i] = req[i]
        PROVE  IsFiniteSet(ReportsIn("commitfailed"))'
    <3> DEFINE U == ReportsIn("commitfailed") \cup {h}
    <3>1. ReportsIn("commitfailed")' \subseteq U  BY <2>2 DEF ReportsIn
    <3>2. IsFiniteSet(U)  BY FS_AddElement DEF EventsCounted
    <3> HIDE DEF U
    <3> QED  BY <3>1, <3>2, FS_Subset
  <2> QED  BY ONLY <2>1, <2>2, OneHandlerMoves, StoreInv, [Next]_vars
<1>3. ASSUME \A h \in Handlers : ~CommitReport(h), AppliedReports' = AppliedReports
      PROVE  EventsCounted'
  BY <1>2, <1>3, OnlyCommitsPublish DEF EventsCounted
<1>4. ASSUME NEW h \in Handlers, CommitReport(h), pc[h] \notin Answered, req' = req,
             applied' = applied \cup {h}
      PROVE  EventsCounted'
  <2> DEFINE w == Writes(h)
             k == req[h].key
             e == NewTupleEvent(k, w.r, w.cs, w.rs, w.op)
  <2>1. req[h].op = "report"  BY <1>4 DEF CommitReport
  <2>2. AppliedReports' = AppliedReports \cup {h} /\ h \notin AppliedReports
    BY <1>1, <1>4, <2>1 DEF AppliedReports
  <2>3. w.op # "deleted"  BY DEF Writes, Reported
  <2>4. outbox' = Append(outbox, e) /\ outbox \in Seq(Event)
    BY <1>4 DEF CommitReport, Save, NewTupleEvent, StoreInv, InventoryInv, InventoryTypeOK
  <2>5. e.op = w.op  BY DEF NewTupleEvent
  <2> HIDE DEF e, w
  <2>6. /\ Len(outbox) \in Nat /\ Len(outbox') = Len(outbox) + 1 /\ outbox'[Len(outbox) + 1] = e
        /\ \A i \in 1 .. Len(outbox) : outbox'[i] = outbox[i]
    BY <2>4
  <2>7. ReportEvents' = ReportEvents \cup {Len(outbox) + 1} /\ Len(outbox) + 1 \notin ReportEvents
    BY <2>3, <2>5, <2>6 DEF ReportEvents
  <2>8. /\ IsFiniteSet(AppliedReports \cup {h})
        /\ Cardinality(AppliedReports \cup {h}) = Cardinality(AppliedReports) + 1
    BY <2>2, FS_AddElement DEF EventsCounted
  <2>9. /\ IsFiniteSet(ReportEvents \cup {Len(outbox) + 1})
        /\ Cardinality(ReportEvents \cup {Len(outbox) + 1}) = Cardinality(ReportEvents) + 1
    BY <2>7, FS_AddElement DEF EventsCounted
  <2> QED  BY <1>2, <2>2, <2>7, <2>8, <2>9 DEF EventsCounted
<1>5. ASSUME NEW h \in Handlers, CommitDelete(h), req' = req, applied' = applied \cup {h},
             \A i \in Handlers : ~CommitReport(i)
      PROVE  EventsCounted'
  <2>1. req[h].op # "report"  BY <1>5 DEF CommitDelete
  <2>2. AppliedReports' = AppliedReports  BY <1>5, <2>1 DEF AppliedReports
  <2> QED  BY <1>3, <1>5, <2>2
<1>6. ASSUME NEW h \in Handlers, pc[h] \notin Answered, applied' = applied,
             \A i \in Handlers : i # h => req'[i] = req[i], \A i \in Handlers : ~CommitReport(i)
      PROVE  EventsCounted'
  <2>1. \A i \in applied : req'[i] = req[i]  BY ONLY <1>1, <1>6
  <2>2. AppliedReports' = AppliedReports  BY <1>6, <2>1 DEF AppliedReports
  <2> QED  BY <1>3, <1>6, <2>2
<1>7. ASSUME UNCHANGED <<pc, req, applied>>, \A i \in Handlers : ~CommitReport(i) PROVE EventsCounted'
  <2>1. AppliedReports' = AppliedReports  BY <1>7 DEF AppliedReports
  <2> QED  BY <1>3, <1>7, <2>1
<1>8. ASSUME NEW h \in Handlers, CommitReport(h)
      PROVE  pc[h] \notin Answered /\ req' = req /\ applied' = applied \cup {h}
  BY <1>8 DEF CommitReport, Committed, Answered
<1>9. CASE \E h \in Handlers : CommitReport(h)  BY ONLY <1>4, <1>8, <1>9
<1> QED  BY ONLY <1>5, <1>6, <1>7, <1>9, OneHandlerMoves, StoreInv, [Next]_vars

\* Every acknowledged report published exactly one event, one whose commit
\* failed at most one, and no other any, whatever was retried, skipped or
\* refused and whichever answers of COMMIT were lost.
THEOREM ReportsPublishOneEvent == Spec => []OneEventPerReport
<1>1. Init => EventsCounted
  <2> SUFFICES ASSUME Init PROVE EventsCounted  OBVIOUS
  <2>1. AppliedReports = {} /\ ReportEvents = {} /\ ReportsIn("commitfailed") = {}
    BY DEF Init, InventoryInit, AppliedReports, ReportEvents, ReportsIn
  <2> QED  BY <2>1, FS_EmptySet DEF EventsCounted
<1>2. StoreInv /\ EventsCounted /\ [Next]_vars => EventsCounted'  BY StepKeepsEventsCounted
<1>3. StoreInv /\ EventsCounted => OneEventPerReport
  <2> SUFFICES ASSUME StoreInv, EventsCounted PROVE OneEventPerReport  OBVIOUS
  <2> DEFINE A == ReportsIn("ok")
             U == ReportsIn("commitfailed")
  <2>1. A \subseteq AppliedReports /\ AppliedReports \subseteq A \cup U
    BY DEF StoreInv, HandlerTypeOK, AppliedReturned, ReportsIn, AppliedReports
  <2>2. IsFiniteSet(AppliedReports) /\ IsFiniteSet(U)  BY DEF EventsCounted
  <2> HIDE DEF A, U
  <2>3. IsFiniteSet(A) /\ Cardinality(A) <= Cardinality(AppliedReports)
    BY <2>1, <2>2, FS_Subset
  <2>4. IsFiniteSet(A \cup U)  BY <2>2, <2>3, FS_Union
  <2>5. Cardinality(AppliedReports) <= Cardinality(A \cup U)  BY <2>1, <2>4, FS_Subset
  <2>6. Cardinality(A \cup U) = Cardinality(A) + Cardinality(U) - Cardinality(A \cap U)
    BY <2>2, <2>3, FS_Union
  <2>7. IsFiniteSet(A \cap U)  BY <2>2, FS_Intersection
  <2>8. /\ Cardinality(A) \in Nat /\ Cardinality(U) \in Nat /\ Cardinality(A \cap U) \in Nat
        /\ Cardinality(AppliedReports) \in Nat /\ Cardinality(A \cup U) \in Nat
    BY <2>2, <2>3, <2>4, <2>7, FS_CardinalityType
  <2>9. Cardinality(ReportEvents) = Cardinality(AppliedReports)  BY DEF EventsCounted
  <2> QED  BY <2>3, <2>5, <2>6, <2>8, <2>9 DEF OneEventPerReport, A, U
<1> QED  BY <1>1, <1>2, <1>3, StoreInvariant, PTL DEF Spec
====
