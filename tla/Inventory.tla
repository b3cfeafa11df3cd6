---- MODULE Inventory ----
(***************************************************************************)
(* What the inventory database promises: every report and every delete     *)
(* happens at one instant, on the current state of the resource, together  *)
(* with its outbox event.  ResourceStore, where requests run as retried    *)
(* serializable transactions over snapshots, implements this module.       *)
(***************************************************************************)
EXTENDS ResourceModel, Sequences, FiniteSets

CONSTANTS Keys,      \* reporter resource keys
          TxIds,     \* transaction ids: the clients' and the generated ones
          NoTxId,    \* the empty transaction id of a delete representation
          NoRow,     \* the key has no resource
          Tokens     \* consistency tokens, ordered by the revision they name

ASSUME RowAssumption == NoRow \notin Resource
ASSUME TxIdAssumption == NoTxId \notin TxIds
ASSUME TokensAssumption == Tokens \subseteq Nat

VARIABLES row,      \* resource and reporter_resources: key -> Resource or NoRow
          common,   \* common_representations of each key
          reps,     \* reporter_representations of each key
          outbox    \* tuple events in commit order (the order of the WAL)

inventoryVars == <<row, common, reps, outbox>>

CommonRep == [version : Nat, ws : Workspaces, txid : TxIds]
ReporterRep == [version : Nat, gen : Nat, tomb : BOOLEAN, txid : TxIds \cup {NoTxId}]
Event == [op : {"created", "updated", "deleted"}, key : Keys, cv : Version, rv : Version]

InventoryTypeOK ==
  /\ row \in [Keys -> Resource \cup {NoRow}]
  /\ common \in [Keys -> SUBSET CommonRep]
  /\ reps \in [Keys -> SUBSET ReporterRep]
  /\ outbox \in Seq(Event)

InventoryInit ==
  /\ row = [k \in Keys |-> NoRow]
  /\ common = [k \in Keys |-> {}]
  /\ reps = [k \in Keys |-> {}]
  /\ outbox = <<>>

----
(* Reads *)

Versions(C) == {c.version : c \in C}

\* SELECT MAX(cr.version) in FindResourceByKeys
LastVersion(C) ==
  IF C = {} THEN NoVersion
  ELSE CHOOSE v \in Versions(C) : \A w \in Versions(C) : w <= v

CommonVersions(k) == Versions(common[k])
LastCommonVersion(k) == LastVersion(common[k])

ReporterPK(r) == <<r.gen, r.version>>

ReporterPKs(k) == {ReporterPK(r) : r \in reps[k]}

HasTransactionIdBeenProcessed(t) ==
  \E k \in Keys : \/ \E c \in common[k] : c.txid = t
                  \/ \E r \in reps[k] : r.txid = t

----
(* Save: the four tables and the outbox, in one transaction                *)

ReportedCommon(r, ws, t) ==
  IF ws = NoWorkspace THEN {} ELSE {[version |-> r.cv, ws |-> ws, txid |-> t]}

ReportedReporter(r, rep, t) ==
  IF rep THEN {[version |-> r.rv, gen |-> r.gen, tomb |-> FALSE, txid |-> t]} ELSE {}

DeletedReporter(r) ==
  {[version |-> r.rv, gen |-> r.gen, tomb |-> TRUE, txid |-> NoTxId]}

\* What a report writes over the resource it read: createResource when there
\* is none, updateResource otherwise. A created resource always gets a
\* reporter representation, be it empty.
Reported(old, lastCommonVersion, ws, rep, t) ==
  LET r == IF old = NoRow THEN NewResource(ws) ELSE Update(old, lastCommonVersion, ws)
  IN  [r  |-> r,
       cs |-> ReportedCommon(r, ws, t),
       rs |-> ReportedReporter(r, rep \/ old = NoRow, t),
       op |-> IF old = NoRow THEN "created" ELSE "updated"]

\* The primary keys of the representation tables of k.
PrimaryKeysFree(k, cs, rs) ==
  /\ \A c \in cs : c.version \notin CommonVersions(k)
  /\ \A r \in rs : ReporterPK(r) \notin ReporterPKs(k)

\* A mistaken variant: no unique index on transaction_id.
TxIdsFree_NoIndex(cs, rs) == TRUE

\* The unique index on transaction_id that each of the two tables has.
TxIdsFree(cs, rs) ==
  \A k \in Keys : /\ \A c \in cs, d \in common[k] : c.txid # d.txid
                  /\ \A r \in rs, q \in reps[k] : r.txid = NoTxId \/ r.txid # q.txid

\* NewOutboxEventsFromResourceEvent: the tuple event of k names the versions of
\* the representations written with it.
NewTupleEvent(k, r, cs, rs, op) ==
  [op |-> op, key |-> k,
   cv |-> IF cs = {} THEN NoVersion ELSE r.cv,
   rv |-> IF rs = {} THEN NoVersion ELSE r.rv]

\* A mistaken variant: the event takes the version of the resource, not that
\* of the representation reported.
Save_ResourceVersion(k, r, cs, rs, op) ==
  /\ PrimaryKeysFree(k, cs, rs)
  /\ TxIdsFree(cs, rs)
  /\ row' = [row EXCEPT ![k] = r]
  /\ common' = [common EXCEPT ![k] = @ \cup cs]
  /\ reps' = [reps EXCEPT ![k] = @ \cup rs]
  /\ outbox' = Append(outbox, [op |-> op, key |-> k, cv |-> r.cv, rv |-> r.rv])

Save(k, r, cs, rs, op) ==
  /\ PrimaryKeysFree(k, cs, rs)
  /\ TxIdsFree(cs, rs)
  /\ row' = [row EXCEPT ![k] = r]
  /\ common' = [common EXCEPT ![k] = @ \cup cs]
  /\ reps' = [reps EXCEPT ![k] = @ \cup rs]
  /\ outbox' = Append(outbox, NewTupleEvent(k, r, cs, rs, op))

----
(* The operations *)

\* ws: the common representation or NoWorkspace; rep: is there a reporter one?
Report(k, ws, rep, t) ==
  /\ ws # NoWorkspace \/ rep
  /\ LET w == Reported(row[k], LastCommonVersion(k), ws, rep, t)
     IN  Save(k, w.r, w.cs, w.rs, w.op)

DeleteResource(k) ==
  /\ row[k] # NoRow
  /\ ~row[k].tomb
  /\ LET r == Delete(row[k])
     IN  Save(k, r, {}, DeletedReporter(r), "deleted")

\* The consumer's UPDATE of the ktn column.
UpdateConsistencyToken(k, token) ==
  /\ row[k] # NoRow
  /\ row' = [row EXCEPT ![k].ktn = token]
  /\ UNCHANGED <<common, reps, outbox>>

InventoryNext ==
  \E k \in Keys :
    \/ \E ws \in Workspaces \cup {NoWorkspace}, rep \in BOOLEAN, t \in TxIds :
         Report(k, ws, rep, t)
    \/ DeleteResource(k)
    \/ \E token \in Tokens : UpdateConsistencyToken(k, token)

InventorySpec == InventoryInit /\ [][InventoryNext]_inventoryVars

----
(* Properties *)

\* The common versions of a resource are 0, 1, ..., last, each stored once,
\* and a row that names a version names the last one. The consumer finds
\* the previous workspace at version - 1, so a gap or a duplicate would make
\* it delete the wrong tuple or none.
CommonVersionsContiguous ==
  \A k \in Keys :
    /\ CommonVersions(k) = 0 .. LastCommonVersion(k)
    /\ \A c, d \in common[k] : c.version = d.version => c = d
    /\ row[k] # NoRow => row[k].cv \in {NoVersion, LastCommonVersion(k)}

\* Whatever was reported before (common representations dropped and resumed,
\* deletions, revivals), the versions that the next report or delete computes
\* are unused: the duplicate-key error of Save only ever means a reused
\* transaction id, as ReasonNonUniqueTransactionID tells the client.
PrimaryKeysNeverCollide ==
  \A k \in Keys : row[k] # NoRow =>
    /\ NextCommonVersion(row[k].cv, LastCommonVersion(k)) \notin CommonVersions(k)
    /\ <<ReporterUpdate(row[k]).gen, ReporterUpdate(row[k]).rv>> \notin ReporterPKs(k)
    /\ ~row[k].tomb => <<ReporterDelete(row[k]).gen, ReporterDelete(row[k]).rv>> \notin ReporterPKs(k)

\* Where the outbox holds the events of k that carry a common version.
VersionedEvents(k) ==
  {i \in 1 .. Len(outbox) : outbox[i].key = k /\ outbox[i].cv # NoVersion}

\* The events of a resource that carry a common version carry 0, 1, ...,
\* last in outbox order: none is lost, repeated or published out of order.
OutboxFollowsVersions ==
  \A k \in Keys :
    /\ {outbox[i].cv : i \in VersionedEvents(k)} = 0 .. LastCommonVersion(k)
    /\ \A i, j \in VersionedEvents(k) : i < j => outbox[i].cv < outbox[j].cv

\* Each event moves the reporter resource strictly forward in (generation,
\* representation version); a tombstone is lifted only by starting the next
\* generation at version 0, and a live resource keeps its generation.
LifecycleStep ==
  \A k \in Keys : row[k] # NoRow /\ row'[k] # row[k] /\ outbox' # outbox =>
    IF row[k].tomb
    THEN ~row'[k].tomb /\ row'[k].gen = row[k].gen + 1 /\ row'[k].rv = 0
    ELSE row'[k].gen = row[k].gen /\ row'[k].rv = row[k].rv + 1

LifecycleMovesForward == [][LifecycleStep]_inventoryVars
====
