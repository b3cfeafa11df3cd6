---- MODULE ReplicationProofs ----
(***************************************************************************)
(* Proofs about Replication, for any resources, workspaces, batch size and *)
(* number of failures: when the consumer has caught up, the tuples and the *)
(* tokens are those of the last reports.                                   *)
(***************************************************************************)
EXTENDS ConsumerProofs

\* Most leaves are first-order: Zenon is tried before the SMT solver.
USE ZenonT(5), SMTT(30)

(* The inductive invariant *)

ConsumerTypes ==
  /\ tuples \in [Keys -> SUBSET Workspaces]
  /\ rev \in Nat /\ created \in [Keys -> Nat] /\ token \in Nat
  /\ work \in [create : SUBSET Workspaces, delete : SUBSET Workspaces]
  /\ pos \in Nat /\ committed \in Nat /\ stored \in Seq(Nat)

\* At a message whose calls are under way or whose token is to be stored.
Working == {"create", "delete", "token"}

\* How many events the loop has processed.
Reached == IF cpc = "store" THEN pos + 1 ELSE pos

\* The offsets at which a later consumer may resume.
Resume == {committed} \cup {stored[i] : i \in 1 .. Len(stored)}

Bounds == Resume \cup (IF cpc \in Consuming THEN {Reached} ELSE {})

PositionsInv ==
  /\ \A n \in Bounds : n \in 0 .. Len(outbox)
  /\ cpc \in Consuming => \A n \in Bounds : n <= Reached
  /\ cpc \in Working \cup {"store"} => pos < Len(outbox)
  /\ cpc \in {"down", "exited"} => stored = <<>>

MessageInv ==
  /\ cpc \in Working => WorkIsCurrent /\ (Message.op # "deleted" /\ work.create = {} => token = 0)
  /\ cpc \notin Working => token = 0
  /\ cpc = "create" => work.create # {}
  /\ cpc = "delete" => work.delete # {} /\ work.create \subseteq tuples[Message.key]
  /\ cpc = "token" => WorkDone(Message.key)
  /\ cpc \in {"delete", "token"} /\ work.create # {} => token = created[Message.key] /\ token # 0

\* Only creates are passed over, and a resource has tuples only once it exists.
TokensInv ==
  /\ \A o \in untokened : o + 1 \in 1 .. Len(outbox) /\ TuplesFor(outbox[o + 1]).create # {}
  /\ \A k \in Keys : row[k] = NoRow => created[k] = 0

\* What holds once the first n events are processed, of every resource.
Kept(n) == \A k \in Keys : Settled(k, n) /\ TokenDue(k, n)

KeptInv == \A n \in Bounds : Kept(n)

ReplicationInv ==
  /\ InventoryInv /\ OutboxInv
  /\ ConsumerTypes /\ PositionsInv /\ MessageInv /\ TokensInv /\ KeptInv

----
\* A report or a delete of the producers saves the next version.
LEMMA ProduceSaves ==
  ASSUME InventoryInv, OutboxInv, Produce
  PROVE  /\ InventoryInv' /\ OutboxInv' /\ UNCHANGED consumerVars
         /\ \E k \in Keys : \E r, cs, rs, op :
              /\ SavesNext(k, r, cs, rs, op)
              /\ row[k] # NoRow => r.ktn = row[k].ktn
              /\ row[k] = NoRow => r.ktn = 0
<1>1. FreshTxId \in TxIds
  <2>1. \E t \in TxIds : ~HasTransactionIdBeenProcessed(t)  BY DEF Produce
  <2> QED  BY <2>1 DEF FreshTxId
<1> HIDE DEF FreshTxId
<1>2. UNCHANGED consumerVars  BY DEF Produce
<1>3. ASSUME NEW k \in Keys, NEW ws \in Workspaces \cup {NoWorkspace}, Report(k, ws, TRUE, FreshTxId)
      PROVE  /\ InventoryInv' /\ OutboxInv'
             /\ \E r, cs, rs, op : /\ SavesNext(k, r, cs, rs, op)
                                   /\ row[k] # NoRow => r.ktn = row[k].ktn
                                   /\ row[k] = NoRow => r.ktn = 0
  <2>1. InventoryInv'  BY <1>1, <1>3, ReportKeepsInv
  <2>2. OutboxInv'  BY <1>1, <1>3, ReportKeepsOutbox
  <2>3. PICK r, cs, rs, op : /\ SavesNext(k, r, cs, rs, op)
                             /\ row[k] # NoRow => r.ktn = row[k].ktn
                             /\ row[k] = NoRow => r.ktn = 0
    BY <1>1, <1>3, ReportSaves
  <2> QED  BY <2>1, <2>2, <2>3
<1>4. ASSUME NEW k \in Keys, DeleteResource(k)
      PROVE  /\ InventoryInv' /\ OutboxInv'
             /\ \E r, cs, rs, op : /\ SavesNext(k, r, cs, rs, op)
                                   /\ row[k] # NoRow => r.ktn = row[k].ktn
                                   /\ row[k] = NoRow => r.ktn = 0
  <2>1. InventoryInv'  BY <1>4, DeleteKeepsInv
  <2>2. OutboxInv'  BY <1>4, DeleteKeepsOutbox
  <2> DEFINE r == Delete(row[k])
             rs == DeletedReporter(r)
  <2>3. SavesNext(k, r, {}, rs, "deleted") /\ row[k] # NoRow /\ r.ktn = row[k].ktn
    BY <1>4, DeleteSaves
  <2> HIDE DEF r, rs
  <2> QED  BY <2>1, <2>2, <2>3
<1>5. PICK k \in Keys : \/ \E ws \in Workspaces \cup {NoWorkspace} : Report(k, ws, TRUE, FreshTxId)
                        \/ DeleteResource(k)
  BY DEF Produce
<1> QED  BY <1>2, <1>3, <1>4, <1>5

\* Of the consumer's steps only storing a token touches the database.
LEMMA ConsumerReadsOnly ==
  ASSUME Next, ~Produce, ~StoreToken
  PROVE  UNCHANGED inventoryVars
BY DEF Next, Consume, Poll, PollFails, CreateTuple, DeleteTuple, TupleCallFails, StoreTokenFails,
   StoreOffset, Commit, CommitFails, Shutdown, Restart, StartProcess, Terminate, Crash

\* The offset committed is one of those stored, or stays.
LEMMA CommitBounds ==
  ASSUME ConsumerTypes, CommitStoredOffsets
  PROVE  /\ stored' = <<>> /\ committed' \in Nat
         /\ committed' = committed \/ \E i \in 1 .. Len(stored) : committed' = stored[i]
<1>1. CASE stored = <<>>  BY <1>1 DEF ConsumerTypes, CommitStoredOffsets
<1>2. CASE stored # <<>>
  <2>1. Len(stored) \in 1 .. Len(stored) /\ stored[Len(stored)] \in Nat
    BY <1>2 DEF ConsumerTypes
  <2> QED  BY <1>2, <2>1 DEF CommitStoredOffsets
<1> QED  BY <1>1, <1>2

\* No step adds an offset to resume at, except storing the one just processed.
LEMMA ResumeStep ==
  ASSUME ConsumerTypes, Next
  PROVE  /\ committed' \in Nat /\ stored' \in Seq(Nat)
         /\ Resume \subseteq Nat /\ Resume' \subseteq Nat
         /\ \A n \in Resume' : n \in Resume \/ (StoreOffset /\ n = pos)
<1>0. committed \in Nat /\ stored \in Seq(Nat) /\ pos \in Nat  BY DEF ConsumerTypes
<1>1. Resume \subseteq Nat  BY <1>0 DEF Resume
<1>2. ASSUME UNCHANGED <<stored, committed>>
      PROVE  committed' \in Nat /\ stored' \in Seq(Nat) /\ Resume' = Resume
  BY <1>0, <1>2 DEF Resume
<1>3. ASSUME committed' \in Nat, stored' = <<>>, committed' \in Resume
      PROVE  committed' \in Nat /\ stored' \in Seq(Nat) /\ Resume' \subseteq Resume
  BY <1>3 DEF Resume
<1>4. ASSUME CommitStoredOffsets PROVE committed' \in Nat /\ stored' = <<>> /\ committed' \in Resume
  BY <1>4, CommitBounds DEF Resume
<1>5. CASE UNCHANGED <<stored, committed>>  BY <1>1, <1>2, <1>5
<1>6. CASE StoreOffset
  <2>1. stored' = Append(stored, pos) /\ committed' = committed  BY <1>6 DEF StoreOffset
  <2>2. \A i \in 1 .. Len(stored') : stored'[i] = pos \/ (i \in 1 .. Len(stored) /\ stored'[i] = stored[i])
    BY <1>0, <2>1
  <2>3. stored' \in Seq(Nat)  BY <1>0, <2>1
  <2>4. \A n \in Resume' : n \in Resume \/ n = pos  BY <2>1, <2>2 DEF Resume
  <2> QED  BY <1>0, <1>1, <1>6, <2>1, <2>3, <2>4
<1>7. CASE Commit \/ Shutdown \/ Terminate \/ Crash
  <2>1. committed \in Resume  BY DEF Resume
  <2>2. CommitStoredOffsets \/ (stored' = <<>> /\ committed' = committed)
    BY <1>7 DEF Commit, Shutdown, Terminate, Crash
  <2> QED  BY <1>0, <1>1, <1>3, <1>4, <2>1, <2>2
<1>8. Next => \/ UNCHANGED <<stored, committed>>
              \/ StoreOffset \/ Commit \/ Shutdown \/ Terminate \/ Crash
  BY DEF Next, Produce, Consume, Poll, PollFails, CreateTuple, DeleteTuple, TupleCallFails,
     StoreToken, StoreTokenFails, CommitFails, Restart, StartProcess, consumerVars
<1> QED  BY <1>5, <1>6, <1>7, <1>8

\* Where the loop goes: on by one event when a token is stored or passed over,
\* back to the committed offset with a new consumer.
LEMMA ReachedStep ==
  ASSUME ConsumerTypes, PositionsInv, Next
  PROVE  /\ pos' \in Nat
         /\ cpc' \in Consuming =>
              \/ cpc \in Consuming /\ Reached' = Reached
              \/ (StoreToken \/ StoreTokenFails) /\ cpc = "token" /\ Reached' = pos + 1
              \/ Resume = {committed} /\ Reached' = committed
         /\ cpc' \in Working => cpc \in Working \/ (cpc = "poll" /\ pos < Len(outbox))
         /\ cpc' \in Working => pos' = pos
         /\ cpc' = "store" => (cpc = "token" \/ cpc = "store") /\ pos' = pos
         /\ cpc' \in {"down", "exited"} => stored' = <<>>
<1>0. pos \in Nat /\ committed \in Nat /\ stored \in Seq(Nat)  BY DEF ConsumerTypes
<1>1. CASE Produce
  <2>1. UNCHANGED <<cpc, pos, stored>>  BY <1>1 DEF Produce, consumerVars
  <2> QED  BY <1>0, <2>1 DEF Reached, PositionsInv, Working
<1>2. CASE Poll \/ PollFails \/ CreateTuple \/ DeleteTuple \/ TupleCallFails
  <2>1. cpc \in {"poll", "create", "delete"} /\ pos' = pos
    BY <1>2 DEF Poll, PollFails, CreateTuple, DeleteTuple, TupleCallFails
  <2>2. cpc' \in {"create", "delete", "token", "stopping"}
    BY <1>2 DEF Poll, PollFails, CreateTuple, DeleteTuple, TupleCallFails, FirstCall, StopConsuming
  <2>3. cpc = "poll" => pos < Len(outbox)
    BY <1>2 DEF Poll, PollFails, CreateTuple, DeleteTuple, TupleCallFails
  <2> QED  BY <1>0, <2>1, <2>2, <2>3 DEF Reached, Consuming, Working
<1>3. CASE StoreToken \/ StoreTokenFails
  BY <1>0, <1>3 DEF StoreToken, StoreTokenFails, Reached, Consuming, Working
<1>4. CASE StoreOffset
  BY <1>0, <1>4 DEF StoreOffset, Reached, Consuming, Working
<1>5. CASE Commit \/ CommitFails
  BY <1>0, <1>5 DEF Commit, CommitFails, Reached, Consuming, Working
<1>6. CASE Shutdown \/ Terminate \/ Crash \/ StartProcess
  <2>1. cpc' \in {"down", "exited"} /\ (pos' = 0 \/ pos' = pos)
    BY <1>6 DEF Shutdown, Terminate, Crash, StartProcess
  <2>2. stored' = <<>>
    BY <1>6 DEF Shutdown, Terminate, Crash, StartProcess, CommitStoredOffsets, PositionsInv
  <2> QED  BY <1>0, <2>1, <2>2 DEF Consuming, Working
<1>7. CASE Restart
  <2>1. stored = <<>> /\ cpc' = "poll" /\ pos' = committed  BY <1>7 DEF Restart, PositionsInv
  <2>2. Resume = {committed}  BY <2>1 DEF Resume
  <2> QED  BY <1>0, <2>1, <2>2 DEF Reached, Consuming, Working
<1> QED  BY <1>1, <1>2, <1>3, <1>4, <1>5, <1>6, <1>7 DEF Next, Consume

\* The outbox only grows.
LEMMA OutboxGrows ==
  ASSUME InventoryInv, OutboxInv, Next
  PROVE  Len(outbox) \in Nat /\ Len(outbox') \in Nat /\ Len(outbox) <= Len(outbox')
<1>0. Len(outbox) \in Nat  BY DEF InventoryInv, InventoryTypeOK
<1>1. CASE Produce
  <2>1. PICK k \in Keys : \E r, cs, rs, op : SavesNext(k, r, cs, rs, op)  BY <1>1, ProduceSaves
  <2>2. PICK r, cs, rs, op : SavesNext(k, r, cs, rs, op)  BY <2>1
  <2>3. Len(outbox') = Len(outbox) + 1  BY <2>2, SaveReads
  <2> QED  BY <1>0, <2>3
<1>2. CASE ~Produce
  <2>1. outbox' = outbox
    BY <1>2, ConsumerReadsOnly DEF StoreToken, UpdateConsistencyToken, inventoryVars
  <2> QED  BY <1>0, <2>1
<1> QED  BY <1>1, <1>2

LEMMA PositionsStep ==
  ASSUME InventoryInv, OutboxInv, ConsumerTypes, PositionsInv, Next
  PROVE  /\ PositionsInv'
         /\ Bounds \subseteq Nat /\ Bounds' \subseteq Nat
         /\ \A n \in Bounds' : \/ \E m \in Bounds : n <= m
                               \/ /\ StoreToken \/ StoreTokenFails
                                  /\ n = pos + 1 /\ pos \in Bounds
<1>0. pos \in Nat /\ committed \in Nat  BY DEF ConsumerTypes
<1>1. Len(outbox) \in Nat /\ Len(outbox') \in Nat /\ Len(outbox) <= Len(outbox')  BY OutboxGrows
<1>2. /\ Resume \subseteq Nat /\ Resume' \subseteq Nat
      /\ \A n \in Resume' : n \in Resume \/ (StoreOffset /\ n = pos)
  BY ResumeStep
<1>3. StoreOffset => cpc \in Consuming /\ Reached = pos + 1 /\ Reached' = pos + 1 /\ cpc' \in Consuming
  BY <1>0 DEF StoreOffset, Consuming, Reached
<1>4. Reached \in Nat /\ Bounds \subseteq Nat
  BY <1>0, <1>2 DEF Reached, Bounds
<1>5. /\ cpc' \in Consuming =>
           \/ cpc \in Consuming /\ Reached' = Reached
           \/ (StoreToken \/ StoreTokenFails) /\ cpc = "token" /\ Reached' = pos + 1
           \/ Resume = {committed} /\ Reached' = committed
  BY ReachedStep
<1>6. cpc = "token" => cpc \in Consuming /\ Reached = pos /\ pos < Len(outbox) /\ pos \in Bounds
  BY DEF Consuming, Reached, Working, PositionsInv, Bounds
<1>7. cpc' \in Consuming => Reached' \in Nat  BY <1>0, <1>4, <1>5
<1>8. Bounds' \subseteq Nat
  BY <1>2, <1>7 DEF Bounds
<1>9. \A n \in Bounds' : \/ \E m \in Bounds : n <= m
                         \/ /\ StoreToken \/ StoreTokenFails
                            /\ n = pos + 1 /\ cpc = "token"
  <2>1. ASSUME NEW n \in Resume' PROVE \E m \in Bounds : n <= m
    <3>1. CASE n \in Resume  BY <1>2, <3>1 DEF Bounds
    <3>2. CASE StoreOffset /\ n = pos  BY <1>0, <1>3, <3>2 DEF Bounds
    <3> QED  BY <1>2, <2>1, <3>1, <3>2
  <2>2. ASSUME cpc' \in Consuming
        PROVE  \/ \E m \in Bounds : Reached' <= m
               \/ /\ StoreToken \/ StoreTokenFails
                  /\ Reached' = pos + 1 /\ cpc = "token"
    <3>1. CASE cpc \in Consuming /\ Reached' = Reached  BY <1>4, <3>1 DEF Bounds
    <3>2. CASE Resume = {committed} /\ Reached' = committed  BY <1>0, <3>2 DEF Bounds
    <3> QED  BY <1>5, <2>2, <3>1, <3>2
  <2> QED  BY <2>1, <2>2 DEF Bounds
<1>10. \A n \in Bounds' : n \in 0 .. Len(outbox')
  <2> TAKE n \in Bounds'
  <2>1. CASE \E m \in Bounds : n <= m
    <3>1. PICK m \in Bounds : n <= m  BY <2>1
    <3>2. m \in 0 .. Len(outbox)  BY DEF PositionsInv
    <3> QED  BY <1>1, <1>8, <3>1, <3>2
  <2>2. CASE n = pos + 1 /\ cpc = "token"  BY <1>0, <1>1, <1>6, <2>2
  <2> QED  BY <1>9, <2>1, <2>2
<1>11. ASSUME cpc' \in Consuming, NEW n \in Bounds' PROVE n <= Reached'
  <2>1. n \in Nat /\ Reached' \in Nat  BY <1>7, <1>8, <1>11
  <2>2. CASE n = Reached'  BY <2>1, <2>2
  <2>3. CASE n \in Resume'
    <3>1. CASE StoreOffset /\ n = pos  BY <1>0, <1>3, <3>1
    <3>2. CASE n \in Resume
      <4>1. CASE cpc \in Consuming /\ Reached' = Reached
        BY <3>2, <4>1 DEF PositionsInv, Bounds
      <4>2. CASE cpc = "token" /\ Reached' = pos + 1
        <5>1. n <= pos  BY <1>6, <3>2, <4>2 DEF PositionsInv, Bounds
        <5> QED  BY <1>0, <2>1, <4>2, <5>1
      <4>3. CASE Resume = {committed} /\ Reached' = committed  BY <1>0, <3>2, <4>3
      <4> QED  BY <1>5, <1>11, <4>1, <4>2, <4>3
    <3> QED  BY <1>2, <2>3, <3>1, <3>2
  <2> QED  BY <1>11, <2>2, <2>3 DEF Bounds
<1>12. cpc' \in Working \cup {"store"} => pos' < Len(outbox')
  <2> SUFFICES ASSUME cpc' \in Working \cup {"store"} PROVE pos' < Len(outbox')  OBVIOUS
  <2>1. pos' = pos /\ (cpc \in Working \cup {"store"} \/ pos < Len(outbox))
    BY ReachedStep DEF Working
  <2>2. pos < Len(outbox)  BY <2>1 DEF PositionsInv
  <2> QED  BY <1>0, <1>1, <2>1, <2>2
<1>13. cpc' \in {"down", "exited"} => stored' = <<>>  BY ReachedStep
<1>14. PositionsInv'  BY <1>10, <1>11, <1>12, <1>13 DEF PositionsInv
<1> QED  BY <1>4, <1>6, <1>8, <1>9, <1>14

----
(* Types, messages and tokens *)

\* What is asked to be created and to be deleted are workspaces, and different
\* ones; a report deletes only what it replaces.
LEMMA WorkShape ==
  ASSUME InventoryInv, OutboxInv, NEW p \in 1 .. Len(outbox)
  PROVE  LET w == TuplesFor(outbox[p])
         IN  /\ w \in [create : SUBSET Workspaces, delete : SUBSET Workspaces]
             /\ w.create \cap w.delete = {}
             /\ outbox[p].op # "deleted" /\ w.create = {} => w.delete = {}
             /\ outbox[p].op = "deleted" => w.create = {}
<1> DEFINE e == outbox[p]
           k == e.key
           w == TuplesFor(e)
<1>1. k \in Keys  BY EventFields
<1>2. w = [create |-> w.create, delete |-> w.delete]  BY WorkOfEvent
<1>3. \A c \in common[k] : c.ws \in Workspaces  BY <1>1, RepresentationAt
<1>4. ASSUME e.op = "deleted"
      PROVE  /\ w \in [create : SUBSET Workspaces, delete : SUBSET Workspaces]
             /\ w.create \cap w.delete = {}
             /\ e.op # "deleted" /\ w.create = {} => w.delete = {}
             /\ e.op = "deleted" => w.create = {}
  <2>1. w.create = {} /\ w.delete = {LatestWorkspace(k)} \ {NoWorkspace}  BY <1>4, WorkOfEvent
  <2>2. w.delete \subseteq Workspaces  BY <1>1, <2>1, LatestIsLast
  <2> HIDE DEF w, k, e
  <2> QED  BY <1>2, <1>4, <2>1, <2>2
<1>5. ASSUME e.op # "deleted" /\ e.cv = NoVersion
      PROVE  /\ w \in [create : SUBSET Workspaces, delete : SUBSET Workspaces]
             /\ w.create \cap w.delete = {}
             /\ e.op # "deleted" /\ w.create = {} => w.delete = {}
             /\ e.op = "deleted" => w.create = {}
  <2>1. w.create = {} /\ w.delete = {}  BY <1>5, WorkOfEvent
  <2> HIDE DEF w, k, e
  <2> QED  BY <1>2, <1>5, <2>1
<1>6. ASSUME e.op # "deleted" /\ e.cv # NoVersion
      PROVE  /\ w \in [create : SUBSET Workspaces, delete : SUBSET Workspaces]
             /\ w.create \cap w.delete = {}
             /\ e.op # "deleted" /\ w.create = {} => w.delete = {}
             /\ e.op = "deleted" => w.create = {}
  <2>1. PICK c \in common[k] :
          /\ e.cv = 0 => w.create = {c.ws} /\ w.delete = {}
          /\ e.cv # 0 => \E b \in common[k] :
               /\ b.ws = c.ws => w.create = {} /\ w.delete = {}
               /\ b.ws # c.ws => w.create = {c.ws} /\ w.delete = {b.ws}
    BY <1>6, WorkOfEvent
  <2>2. \/ w.create = {} /\ w.delete = {}
        \/ w.create = {c.ws} /\ w.delete = {}
        \/ \E b \in common[k] : b.ws # c.ws /\ w.create = {c.ws} /\ w.delete = {b.ws}
    BY <2>1
  <2> HIDE DEF w, k, e
  <2> QED  BY <1>2, <1>3, <1>6, <2>2
<1> QED  BY <1>4, <1>5, <1>6

\* So is the work of the message at hand.
LEMMA WorkAtHand ==
  ASSUME InventoryInv, OutboxInv, ConsumerTypes, PositionsInv, MessageInv, cpc \in Working
  PROVE  /\ Len(outbox) \in Nat /\ pos + 1 \in 1 .. Len(outbox)
         /\ Message = outbox[pos + 1] /\ Message.key \in Keys /\ row[Message.key] # NoRow
         /\ work.create \cap work.delete = {}
         /\ Message.op # "deleted" /\ work.create = {} => work.delete = {}
         /\ work.create # {} => Message.op # "deleted" /\ work = TuplesFor(Message)
<1>1. Len(outbox) \in Nat /\ pos \in Nat /\ pos < Len(outbox)
  BY DEF InventoryInv, InventoryTypeOK, ConsumerTypes, PositionsInv
<1>2. pos + 1 \in 1 .. Len(outbox) /\ Message = outbox[pos + 1]  BY <1>1 DEF Message
<1>3. Message.key \in Keys /\ row[Message.key] # NoRow
  BY <1>2, EventFields DEF OutboxInv, EventsMatchRows
<1>4. Message.op # "deleted" => work = TuplesFor(Message)  BY DEF MessageInv, WorkIsCurrent
<1>5. Message.op = "deleted" => work.create = {}  BY DEF MessageInv, WorkIsCurrent
<1>6. Message.op # "deleted" =>
        work.create \cap work.delete = {} /\ (work.create = {} => work.delete = {})
  BY <1>2, <1>4, WorkShape
<1> QED  BY <1>1, <1>2, <1>3, <1>4, <1>5, <1>6

LEMMA ApplyTypes ==
  ASSUME ConsumerTypes, NEW call, Apply(call)
  PROVE  /\ tuples' \in [Keys -> SUBSET Workspaces]
         /\ rev' \in Nat /\ rev' # 0 /\ created' \in [Keys -> Nat]
<1>1. work.create \subseteq Workspaces /\ rev' = rev + 1 /\ rev \in Nat  BY DEF ConsumerTypes, Apply
<1>2. tuples' \in [Keys -> SUBSET Workspaces]  BY <1>1 DEF ConsumerTypes, Apply
<1>3. created' \in [Keys -> Nat]
  <2>1. created \in [Keys -> Nat] /\ rev' \in Nat  BY <1>1 DEF ConsumerTypes
  <2>2. created' = created \/ created' = [created EXCEPT ![Message.key] = rev']  BY DEF Apply
  <2> QED  BY <2>1, <2>2
<1> QED  BY <1>1, <1>2, <1>3

LEMMA TypesStep ==
  ASSUME InventoryInv, OutboxInv, ConsumerTypes, PositionsInv, Next
  PROVE  ConsumerTypes'
<1>1. pos' \in Nat /\ committed' \in Nat /\ stored' \in Seq(Nat)  BY ResumeStep, ReachedStep
<1>2. /\ tuples' \in [Keys -> SUBSET Workspaces]
      /\ rev' \in Nat /\ created' \in [Keys -> Nat]
  <2>1. UNCHANGED <<tuples, rev, created>> \/ \E call \in {"create", "delete"} : Apply(call)
    BY DEF Next, Produce, Consume, Poll, PollFails, CreateTuple, DeleteTuple, TupleCallFails,
       StoreToken, StoreTokenFails, StoreOffset, Commit, CommitFails, Shutdown, Restart,
       StartProcess, Terminate, Crash, consumerVars, tupleVars
  <2> QED  BY <2>1, ApplyTypes DEF ConsumerTypes
<1>3. token' \in Nat
  <2>1. token' = token \/ token' = 0 \/ token' = rev'
    BY DEF Next, Produce, Consume, Poll, PollFails, CreateTuple, DeleteTuple, TupleCallFails,
       StoreToken, StoreTokenFails, StoreOffset, Commit, CommitFails, Shutdown, Restart,
       StartProcess, Terminate, Crash, consumerVars, messageVars, EndMessage, StopConsuming
  <2> QED  BY <1>2, <2>1 DEF ConsumerTypes
<1>4. work' \in [create : SUBSET Workspaces, delete : SUBSET Workspaces]
  <2>1. CASE Poll
    <3>1. pos + 1 \in 1 .. Len(outbox) /\ work' = TuplesFor(outbox[pos + 1])
      BY <2>1 DEF Poll, Message, ConsumerTypes, InventoryInv, InventoryTypeOK
    <3> QED  BY <3>1, WorkShape
  <2>2. CASE ~Poll
    <3>1. work' = work \/ work' = NoWork
      BY <2>2 DEF Next, Produce, Consume, PollFails, CreateTuple, DeleteTuple, TupleCallFails,
         StoreToken, StoreTokenFails, StoreOffset, Commit, CommitFails, Shutdown, Restart,
         StartProcess, Terminate, Crash, consumerVars, messageVars, EndMessage, StopConsuming
    <3> QED  BY <3>1 DEF ConsumerTypes, NoWork
  <2> QED  BY <2>1, <2>2
<1> QED  BY <1>1, <1>2, <1>3, <1>4 DEF ConsumerTypes

LEMMA TokensStep ==
  ASSUME InventoryInv, OutboxInv, ConsumerTypes, PositionsInv, MessageInv, TokensInv, Next
  PROVE  TokensInv'
<1>1. CASE Produce
  <2>1. PICK k \in Keys : \E r, cs, rs, op : SavesNext(k, r, cs, rs, op)  BY <1>1, ProduceSaves
  <2>2. PICK r, cs, rs, op : SavesNext(k, r, cs, rs, op)  BY <2>1
  <2>3. UNCHANGED <<created, untokened>>  BY <1>1 DEF Produce, consumerVars, tupleVars
  <2>4. /\ Len(outbox) \in Nat /\ Len(outbox') = Len(outbox) + 1
        /\ \A i \in 1 .. Len(outbox) : outbox'[i] = outbox[i]
        /\ \A j \in Keys : j # k => row'[j] = row[j]
        /\ row'[k] # NoRow
    BY <2>2, SaveReads
  <2>5. ASSUME NEW o \in untokened
        PROVE  o + 1 \in 1 .. Len(outbox') /\ TuplesFor(outbox[o + 1]).create' # {}
    <3>1. o + 1 \in 1 .. Len(outbox) /\ TuplesFor(outbox[o + 1]).create # {}  BY DEF TokensInv
    <3>2. TuplesFor(outbox[o + 1]).create' = TuplesFor(outbox[o + 1]).create
      BY <2>2, <3>1, SaveKeepsWork
    <3> QED  BY <2>4, <3>1, <3>2
  <2>6. \A j \in Keys : row'[j] = NoRow => created'[j] = 0  BY <2>3, <2>4 DEF TokensInv
  <2> QED  BY <2>3, <2>5, <2>6 DEF TokensInv
<1>2. CASE ~Produce
  <2>1. UNCHANGED <<common, outbox>>
    BY <1>2, ConsumerReadsOnly DEF StoreToken, UpdateConsistencyToken, inventoryVars
  <2>2. \A i : TuplesFor(outbox[i])' = TuplesFor(outbox[i])  BY <2>1, ReadsUnchanged
  <2>3. \A o \in untokened' : o + 1 \in 1 .. Len(outbox) /\ TuplesFor(outbox[o + 1]).create # {}
    <3>1. CASE StoreTokenFails
      <4>1. untokened' = untokened \cup {pos} /\ cpc = "token" /\ Message.op # "deleted" /\ token # 0
        BY <3>1 DEF StoreTokenFails
      <4>2. work.create # {}  BY <4>1 DEF MessageInv, Working
      <4>3. pos + 1 \in 1 .. Len(outbox) /\ TuplesFor(outbox[pos + 1]).create # {}
        BY <4>1, <4>2, WorkAtHand DEF Working
      <4> QED  BY <4>1, <4>3 DEF TokensInv
    <3>2. CASE ~StoreTokenFails
      <4>1. untokened' \subseteq untokened
        BY <1>2, <3>2 DEF Next, Consume, Poll, PollFails, CreateTuple, DeleteTuple, TupleCallFails,
           StoreToken, StoreOffset, Commit, CommitFails, Shutdown, Restart,
           StartProcess, Terminate, Crash
      <4> QED  BY <4>1 DEF TokensInv
    <3> QED  BY <3>1, <3>2
  <2>4. ASSUME NEW k \in Keys, row'[k] = NoRow PROVE created'[k] = 0
    <3>1. row[k] = NoRow
      <4>1. CASE StoreToken
        <5>1. row' = row \/ UpdateConsistencyToken(Message.key, token)
          BY <4>1 DEF StoreToken, inventoryVars
        <5>2. CASE row' = row  BY <2>4, <5>2
        <5>3. CASE UpdateConsistencyToken(Message.key, token)
          <6>1. cpc \in Working  BY <4>1 DEF StoreToken, Working
          <6>2. Message.key \in Keys /\ row[Message.key] # NoRow  BY <6>1, WorkAtHand
          <6>3. row \in [Keys -> Resource \cup {NoRow}] /\ token \in Nat
            BY DEF InventoryInv, InventoryTypeOK, ConsumerTypes
          <6>4. row[Message.key] \in Resource  BY <6>2, <6>3
          <6>5. row'[Message.key] = [row[Message.key] EXCEPT !.ktn = token]
            BY <5>3, <6>2, <6>3 DEF UpdateConsistencyToken
          <6>6. row'[Message.key] \in Resource  BY <6>3, <6>4, <6>5 DEF Resource
          <6>7. row'[Message.key] # NoRow  BY <6>6, RowAssumption
          <6> QED  BY <2>4, <5>3, <6>3, <6>7 DEF UpdateConsistencyToken
        <5> QED  BY <5>1, <5>2, <5>3
      <4>2. CASE ~StoreToken  BY <1>2, <2>4, <4>2, ConsumerReadsOnly, ZenonT(20) DEF inventoryVars
      <4> QED  BY <4>1, <4>2
    <3>2. created' = created \/ (cpc \in Working /\ created' = [created EXCEPT ![Message.key] = rev'])
      BY <1>2 DEF Next, Consume, Poll, PollFails, CreateTuple, DeleteTuple, TupleCallFails,
         StoreToken, StoreTokenFails, StoreOffset, Commit, CommitFails, Shutdown, Restart,
         StartProcess, Terminate, Crash, Apply, Working, tupleVars
    <3>3. cpc \in Working => row[Message.key] # NoRow  BY WorkAtHand
    <3>4. created[k] = 0 /\ created \in [Keys -> Nat]  BY <3>1 DEF TokensInv, ConsumerTypes
    <3> QED  BY <3>1, <3>2, <3>3, <3>4
  <2> QED  BY <2>1, <2>2, <2>3, <2>4 DEF TokensInv
<1> QED  BY <1>1, <1>2

\* What is read of the message at hand changes only with the producers.
LEMMA MessageStays ==
  ASSUME UNCHANGED <<common, outbox, pos>>
  PROVE  /\ Message' = Message /\ TuplesFor(Message)' = TuplesFor(Message)
         /\ UNCHANGED work => WorkIsCurrent' = WorkIsCurrent
<1>1. Message' = Message  BY DEF Message
<1>2. \A i : TuplesFor(outbox[i])' = TuplesFor(outbox[i])  BY ReadsUnchanged
<1>3. TuplesFor(Message)' = TuplesFor(Message)
  <2>1. TuplesFor(outbox[pos + 1])' = TuplesFor(outbox[pos + 1])
    BY <1>2 DEF TuplesFor, CurrentWorkspace, PreviousWorkspace, LatestWorkspace, WorkspaceAt, LastCommonVersion
  <2> QED  BY <2>1 DEF Message
<1>4. UNCHANGED work => WorkIsCurrent' = WorkIsCurrent  BY <1>1, <1>3 DEF WorkIsCurrent
<1> QED  BY <1>1, <1>3, <1>4

\* The producers leave the work of the message at hand current.
LEMMA ProduceKeepsMessage ==
  ASSUME InventoryInv, OutboxInv, ConsumerTypes, PositionsInv, MessageInv, Produce
  PROVE  MessageInv'
<1>1. UNCHANGED <<cpc, pos, work, token, tuples, created>>
  BY DEF Produce, consumerVars, messageVars, tupleVars
<1>2. CASE cpc \notin Working  BY <1>1, <1>2 DEF MessageInv, Working
<1>3. CASE cpc \in Working
  <2>1. PICK k \in Keys : \E r, cs, rs, op : SavesNext(k, r, cs, rs, op)  BY ProduceSaves
  <2>2. PICK r, cs, rs, op : SavesNext(k, r, cs, rs, op)  BY <2>1
  <2>3. /\ Len(outbox) \in Nat /\ Len(outbox') = Len(outbox) + 1
        /\ \A i \in 1 .. Len(outbox) : outbox'[i] = outbox[i]
        /\ outbox'[Len(outbox) + 1].key = k
    BY <2>2, SaveReads
  <2>4. pos \in Nat /\ pos + 1 \in 1 .. Len(outbox) /\ Message = outbox[pos + 1]
    BY <1>3, WorkAtHand DEF ConsumerTypes
  <2>5. Message' = Message  BY <1>1, <2>3, <2>4, ZenonT(20) DEF Message
  <2>6. WorkIsCurrent  BY <1>3 DEF MessageInv
  <2>7. ASSUME \/ Message.op # "deleted"
               \/ \A i \in pos + 2 .. Len(outbox') : outbox'[i].key # Message.key
        PROVE  work = TuplesFor(Message)'
    <3>1. \/ Message.op # "deleted"
          \/ /\ \A i \in pos + 2 .. Len(outbox) : outbox[i].key # Message.key
             /\ Message.key # k
      BY <2>3, <2>4, <2>7
    <3>2. work = TuplesFor(Message)  BY <2>6, <3>1 DEF WorkIsCurrent
    <3>3. TuplesFor(outbox[pos + 1])' = TuplesFor(outbox[pos + 1])
      <4>1. ASSUME NEW i \in 1 .. Len(outbox), outbox[i].op # "deleted" \/ outbox[i].key # k
            PROVE  TuplesFor(outbox[i])' = TuplesFor(outbox[i])
        BY <2>2, <4>1, SaveKeepsWork
      <4> QED  BY <1>1, <2>4, <3>1, <4>1, ZenonT(30)
           DEF TuplesFor, CurrentWorkspace, PreviousWorkspace, LatestWorkspace, WorkspaceAt, LastCommonVersion
    <3> QED  BY <3>2, <3>3 DEF Message
  <2>8. WorkIsCurrent'  BY <1>1, <2>5, <2>6, <2>7 DEF WorkIsCurrent
  <2> QED  BY <1>1, <2>5, <2>8 DEF MessageInv, WorkDone
<1> QED  BY <1>2, <1>3

LEMMA MessageStep ==
  ASSUME InventoryInv, OutboxInv, ConsumerTypes, PositionsInv, MessageInv, Next
  PROVE  MessageInv'
<1>0. token \in Nat /\ tuples \in [Keys -> SUBSET Workspaces] /\ created \in [Keys -> Nat]
  BY DEF ConsumerTypes
<1>1. CASE Produce  BY <1>1, ProduceKeepsMessage
<1>2. CASE cpc' \notin Working
  <2>1. token' = 0
    BY <1>2 DEF Next, Produce, Consume, Poll, PollFails, CreateTuple, DeleteTuple, TupleCallFails,
       StoreToken, StoreTokenFails, StoreOffset, Commit, CommitFails, Shutdown, Restart,
       StartProcess, Terminate, Crash, consumerVars, messageVars, EndMessage, StopConsuming,
       FirstCall, MessageInv, Working
  <2> QED  BY <1>2, <2>1 DEF MessageInv, Working
<1>3. CASE Poll
  <2>1. /\ UNCHANGED <<common, outbox, pos, token>> /\ token = 0
        /\ work' = TuplesFor(Message) /\ cpc' = FirstCall(work')
    BY <1>3 DEF Poll, inventoryVars, MessageInv, Working
  <2>2. Message' = Message /\ TuplesFor(Message)' = work'  BY <2>1, MessageStays
  <2>3. pos + 1 \in 1 .. Len(outbox) /\ Message = outbox[pos + 1]
    BY <1>3 DEF Poll, Message, ConsumerTypes, InventoryInv, InventoryTypeOK
  <2>4. Message.op = "deleted" => work'.create = {}  BY <2>1, <2>3, WorkShape
  <2>5. WorkIsCurrent'  BY <2>2, <2>4 DEF WorkIsCurrent
  <2>6. /\ cpc' \in Working
        /\ cpc' = "create" => work'.create # {}
        /\ cpc' = "delete" => work'.create = {} /\ work'.delete # {}
        /\ cpc' = "token" => work'.create = {} /\ work'.delete = {}
    BY <2>1 DEF FirstCall, Working
  <2> QED  BY <2>1, <2>5, <2>6 DEF MessageInv, WorkDone
<1>4. CASE CreateTuple
  <2>1. /\ UNCHANGED <<common, outbox, pos, work>> /\ cpc = "create" /\ cpc \in Working
        /\ Apply("create") /\ token' = rev' /\ cpc' = IF work.delete # {} THEN "delete" ELSE "token"
    BY <1>4 DEF CreateTuple, inventoryVars, Working
  <2>2. Message' = Message /\ WorkIsCurrent' /\ Message.key \in Keys
    BY <2>1, MessageStays, WorkAtHand DEF MessageInv
  <2>3. work.create # {}  BY <2>1 DEF MessageInv
  <2>4. tuples'[Message.key] = tuples[Message.key] \cup work.create  BY <1>0, <2>1, <2>2 DEF Apply
  <2>5. created'[Message.key] = rev'  BY <1>0, <2>1, <2>2 DEF Apply
  <2>6. rev' # 0  BY <2>1, ApplyTypes
  <2>7. WorkDone(Message.key)' \/ work.delete # {}  BY <2>1, <2>2, <2>4 DEF WorkDone
  <2> QED  BY <2>1, <2>2, <2>3, <2>4, <2>5, <2>6, <2>7 DEF MessageInv, Working
<1>5. CASE DeleteTuple
  <2>1. /\ UNCHANGED <<common, outbox, pos, work>> /\ cpc = "delete" /\ cpc \in Working
        /\ Apply("delete") /\ token' = (IF token = 0 THEN rev' ELSE token) /\ cpc' = "token"
    BY <1>5 DEF DeleteTuple, inventoryVars, Working
  <2>2. Message' = Message /\ WorkIsCurrent' /\ Message.key \in Keys
    BY <2>1, MessageStays, WorkAtHand DEF MessageInv
  <2>3. tuples'[Message.key] = tuples[Message.key] \ work.delete  BY <1>0, <2>1, <2>2 DEF Apply
  <2>4. created' = created  BY <2>1 DEF Apply
  <2>5. work.delete # {} /\ work.create \subseteq tuples[Message.key]  BY <2>1 DEF MessageInv
  <2>6. work.create \cap work.delete = {} /\ (Message.op # "deleted" => work.create # {})
    BY <2>1, <2>5, WorkAtHand
  <2>7. WorkDone(Message.key)'  BY <2>1, <2>2, <2>3, <2>5, <2>6 DEF WorkDone
  <2>8. work.create # {} => token = created[Message.key] /\ token # 0  BY <2>1 DEF MessageInv
  <2> QED  BY <2>1, <2>2, <2>4, <2>6, <2>7, <2>8 DEF MessageInv, Working
<1>6. CASE TupleCallFails /\ cpc' \in Working
  <2>1. /\ UNCHANGED <<common, outbox, pos, work>> /\ cpc \in Working
        /\ token' = 0 /\ cpc' = FirstCall(work)
    BY <1>6 DEF TupleCallFails, StopConsuming, inventoryVars, Working
  <2>2. WorkIsCurrent'  BY <2>1, MessageStays DEF MessageInv
  <2>3. /\ cpc' = "create" => work.create # {}
        /\ cpc' = "delete" => work.create = {} /\ work.delete # {}
        /\ cpc' = "token" => work.create = {} /\ work.delete = {}
    BY <2>1 DEF FirstCall
  <2> QED  BY <1>6, <2>1, <2>2, <2>3 DEF MessageInv, WorkDone
<1>7. Produce \/ Poll \/ CreateTuple \/ DeleteTuple \/ TupleCallFails \/ cpc' \notin Working
  BY DEF Next, Consume, PollFails, StoreToken, StoreTokenFails, StoreOffset, Commit, CommitFails,
     Shutdown, Restart, StartProcess, Terminate, Crash, StopConsuming, Working
<1> QED  BY <1>1, <1>2, <1>3, <1>4, <1>5, <1>6, <1>7

----
(* What is settled stays settled *)

LEMMA KeptDown ==
  ASSUME InventoryInv, NEW m \in Nat, NEW n \in Nat, m <= n, Kept(n)
  PROVE  Kept(m)
<1>0. Len(outbox) \in Nat  BY DEF InventoryInv, InventoryTypeOK
<1>1. ASSUME NEW k \in Keys PROVE Settled(k, m)  BY SettledDown DEF Kept
<1>2. ASSUME NEW k \in Keys PROVE TokenDue(k, m)
  <2>1. TokenDue(k, n)  BY DEF Kept
  <2>2. n + 1 .. Len(outbox) \subseteq m + 1 .. Len(outbox)  BY <1>0
  <2> QED  BY <2>1, <2>2 DEF TokenDue
<1> QED  BY <1>1, <1>2 DEF Kept

\* A step that changes neither rows, representations nor events, neither tuples
\* nor the history of tokens.
LEMMA KeptFrame ==
  ASSUME UNCHANGED <<inventoryVars, tuples, created, untokened>>, NEW n, Kept(n)
  PROVE  Kept(n)'
<1>0. UNCHANGED <<row, common, outbox>>  BY DEF inventoryVars
<1>1. ASSUME NEW k \in Keys PROVE Settled(k, n)'
  <2>1. Settled(k, n)  BY DEF Kept
  <2> QED  BY <1>0, <2>1, SettledStays
<1>2. \A i : TuplesFor(outbox[i])' = TuplesFor(outbox[i])  BY <1>0, ReadsUnchanged
<1>3. ASSUME NEW k \in Keys PROVE TokenDue(k, n)'
  <2>1. TokenDue(k, n)  BY DEF Kept
  <2> QED  BY <1>0, <1>2, <2>1 DEF TokenDue
<1> QED  BY <1>1, <1>3 DEF Kept

LEMMA ProduceKeepsKept ==
  ASSUME InventoryInv, OutboxInv, ConsumerTypes, TokensInv, Produce,
         NEW n \in 0 .. Len(outbox), Kept(n)
  PROVE  Kept(n)'
<1>1. PICK k \in Keys : \E r, cs, rs, op :
        /\ SavesNext(k, r, cs, rs, op)
        /\ row[k] # NoRow => r.ktn = row[k].ktn
        /\ row[k] = NoRow => r.ktn = 0
  BY ProduceSaves
<1>2. PICK r, cs, rs, op :
        /\ SavesNext(k, r, cs, rs, op)
        /\ row[k] # NoRow => r.ktn = row[k].ktn
        /\ row[k] = NoRow => r.ktn = 0
  BY <1>1
<1>3. UNCHANGED <<tuples, created, untokened>>  BY DEF Produce, consumerVars, tupleVars
<1>4. ASSUME NEW j \in Keys PROVE Settled(j, n)'
  <2>1. Settled(j, n)  BY DEF Kept
  <2> QED  BY <1>2, <1>3, <2>1, SaveKeepsSettled
<1>5. ASSUME NEW j \in Keys PROVE TokenDue(j, n)'
  <2>1. TokenDue(j, n)  BY DEF Kept
  <2>2. created \in [Keys -> Nat]  BY DEF ConsumerTypes
  <2>3. \A o \in untokened : o + 1 \in 1 .. Len(outbox)  BY DEF TokensInv
  <2>4. row[k] = NoRow => created[k] = 0  BY DEF TokensInv
  <2> QED  BY <1>2, <1>3, <2>1, <2>2, <2>3, <2>4, SaveKeepsDue
<1> QED  BY <1>4, <1>5 DEF Kept

\* A tuple call, first or repeated, completed or not, for the message at hand. A
\* create makes the token due, and the message itself is the event to store it.
LEMMA CallKeepsKept ==
  ASSUME InventoryInv, OutboxInv, ConsumerTypes, PositionsInv, MessageInv,
         UNCHANGED <<inventoryVars, untokened>>, cpc \in {"create", "delete"}, Apply(cpc),
         NEW n \in 0 .. pos, Kept(n)
  PROVE  Kept(n)'
<1>0. cpc \in Working  BY DEF Working
<1>1. pos \in Nat /\ pos < Len(outbox) /\ WorkIsCurrent /\ (cpc = "create" => work.create # {})
  BY <1>0 DEF ConsumerTypes, PositionsInv, MessageInv
<1>2. tuples \in [Keys -> SUBSET Workspaces] /\ created \in [Keys -> Nat]  BY DEF ConsumerTypes
<1>3. ASSUME NEW j \in Keys PROVE Settled(j, n)'
  <2>1. Settled(j, n)  BY DEF Kept
  <2> QED  BY <1>1, <1>2, <2>1, CallKeepsSettled
<1>4. ASSUME NEW j \in Keys PROVE TokenDue(j, n)'
  <2>1. TokenDue(j, n)  BY DEF Kept
  <2>2. UNCHANGED <<row, common, outbox>>  BY DEF inventoryVars
  <2>3. \A i : TuplesFor(outbox[i])' = TuplesFor(outbox[i])  BY <2>2, ReadsUnchanged
  <2>4. CASE created'[j] = created[j]  BY <2>1, <2>2, <2>3, <2>4 DEF TokenDue
  <2>5. CASE created'[j] # created[j]
    <3>1. cpc = "create" /\ j = Message.key  BY <1>2, <2>5 DEF Apply
    <3>2. /\ Len(outbox) \in Nat /\ pos + 1 \in 1 .. Len(outbox) /\ Message = outbox[pos + 1]
          /\ TuplesFor(outbox[pos + 1]).create # {}
      BY <1>0, <1>1, <3>1, WorkAtHand
    <3>3. pos + 1 \in n + 1 .. Len(outbox)  BY <1>1, <3>2
    <3> QED  BY <2>2, <2>3, <3>1, <3>2, <3>3 DEF TokenDue
  <2> QED  BY <2>4, <2>5
<1> QED  BY <1>3, <1>4 DEF Kept

\* Storing the token settles the message at hand, and settles it as well that
\* nothing is left to do for what was settled before.
LEMMA TokenKeepsKept ==
  ASSUME InventoryInv, OutboxInv, ConsumerTypes, PositionsInv, MessageInv, TokensInv, StoreToken,
         NEW n \in 0 .. pos + 1, Kept(n) \/ (n = pos + 1 /\ Kept(pos))
  PROVE  Kept(n)'
<1> DEFINE k == Message.key
<1>0. cpc = "token" /\ cpc \in Working  BY DEF StoreToken, Working
<1>1. /\ pos \in Nat /\ Len(outbox) \in Nat /\ pos < Len(outbox) /\ pos + 1 \in 1 .. Len(outbox)
      /\ Message = outbox[pos + 1] /\ k \in Keys /\ row[k] # NoRow
      /\ tuples \in [Keys -> SUBSET Workspaces] /\ created \in [Keys -> Nat] /\ token \in Nat
      /\ row \in [Keys -> Resource \cup {NoRow}]
  BY <1>0, WorkAtHand DEF ConsumerTypes, PositionsInv, InventoryInv, InventoryTypeOK
<1>2. UNCHANGED <<common, outbox, tuples, created>> /\ untokened' = untokened \ {pos}
  BY DEF StoreToken, UpdateConsistencyToken, inventoryVars, tupleVars
<1>3. \/ row' = row /\ (Message.op = "deleted" \/ token = 0)
      \/ row' = [row EXCEPT ![k].ktn = token] /\ Message.op # "deleted" /\ token # 0
  BY DEF StoreToken, UpdateConsistencyToken, inventoryVars
<1>4. \A j \in Keys : j # k => row'[j] = row[j]  BY <1>1, <1>3
<1>5. /\ row'[k] # NoRow /\ row'[k].tomb = row[k].tomb
      /\ row' # row => row'[k].ktn = token /\ Message.op # "deleted" /\ token # 0
  <2>1. row[k] \in Resource  BY <1>1
  <2>2. CASE row' = row  BY <1>1, <2>2
  <2>3. CASE row' # row
    <3>1. row'[k] = [row[k] EXCEPT !.ktn = token]  BY <1>1, <1>3, <2>3
    <3>2. row'[k] \in Resource /\ row'[k].tomb = row[k].tomb /\ row'[k].ktn = token
      BY <1>1, <2>1, <3>1 DEF Resource
    <3> QED  BY <1>3, <2>3, <3>2, RowAssumption
  <2> QED  BY <2>2, <2>3
<1>6. ASSUME NEW j \in Keys PROVE Settled(j, n)'
  <2>1. Settled(j, n)
    <3>1. CASE Kept(n)  BY <3>1 DEF Kept
    <3>2. CASE n = pos + 1 /\ Kept(pos)
      <4>1. Settled(j, pos)  BY <3>2 DEF Kept
      <4>2. WorkIsCurrent /\ WorkDone(Message.key)  BY <1>0 DEF MessageInv
      <4> QED  BY <1>1, <3>2, <4>1, <4>2, WorkDoneSettles
    <3> QED  BY <3>1, <3>2
  <2>2. (row'[j] # NoRow /\ row'[j].tomb) => (row[j] # NoRow /\ row[j].tomb)
    BY <1>1, <1>4, <1>5
  <2> QED  BY <1>2, <2>1, <2>2, SettledStays
<1>7. \A i : TuplesFor(outbox[i])' = TuplesFor(outbox[i])  BY <1>2, ReadsUnchanged
<1>8. ASSUME NEW j \in Keys PROVE TokenDue(j, n)'
  <2> SUFFICES ASSUME row'[j] # NoRow, row'[j].ktn < created[j],
                      \A o \in untokened \ {pos} : outbox[o + 1].key # j
               PROVE  \E i \in n + 1 .. Len(outbox) : outbox[i].key = j /\ TuplesFor(outbox[i]).create # {}
    BY <1>2, <1>7 DEF TokenDue
  <2>1. j # k \/ TuplesFor(outbox[pos + 1]).create = {}
    <3> SUFFICES ASSUME j = k, TuplesFor(outbox[pos + 1]).create # {} PROVE FALSE  OBVIOUS
    <3>1. Message.op # "deleted"  BY <1>1, WorkShape
    <3>2. work = TuplesFor(Message)  BY <1>0, <3>1 DEF MessageInv, WorkIsCurrent
    <3>3. token = created[k] /\ token # 0  BY <1>0, <1>1, <3>2 DEF MessageInv
    <3>4. row'[k].ktn = token
      <4>1. row' = [row EXCEPT ![k].ktn = token]  BY <1>3, <3>1, <3>3
      <4>2. row[k] \in Resource  BY <1>1
      <4>3. row'[k] = [row[k] EXCEPT !.ktn = token]  BY <1>1, <4>1
      <4> QED  BY <1>1, <4>2, <4>3 DEF Resource
    <3> QED  BY <1>1, <3>3, <3>4
  <2>2. \A o \in untokened : outbox[o + 1].key # j
    BY <1>1, <2>1 DEF TokensInv
  <2>3. row[j] # NoRow /\ row[j].ktn < created[j]
    <3>1. CASE row'[j] = row[j]  BY <3>1
    <3>2. CASE row'[j] # row[j]
      <4>1. j = k /\ row' # row  BY <1>4, <3>2
      <4>2. work.create # {}  BY <1>0, <1>5, <4>1 DEF MessageInv
      <4>3. token = created[k]  BY <1>0, <4>2 DEF MessageInv
      <4> QED  BY <1>1, <1>5, <4>1, <4>3
    <3> QED  BY <3>1, <3>2
  <2>4. CASE Kept(n)
    <3>1. TokenDue(j, n)  BY <2>4 DEF Kept
    <3> QED  BY <2>2, <2>3, <3>1 DEF TokenDue
  <2>5. CASE n = pos + 1 /\ Kept(pos)
    <3>1. TokenDue(j, pos)  BY <2>5 DEF Kept
    <3>2. PICK i \in pos + 1 .. Len(outbox) : outbox[i].key = j /\ TuplesFor(outbox[i]).create # {}
      BY <2>2, <2>3, <3>1 DEF TokenDue
    <3>3. i # pos + 1  BY <1>1, <2>1, <3>2
    <3>4. i \in n + 1 .. Len(outbox)  BY <1>1, <2>5, <3>3
    <3> QED  BY <3>2, <3>4
  <2> QED  BY <2>4, <2>5
<1> QED  BY <1>6, <1>8 DEF Kept

\* Passing over a message whose token was not stored exempts its resource.
LEMMA PassOverKeepsKept ==
  ASSUME InventoryInv, OutboxInv, ConsumerTypes, PositionsInv, MessageInv, StoreTokenFails,
         NEW n \in 0 .. pos + 1, Kept(n) \/ (n = pos + 1 /\ Kept(pos))
  PROVE  Kept(n)'
<1> DEFINE k == Message.key
<1>0. cpc = "token" /\ cpc \in Working  BY DEF StoreTokenFails, Working
<1>1. /\ pos \in Nat /\ Len(outbox) \in Nat /\ pos < Len(outbox) /\ pos + 1 \in 1 .. Len(outbox)
      /\ Message = outbox[pos + 1] /\ k \in Keys
      /\ tuples \in [Keys -> SUBSET Workspaces]
  BY <1>0, WorkAtHand DEF ConsumerTypes, PositionsInv
<1>2. UNCHANGED <<row, common, outbox, tuples, created>> /\ untokened' = untokened \cup {pos}
  BY DEF StoreTokenFails, inventoryVars, tupleVars
<1>3. ASSUME NEW j \in Keys PROVE Settled(j, n)'
  <2>1. Settled(j, n)
    <3>1. CASE Kept(n)  BY <3>1 DEF Kept
    <3>2. CASE n = pos + 1 /\ Kept(pos)
      <4>1. Settled(j, pos)  BY <3>2 DEF Kept
      <4>2. WorkIsCurrent /\ WorkDone(Message.key)  BY <1>0 DEF MessageInv
      <4> QED  BY <1>1, <3>2, <4>1, <4>2, WorkDoneSettles
    <3> QED  BY <3>1, <3>2
  <2> QED  BY <1>2, <2>1, SettledStays
<1>4. \A i : TuplesFor(outbox[i])' = TuplesFor(outbox[i])  BY <1>2, ReadsUnchanged
<1>5. ASSUME NEW j \in Keys PROVE TokenDue(j, n)'
  <2> SUFFICES ASSUME row[j] # NoRow, row[j].ktn < created[j],
                      \A o \in untokened \cup {pos} : outbox[o + 1].key # j
               PROVE  \E i \in n + 1 .. Len(outbox) : outbox[i].key = j /\ TuplesFor(outbox[i]).create # {}
    BY <1>2, <1>4 DEF TokenDue
  <2>1. outbox[pos + 1].key # j /\ \A o \in untokened : outbox[o + 1].key # j  OBVIOUS
  <2>2. CASE Kept(n)
    <3>1. TokenDue(j, n)  BY <2>2 DEF Kept
    <3> QED  BY <2>1, <3>1 DEF TokenDue
  <2>3. CASE n = pos + 1 /\ Kept(pos)
    <3>1. TokenDue(j, pos)  BY <2>3 DEF Kept
    <3>2. PICK i \in pos + 1 .. Len(outbox) : outbox[i].key = j /\ TuplesFor(outbox[i]).create # {}
      BY <2>1, <3>1 DEF TokenDue
    <3>3. i \in n + 1 .. Len(outbox)  BY <1>1, <2>1, <2>3, <3>2
    <3> QED  BY <3>2, <3>3
  <2> QED  BY <2>2, <2>3
<1> QED  BY <1>3, <1>5 DEF Kept

LEMMA KeptStep ==
  ASSUME ReplicationInv, Next
  PROVE  KeptInv'
<1> SUFFICES ASSUME NEW n \in Bounds' PROVE Kept(n)'  BY DEF KeptInv
<1>1. /\ InventoryInv /\ OutboxInv /\ ConsumerTypes /\ PositionsInv /\ MessageInv /\ TokensInv
      /\ \A m \in Bounds : Kept(m)
  BY DEF ReplicationInv, KeptInv
<1>2. /\ Bounds \subseteq Nat /\ n \in Nat
      /\ \/ \E m \in Bounds : n <= m
         \/ (StoreToken \/ StoreTokenFails) /\ n = pos + 1 /\ pos \in Bounds
  BY <1>1, PositionsStep
<1>3. Len(outbox) \in Nat /\ pos \in Nat  BY <1>1 DEF ConsumerTypes, InventoryInv, InventoryTypeOK
<1>4. CASE (StoreToken \/ StoreTokenFails) /\ n = pos + 1 /\ pos \in Bounds
  <2>1. n \in 0 .. pos + 1 /\ Kept(pos)  BY <1>1, <1>3, <1>4
  <2> QED  BY <1>1, <1>4, <2>1, TokenKeepsKept, PassOverKeepsKept
<1>5. CASE \E m \in Bounds : n <= m
  <2>1. PICK m \in Bounds : n <= m  BY <1>5
  <2>2. Kept(n)  BY <1>1, <1>2, <2>1, KeptDown
  <2>3. n \in 0 .. Len(outbox)
    <3>1. m \in 0 .. Len(outbox)  BY <1>1 DEF PositionsInv
    <3> QED  BY <1>2, <1>3, <2>1, <3>1
  <2>4. cpc \in Working => n \in 0 .. pos /\ n \in 0 .. pos + 1
    <3>1. cpc \in Working => m <= pos  BY <1>1 DEF PositionsInv, Working, Consuming, Reached
    <3> QED  BY <1>2, <1>3, <2>1, <3>1
  <2>5. CASE Produce  BY <1>1, <2>2, <2>3, <2>5, ProduceKeepsKept
  <2>6. CASE StoreToken \/ StoreTokenFails
    <3>1. cpc \in Working  BY <2>6 DEF StoreToken, StoreTokenFails, Working
    <3> QED  BY <1>1, <2>2, <2>4, <2>6, <3>1, TokenKeepsKept, PassOverKeepsKept
  <2>7. CASE /\ UNCHANGED <<inventoryVars, untokened>> /\ cpc \in {"create", "delete"} /\ Apply(cpc)
    <3>1. cpc \in Working  BY <2>7 DEF Working
    <3> QED  BY <1>1, <2>2, <2>4, <2>7, <3>1, CallKeepsKept
  <2>8. CASE UNCHANGED <<inventoryVars, tuples, created, untokened>>  BY <2>2, <2>8, KeptFrame
  <2>9. \/ Produce \/ StoreToken \/ StoreTokenFails
        \/ UNCHANGED <<inventoryVars, untokened>> /\ cpc \in {"create", "delete"} /\ Apply(cpc)
        \/ UNCHANGED <<inventoryVars, tuples, created, untokened>>
    BY DEF Next, Consume, Poll, PollFails, CreateTuple, DeleteTuple, TupleCallFails,
       StoreOffset, Commit, CommitFails, Shutdown, Restart, StartProcess, Terminate, Crash,
       tupleVars
  <2> QED  BY <2>5, <2>6, <2>7, <2>8, <2>9
<1> QED  BY <1>2, <1>4, <1>5

----
(* The invariant *)

LEMMA InitHasReplicationInv == Init => ReplicationInv
<1> SUFFICES ASSUME Init PROVE ReplicationInv  OBVIOUS
<1>1. InventoryInv /\ OutboxInv  BY InitHasInv, InitHasOutboxInv DEF Init
<1>2. /\ cpc = "poll" /\ pos = 0 /\ stored = <<>> /\ committed = 0 /\ token = 0 /\ rev = 0
      /\ work = [create |-> {}, delete |-> {}] /\ untokened = {}
      /\ tuples = [k \in Keys |-> {}] /\ created = [k \in Keys |-> 0]
      /\ \A k \in Keys : row[k] = NoRow
      /\ outbox = <<>>
  BY DEF Init, NoWork, InventoryInit
<1>3. ConsumerTypes  BY <1>2 DEF ConsumerTypes
<1>4. Bounds = {0}  BY <1>2 DEF Bounds, Resume, Reached, Consuming
<1>5. PositionsInv  BY <1>2, <1>4 DEF PositionsInv, Working, Reached
<1>6. MessageInv  BY <1>2 DEF MessageInv, Working
<1>7. TokensInv  BY <1>2 DEF TokensInv
<1>8. ASSUME NEW k \in Keys PROVE Settled(k, 0) /\ TokenDue(k, 0)
  <2>1. tuples[k] = {} /\ row[k] = NoRow  BY <1>2
  <2>2. BoundAhead(k, 0) /\ DeletedUnbound(k, 0)  BY <2>1 DEF BoundAhead, DeletedUnbound
  <2>3. LatestBound(k, 0)  BY DEF LatestBound
  <2>4. TokenDue(k, 0)  BY <2>1 DEF TokenDue
  <2> QED  BY <2>2, <2>3, <2>4 DEF Settled
<1>9. KeptInv  BY <1>4, <1>8 DEF KeptInv, Kept
<1> QED  BY <1>1, <1>3, <1>5, <1>6, <1>7, <1>9 DEF ReplicationInv

LEMMA DatabaseStep ==
  ASSUME InventoryInv, OutboxInv, ConsumerTypes, PositionsInv, MessageInv, Next
  PROVE  InventoryInv' /\ OutboxInv'
<1>1. CASE Produce  BY <1>1, ProduceSaves
<1>2. CASE UNCHANGED inventoryVars  BY <1>2, StepKeepsInv, OutboxStutters
<1>3. CASE StoreToken /\ ~UNCHANGED inventoryVars
  <2>1. cpc \in Working /\ UpdateConsistencyToken(Message.key, token)
    BY <1>3 DEF StoreToken, Working
  <2>2. Message.key \in Keys /\ token \in Nat  BY <2>1, WorkAtHand DEF ConsumerTypes
  <2> QED  BY <2>1, <2>2, TokenKeepsInv, TokenKeepsOutbox
<1> QED  BY <1>1, <1>2, <1>3, ConsumerReadsOnly

LEMMA ReplicationStep == ReplicationInv /\ [Next]_vars => ReplicationInv'
<1>1. ASSUME ReplicationInv, Next PROVE ReplicationInv'
  <2>1. InventoryInv /\ OutboxInv /\ ConsumerTypes /\ PositionsInv /\ MessageInv /\ TokensInv
    BY <1>1 DEF ReplicationInv
  <2>2. InventoryInv' /\ OutboxInv'  BY <1>1, <2>1, DatabaseStep
  <2>3. ConsumerTypes'  BY <1>1, <2>1, TypesStep
  <2>4. PositionsInv'  BY <1>1, <2>1, PositionsStep
  <2>5. MessageInv'  BY <1>1, <2>1, MessageStep
  <2>6. TokensInv'  BY <1>1, <2>1, TokensStep
  <2>7. KeptInv'  BY <1>1, KeptStep, ZenonT(20)
  <2> QED  BY <2>2, <2>3, <2>4, <2>5, <2>6, <2>7, ZenonT(20) DEF ReplicationInv
<1>2. ASSUME ReplicationInv, UNCHANGED vars PROVE ReplicationInv'
  <2>1. /\ UNCHANGED <<row, common, reps, outbox, tuples, rev, created, token, work>>
        /\ UNCHANGED <<pos, committed, stored, cpc, untokened>> /\ UNCHANGED inventoryVars
    BY <1>2 DEF vars, consumerVars, messageVars, tupleVars, inventoryVars
  <2>2. /\ InventoryInv /\ OutboxInv /\ ConsumerTypes /\ PositionsInv /\ MessageInv /\ TokensInv
        /\ \A n \in Bounds : Kept(n)
    BY <1>2 DEF ReplicationInv, KeptInv
  <2>3. InventoryInv' /\ OutboxInv'  BY <2>1, <2>2, StepKeepsInv, OutboxStutters
  <2>4. ConsumerTypes'  BY <2>1, <2>2 DEF ConsumerTypes
  <2>5. Bounds' = Bounds /\ Reached' = Reached  BY <2>1 DEF Bounds, Resume, Reached
  <2>6. PositionsInv'  BY <2>1, <2>2, <2>5 DEF PositionsInv
  <2>7. Message' = Message /\ WorkIsCurrent' = WorkIsCurrent  BY <2>1, MessageStays
  <2>8. MessageInv'  BY <2>1, <2>2, <2>7 DEF MessageInv, WorkDone
  <2>9. \A i : TuplesFor(outbox[i])' = TuplesFor(outbox[i])  BY <2>1, ReadsUnchanged
  <2>10. TokensInv'  BY <2>1, <2>2, <2>9 DEF TokensInv
  <2>11. \A n \in Bounds : Kept(n)'  BY <2>1, <2>2, KeptFrame
  <2>12. KeptInv'  BY <2>5, <2>11 DEF KeptInv
  <2> QED  BY <2>3, <2>4, <2>6, <2>8, <2>10, <2>12 DEF ReplicationInv
<1> QED  BY <1>1, <1>2

\* The inductive invariant holds throughout: whatever the consumer has processed,
\* wherever it or its successor may resume, is settled.
THEOREM ReplicationInvariant == Spec => []ReplicationInv
BY InitHasReplicationInv, ReplicationStep, PTL DEF Spec

\* Once every event is processed, only the last version of a resource is ahead.
LEMMA CaughtUpIsKept ==
  ASSUME ReplicationInv, CaughtUp, NEW k \in Keys
  PROVE  /\ Len(outbox) \in Nat /\ Settled(k, Len(outbox)) /\ TokenDue(k, Len(outbox))
         /\ \A c \in Ahead(k, Len(outbox)) : c.ws = LatestWorkspace(k)
         /\ common[k] # {} => \E i \in 1 .. Len(outbox) : outbox[i].key = k /\ outbox[i].cv # NoVersion
<1> DEFINE N == Len(outbox)
           last == LastCommonVersion(k)
<1>1. InventoryInv /\ OutboxInv /\ \A n \in Bounds : Kept(n)  BY DEF ReplicationInv, KeptInv
<1>2. N \in Bounds  BY DEF CaughtUp, Bounds, Reached, Consuming
<1>3. N \in Nat  BY <1>1 DEF InventoryInv, InventoryTypeOK
<1>4. Settled(k, N) /\ TokenDue(k, N)  BY <1>1, <1>2 DEF Kept
<1>5. /\ last \in Version
      /\ \A c \in common[k] : c.version \in 0 .. last
  BY <1>1, RepresentationAt
<1>6. ASSUME common[k] # {}
      PROVE  \E i \in 1 .. N : outbox[i].key = k /\ outbox[i].cv = last /\ last # NoVersion
  <2>1. PICK c \in common[k] : TRUE  BY <1>6
  <2>2. last \in 0 .. last  BY <1>5, <2>1 DEF Version, NoVersion
  <2>3. \E i \in VersionedEvents(k) : outbox[i].cv = last
    BY <1>1, <2>2 DEF OutboxInv, OutboxFollowsVersions
  <2> QED  BY <2>2, <2>3 DEF VersionedEvents
<1>7. ASSUME NEW c \in Ahead(k, N) PROVE c.ws = LatestWorkspace(k)
  <2>1. c \in common[k]  BY DEF Ahead
  <2>2. PICK i \in 1 .. N : outbox[i].key = k /\ outbox[i].cv = last  BY <1>6, <2>1
  <2>3. last <= c.version  BY <2>2 DEF Ahead
  <2>4. c.version = last  BY <1>5, <2>1, <2>3 DEF Version, NoVersion
  <2> QED  BY <1>1, <2>1, <2>4, LatestIsLast
<1> QED  BY <1>3, <1>4, <1>6, <1>7

----
(* Results *)

\* When the consumer has caught up, a resource is bound to no workspace but the
\* last one reported and a deleted resource to none, however often messages
\* were replayed and tuple calls repeated, and although a delete reads the
\* representation that is the latest when it is processed.
THEOREM NoTupleIsStale == Spec => []NoStaleTuples
<1>1. ReplicationInv => NoStaleTuples
  <2> SUFFICES ASSUME ReplicationInv, CaughtUp, NEW k \in Keys
               PROVE  /\ tuples[k] \subseteq {LatestWorkspace(k)}
                      /\ row[k] # NoRow /\ row[k].tomb => tuples[k] = {}
    BY DEF NoStaleTuples
  <2>1. /\ Len(outbox) \in Nat /\ Settled(k, Len(outbox))
        /\ \A c \in Ahead(k, Len(outbox)) : c.ws = LatestWorkspace(k)
    BY CaughtUpIsKept
  <2>2. tuples[k] \subseteq {LatestWorkspace(k)}  BY <2>1 DEF Settled, BoundAhead
  <2>3. row[k] # NoRow /\ row[k].tomb => tuples[k] = {}  BY <2>1 DEF Settled, DeletedUnbound
  <2> QED  BY <2>2, <2>3
<1> QED  BY <1>1, ReplicationInvariant, PTL

\* When the consumer has caught up, a live resource is bound to the workspace
\* last reported, unless it was revived in the workspace it was deleted in.
THEOREM LiveIsAlwaysReplicated == Spec => []LiveIsReplicated
<1>1. ReplicationInv => LiveIsReplicated
  <2> SUFFICES ASSUME ReplicationInv, CaughtUp, NEW k \in Keys, ~RevivedInPlace(k)
               PROVE  tuples[k] = {LatestWorkspace(k)} \ {NoWorkspace}
    BY DEF LiveIsReplicated
  <2>1. /\ Settled(k, Len(outbox))
        /\ \A c \in Ahead(k, Len(outbox)) : c.ws = LatestWorkspace(k)
        /\ common[k] # {} => \E i \in 1 .. Len(outbox) : outbox[i].key = k /\ outbox[i].cv # NoVersion
    BY CaughtUpIsKept
  <2>2. \A x \in tuples[k] : x = LatestWorkspace(k) /\ common[k] # {}
    BY <2>1 DEF Settled, BoundAhead, Ahead
  <2>3. InventoryInv  BY DEF ReplicationInv
  <2>4. CASE common[k] = {}  BY <2>2, <2>3, <2>4, LatestIsLast
  <2>5. CASE common[k] # {}
    <3>1. LatestWorkspace(k) \in tuples[k]  BY <2>1, <2>5 DEF Settled, LatestBound
    <3>2. LatestWorkspace(k) # NoWorkspace  BY <2>3, <2>5, LatestIsLast
    <3> QED  BY <2>2, <3>1, <3>2
  <2> QED  BY <2>4, <2>5
<1> QED  BY <1>1, ReplicationInvariant, PTL

\* When the consumer has caught up, the token stored in a row covers the last
\* creation of the resource's tuples, except after a token update that failed
\* and was passed over: a replay that creates again also stores its token.
THEOREM TokensCoverCreates == Spec => []TokenCoversCreate
<1>1. ReplicationInv => TokenCoversCreate
  <2> SUFFICES ASSUME ReplicationInv, CaughtUp, NEW k \in Keys, row[k] # NoRow,
                      \A o \in untokened : outbox[o + 1].key # k
               PROVE  row[k].ktn >= created[k]
    BY DEF TokenCoversCreate
  <2>1. Len(outbox) \in Nat /\ TokenDue(k, Len(outbox))  BY CaughtUpIsKept
  <2>2. ~(row[k].ktn < created[k])  BY <2>1 DEF TokenDue
  <2>3. row \in [Keys -> Resource \cup {NoRow}] /\ created \in [Keys -> Nat]
    BY DEF ReplicationInv, InventoryInv, InventoryTypeOK, ConsumerTypes
  <2>4. row[k] \in Resource  BY <2>3
  <2>5. row[k].ktn \in Nat  BY <2>4 DEF Resource
  <2> QED  BY <2>2, <2>3, <2>5
<1> QED  BY <1>1, ReplicationInvariant, PTL
====
