---- MODULE ConsumerProofs ----
(***************************************************************************)
(* Proofs about one message of Replication's consumer, for any resources,  *)
(* workspaces, batch size and number of failures: no offset is committed   *)
(* before the tuple writes of everything before it were completed, and     *)
(* what the calls of a message, and a report made meanwhile, do to the     *)
(* tuples of one resource.                                                 *)
(***************************************************************************)
EXTENDS Replication, InventoryProofs

\* Most leaves are first-order: Zenon is tried before the SMT solver.
USE ZenonT(5), SMTT(30)

\* The writes of every message before offset n were completed.
Before(n) == \A o \in 0 .. n - 1 : o \in done

Consuming == {"poll", "create", "delete", "token", "store", "commit"}

\* A message that is past its tuple calls is done, and a message is at a tuple
\* call only if it has something to create or delete.
ProgressInv ==
  /\ committed \in Nat /\ Before(committed)
  /\ stored \in Seq(Nat) /\ \A i \in 1 .. Len(stored) : Before(stored[i])
  /\ pos \in Nat /\ (cpc \in Consuming => Before(pos))
  /\ cpc \in {"token", "store"} => pos \in done
  /\ cpc = "create" => work.create # {}
  /\ cpc = "delete" => work.delete # {}

LEMMA BeforeNext == ASSUME NEW n \in Nat, Before(n), n \in done PROVE Before(n + 1)
  BY DEF Before

LEMMA FirstCallOf ==
  ASSUME NEW w, w.create # {} \/ w.delete # {}
  PROVE  /\ FirstCall(w) \in {"create", "delete"}
         /\ FirstCall(w) = "create" => w.create # {}
         /\ FirstCall(w) = "delete" => w.delete # {}
  BY DEF FirstCall

LEMMA CommitStored ==
  ASSUME ProgressInv, CommitStoredOffsets, UNCHANGED done
  PROVE  /\ committed' \in Nat /\ Before(committed)'
         /\ stored' = <<>>
<1>1. CASE stored = <<>>
  BY <1>1 DEF ProgressInv, CommitStoredOffsets, Before
<1>2. CASE stored # <<>>
  <2>1. Len(stored) \in 1 .. Len(stored) /\ stored[Len(stored)] \in Nat
    BY <1>2 DEF ProgressInv
  <2>2. committed' = stored[Len(stored)] /\ stored' = <<>>
    BY <1>2 DEF CommitStoredOffsets
  <2>3. Before(stored[Len(stored)])
    BY <2>1 DEF ProgressInv
  <2> QED
    BY <2>1, <2>2, <2>3 DEF Before
<1> QED
  BY <1>1, <1>2

\* What is done stays done.
LEMMA BeforeStays ==
  ASSUME NEW n, Before(n), done \subseteq done' PROVE \A o \in 0 .. n - 1 : o \in done'
  BY DEF Before

\* A step within one message: the broker and the stored offsets are as they were.
LEMMA WithinMessage ==
  ASSUME ProgressInv, cpc \in Consuming, done \subseteq done', UNCHANGED <<pos, stored, committed>>,
         cpc' \in {"token", "store"} => pos \in done',
         cpc' = "create" => work'.create # {}, cpc' = "delete" => work'.delete # {}
  PROVE  ProgressInv'
<1>1. Before(committed) /\ Before(pos) /\ \A i \in 1 .. Len(stored) : Before(stored[i])
  BY DEF ProgressInv
<1>2. \A o \in 0 .. committed - 1 : o \in done'
  BY <1>1, BeforeStays
<1>3. \A o \in 0 .. pos - 1 : o \in done'
  BY <1>1, BeforeStays
<1>4. \A i \in 1 .. Len(stored) : \A o \in 0 .. stored[i] - 1 : o \in done'
  BY <1>1, BeforeStays
<1> QED
  BY <1>2, <1>3, <1>4 DEF ProgressInv, Before

LEMMA ProgressStep == ProgressInv /\ [Next]_vars => ProgressInv'
<1> SUFFICES ASSUME ProgressInv, [Next]_vars PROVE ProgressInv'
  OBVIOUS
<1>1. CASE UNCHANGED consumerVars
  <2>1. UNCHANGED <<committed, stored, pos, cpc, done, work>>
    BY <1>1 DEF consumerVars, messageVars, tupleVars
  <2> QED
    BY <2>1 DEF ProgressInv, Before
<1>2. CASE Poll
  <2>1. /\ cpc = "poll" /\ UNCHANGED <<pos, stored, committed>>
        /\ work' = TuplesFor(Message) /\ cpc' = FirstCall(TuplesFor(Message))
        /\ done' = IF TuplesFor(Message) = NoWork THEN done \cup {pos} ELSE done
    BY <1>2 DEF Poll
  <2>2. TuplesFor(Message) = [create |-> TuplesFor(Message).create, delete |-> TuplesFor(Message).delete]
    BY DEF TuplesFor, CalculateTuples
  <2> DEFINE w == TuplesFor(Message)
  <2> HIDE DEF w
  <2>3. CASE w.create # {} \/ w.delete # {}
    <3>1. w # NoWork
      BY <2>3 DEF NoWork
    <3> QED
      BY <2>1, <2>3, <3>1, FirstCallOf, WithinMessage DEF w, Consuming
  <2>4. CASE w.create = {} /\ w.delete = {}
    <3>1. w = NoWork
      BY <2>2, <2>4 DEF NoWork, w
    <3>2. FirstCall(w) = "token"
      BY <2>4 DEF FirstCall
    <3> QED
      BY <2>1, <3>1, <3>2, WithinMessage DEF w, Consuming
  <2> QED
    BY <2>3, <2>4
<1>3. CASE PollFails
  BY <1>3, WithinMessage DEF PollFails, StopConsuming, EndMessage, Consuming, tupleVars
<1>4. CASE CreateTuple \/ DeleteTuple
  BY <1>4, WithinMessage DEF CreateTuple, DeleteTuple, Consuming
<1>5. CASE TupleCallFails
  <2>1. cpc \in {"create", "delete"} /\ UNCHANGED <<pos, stored, committed, done>>
    BY <1>5 DEF TupleCallFails
  <2>2. CASE cpc' = FirstCall(work) /\ work' = work
    <3>1. work.create # {} \/ work.delete # {}
      BY <2>1 DEF ProgressInv
    <3> QED
      BY <2>1, <2>2, <3>1, FirstCallOf, WithinMessage DEF Consuming
  <2>3. CASE StopConsuming
    BY <2>1, <2>3, WithinMessage DEF StopConsuming, Consuming
  <2> QED
    BY <1>5, <2>2, <2>3 DEF TupleCallFails
<1>6. CASE StoreToken
  BY <1>6, WithinMessage DEF StoreToken, EndMessage, Consuming, tupleVars, ProgressInv
<1>7. CASE StoreTokenFails
  <2>1. /\ cpc = "token" /\ cpc' = "poll" /\ pos' = pos + 1
        /\ UNCHANGED <<done, stored, committed>>
    BY <1>7 DEF StoreTokenFails, tupleVars
  <2>2. Before(pos + 1)
    BY <2>1, BeforeNext DEF ProgressInv, Consuming
  <2>3. Before(pos)' /\ Before(committed)' /\ \A i \in 1 .. Len(stored) : Before(stored[i])'
    BY <2>1, <2>2 DEF ProgressInv, Before
  <2> QED
    BY <2>1, <2>3 DEF ProgressInv
<1>8. CASE StoreOffset
  <2>1. /\ cpc = "store" /\ cpc' \in {"commit", "poll"} /\ pos' = pos + 1 /\ stored' = Append(stored, pos)
        /\ UNCHANGED <<done, committed>>
    BY <1>8 DEF StoreOffset, tupleVars
  <2>2. pos \in Nat /\ Before(pos) /\ Before(pos + 1)
    BY <2>1, BeforeNext DEF ProgressInv, Consuming
  <2>3. stored' \in Seq(Nat) /\ \A i \in 1 .. Len(stored') : Before(stored'[i])
    BY <2>1, <2>2 DEF ProgressInv
  <2>4. \A i \in 1 .. Len(stored') : Before(stored[i])'
    BY <2>1, <2>3 DEF Before
  <2>5. Before(pos)' /\ Before(committed)'
    BY <2>1, <2>2 DEF ProgressInv, Before
  <2> QED
    BY <2>1, <2>2, <2>3, <2>4, <2>5 DEF ProgressInv
<1>9. CASE Commit
  <2>1. cpc = "commit" /\ cpc' = "poll" /\ UNCHANGED <<pos, done>> /\ CommitStoredOffsets
    BY <1>9 DEF Commit, tupleVars
  <2>2. committed' \in Nat /\ Before(committed)' /\ stored' = <<>>
    BY <2>1, CommitStored
  <2>3. pos' \in Nat /\ Before(pos)'
    BY <2>1 DEF ProgressInv, Consuming, Before
  <2> QED
    BY <2>1, <2>2, <2>3 DEF ProgressInv
<1>10. CASE CommitFails
  BY <1>10, WithinMessage DEF CommitFails, tupleVars, Consuming
<1>11. CASE Terminate
  <2>1. cpc' = "exited" /\ pos' = 0 /\ UNCHANGED done /\ CommitStoredOffsets
    BY <1>11 DEF Terminate, tupleVars
  <2>2. committed' \in Nat /\ Before(committed)' /\ stored' = <<>>
    BY <2>1, CommitStored
  <2> QED
    BY <2>1, <2>2 DEF ProgressInv, Consuming
<1>12. CASE Shutdown
  <2>1. cpc' \in {"down", "exited"} /\ pos' = 0 /\ UNCHANGED done
    BY <1>12 DEF Shutdown, tupleVars
  <2>2. committed' \in Nat /\ Before(committed)' /\ stored' = <<>>
    <3>1. CASE CommitStoredOffsets
      BY <2>1, <3>1, CommitStored
    <3>2. CASE stored' = <<>> /\ UNCHANGED committed
      BY <2>1, <3>2 DEF ProgressInv, Before
    <3> QED
      BY <1>12, <3>1, <3>2 DEF Shutdown
  <2> QED
    BY <2>1, <2>2 DEF ProgressInv, Consuming
<1>13. CASE Restart
  <2>1. cpc' = "poll" /\ pos' = committed /\ UNCHANGED <<done, stored, committed>>
    BY <1>13 DEF Restart, tupleVars
  <2> QED
    BY <2>1 DEF ProgressInv, Before
<1>14. CASE Crash
  <2>1. cpc' = "exited" /\ pos' = 0 /\ stored' = <<>> /\ UNCHANGED <<done, committed>>
    BY <1>14 DEF Crash, tupleVars
  <2> QED
    BY <2>1 DEF ProgressInv, Consuming, Before
<1>15. CASE StartProcess
  <2>1. cpc' = "down" /\ UNCHANGED <<done, pos, stored, committed>>
    BY <1>15 DEF StartProcess, tupleVars
  <2> QED
    BY <2>1 DEF ProgressInv, Consuming, Before
<1>16. CASE Produce \/ UNCHANGED vars
  BY <1>1, <1>16 DEF Produce, vars
<1> QED
  BY <1>2, <1>3, <1>4, <1>5, <1>6, <1>7, <1>8, <1>9, <1>10, <1>11, <1>12, <1>13, <1>14, <1>15, <1>16,
     ZenonT(20) DEF Next, Consume

\* Whatever crashes, fails or is retried, and whatever the batch size: an offset
\* is committed only when the tuple writes of every message before it were
\* completed, so no message is lost to a restart.
THEOREM CommittedIsAlwaysApplied == Spec => []CommittedIsApplied
<1>1. Init => ProgressInv
  BY DEF Init, ProgressInv, Before
<1>2. ProgressInv => CommittedIsApplied
  BY DEF ProgressInv, Before, CommittedIsApplied
<1> QED
  BY <1>1, <1>2, ProgressStep, PTL DEF Spec

----
(* Representations and events *)

\* The representations of k that the first n events have not overtaken: the
\* last version among those events, and every later one.
Ahead(k, n) ==
  {c \in common[k] : \A i \in 1 .. n : outbox[i].key = k => outbox[i].cv <= c.version}

\* Each version up to the last one has one representation, which is the one
\* that WorkspaceAt reads.
LEMMA RepresentationAt ==
  ASSUME InventoryInv, NEW k \in Keys
  PROVE  /\ LastCommonVersion(k) \in Version
         /\ \A c \in common[k] : /\ c.version \in 0 .. LastCommonVersion(k)
                                 /\ c.ws \in Workspaces /\ c.ws # NoWorkspace
                                 /\ WorkspaceAt(k, c.version) = c.ws
         /\ \A v \in 0 .. LastCommonVersion(k) : \E c \in common[k] : c.version = v
<1> DEFINE last == LastCommonVersion(k)
<1>1. last \in Version /\ CommonVersions(k) = 0 .. last
      /\ \A c, d \in common[k] : c.version = d.version => c = d
  BY DEF InventoryInv, CommonVersionsContiguous
<1>2. common[k] \subseteq CommonRep  BY DEF InventoryInv, InventoryTypeOK
<1>3. \A c \in common[k] : c.ws \in Workspaces  BY <1>2 DEF CommonRep
<1>4. \A c \in common[k] : c.version \in 0 .. last  BY <1>1 DEF CommonVersions, Versions
<1>5. \A v \in 0 .. last : \E c \in common[k] : c.version = v  BY <1>1 DEF CommonVersions, Versions
<1>6. ASSUME NEW c \in common[k] PROVE WorkspaceAt(k, c.version) = c.ws
  <2>1. (CHOOSE d \in common[k] : d.version = c.version) = c  BY <1>1
  <2> QED  BY <2>1 DEF WorkspaceAt
<1> QED  BY <1>1, <1>3, <1>4, <1>5, <1>6, WorkspaceAssumption

\* The latest workspace is that of the last version, if there is one.
LEMMA LatestIsLast ==
  ASSUME InventoryInv, NEW k \in Keys
  PROVE  /\ common[k] = {} => LatestWorkspace(k) = NoWorkspace
         /\ \A c \in common[k] : c.version = LastCommonVersion(k) => LatestWorkspace(k) = c.ws
         /\ common[k] # {} => LatestWorkspace(k) \in Workspaces /\ LatestWorkspace(k) # NoWorkspace
<1>1. common[k] = {} => LatestWorkspace(k) = NoWorkspace  BY DEF LatestWorkspace, WorkspaceAt
<1>2. \A c \in common[k] : c.version = LastCommonVersion(k) => LatestWorkspace(k) = c.ws
  BY RepresentationAt DEF LatestWorkspace
<1>3. ASSUME common[k] # {} PROVE \E c \in common[k] : c.version = LastCommonVersion(k)
  <2>1. PICK c \in common[k] : TRUE  BY <1>3
  <2>2. LastCommonVersion(k) \in 0 .. LastCommonVersion(k)
    BY <2>1, RepresentationAt DEF Version, NoVersion
  <2> QED  BY <2>2, RepresentationAt
<1> QED  BY <1>1, <1>2, <1>3, RepresentationAt

\* Passing an event that is another key's or carries no version overtakes nothing.
LEMMA AheadSame ==
  ASSUME InventoryInv, NEW k \in Keys, NEW n \in Nat, n + 1 \in 1 .. Len(outbox),
         outbox[n + 1].key # k \/ outbox[n + 1].cv = NoVersion
  PROVE  Ahead(k, n + 1) = Ahead(k, n)
<1>1. 1 .. (n + 1) = (1 .. n) \cup {n + 1}  OBVIOUS
<1>2. \A c \in common[k] : c.version \in Nat  BY RepresentationAt
<1>3. \A c \in common[k] : outbox[n + 1].key = k => outbox[n + 1].cv <= c.version
  BY <1>2 DEF NoVersion
<1> QED  BY <1>1, <1>3 DEF Ahead

\* The fewer events, the more is ahead.
LEMMA AheadAntitone ==
  ASSUME NEW k, NEW m \in Nat, NEW n \in Nat, m <= n
  PROVE  Ahead(k, n) \subseteq Ahead(k, m)
<1>1. 1 .. m \subseteq 1 .. n  OBVIOUS
<1> QED  BY <1>1 DEF Ahead

\* An event that carries version v finds v - 1 and later ahead, and leaves v
\* and later: the events of a key carry its versions in order.
LEMMA AheadOfEvent ==
  ASSUME InventoryInv, OutboxInv, NEW n \in Nat, n + 1 \in 1 .. Len(outbox),
         outbox[n + 1].cv # NoVersion
  PROVE  LET k == outbox[n + 1].key
             v == outbox[n + 1].cv
         IN  /\ k \in Keys /\ v \in 0 .. LastCommonVersion(k)
             /\ v # 0 => \E i \in 1 .. n : outbox[i].key = k /\ outbox[i].cv = v - 1
             /\ \A c \in common[k] : c \in Ahead(k, n) <=> c.version >= v - 1
             /\ \A c \in common[k] : c \in Ahead(k, n + 1) <=> c.version >= v
<1> DEFINE k == outbox[n + 1].key
           v == outbox[n + 1].cv
           last == LastCommonVersion(k)
           E == VersionedEvents(k)
<1>1. k \in Keys /\ v \in Version  BY EventFields
<1>2. /\ {outbox[i].cv : i \in E} = 0 .. last
      /\ \A i, j \in E : i < j => outbox[i].cv < outbox[j].cv
  BY <1>1 DEF OutboxInv, OutboxFollowsVersions
<1>3. n + 1 \in E  BY DEF VersionedEvents
<1>4. v \in 0 .. last  BY <1>2, <1>3
<1>5. last \in Version  BY <1>1, RepresentationAt
<1>6. v \in Nat /\ v <= last /\ last \in Nat  BY <1>4, <1>5 DEF Version, NoVersion
<1>7. ASSUME v # 0 PROVE \E i \in 1 .. n : outbox[i].key = k /\ outbox[i].cv = v - 1
  <2>1. v - 1 \in 0 .. last  BY <1>6, <1>7
  <2>2. PICK i \in E : outbox[i].cv = v - 1  BY <1>2, <2>1
  <2>3. i \in 1 .. Len(outbox) /\ outbox[i].key = k  BY DEF VersionedEvents
  <2>4. i < n + 1
    <3>1. i # n + 1  BY <1>6, <2>2
    <3>2. ~(n + 1 < i)  BY <1>2, <1>3, <1>6, <2>2
    <3> QED  BY <2>3, <3>1, <3>2
  <2> QED  BY <2>2, <2>3, <2>4
<1>8. \A i \in 1 .. n : outbox[i].key = k => outbox[i].cv \in Int /\ outbox[i].cv <= v - 1
  <2> SUFFICES ASSUME NEW i \in 1 .. n, outbox[i].key = k
               PROVE  outbox[i].cv \in Int /\ outbox[i].cv <= v - 1
    OBVIOUS
  <2>1. i \in 1 .. Len(outbox) /\ i < n + 1  OBVIOUS
  <2>2. outbox[i].cv \in Version  BY <2>1, EventFields
  <2>3. CASE outbox[i].cv = NoVersion  BY <1>6, <2>3 DEF NoVersion
  <2>4. CASE outbox[i].cv # NoVersion
    <3>1. i \in E  BY <2>1, <2>4 DEF VersionedEvents
    <3>2. outbox[i].cv < v  BY <1>2, <1>3, <2>1, <3>1
    <3> QED  BY <1>6, <2>2, <3>2 DEF Version, NoVersion
  <2> QED  BY <2>3, <2>4
<1>9. \A c \in common[k] : c.version \in Nat  BY <1>1, RepresentationAt
<1>10. ASSUME NEW c \in common[k] PROVE c \in Ahead(k, n) <=> c.version >= v - 1
  <2>1. ASSUME c.version >= v - 1 PROVE c \in Ahead(k, n)
    BY <1>6, <1>8, <1>9, <2>1 DEF Ahead
  <2>2. ASSUME c \in Ahead(k, n) PROVE c.version >= v - 1
    <3>1. CASE v = 0  BY <1>9, <3>1
    <3>2. CASE v # 0
      <4>1. PICK i \in 1 .. n : outbox[i].key = k /\ outbox[i].cv = v - 1  BY <1>7, <3>2
      <4> QED  BY <1>6, <1>9, <2>2, <4>1 DEF Ahead
    <3> QED  BY <3>1, <3>2
  <2> QED  BY <2>1, <2>2
<1>11. ASSUME NEW c \in common[k] PROVE c \in Ahead(k, n + 1) <=> c.version >= v
  <2>1. \A i \in 1 .. (n + 1) : i \in 1 .. n \/ i = n + 1  OBVIOUS
  <2>2. ASSUME c.version >= v PROVE c \in Ahead(k, n + 1)
    BY <1>6, <1>8, <1>9, <2>1, <2>2 DEF Ahead
  <2>3. ASSUME c \in Ahead(k, n + 1) PROVE c.version >= v
    BY <1>6, <1>9, <2>3 DEF Ahead
  <2> QED  BY <2>2, <2>3
<1> QED  BY <1>1, <1>4, <1>7, <1>10, <1>11

\* What an event asks for. A delete creates nothing and deletes the latest
\* workspace. A report without version asks for nothing; one with version v
\* asks to replace the workspace of v - 1 (none when v is 0) by that of v, or
\* for nothing when they are the same.
LEMMA WorkOfEvent ==
  ASSUME InventoryInv, OutboxInv, NEW p \in 1 .. Len(outbox)
  PROVE  LET e == outbox[p]
             w == TuplesFor(e)
         IN  /\ w = [create |-> w.create, delete |-> w.delete]
             /\ e.op = "deleted" =>
                  w.create = {} /\ w.delete = {LatestWorkspace(e.key)} \ {NoWorkspace}
             /\ e.op # "deleted" /\ e.cv = NoVersion => w.create = {} /\ w.delete = {}
             /\ e.op # "deleted" /\ e.cv # NoVersion =>
                  \E c \in common[e.key] :
                    /\ c.version = e.cv
                    /\ e.cv = 0 => w.create = {c.ws} /\ w.delete = {}
                    /\ e.cv # 0 =>
                         \E b \in common[e.key] :
                           /\ b.version = e.cv - 1
                           /\ b.ws = c.ws => w.create = {} /\ w.delete = {}
                           /\ b.ws # c.ws => w.create = {c.ws} /\ w.delete = {b.ws}
<1> DEFINE e == outbox[p]
           k == e.key
           w == TuplesFor(e)
<1>1. e \in Event /\ k \in Keys /\ e.cv \in Version /\ e.op \in {"created", "updated", "deleted"}
  BY EventFields
<1>2. e.op = "created" => e.cv \in {NoVersion, 0}  BY DEF OutboxInv, EventsMatchRows
<1>3. w = [create |-> w.create, delete |-> w.delete]  BY DEF TuplesFor, CalculateTuples
<1>4. ASSUME e.op = "deleted"
      PROVE  w.create = {} /\ w.delete = {LatestWorkspace(k)} \ {NoWorkspace}
  BY <1>4 DEF TuplesFor, CalculateTuples
<1>5. ASSUME e.op # "deleted", e.cv = NoVersion PROVE w.create = {} /\ w.delete = {}
  BY <1>5 DEF TuplesFor, CalculateTuples, CurrentWorkspace, PreviousWorkspace
<1>6. ASSUME e.op # "deleted", e.cv # NoVersion
      PROVE  \E c \in common[k] :
               /\ c.version = e.cv
               /\ e.cv = 0 => w.create = {c.ws} /\ w.delete = {}
               /\ e.cv # 0 =>
                    \E b \in common[k] :
                      /\ b.version = e.cv - 1
                      /\ b.ws = c.ws => w.create = {} /\ w.delete = {}
                      /\ b.ws # c.ws => w.create = {c.ws} /\ w.delete = {b.ws}
  <2>1. e.cv \in 0 .. LastCommonVersion(k)
    <3>1. p - 1 \in Nat /\ (p - 1) + 1 = p  OBVIOUS
    <3> QED  BY <1>6, <3>1, AheadOfEvent
  <2>2. PICK c \in common[k] : c.version = e.cv  BY <1>1, <2>1, RepresentationAt
  <2>3. CurrentWorkspace(e) = c.ws /\ c.ws # NoWorkspace
    BY <1>1, <1>6, <2>2, RepresentationAt DEF CurrentWorkspace
  <2>4. CASE e.cv = 0
    <3>1. PreviousWorkspace(e) = NoWorkspace  BY <2>4 DEF PreviousWorkspace
    <3>2. w.create = {c.ws} /\ w.delete = {}
      BY <1>6, <2>3, <3>1 DEF TuplesFor, CalculateTuples
    <3> QED  BY <2>2, <2>4, <3>2
  <2>5. CASE e.cv # 0
    <3>1. e.cv - 1 \in 0 .. LastCommonVersion(k)
      BY <1>1, <2>1, <2>5, RepresentationAt DEF Version, NoVersion
    <3>2. PICK b \in common[k] : b.version = e.cv - 1  BY <1>1, <3>1, RepresentationAt
    <3>3. PreviousWorkspace(e) = b.ws /\ b.ws # NoWorkspace
      BY <1>1, <1>2, <1>6, <2>5, <3>2, RepresentationAt DEF PreviousWorkspace
    <3>4. b.ws = c.ws => w.create = {} /\ w.delete = {}
      BY <1>6, <2>3, <3>3 DEF TuplesFor, CalculateTuples
    <3>5. b.ws # c.ws => w.create = {c.ws} /\ w.delete = {b.ws}
      BY <1>6, <2>3, <3>3 DEF TuplesFor, CalculateTuples
    <3> QED  BY <2>2, <2>5, <3>2, <3>4, <3>5
  <2> QED  BY <2>4, <2>5
<1> QED  BY <1>3, <1>4, <1>5, <1>6

----
(* What holds once the first n events are processed, however often each *)

\* A resource is bound to no workspace but those the n events have not overtaken.
BoundAhead(k, n) == \A x \in tuples[k] : \E c \in Ahead(k, n) : c.ws = x

\* A deleted resource whose events are among the n is bound to none.
DeletedUnbound(k, n) ==
  /\ row[k] # NoRow /\ row[k].tomb
  /\ \A i \in n + 1 .. Len(outbox) : outbox[i].key # k
  => tuples[k] = {}

\* If the n events reach the last run of versions with the same workspace, the
\* resource is bound to that workspace, unless it was revived in place.
LatestBound(k, n) ==
  /\ \E i \in 1 .. n : outbox[i].key = k /\ outbox[i].cv # NoVersion
  /\ \A c \in Ahead(k, n) : c.ws = LatestWorkspace(k)
  /\ ~RevivedInPlace(k)
  => LatestWorkspace(k) \in tuples[k]

Settled(k, n) == BoundAhead(k, n) /\ DeletedUnbound(k, n) /\ LatestBound(k, n)

\* A token that is behind the last create is still to be stored: an event after
\* the n repeats a create of the resource, or a token was passed over.
TokenDue(k, n) ==
  /\ row[k] # NoRow /\ row[k].ktn < created[k]
  /\ \A o \in untokened : outbox[o + 1].key # k
  => \E i \in n + 1 .. Len(outbox) : outbox[i].key = k /\ TuplesFor(outbox[i]).create # {}

\* The definition of RevivedInPlace in terms of what is ahead.
LEMMA RevivedMeans ==
  ASSUME NEW k
  PROVE  RevivedInPlace(k) <=>
           \E d \in 1 .. Len(outbox) :
             /\ outbox[d].key = k /\ outbox[d].op = "deleted"
             /\ \A c \in Ahead(k, d) : c.ws = LatestWorkspace(k)
BY DEF RevivedInPlace, Ahead

\* Settled for n events is settled for fewer.
LEMMA SettledDown ==
  ASSUME NEW k, NEW m \in Nat, NEW n \in Nat, m <= n, Settled(k, n)
  PROVE  Settled(k, m)
<1>1. Ahead(k, n) \subseteq Ahead(k, m)  BY AheadAntitone
<1>2. BoundAhead(k, m)  BY <1>1 DEF Settled, BoundAhead
<1>3. DeletedUnbound(k, m)  BY DEF Settled, DeletedUnbound
<1>4. LatestBound(k, m)  BY <1>1 DEF Settled, LatestBound
<1> QED  BY <1>2, <1>3, <1>4 DEF Settled

\* Work that is done: what was to be created is bound, what was to be deleted
\* is not.
WorkDone(k) == work.create \subseteq tuples[k] /\ work.delete \cap tuples[k] = {}

\* The work of the message at hand is what its event asks for; the work of a
\* delete may be outdated once the resource was reported again.
WorkIsCurrent ==
  /\ Message.op # "deleted" \/ (\A i \in pos + 2 .. Len(outbox) : outbox[i].key # Message.key)
       => work = TuplesFor(Message)
  /\ Message.op = "deleted" => work.create = {}

\* Processing the event at pos, whatever happened to the tuples before, settles
\* one event more.
LEMMA WorkDoneSettles ==
  ASSUME InventoryInv, OutboxInv, pos \in Nat, pos < Len(outbox),
         tuples \in [Keys -> SUBSET Workspaces],
         WorkIsCurrent, WorkDone(Message.key), NEW j \in Keys, Settled(j, pos)
  PROVE  Settled(j, pos + 1)
<1> DEFINE p == pos + 1
           e == outbox[p]
           k == e.key
           v == e.cv
           w == TuplesFor(e)
           last == LastCommonVersion(k)
<1>1. Len(outbox) \in Nat /\ p \in 1 .. Len(outbox) /\ Message = e
  BY DEF Message, InventoryInv, InventoryTypeOK
<1>2. k \in Keys /\ v \in Version /\ e.op \in {"created", "updated", "deleted"}
  BY <1>1, EventFields
<1>3. CASE j # k
  <2>1. Ahead(j, p) = Ahead(j, pos)  BY <1>1, <1>3, AheadSame
  <2>2. BoundAhead(j, p)  BY <2>1 DEF Settled, BoundAhead
  <2>3. DeletedUnbound(j, p)
    <3>1. \A i \in pos + 1 .. Len(outbox) : i = p \/ i \in p + 1 .. Len(outbox)  BY <1>1
    <3> QED  BY <1>3, <3>1 DEF Settled, DeletedUnbound
  <2>4. LatestBound(j, p)
    <3>1. \A i \in 1 .. p : i = p \/ i \in 1 .. pos  BY <1>1
    <3> QED  BY <1>3, <2>1, <3>1 DEF Settled, LatestBound
  <2> QED  BY <2>2, <2>3, <2>4 DEF Settled
<1>4. CASE j = k
  <2>0. BoundAhead(k, pos) /\ DeletedUnbound(k, pos) /\ LatestBound(k, pos)  BY <1>4 DEF Settled
  <2>1. CASE e.op = "deleted"
    <3>1. v = NoVersion  BY <1>1, <2>1 DEF OutboxInv, EventsMatchRows
    <3>2. Ahead(k, p) = Ahead(k, pos)  BY <1>1, <1>2, <3>1, AheadSame
    <3>3. BoundAhead(k, p)  BY <2>0, <3>2 DEF BoundAhead
    <3>4. DeletedUnbound(k, p)
      <4> SUFFICES ASSUME \A i \in p + 1 .. Len(outbox) : outbox[i].key # k, NEW x \in tuples[k]
                   PROVE  FALSE
        BY DEF DeletedUnbound
      <4>1. work.delete = {LatestWorkspace(k)} \ {NoWorkspace}
        <5>1. \A i \in pos + 2 .. Len(outbox) : outbox[i].key # k  BY <1>1
        <5>2. work = w  BY <1>1, <5>1 DEF WorkIsCurrent
        <5> QED  BY <1>1, <2>1, <5>2, WorkOfEvent
      <4>2. PICK c \in Ahead(k, pos) : c.ws = x  BY <2>0 DEF BoundAhead
      <4>3. c \in common[k]  BY DEF Ahead
      <4>4. c.version \in 0 .. last /\ last \in Version  BY <1>2, <4>3, RepresentationAt
      <4>5. last \in 0 .. last  BY <4>4 DEF Version, NoVersion
      <4>6. PICK i \in VersionedEvents(k) : outbox[i].cv = last
        BY <1>2, <4>5 DEF OutboxInv, OutboxFollowsVersions
      <4>7. i \in 1 .. Len(outbox) /\ outbox[i].key = k /\ outbox[i].cv # NoVersion
        BY DEF VersionedEvents
      <4>8. i \in 1 .. pos  BY <1>1, <3>1, <4>7
      <4>9. last <= c.version  BY <4>6, <4>7, <4>8 DEF Ahead
      <4>10. c.version = last  BY <4>4, <4>5, <4>9
      <4>11. LatestWorkspace(k) = x /\ x # NoWorkspace
        BY <1>2, <4>2, <4>3, <4>10, LatestIsLast, RepresentationAt
      <4> QED  BY <1>1, <4>1, <4>11 DEF WorkDone
    <3>5. LatestBound(k, p)
      <4> SUFFICES ASSUME \A c \in Ahead(k, p) : c.ws = LatestWorkspace(k) PROVE RevivedInPlace(k)
        BY DEF LatestBound
      <4> QED  BY <1>1, <2>1, RevivedMeans
    <3> QED  BY <1>4, <3>3, <3>4, <3>5 DEF Settled
  <2>2. CASE e.op # "deleted"
    <3>1. work = w  BY <1>1, <2>2 DEF WorkIsCurrent
    <3>2. DeletedUnbound(k, p)
      <4> SUFFICES ASSUME \A i \in p + 1 .. Len(outbox) : outbox[i].key # k, row[k] # NoRow, row[k].tomb
                   PROVE  FALSE
        BY DEF DeletedUnbound
      <4>1. PICK i \in 1 .. Len(outbox) : /\ outbox[i].key = k /\ outbox[i].op = "deleted"
                                          /\ \A m \in i + 1 .. Len(outbox) : outbox[m].key # k
        BY <1>2, ZenonT(20) DEF OutboxInv, EventsMatchRows
      <4>2. i = p  BY <1>1, <4>1
      <4> QED  BY <2>2, <4>1, <4>2
    <3>3. CASE v = NoVersion
      <4>1. Ahead(k, p) = Ahead(k, pos)  BY <1>1, <1>2, <3>3, AheadSame
      <4>2. BoundAhead(k, p)  BY <2>0, <4>1 DEF BoundAhead
      <4>3. \A i \in 1 .. p : i = p \/ i \in 1 .. pos  BY <1>1
      <4>4. LatestBound(k, p)  BY <2>0, <3>3, <4>1, <4>3 DEF LatestBound
      <4> QED  BY <1>4, <3>2, <4>2, <4>4 DEF Settled
    <3>4. CASE v # NoVersion
      <4>1. /\ v \in 0 .. last
            /\ v # 0 => \E i \in 1 .. pos : outbox[i].key = k /\ outbox[i].cv = v - 1
            /\ \A c \in common[k] : c \in Ahead(k, pos) <=> c.version >= v - 1
            /\ \A c \in common[k] : c \in Ahead(k, p) <=> c.version >= v
        BY <1>1, <3>4, AheadOfEvent
      <4>2. PICK c \in common[k] :
              /\ c.version = v
              /\ v = 0 => w.create = {c.ws} /\ w.delete = {}
              /\ v # 0 => \E b \in common[k] :
                            /\ b.version = v - 1
                            /\ b.ws = c.ws => w.create = {} /\ w.delete = {}
                            /\ b.ws # c.ws => w.create = {c.ws} /\ w.delete = {b.ws}
        BY <1>1, <2>2, <3>4, WorkOfEvent
      <4> HIDE DEF w
      <4>3. v \in Nat /\ \A d \in common[k] : d.version \in Nat
        BY <1>2, <4>1, RepresentationAt
      <4>4. c \in Ahead(k, p)  BY <4>1, <4>2, <4>3
      <4>5. \A d \in common[k] : \A b \in common[k] : d.version = b.version => d = b
        BY <1>2 DEF InventoryInv, CommonVersionsContiguous
      <4>6. work.create \subseteq tuples[k] /\ work.delete \cap tuples[k] = {}
        BY <1>1 DEF WorkDone
      <4>7. BoundAhead(k, p)
        <5> SUFFICES ASSUME NEW x \in tuples[k] PROVE \E d \in Ahead(k, p) : d.ws = x
          BY DEF BoundAhead
        <5>1. PICK d \in Ahead(k, pos) : d.ws = x  BY <2>0 DEF BoundAhead
        <5>2. d \in common[k]  BY DEF Ahead
        <5>3. CASE d.version >= v  BY <4>1, <5>1, <5>2, <5>3
        <5>4. CASE ~(d.version >= v)
          <6>1. d.version = v - 1 /\ v # 0  BY <4>1, <4>3, <5>2, <5>4
          <6>2. PICK b \in common[k] :
                  /\ b.version = v - 1
                  /\ b.ws = c.ws => w.create = {} /\ w.delete = {}
                  /\ b.ws # c.ws => w.create = {c.ws} /\ w.delete = {b.ws}
            BY <4>2, <6>1
          <6>3. d = b  BY <4>5, <5>2, <6>1, <6>2
          <6>4. b.ws = c.ws
            <7>1. ASSUME b.ws # c.ws PROVE FALSE
              <8>1. work.delete = {x}  BY <3>1, <5>1, <6>2, <6>3, <7>1
              <8> QED  BY <4>6, <8>1
            <7> QED  BY <7>1
          <6> QED  BY <4>4, <5>1, <6>3, <6>4
        <5> QED  BY <5>3, <5>4
      <4>8. LatestBound(k, p)
        <5> SUFFICES ASSUME \A d \in Ahead(k, p) : d.ws = LatestWorkspace(k), ~RevivedInPlace(k)
                     PROVE  LatestWorkspace(k) \in tuples[k]
          BY DEF LatestBound
        <5>1. c.ws = LatestWorkspace(k)  BY <4>4
        <5>2. CASE w.create = {c.ws}  BY <3>1, <4>6, <5>1, <5>2
        <5>3. CASE w.create # {c.ws}
          <6>1. v # 0  BY <4>2, <5>3
          <6>2. PICK b \in common[k] : /\ b.version = v - 1 /\ b.ws = c.ws
            BY <4>2, <5>3, <6>1
          <6>3. \A d \in Ahead(k, pos) : d.ws = LatestWorkspace(k)
            <7> SUFFICES ASSUME NEW d \in Ahead(k, pos) PROVE d.ws = LatestWorkspace(k)  OBVIOUS
            <7>1. d \in common[k]  BY DEF Ahead
            <7>2. CASE d.version >= v  BY <4>1, <7>1, <7>2
            <7>3. CASE ~(d.version >= v)
              <8>1. d.version = v - 1  BY <4>1, <4>3, <7>1, <7>3
              <8>2. d = b  BY <4>5, <6>2, <7>1, <8>1, ZenonT(30)
              <8> QED  BY <5>1, <6>2, <8>2
            <7> QED  BY <7>2, <7>3
          <6>4. \E i \in 1 .. pos : outbox[i].key = k /\ outbox[i].cv # NoVersion
            <7>1. PICK i \in 1 .. pos : outbox[i].key = k /\ outbox[i].cv = v - 1  BY <4>1, <6>1
            <7>2. v - 1 # NoVersion  BY <4>3, <6>1 DEF NoVersion
            <7> QED  BY <7>1, <7>2
          <6> QED  BY <2>0, <6>3, <6>4 DEF LatestBound
        <5> QED  BY <5>2, <5>3
      <4> QED  BY <1>4, <3>2, <4>7, <4>8 DEF Settled
    <3> QED  BY <3>3, <3>4
  <2> QED  BY <2>1, <2>2
<1> QED  BY <1>3, <1>4

\* What is read of the representations and the events follows from them alone.
LEMMA ReadsUnchanged ==
  ASSUME UNCHANGED <<common, outbox>>
  PROVE  /\ \A k, n : Ahead(k, n)' = Ahead(k, n)
         /\ \A k : LatestWorkspace(k)' = LatestWorkspace(k)
         /\ \A k : RevivedInPlace(k)' <=> RevivedInPlace(k)
         /\ \A i : TuplesFor(outbox[i])' = TuplesFor(outbox[i])
<1>1. \A k, n : Ahead(k, n)' = Ahead(k, n)  BY DEF Ahead
<1>2. \A k, v : WorkspaceAt(k, v)' = WorkspaceAt(k, v)  BY DEF WorkspaceAt
<1>3. \A k : LatestWorkspace(k)' = LatestWorkspace(k)
  BY <1>2 DEF LatestWorkspace, LastCommonVersion, WorkspaceAt
<1>4. \A k : RevivedInPlace(k)' <=> RevivedInPlace(k)
  BY <1>3, ZenonT(20) DEF RevivedInPlace
<1>5. \A i : TuplesFor(outbox[i])' = TuplesFor(outbox[i])
  BY <1>2, <1>3, ZenonT(30) DEF TuplesFor, CurrentWorkspace, PreviousWorkspace, WorkspaceAt
<1> QED  BY <1>1, <1>3, <1>4, <1>5

\* A step that leaves the tuples, the events and the representations alone, and
\* of the rows at most changes tokens, settles and unsettles nothing.
LEMMA SettledStays ==
  ASSUME UNCHANGED <<common, outbox, tuples>>, NEW k,
         (row'[k] # NoRow /\ row'[k].tomb) => (row[k] # NoRow /\ row[k].tomb), NEW n, Settled(k, n)
  PROVE  Settled(k, n)'
<1>1. BoundAhead(k, n)'  BY ReadsUnchanged DEF Settled, BoundAhead
<1>2. DeletedUnbound(k, n)'  BY DEF Settled, DeletedUnbound
<1>3. LatestBound(k, n)'  BY ReadsUnchanged DEF Settled, LatestBound
<1> QED  BY <1>1, <1>2, <1>3 DEF Settled

\* A tuple call for the message at pos, first or repeated, unsettles none of
\* the events before it.
LEMMA CallKeepsSettled ==
  ASSUME InventoryInv, OutboxInv, UNCHANGED inventoryVars, pos \in Nat, pos < Len(outbox),
         tuples \in [Keys -> SUBSET Workspaces], WorkIsCurrent,
         NEW call \in {"create", "delete"}, call = "create" => work.create # {}, Apply(call),
         NEW j \in Keys, NEW n \in 0 .. pos, Settled(j, n)
  PROVE  Settled(j, n)'
<1> DEFINE p == pos + 1
           e == outbox[p]
           k == e.key
           v == e.cv
           w == TuplesFor(e)
<1>1. Len(outbox) \in Nat /\ p \in 1 .. Len(outbox) /\ Message = e
  BY DEF Message, InventoryInv, InventoryTypeOK
<1>2. k \in Keys /\ v \in Version /\ e.op \in {"created", "updated", "deleted"}
  BY <1>1, EventFields
<1>3. UNCHANGED <<row, common, outbox>>  BY DEF inventoryVars
<1>4. tuples' = [tuples EXCEPT ![k] = IF call = "create" THEN @ \cup work.create ELSE @ \ work.delete]
  BY <1>1 DEF Apply
<1>5. /\ \A i : Ahead(j, i)' = Ahead(j, i)
      /\ LatestWorkspace(j)' = LatestWorkspace(j)
      /\ RevivedInPlace(j)' <=> RevivedInPlace(j)
  BY <1>3, ReadsUnchanged
<1>6. CASE j # k
  <2>1. tuples'[j] = tuples[j]  BY <1>2, <1>4, <1>6
  <2>2. BoundAhead(j, n)'  BY <1>5, <2>1 DEF Settled, BoundAhead
  <2>3. DeletedUnbound(j, n)'  BY <1>3, <2>1 DEF Settled, DeletedUnbound
  <2>4. LatestBound(j, n)'  BY <1>3, <1>5, <2>1 DEF Settled, LatestBound
  <2> QED  BY <2>2, <2>3, <2>4 DEF Settled
<1>7. CASE j = k
  <2>0. BoundAhead(k, n) /\ DeletedUnbound(k, n) /\ LatestBound(k, n)  BY <1>7 DEF Settled
  <2>1. n \in Nat /\ n <= pos /\ n <= p /\ p \in n + 1 .. Len(outbox)  BY <1>1
  <2>2. Ahead(k, p) \subseteq Ahead(k, n) /\ Ahead(k, pos) \subseteq Ahead(k, n)
    BY <2>1, AheadAntitone
  <2>3. DeletedUnbound(j, n)'
    BY <1>3, <1>7, <2>1 DEF DeletedUnbound
  <2>4. ASSUME e.op # "deleted", work.create # {} \/ work.delete # {}
        PROVE  /\ v # NoVersion
               /\ \E c \in Ahead(k, p) :
                    /\ work.create = {c.ws}
                    /\ \A x \in work.delete : \E b \in Ahead(k, pos) : b.ws = x /\ b.ws # c.ws
    <3>1. work = w  BY <1>1, <2>4 DEF WorkIsCurrent
    <3>2. v # NoVersion  BY <1>1, <2>4, <3>1, WorkOfEvent
    <3>3. /\ \A c \in common[k] : c \in Ahead(k, pos) <=> c.version >= v - 1
          /\ \A c \in common[k] : c \in Ahead(k, p) <=> c.version >= v
          /\ v \in 0 .. LastCommonVersion(k)
      BY <1>1, <3>2, AheadOfEvent
    <3>4. PICK c \in common[k] :
              /\ c.version = v
              /\ v = 0 => w.create = {c.ws} /\ w.delete = {}
              /\ v # 0 => \E b \in common[k] :
                            /\ b.version = v - 1
                            /\ b.ws = c.ws => w.create = {} /\ w.delete = {}
                            /\ b.ws # c.ws => w.create = {c.ws} /\ w.delete = {b.ws}
      BY <1>1, <2>4, <3>2, WorkOfEvent
    <3> HIDE DEF w
    <3>5. v \in Nat  BY <3>3
    <3>6. c \in Ahead(k, p)  BY <3>3, <3>4, <3>5
    <3>7. CASE v = 0  BY <3>1, <3>2, <3>4, <3>6, <3>7
    <3>8. CASE v # 0
      <4>1. PICK b \in common[k] :
              /\ b.version = v - 1
              /\ b.ws = c.ws => w.create = {} /\ w.delete = {}
              /\ b.ws # c.ws => w.create = {c.ws} /\ w.delete = {b.ws}
        BY <3>4, <3>8
      <4>2. b.ws # c.ws  BY <2>4, <3>1, <4>1
      <4>3. b \in Ahead(k, pos)  BY <3>3, <3>5, <4>1
      <4> QED  BY <3>1, <3>2, <3>6, <4>1, <4>2, <4>3
    <3> QED  BY <3>7, <3>8
  <2>5. CASE call = "create"
    <3>1. tuples'[k] = tuples[k] \cup work.create  BY <1>2, <1>4, <2>5
    <3>2. e.op # "deleted"  BY <1>1, <2>5 DEF WorkIsCurrent
    <3>3. PICK c \in Ahead(k, p) : work.create = {c.ws}  BY <2>4, <2>5, <3>2
    <3>4. BoundAhead(j, n)'  BY <1>5, <1>7, <2>0, <2>2, <3>1, <3>3 DEF BoundAhead
    <3>5. LatestBound(j, n)'  BY <1>3, <1>5, <1>7, <2>0, <3>1 DEF LatestBound
    <3> QED  BY <1>7, <2>3, <3>4, <3>5 DEF Settled
  <2>6. CASE call = "delete"
    <3>1. tuples'[k] = tuples[k] \ work.delete  BY <1>2, <1>4, <2>6
    <3>2. BoundAhead(j, n)'  BY <1>5, <1>7, <2>0, <3>1, ZenonT(20) DEF BoundAhead
    <3>3. LatestBound(j, n)'
      <4> SUFFICES ASSUME \E i \in 1 .. n : outbox[i].key = k /\ outbox[i].cv # NoVersion,
                          \A c \in Ahead(k, n) : c.ws = LatestWorkspace(k), ~RevivedInPlace(k)
                   PROVE  LatestWorkspace(k) \in tuples'[k]
        BY <1>3, <1>5, <1>7 DEF LatestBound
      <4>1. LatestWorkspace(k) \in tuples[k]  BY <2>0 DEF LatestBound
      <4>2. e.op # "deleted"  BY <1>1, <2>2, RevivedMeans
      <4>3. LatestWorkspace(k) \notin work.delete  BY <2>2, <2>4, <4>2
      <4> QED  BY <3>1, <4>1, <4>3
    <3> QED  BY <1>7, <2>3, <3>2, <3>3 DEF Settled
  <2> QED  BY <2>5, <2>6
<1> QED  BY <1>6, <1>7

----
(* What a report or a delete changes for the consumer *)

\* The events so far and the representations stay as they are; the key gets one
\* event, and a representation only as its new latest.
LEMMA SaveReads ==
  ASSUME InventoryInv, OutboxInv,
         NEW k \in Keys, NEW r, NEW cs, NEW rs, NEW op, SavesNext(k, r, cs, rs, op)
  PROVE  /\ Len(outbox) \in Nat /\ Len(outbox') = Len(outbox) + 1
         /\ outbox'[Len(outbox) + 1].key = k
         /\ \A i \in 1 .. Len(outbox) : outbox'[i] = outbox[i] /\ outbox[i].key \in Keys
         /\ \A j \in Keys : j # k => row'[j] = row[j]
         /\ row'[k] = r /\ r # NoRow
         /\ \A j \in Keys : \A c \in common[j] : c \in common'[j] /\ WorkspaceAt(j, c.version)' = c.ws
         /\ \A j \in Keys : \/ common'[j] = common[j] /\ LatestWorkspace(j)' = LatestWorkspace(j)
                            \/ /\ j = k
                               /\ \E c : /\ common'[k] = common[k] \cup {c}
                                         /\ c.version = LastCommonVersion(k) + 1
                                         /\ LatestWorkspace(k)' = c.ws
<1>1. InventoryInv'  BY SaveKeepsInv
<1>2. /\ Len(outbox') = Len(outbox) + 1 /\ outbox'[Len(outbox) + 1] = NewTupleEvent(k, r, cs, rs, op)
      /\ \A i \in 1 .. Len(outbox) : outbox'[i] = outbox[i]
      /\ \A j \in Keys : j # k => row'[j] = row[j] /\ common'[j] = common[j]
      /\ row'[k] = r /\ r # NoRow /\ common'[k] = common[k] \cup cs
      /\ \/ cs = {} /\ LastCommonVersion(k)' = LastCommonVersion(k)
         \/ cs # {} /\ LastCommonVersion(k)' = LastCommonVersion(k) + 1
  BY SaveEffect
<1>3. outbox'[Len(outbox) + 1].key = k  BY <1>2 DEF NewTupleEvent
<1>4. Len(outbox) \in Nat /\ \A i \in 1 .. Len(outbox) : outbox[i].key \in Keys
  BY EventFields DEF InventoryInv, InventoryTypeOK
<1>5. \A j \in Keys : \A c, d \in common'[j] : c.version = d.version => c = d
  BY <1>1 DEF InventoryInv, CommonVersionsContiguous
<1>6. \A j \in Keys : \A c \in common'[j] : WorkspaceAt(j, c.version)' = c.ws
  <2> SUFFICES ASSUME NEW j \in Keys, NEW c \in common'[j] PROVE WorkspaceAt(j, c.version)' = c.ws
    OBVIOUS
  <2>1. (CHOOSE d \in common'[j] : d.version = c.version) = c  BY <1>5
  <2> QED  BY <2>1 DEF WorkspaceAt
<1>7. \A j \in Keys : \A c \in common[j] : c \in common'[j]  BY <1>2
<1>8. ASSUME NEW j \in Keys, common'[j] = common[j] PROVE LatestWorkspace(j)' = LatestWorkspace(j)
  BY <1>8 DEF LatestWorkspace, LastCommonVersion, WorkspaceAt
<1>9. CASE cs = {}
  <2>1. \A j \in Keys : common'[j] = common[j]  BY <1>2, <1>9
  <2>2. \A j \in Keys : LatestWorkspace(j)' = LatestWorkspace(j)  BY <1>8, <2>1
  <2> QED  BY <1>2, <1>3, <1>4, <1>6, <1>7, <2>1, <2>2, ZenonT(30)
<1>10. CASE cs # {}
  <2>1. PICK c : cs = {c} /\ c.version = LastCommonVersion(k) + 1
    BY <1>10 DEF SavesNext
  <2>2. common'[k] = common[k] \cup {c} /\ LastCommonVersion(k)' = c.version
    BY <1>2, <1>10, <2>1
  <2>3. LatestWorkspace(k)' = c.ws  BY <1>6, <2>2 DEF LatestWorkspace
  <2> QED  BY <1>2, <1>3, <1>4, <1>6, <1>7, <1>8, <2>1, <2>2, <2>3, ZenonT(30)
<1> QED  BY <1>9, <1>10

\* What an event asks to create never changes; what a report's event asks to
\* delete neither.
LEMMA SaveKeepsWork ==
  ASSUME InventoryInv, OutboxInv,
         NEW k \in Keys, NEW r, NEW cs, NEW rs, NEW op, SavesNext(k, r, cs, rs, op),
         NEW i \in 1 .. Len(outbox)
  PROVE  /\ TuplesFor(outbox[i]).create' = TuplesFor(outbox[i]).create
         /\ outbox[i].op # "deleted" \/ outbox[i].key # k => TuplesFor(outbox[i])' = TuplesFor(outbox[i])
<1> DEFINE e == outbox[i]
<1>1. e \in Event /\ e.key \in Keys /\ e.cv \in Version /\ outbox'[i] = e
  BY EventFields, SaveReads
<1>2. CASE e.op = "deleted"
  <2>1. TuplesFor(e).create = {} /\ TuplesFor(e).create' = {}
    BY <1>1, <1>2 DEF TuplesFor, CalculateTuples
  <2>2. ASSUME e.key # k PROVE TuplesFor(e)' = TuplesFor(e)
    <3>0. common'[e.key] = common[e.key]  BY <1>1, <2>2, SaveReads
    <3>1. LatestWorkspace(e.key)' = LatestWorkspace(e.key)
      BY <1>1, <3>0 DEF LatestWorkspace, LastCommonVersion, WorkspaceAt
    <3> QED  BY <1>1, <1>2, <3>1 DEF TuplesFor, CalculateTuples
  <2> QED  BY <1>2, <2>1, <2>2
<1>3. CASE e.op # "deleted"
  <2>1. CASE e.cv = NoVersion
    <3>1. TuplesFor(e)' = TuplesFor(e)
      BY <1>1, <1>3, <2>1 DEF TuplesFor, CalculateTuples, CurrentWorkspace, PreviousWorkspace
    <3> QED  BY <3>1
  <2>2. CASE e.cv # NoVersion
    <3>1. PICK c \in common[e.key] :
            c.version = e.cv /\ (e.cv # 0 => \E b \in common[e.key] : b.version = e.cv - 1)
      BY <1>3, <2>2, WorkOfEvent
    <3>2. WorkspaceAt(e.key, e.cv)' = WorkspaceAt(e.key, e.cv)
      <4>1. WorkspaceAt(e.key, e.cv) = c.ws  BY <1>1, <3>1, RepresentationAt
      <4>2. \A j \in Keys : \A d \in common[j] : WorkspaceAt(j, d.version)' = d.ws  BY SaveReads
      <4>3. \A l \in Keys : \A v : l = e.key /\ v = e.cv => WorkspaceAt(l, v)' = c.ws
        <5> TAKE l \in Keys
        <5> TAKE v
        <5> HAVE l = e.key /\ v = e.cv
        <5> QED  BY <3>1, <4>2
      <4>4. e.key' \in Keys /\ e.key' = e.key /\ e.cv' = e.cv  BY <1>1
      <4>5. WorkspaceAt(e.key, e.cv)' = c.ws  BY <4>3, <4>4, Zenon DEF WorkspaceAt
      <4> QED  BY <4>1, <4>5
    <3>3. e.cv # 0 => WorkspaceAt(e.key, e.cv - 1)' = WorkspaceAt(e.key, e.cv - 1)
      <4> SUFFICES ASSUME e.cv # 0 PROVE WorkspaceAt(e.key, e.cv - 1)' = WorkspaceAt(e.key, e.cv - 1)
        BY <1>1
      <4>0. PICK b \in common[e.key] : b.version = e.cv - 1  BY <3>1
      <4>1. WorkspaceAt(e.key, e.cv - 1) = b.ws  BY <1>1, <4>0, RepresentationAt
      <4>2. \A j \in Keys : \A d \in common[j] : WorkspaceAt(j, d.version)' = d.ws  BY SaveReads
      <4>3. \A l \in Keys : \A v : l = e.key /\ v = e.cv - 1 => WorkspaceAt(l, v)' = b.ws
        <5> TAKE l \in Keys
        <5> TAKE v
        <5> HAVE l = e.key /\ v = e.cv - 1
        <5> QED  BY <4>0, <4>2
      <4>4. e.key' \in Keys /\ e.key' = e.key /\ (e.cv - 1)' = e.cv - 1  BY <1>1
      <4>5. WorkspaceAt(e.key, e.cv - 1)' = b.ws  BY <4>3, <4>4, Zenon DEF WorkspaceAt
      <4> QED  BY <4>1, <4>5
    <3>4. TuplesFor(e)' = TuplesFor(e)
      BY <1>1, <1>3, <2>2, <3>2, <3>3
         DEF TuplesFor, CalculateTuples, CurrentWorkspace, PreviousWorkspace
    <3> QED  BY <3>4
  <2> QED  BY <2>1, <2>2
<1> QED  BY <1>2, <1>3

\* A report or a delete settles nothing and unsettles nothing: its event is
\* beyond the n, and a new workspace starts a run that they do not reach.
LEMMA SaveKeepsSettled ==
  ASSUME InventoryInv, OutboxInv,
         NEW k \in Keys, NEW r, NEW cs, NEW rs, NEW op, SavesNext(k, r, cs, rs, op), UNCHANGED tuples,
         NEW j \in Keys, NEW n \in 0 .. Len(outbox), Settled(j, n)
  PROVE  Settled(j, n)'
<1> DEFINE N == Len(outbox)
           last == LastCommonVersion(k)
<1>1. /\ N \in Nat /\ Len(outbox') = N + 1 /\ outbox'[N + 1].key = k
      /\ \A i \in 1 .. N : outbox'[i] = outbox[i]
      /\ \A l \in Keys : l # k => row'[l] = row[l]
      /\ \A c \in common[j] : c \in common'[j]
      /\ \/ common'[j] = common[j] /\ LatestWorkspace(j)' = LatestWorkspace(j)
         \/ /\ j = k
            /\ \E c : /\ common'[k] = common[k] \cup {c}
                      /\ c.version = last + 1
                      /\ LatestWorkspace(k)' = c.ws
  BY SaveReads, ZenonT(30)
<1>2. BoundAhead(j, n) /\ DeletedUnbound(j, n) /\ LatestBound(j, n)  BY DEF Settled
<1>3. ASSUME NEW m \in 0 .. N
      PROVE  /\ Ahead(j, m) \subseteq Ahead(j, m)'
             /\ Ahead(j, m)' \subseteq Ahead(j, m) \cup (common'[j] \ common[j])
  <2>1. \A i \in 1 .. m : outbox'[i] = outbox[i]  BY <1>1
  <2> QED  BY <1>1, <2>1 DEF Ahead
<1>4. BoundAhead(j, n)'  BY <1>2, <1>3 DEF BoundAhead
<1>5. DeletedUnbound(j, n)'
  <2>1. CASE j = k
    <3>1. N + 1 \in n + 1 .. Len(outbox')  BY <1>1
    <3> QED  BY <1>1, <2>1, <3>1 DEF DeletedUnbound
  <2>2. CASE j # k
    <3>1. \A i \in n + 1 .. N : i \in n + 1 .. Len(outbox') /\ outbox'[i] = outbox[i]  BY <1>1
    <3> QED  BY <1>1, <1>2, <2>2, <3>1 DEF DeletedUnbound
  <2> QED  BY <2>1, <2>2
<1>6. ASSUME RevivedInPlace(j), \A c \in common'[j] \ common[j] : c.ws = LatestWorkspace(j),
             LatestWorkspace(j)' = LatestWorkspace(j)
      PROVE  RevivedInPlace(j)'
  <2>1. PICK d \in 1 .. N : /\ outbox[d].key = j /\ outbox[d].op = "deleted"
                            /\ \A c \in Ahead(j, d) : c.ws = LatestWorkspace(j)
    BY <1>6, RevivedMeans
  <2>2. d \in 1 .. Len(outbox') /\ outbox'[d].key = j /\ outbox'[d].op = "deleted"  BY <1>1, <2>1
  <2>3. \A c \in Ahead(j, d)' : c.ws = LatestWorkspace(j)  BY <1>3, <1>6, <2>1
  <2>4. \A c \in common'[j] :
          (\A i \in 1 .. d : outbox'[i].key = j => outbox'[i].cv <= c.version) => c.ws = LatestWorkspace(j)'
    BY <1>6, <2>3 DEF Ahead
  <2> QED  BY <2>2, <2>4 DEF RevivedInPlace
<1>7. LatestBound(j, n)'
  <2> SUFFICES ASSUME \E i \in 1 .. n : outbox'[i].key = j /\ outbox'[i].cv # NoVersion,
                      \A c \in Ahead(j, n)' : c.ws = LatestWorkspace(j)',
                      ~RevivedInPlace(j)'
               PROVE  LatestWorkspace(j)' \in tuples[j]
    BY DEF LatestBound
  <2>0. \A i \in 1 .. n : outbox'[i] = outbox[i]  BY <1>1
  <2>1. PICK i \in 1 .. n : outbox[i].key = j /\ outbox[i].cv # NoVersion  BY <2>0
  <2>2. LatestWorkspace(j)' = LatestWorkspace(j) /\ \A c \in common'[j] \ common[j] : c.ws = LatestWorkspace(j)
    <3>1. CASE common'[j] = common[j] /\ LatestWorkspace(j)' = LatestWorkspace(j)  BY <3>1
    <3>2. ASSUME j = k, NEW c, common'[k] = common[k] \cup {c}, LatestWorkspace(k)' = c.ws
          PROVE  LatestWorkspace(j)' = LatestWorkspace(j) /\ \A b \in common'[j] \ common[j] : b.ws = LatestWorkspace(j)
      <4>1. i \in VersionedEvents(k)  BY <1>1, <2>1, <3>2 DEF VersionedEvents
      <4>2. outbox[i].cv \in 0 .. last /\ last \in Version
        BY <4>1, RepresentationAt DEF OutboxInv, OutboxFollowsVersions
      <4>3. last \in 0 .. last  BY <4>2 DEF Version, NoVersion
      <4>4. PICK b \in common[k] : b.version = last  BY <4>3, RepresentationAt
      <4>5. \A m \in 1 .. n : outbox[m].key = k => outbox[m].cv \in Int /\ outbox[m].cv <= last
        <5> SUFFICES ASSUME NEW m \in 1 .. n, outbox[m].key = k
                     PROVE  outbox[m].cv \in Int /\ outbox[m].cv <= last
          OBVIOUS
        <5>1. m \in 1 .. N  BY <1>1
        <5>2. outbox[m].cv \in Version  BY <5>1, EventFields
        <5>3. CASE outbox[m].cv = NoVersion  BY <4>3, <5>3 DEF NoVersion
        <5>4. CASE outbox[m].cv # NoVersion
          <6>1. m \in VersionedEvents(k)  BY <5>1, <5>4 DEF VersionedEvents
          <6>2. outbox[m].cv \in 0 .. last  BY <6>1, ZenonT(20) DEF OutboxInv, OutboxFollowsVersions
          <6> QED  BY <6>2
        <5> QED  BY <5>3, <5>4
      <4>6. b \in Ahead(k, n)  BY <4>4, <4>5 DEF Ahead
      <4>7. b.ws = LatestWorkspace(k)  BY <4>4, LatestIsLast
      <4>8. b \in Ahead(j, n)'  BY <1>3, <3>2, <4>6
      <4>9. LatestWorkspace(j)' = LatestWorkspace(j)  BY <3>2, <4>7, <4>8
      <4>10. LatestWorkspace(j)' = c.ws  BY <3>2
      <4> QED  BY <3>2, <4>9, <4>10
    <3> QED  BY <1>1, <3>1, <3>2
  <2>3. ~RevivedInPlace(j)  BY <1>6, <2>2
  <2>4. \A c \in Ahead(j, n) : c.ws = LatestWorkspace(j)  BY <1>3, <2>2
  <2> QED  BY <1>2, <2>1, <2>2, <2>3, <2>4 DEF LatestBound
<1> QED  BY <1>4, <1>5, <1>7 DEF Settled

\* Nor does it make a token due that was not: saving keeps the token, and a new
\* resource has no tuple.
LEMMA SaveKeepsDue ==
  ASSUME InventoryInv, OutboxInv,
         NEW k \in Keys, NEW r, NEW cs, NEW rs, NEW op, SavesNext(k, r, cs, rs, op),
         UNCHANGED <<created, untokened>>, created \in [Keys -> Nat],
         row[k] # NoRow => r.ktn = row[k].ktn,
         row[k] = NoRow => r.ktn = 0 /\ created[k] = 0,
         \A o \in untokened : o + 1 \in 1 .. Len(outbox),
         NEW j \in Keys, NEW n \in 0 .. Len(outbox), TokenDue(j, n)
  PROVE  TokenDue(j, n)'
<1> DEFINE N == Len(outbox)
<1>1. /\ N \in Nat /\ Len(outbox') = N + 1
      /\ \A i \in 1 .. N : outbox'[i] = outbox[i]
      /\ \A l \in Keys : l # k => row'[l] = row[l]
      /\ row'[k] = r
  BY SaveReads
<1> SUFFICES ASSUME row'[j] # NoRow, row'[j].ktn < created[j],
                    \A o \in untokened : outbox'[o + 1].key # j
             PROVE  \E i \in n + 1 .. Len(outbox') :
                      outbox'[i].key = j /\ TuplesFor(outbox[i]).create' # {}
  BY DEF TokenDue
<1>2. row[j] # NoRow /\ row[j].ktn < created[j]  BY <1>1
<1>3. \A o \in untokened : outbox[o + 1].key # j  BY <1>1
<1>4. PICK i \in n + 1 .. N : outbox[i].key = j /\ TuplesFor(outbox[i]).create # {}
  BY <1>2, <1>3 DEF TokenDue
<1>5. i \in 1 .. N /\ i \in n + 1 .. Len(outbox')  BY <1>1
<1>6. TuplesFor(outbox[i]).create' = TuplesFor(outbox[i]).create  BY <1>5, SaveKeepsWork
<1> QED  BY <1>1, <1>4, <1>5, <1>6
====
