---- MODULE InventoryProofs ----
(***************************************************************************)
(* The atomic inventory keeps its versions straight, for any number of     *)
(* resources, workspaces and reports.                                      *)
(*                                                                         *)
(* The argument.  CommonVersionsContiguous is inductive once the row is    *)
(* related to the representations: a key without a row has none, and the   *)
(* (generation, version) of each stored reporter representation is at most *)
(* the row's (ReporterRepsBounded).  Then the next common version is       *)
(* always last + 1, whichever of its three branches computes it, and the   *)
(* next reporter key is above every stored one.                            *)
(***************************************************************************)
EXTENDS Inventory, TLAPS

\* Most leaves are first-order: Zenon is tried before the SMT solver.
USE ZenonT(5), SMTT(30)

\* Nothing is stored for a key without a row; a row is at least as new as
\* every reporter representation stored for it.
ReporterRepsBounded ==
  \A k \in Keys :
    /\ row[k] = NoRow => common[k] = {} /\ reps[k] = {}
    /\ row[k] # NoRow => \A r \in reps[k] :
         r.gen < row[k].gen \/ (r.gen = row[k].gen /\ r.version <= row[k].rv)

InventoryInv ==
  /\ InventoryTypeOK
  /\ \A k \in Keys : LastCommonVersion(k) \in Version
  /\ CommonVersionsContiguous
  /\ ReporterRepsBounded

----
(* Operators *)

\* MAX(version) over the versions 0..n is n, and nil when there are none.
LEMMA LastOfInterval ==
  ASSUME NEW C, NEW n \in Version, Versions(C) = 0 .. n
  PROVE  LastVersion(C) = n
<1>1. CASE n = NoVersion
  <2>1. Versions(C) = {}  BY <1>1 DEF NoVersion
  <2>2. C = {}  BY <2>1 DEF Versions
  <2> QED  BY <1>1, <2>2 DEF LastVersion
<1>2. CASE n # NoVersion
  <2>1. n \in Nat /\ n \in Versions(C)  BY <1>2 DEF Version, NoVersion
  <2>2. C # {}  BY <2>1 DEF Versions
  <2>3. \A w \in Versions(C) : w <= n  BY <2>1
  <2>4. \A v \in Versions(C) : (\A w \in Versions(C) : w <= v) => v = n
    BY <2>1
  <2>5. LastVersion(C) = CHOOSE v \in Versions(C) : \A w \in Versions(C) : w <= v
    BY <2>2 DEF LastVersion
  <2> QED  BY <2>1, <2>3, <2>4, <2>5
<1> QED  BY <1>1, <1>2

\* Setting one field of a resource leaves the others.
LEMMA SetField ==
  ASSUME NEW r \in Resource
  PROVE  /\ \A v \in Version : LET s == [r EXCEPT !.cv = v] IN
              s \in Resource /\ s.cv = v /\ s.rv = r.rv /\ s.gen = r.gen /\ s.tomb = r.tomb /\ s.ktn = r.ktn
         /\ \A n \in Nat : LET s == [r EXCEPT !.rv = n] IN
              s \in Resource /\ s.cv = r.cv /\ s.rv = n /\ s.gen = r.gen /\ s.tomb = r.tomb /\ s.ktn = r.ktn
         /\ \A n \in Nat : LET s == [r EXCEPT !.gen = n] IN
              s \in Resource /\ s.cv = r.cv /\ s.rv = r.rv /\ s.gen = n /\ s.tomb = r.tomb /\ s.ktn = r.ktn
         /\ \A b \in BOOLEAN : LET s == [r EXCEPT !.tomb = b] IN
              s \in Resource /\ s.cv = r.cv /\ s.rv = r.rv /\ s.gen = r.gen /\ s.tomb = b /\ s.ktn = r.ktn
BY DEF Resource

\* ReporterResource.Update: the next version, or version 0 of the next
\* generation when the resource was deleted.
LEMMA ReporterUpdateFields ==
  ASSUME NEW r \in Resource
  PROVE  LET s == ReporterUpdate(r) IN
         /\ s \in Resource
         /\ s.cv = r.cv /\ s.ktn = r.ktn /\ ~s.tomb
         /\ s.gen = IF r.tomb THEN r.gen + 1 ELSE r.gen
         /\ s.rv = IF r.tomb THEN 0 ELSE r.rv + 1
<1> DEFINE b == [r EXCEPT !.rv = @ + 1]
<1>0. r.rv + 1 \in Nat /\ r.gen + 1 \in Nat /\ 0 \in Nat /\ r.tomb \in BOOLEAN  BY DEF Resource
<1>1. b \in Resource /\ b.cv = r.cv /\ b.rv = r.rv + 1 /\ b.gen = r.gen /\ b.tomb = r.tomb /\ b.ktn = r.ktn
  BY <1>0, SetField
<1>2. CASE r.tomb
  <2> DEFINE c == [b EXCEPT !.tomb = FALSE]
             d == [c EXCEPT !.gen = @ + 1]
             e == [d EXCEPT !.rv = 0]
  <2> HIDE DEF b
  <2>1. c \in Resource /\ c.cv = r.cv /\ c.rv = b.rv /\ c.gen = r.gen /\ c.tomb = FALSE /\ c.ktn = r.ktn
    BY <1>1, SetField
  <2> HIDE DEF c
  <2>2. d \in Resource /\ d.cv = r.cv /\ d.rv = b.rv /\ d.gen = r.gen + 1 /\ d.tomb = FALSE /\ d.ktn = r.ktn
    BY <1>0, <2>1, SetField
  <2> HIDE DEF d
  <2>3. e \in Resource /\ e.cv = r.cv /\ e.rv = 0 /\ e.gen = r.gen + 1 /\ e.tomb = FALSE /\ e.ktn = r.ktn
    BY <1>0, <2>2, SetField
  <2>4. ReporterUpdate(r) = e
    BY <1>2 DEF ReporterUpdate, startNewGeneration, b, c, d
  <2> QED  BY <1>2, <2>3, <2>4
<1>3. CASE ~r.tomb
  BY <1>1, <1>3 DEF ReporterUpdate
<1> QED  BY <1>2, <1>3

\* ReporterResource.Delete: the next version of the same generation, deleted.
LEMMA ReporterDeleteFields ==
  ASSUME NEW r \in Resource
  PROVE  LET s == ReporterDelete(r) IN
         s \in Resource /\ s.cv = r.cv /\ s.rv = r.rv + 1 /\ s.gen = r.gen /\ s.tomb /\ s.ktn = r.ktn
<1> DEFINE b == [r EXCEPT !.rv = @ + 1]
           c == [b EXCEPT !.tomb = TRUE]
<1>1. r.rv + 1 \in Nat  BY DEF Resource
<1>2. b \in Resource /\ b.cv = r.cv /\ b.rv = r.rv + 1 /\ b.gen = r.gen /\ b.ktn = r.ktn
  BY <1>1, SetField
<1> HIDE DEF b
<1>3. c \in Resource /\ c.cv = b.cv /\ c.rv = b.rv /\ c.gen = b.gen /\ c.tomb = TRUE /\ c.ktn = b.ktn
  BY <1>2, SetField
<1>4. ReporterDelete(r) = c  BY DEF ReporterDelete, b
<1> QED  BY <1>2, <1>3, <1>4

\* The next common version is last + 1, on each branch of Resource.Update.
LEMMA NextIsLastPlusOne ==
  ASSUME NEW last \in Version, NEW cv \in {NoVersion, last}
  PROVE  NextCommonVersion(cv, last) = last + 1 /\ last + 1 \in Nat
BY DEF NextCommonVersion, Version, NoVersion

\* Resource.Update: the reporter part as above, and a common version exactly
\* when a common representation was reported.
LEMMA UpdateFields ==
  ASSUME NEW r \in Resource, NEW last \in Version, r.cv \in {NoVersion, last},
         NEW ws \in Workspaces \cup {NoWorkspace}
  PROVE  LET s == Update(r, last, ws) IN
         /\ s \in Resource
         /\ s.cv = IF ws # NoWorkspace THEN last + 1 ELSE NoVersion
         /\ s.gen = IF r.tomb THEN r.gen + 1 ELSE r.gen
         /\ s.rv = IF r.tomb THEN 0 ELSE r.rv + 1
         /\ ~s.tomb
         /\ s.ktn = r.ktn
<1> DEFINE u == ReporterUpdate(r)
           v == IF ws # NoWorkspace THEN NextCommonVersion(r.cv, last) ELSE NoVersion
<1>1. v \in Version /\ v = IF ws # NoWorkspace THEN last + 1 ELSE NoVersion
  BY NextIsLastPlusOne DEF Version
<1>2. /\ u \in Resource /\ ~u.tomb /\ u.ktn = r.ktn
      /\ u.gen = IF r.tomb THEN r.gen + 1 ELSE r.gen
      /\ u.rv = IF r.tomb THEN 0 ELSE r.rv + 1
  BY ReporterUpdateFields
<1>3. Update(r, last, ws) = [u EXCEPT !.cv = v]  BY DEF Update
<1> HIDE DEF u, v
<1> QED  BY <1>1, <1>2, <1>3, SetField

----
(* The inductive invariant *)

\* What a save writes is no older than what is stored: at most the next common
\* version, and the reporter version of the resource saved.
SavesNext(k, r, cs, rs, op) ==
  /\ r \in Resource /\ cs \in SUBSET CommonRep /\ rs \in SUBSET ReporterRep
  /\ op \in {"created", "updated", "deleted"}
  /\ Save(k, r, cs, rs, op)
  /\ \/ cs = {} /\ r.cv \in {NoVersion, LastCommonVersion(k)}
     \/ \E c : cs = {c} /\ c.version = LastCommonVersion(k) + 1 /\ r.cv = LastCommonVersion(k) + 1
  /\ \A q \in rs : q.gen = r.gen /\ q.version = r.rv
  /\ row[k] # NoRow => row[k].gen < r.gen \/ (row[k].gen = r.gen /\ row[k].rv <= r.rv)

\* Saving the next version keeps the invariant.
LEMMA SaveKeepsInv ==
  ASSUME InventoryInv, NEW k \in Keys, NEW r, NEW cs, NEW rs, NEW op, SavesNext(k, r, cs, rs, op)
  PROVE  InventoryInv'
<1> USE DEF InventoryInv, SavesNext
<1> DEFINE last == LastCommonVersion(k)
<1>1. InventoryTypeOK'
  <2>1. row' \in [Keys -> Resource \cup {NoRow}]  BY DEF Save, InventoryTypeOK
  <2>2. common' \in [Keys -> SUBSET CommonRep]  BY DEF Save, InventoryTypeOK
  <2>3. reps' \in [Keys -> SUBSET ReporterRep]  BY DEF Save, InventoryTypeOK
  <2>4. NewTupleEvent(k, r, cs, rs, op) \in Event
    BY DEF NewTupleEvent, Event, Resource, Version
  <2>5. outbox' \in Seq(Event)  BY <2>4 DEF Save, InventoryTypeOK
  <2> QED  BY <2>1, <2>2, <2>3, <2>5 DEF InventoryTypeOK
<1>2. \A j \in Keys : j # k => row'[j] = row[j] /\ common'[j] = common[j] /\ reps'[j] = reps[j]
  BY DEF Save, InventoryTypeOK
<1>3. row'[k] = r /\ common'[k] = common[k] \cup cs /\ reps'[k] = reps[k] \cup rs
  BY DEF Save, InventoryTypeOK
<1>4. r # NoRow  BY RowAssumption
<1>5. last \in Version /\ CommonVersions(k) = 0 .. last
  BY DEF CommonVersionsContiguous
<1>6. /\ LastCommonVersion(k)' \in Version
      /\ CommonVersions(k)' = 0 .. LastCommonVersion(k)'
      /\ r.cv \in {NoVersion, LastCommonVersion(k)'}
      /\ \A c, d \in common'[k] : c.version = d.version => c = d
  <2>1. CASE cs = {} /\ r.cv \in {NoVersion, last}
    <3>1. common'[k] = common[k]  BY <1>3, <2>1
    <3> QED  BY <1>5, <2>1, <3>1 DEF CommonVersionsContiguous, LastCommonVersion, CommonVersions
  <2>2. ASSUME NEW c, cs = {c}, c.version = last + 1, r.cv = last + 1
        PROVE  <1>6!1 /\ <1>6!2 /\ <1>6!3 /\ <1>6!4
    <3>1. Versions(common'[k]) = Versions(common[k]) \cup {last + 1}
      BY <1>3, <2>2 DEF Versions
    <3>2. last + 1 \in Version /\ 0 .. (last + 1) = (0 .. last) \cup {last + 1}
      BY <1>5 DEF Version, NoVersion
    <3>3. Versions(common'[k]) = 0 .. (last + 1)
      BY <1>5, <3>1, <3>2 DEF CommonVersions
    <3>4. LastCommonVersion(k)' = last + 1
      BY <3>2, <3>3, LastOfInterval DEF LastCommonVersion
    <3>5. \A d \in common[k] : d.version \in 0 .. last
      BY <1>5 DEF CommonVersions, Versions
    <3>6. \A d \in common[k] : d.version # last + 1
      BY <1>5, <3>5 DEF Version, NoVersion
    <3>7. \A d, e \in common'[k] : d.version = e.version => d = e
      BY <1>3, <2>2, <3>6, ZenonT(20) DEF CommonVersionsContiguous
    <3> QED  BY <2>2, <3>2, <3>3, <3>4, <3>7 DEF CommonVersions
  <2> QED  BY <2>1, <2>2
<1>7. \A j \in Keys : LastCommonVersion(j)' \in Version
  BY <1>2, <1>6 DEF LastCommonVersion
<1>8. CommonVersionsContiguous'
  BY <1>2, <1>3, <1>6, ZenonT(20) DEF CommonVersionsContiguous, LastCommonVersion, CommonVersions
<1>9. ReporterRepsBounded'
  <2>1. ASSUME NEW q \in reps'[k]
        PROVE  q.gen < r.gen \/ (q.gen = r.gen /\ q.version <= r.rv)
    <3>1. CASE q \in rs  BY <3>1 DEF Resource
    <3>2. CASE q \in reps[k]
      <4>1. row[k] # NoRow  BY <3>2 DEF ReporterRepsBounded
      <4>2. row[k] \in Resource  BY <4>1 DEF InventoryTypeOK
      <4>3. q \in ReporterRep  BY <3>2 DEF InventoryTypeOK
      <4>4. q.gen < row[k].gen \/ (q.gen = row[k].gen /\ q.version <= row[k].rv)
        BY <3>2, <4>1 DEF ReporterRepsBounded
      <4> QED  BY <4>1, <4>2, <4>3, <4>4 DEF Resource, ReporterRep
    <3> QED  BY <1>3, <3>1, <3>2
  <2> QED  BY <1>2, <1>3, <1>4, <2>1 DEF ReporterRepsBounded
<1> QED  BY <1>1, <1>7, <1>8, <1>9

\* A report saves the next version, by createResource for a key without a
\* resource and by updateResource otherwise; the resource is live afterwards.
LEMMA ReportSaves ==
  ASSUME InventoryInv, NEW k \in Keys, NEW ws \in Workspaces \cup {NoWorkspace},
         NEW rep \in BOOLEAN, NEW t \in TxIds, Report(k, ws, rep, t)
  PROVE  \E r, cs, rs, op :
           /\ SavesNext(k, r, cs, rs, op)
           /\ ~r.tomb
           /\ row[k] # NoRow => r.ktn = row[k].ktn
           /\ row[k] = NoRow => r.ktn = 0
           /\ op = IF row[k] = NoRow THEN "created" ELSE "updated"
           /\ \A c \in cs : c.ws = ws
<1> DEFINE last == LastCommonVersion(k)
           w == Reported(row[k], last, ws, rep, t)
<1>1. last \in Version /\ (row[k] # NoRow => row[k] \in Resource /\ row[k].cv \in {NoVersion, last})
  BY DEF InventoryInv, InventoryTypeOK, CommonVersionsContiguous
<1>2. row[k] = NoRow => last = NoVersion
  BY DEF InventoryInv, ReporterRepsBounded, LastCommonVersion, LastVersion
<1>3. /\ w.r \in Resource
      /\ w.r.cv = IF ws # NoWorkspace THEN last + 1 ELSE NoVersion
      /\ row[k] # NoRow => row[k].gen < w.r.gen \/ (row[k].gen = w.r.gen /\ row[k].rv <= w.r.rv)
      /\ ~w.r.tomb
      /\ row[k] # NoRow => w.r.ktn = row[k].ktn
      /\ row[k] = NoRow => w.r.ktn = 0
  <2>1. CASE row[k] = NoRow
    <3>1. w.r = NewResource(ws)  BY <2>1 DEF Reported
    <3>2. NewResource(ws) \in Resource  BY DEF NewResource, Resource, Version, NoVersion
    <3>3. NewResource(ws).cv = IF ws # NoWorkspace THEN last + 1 ELSE NoVersion
      BY <1>2, <2>1 DEF NewResource, NoVersion
    <3>4. ~NewResource(ws).tomb /\ NewResource(ws).ktn = 0  BY DEF NewResource
    <3> QED  BY <2>1, <3>1, <3>2, <3>3, <3>4
  <2>2. CASE row[k] # NoRow
    <3>1. w.r = Update(row[k], last, ws)  BY <2>2 DEF Reported
    <3>2. /\ w.r \in Resource
          /\ w.r.cv = IF ws # NoWorkspace THEN last + 1 ELSE NoVersion
          /\ w.r.gen = IF row[k].tomb THEN row[k].gen + 1 ELSE row[k].gen
          /\ w.r.rv = IF row[k].tomb THEN 0 ELSE row[k].rv + 1
          /\ ~w.r.tomb /\ w.r.ktn = row[k].ktn
      BY <1>1, <2>2, <3>1, UpdateFields
    <3>3. row[k].gen \in Nat /\ row[k].rv \in Nat  BY <1>1, <2>2 DEF Resource
    <3> QED  BY <2>2, <3>2, <3>3
  <2> QED  BY <2>1, <2>2
<1>4. w.cs = IF ws = NoWorkspace THEN {} ELSE {[version |-> w.r.cv, ws |-> ws, txid |-> t]}
  BY DEF Reported, ReportedCommon
<1>5. w.rs = {} \/ w.rs = {[version |-> w.r.rv, gen |-> w.r.gen, tomb |-> FALSE, txid |-> t]}
  BY DEF Reported, ReportedReporter
<1>6. w.op = (IF row[k] = NoRow THEN "created" ELSE "updated") /\ Save(k, w.r, w.cs, w.rs, w.op)
  BY DEF Reported, Report
<1> HIDE DEF w
<1>7. w.cs \in SUBSET CommonRep
  <2>1. CASE ws = NoWorkspace  BY <1>4, <2>1
  <2>2. CASE ws # NoWorkspace
    <3>1. last + 1 \in Nat  BY ONLY <1>1 DEF Version, NoVersion
    <3>2. [version |-> w.r.cv, ws |-> ws, txid |-> t] \in CommonRep
      BY <1>3, <2>2, <3>1 DEF CommonRep
    <3> QED  BY <1>4, <2>2, <3>2
  <2> QED  BY <2>1, <2>2
<1>8. w.rs \in SUBSET ReporterRep /\ \A q \in w.rs : q.gen = w.r.gen /\ q.version = w.r.rv
  <2>1. w.r.rv \in Nat /\ w.r.gen \in Nat  BY <1>3 DEF Resource
  <2>2. [version |-> w.r.rv, gen |-> w.r.gen, tomb |-> FALSE, txid |-> t] \in ReporterRep
    BY <2>1 DEF ReporterRep
  <2>3. CASE w.rs = {}  BY <2>3
  <2>4. CASE w.rs = {[version |-> w.r.rv, gen |-> w.r.gen, tomb |-> FALSE, txid |-> t]}
    <3>1. w.rs \in SUBSET ReporterRep  BY <2>2, <2>4
    <3>2. \A q \in w.rs : q = [version |-> w.r.rv, gen |-> w.r.gen, tomb |-> FALSE, txid |-> t]
      BY <2>4
    <3> QED  BY <3>1, <3>2
  <2> QED  BY <1>5, <2>3, <2>4
<1>9. \/ w.cs = {} /\ w.r.cv \in {NoVersion, last}
      \/ \E c : w.cs = {c} /\ c.version = last + 1 /\ w.r.cv = last + 1
  <2>1. CASE ws = NoWorkspace  BY ONLY <1>3, <1>4, <2>1
  <2>2. CASE ws # NoWorkspace
    <3> DEFINE c == [version |-> w.r.cv, ws |-> ws, txid |-> t]
    <3>1. w.cs = {c} /\ c.version = last + 1 /\ w.r.cv = last + 1  BY <1>3, <1>4, <2>2
    <3> QED  BY ONLY <3>1
  <2> QED  BY <2>1, <2>2
<1> HIDE DEF last
<1>10. LastCommonVersion(k) = last  BY DEF last
<1>11. \A c \in w.cs : c.ws = ws  BY <1>4
<1> DEFINE r == w.r
           cs == w.cs
           rs == w.rs
           op == w.op
<1>12. op \in {"created", "updated", "deleted"} /\ op = IF row[k] = NoRow THEN "created" ELSE "updated"
  BY <1>6
<1>13. SavesNext(k, r, cs, rs, op)
  BY <1>3, <1>6, <1>7, <1>8, <1>9, <1>10, <1>12 DEF SavesNext
<1> HIDE DEF r, cs, rs, op
<1>14. ~r.tomb /\ (row[k] # NoRow => r.ktn = row[k].ktn) /\ (row[k] = NoRow => r.ktn = 0)
       /\ \A c \in cs : c.ws = ws
  BY <1>3, <1>11 DEF r, cs
<1> QED  BY ONLY <1>12, <1>13, <1>14

\* Reporting keeps the invariant.
LEMMA ReportKeepsInv ==
  ASSUME InventoryInv, NEW k \in Keys, NEW ws \in Workspaces \cup {NoWorkspace},
         NEW rep \in BOOLEAN, NEW t \in TxIds, Report(k, ws, rep, t)
  PROVE  InventoryInv'
<1>1. PICK r, cs, rs, op : SavesNext(k, r, cs, rs, op)  BY ReportSaves
<1> QED  BY <1>1, SaveKeepsInv

\* A delete saves a tombstone with the next reporter version.
LEMMA DeleteSaves ==
  ASSUME InventoryInv, NEW k \in Keys, DeleteResource(k)
  PROVE  LET r == Delete(row[k])
         IN  /\ SavesNext(k, r, {}, DeletedReporter(r), "deleted")
             /\ row[k] # NoRow /\ r.tomb /\ r.ktn = row[k].ktn
<1> DEFINE r == Delete(row[k])
<1>1. row[k] \in Resource /\ ~row[k].tomb
  BY DEF DeleteResource, InventoryInv, InventoryTypeOK
<1>2. r = ReporterDelete(row[k])  BY <1>1 DEF Delete
<1>3. r \in Resource /\ r.cv = row[k].cv /\ r.gen = row[k].gen /\ r.rv = row[k].rv + 1
      /\ r.tomb /\ r.ktn = row[k].ktn
  BY <1>1, <1>2, ReporterDeleteFields
<1>4. Save(k, r, {}, DeletedReporter(r), "deleted")  BY DEF DeleteResource
<1> HIDE DEF r
<1>5. DeletedReporter(r) \in SUBSET ReporterRep
      /\ \A q \in DeletedReporter(r) : q.gen = r.gen /\ q.version = r.rv
  BY <1>3 DEF DeletedReporter, ReporterRep, Resource
<1>6. r.cv \in {NoVersion, LastCommonVersion(k)}
  BY <1>3, RowAssumption, <1>1 DEF InventoryInv, CommonVersionsContiguous
<1>7. row[k].gen = r.gen /\ row[k].rv <= r.rv
  BY <1>1, <1>3 DEF Resource
<1>8. SavesNext(k, r, {}, DeletedReporter(r), "deleted")
  BY <1>3, <1>4, <1>5, <1>6, <1>7 DEF SavesNext
<1>9. row[k] # NoRow  BY DEF DeleteResource
<1> QED  BY <1>3, <1>8, <1>9 DEF r

\* Deleting keeps the invariant.
LEMMA DeleteKeepsInv ==
  ASSUME InventoryInv, NEW k \in Keys, DeleteResource(k)
  PROVE  InventoryInv'
BY DeleteSaves, SaveKeepsInv

\* Storing a consistency token keeps the invariant.
LEMMA TokenKeepsInv ==
  ASSUME InventoryInv, NEW k \in Keys, NEW token \in Nat, UpdateConsistencyToken(k, token)
  PROVE  InventoryInv'
<1> DEFINE r == [row[k] EXCEPT !.ktn = token]
<1>1. row[k] \in Resource /\ token \in Nat
  BY DEF UpdateConsistencyToken, InventoryInv, InventoryTypeOK
<1>2. r \in Resource /\ r.cv = row[k].cv /\ r.gen = row[k].gen /\ r.rv = row[k].rv
  BY <1>1 DEF Resource
<1>3. row' = [row EXCEPT ![k] = r] /\ common' = common /\ reps' = reps /\ outbox' = outbox
  BY DEF UpdateConsistencyToken
<1> HIDE DEF r
<1>4. row'[k] = r /\ \A j \in Keys : j # k => row'[j] = row[j]
  BY <1>3 DEF InventoryInv, InventoryTypeOK
<1>5. r # NoRow /\ row[k] # NoRow  BY <1>1, <1>2, RowAssumption
<1>6. InventoryTypeOK'  BY <1>2, <1>3 DEF InventoryInv, InventoryTypeOK
<1>7. \A j \in Keys : LastCommonVersion(j)' = LastCommonVersion(j) /\ CommonVersions(j)' = CommonVersions(j)
  BY <1>3 DEF LastCommonVersion, CommonVersions
<1>8. CommonVersionsContiguous'
  BY <1>2, <1>3, <1>4, <1>5, <1>7, ZenonT(20) DEF InventoryInv, CommonVersionsContiguous
<1>9. ReporterRepsBounded'
  BY <1>2, <1>3, <1>4, <1>5 DEF InventoryInv, ReporterRepsBounded
<1> QED  BY <1>6, <1>7, <1>8, <1>9 DEF InventoryInv

\* The invariant holds of the empty database.
LEMMA InitHasInv == InventoryInit => InventoryInv
<1> SUFFICES ASSUME InventoryInit PROVE InventoryInv  OBVIOUS
<1>1. InventoryTypeOK  BY DEF InventoryInit, InventoryTypeOK
<1>2. \A k \in Keys : LastCommonVersion(k) = NoVersion /\ CommonVersions(k) = {}
  BY DEF InventoryInit, LastCommonVersion, LastVersion, CommonVersions, Versions
<1>3. CommonVersionsContiguous
  BY <1>2 DEF InventoryInit, CommonVersionsContiguous, NoVersion
<1>4. ReporterRepsBounded  BY DEF InventoryInit, ReporterRepsBounded
<1> QED  BY <1>1, <1>2, <1>3, <1>4 DEF InventoryInv, Version

\* Every step keeps the invariant.
LEMMA StepKeepsInv == InventoryInv /\ [InventoryNext]_inventoryVars => InventoryInv'
<1> SUFFICES ASSUME InventoryInv, [InventoryNext]_inventoryVars PROVE InventoryInv'  OBVIOUS
<1>1. ASSUME NEW k \in Keys, NEW ws \in Workspaces \cup {NoWorkspace}, NEW rep \in BOOLEAN,
             NEW t \in TxIds, Report(k, ws, rep, t)
      PROVE  InventoryInv'
  BY <1>1, ReportKeepsInv
<1>2. ASSUME NEW k \in Keys, DeleteResource(k) PROVE InventoryInv'
  BY <1>2, DeleteKeepsInv
<1>3. ASSUME NEW k \in Keys, NEW token \in Tokens, UpdateConsistencyToken(k, token)
      PROVE  InventoryInv'
  BY <1>3, TokenKeepsInv, TokensAssumption
<1>4. CASE UNCHANGED inventoryVars
  BY <1>4 DEF inventoryVars, InventoryInv, InventoryTypeOK, CommonVersionsContiguous,
       ReporterRepsBounded, LastCommonVersion, CommonVersions
<1> QED  BY <1>1, <1>2, <1>3, <1>4 DEF InventoryNext

----
(* The outbox *)

\* What the outbox says of the rows: an event belongs to a resource, a
\* creation carries version 0 or none, a delete carries none, and the last
\* event of a deleted resource is its delete.
EventsMatchRows ==
  /\ \A i \in 1 .. Len(outbox) :
       /\ row[outbox[i].key] # NoRow
       /\ outbox[i].op = "created" => outbox[i].cv \in {NoVersion, 0}
       /\ outbox[i].op = "deleted" => outbox[i].cv = NoVersion
  /\ \A k \in Keys : row[k] # NoRow /\ row[k].tomb =>
       \E i \in 1 .. Len(outbox) :
         /\ outbox[i].key = k /\ outbox[i].op = "deleted"
         /\ \A j \in i + 1 .. Len(outbox) : outbox[j].key # k

OutboxInv == OutboxFollowsVersions /\ EventsMatchRows

\* What an event of the outbox carries.
LEMMA EventFields ==
  ASSUME InventoryInv, NEW i \in 1 .. Len(outbox)
  PROVE  /\ outbox[i] \in Event /\ outbox[i].key \in Keys /\ outbox[i].cv \in Version
         /\ outbox[i].op \in {"created", "updated", "deleted"}
<1>1. outbox[i] \in Event  BY DEF InventoryInv, InventoryTypeOK
<1> QED  BY <1>1 DEF Event

\* A save appends one event for its key, changes nothing of the other keys,
\* and advances the last common version by the representation it stores.
LEMMA SaveEffect ==
  ASSUME InventoryInv, NEW k \in Keys, NEW r, NEW cs, NEW rs, NEW op, SavesNext(k, r, cs, rs, op)
  PROVE  LET e == NewTupleEvent(k, r, cs, rs, op)
             last == LastCommonVersion(k)
         IN  /\ e \in Event
             /\ outbox \in Seq(Event) /\ outbox' = Append(outbox, e)
             /\ Len(outbox') = Len(outbox) + 1 /\ outbox'[Len(outbox) + 1] = e
             /\ \A i \in 1 .. Len(outbox) : outbox'[i] = outbox[i]
             /\ \A j \in Keys : j # k => row'[j] = row[j] /\ common'[j] = common[j]
             /\ row'[k] = r /\ r # NoRow /\ common'[k] = common[k] \cup cs
             /\ \/ cs = {} /\ e.cv = NoVersion /\ LastCommonVersion(k)' = last
                \/ cs # {} /\ e.cv = last + 1 /\ LastCommonVersion(k)' = last + 1 /\ last + 1 \in Nat
<1> USE DEF SavesNext
<1> DEFINE e == NewTupleEvent(k, r, cs, rs, op)
           last == LastCommonVersion(k)
<1>1. e \in Event  BY DEF NewTupleEvent, Event, Resource, Version
<1>2. outbox \in Seq(Event) /\ outbox' = Append(outbox, e)
  BY DEF InventoryInv, InventoryTypeOK, Save, NewTupleEvent
<1>3. e.cv = IF cs = {} THEN NoVersion ELSE r.cv  BY DEF NewTupleEvent
<1> HIDE DEF e
<1>4. /\ Len(outbox') = Len(outbox) + 1 /\ outbox'[Len(outbox) + 1] = e
      /\ \A i \in 1 .. Len(outbox) : outbox'[i] = outbox[i]
  BY <1>1, <1>2
<1>5. /\ \A j \in Keys : j # k => row'[j] = row[j] /\ common'[j] = common[j]
      /\ row'[k] = r /\ r # NoRow /\ common'[k] = common[k] \cup cs
  BY RowAssumption DEF Save, InventoryInv, InventoryTypeOK
<1>6. last \in Version /\ Versions(common[k]) = 0 .. last
  BY DEF InventoryInv, CommonVersionsContiguous, CommonVersions
<1>7. CASE cs = {}
  <2>1. common'[k] = common[k]  BY <1>5, <1>7
  <2>2. LastCommonVersion(k)' = last  BY <2>1 DEF LastCommonVersion
  <2> QED  BY <1>1, <1>2, <1>3, <1>4, <1>5, <1>7, <2>2 DEF e
<1>8. ASSUME NEW c, cs = {c}, c.version = last + 1, r.cv = last + 1
      PROVE  cs # {} /\ e.cv = last + 1 /\ LastCommonVersion(k)' = last + 1 /\ last + 1 \in Nat
  <2>1. Versions(common'[k]) = Versions(common[k]) \cup {last + 1}
    BY <1>5, <1>8 DEF Versions
  <2>2. last + 1 \in Version /\ last + 1 \in Nat /\ 0 .. (last + 1) = (0 .. last) \cup {last + 1}
    BY <1>6 DEF Version, NoVersion
  <2>3. LastCommonVersion(k)' = last + 1
    BY <1>6, <2>1, <2>2, LastOfInterval DEF LastCommonVersion
  <2> QED  BY <1>3, <1>8, <2>2, <2>3
<1> QED  BY <1>1, <1>2, <1>4, <1>5, <1>7, <1>8 DEF e

\* A save keeps the outbox in the order of the versions.
LEMMA SaveKeepsOrder ==
  ASSUME InventoryInv, OutboxFollowsVersions,
         NEW k \in Keys, NEW r, NEW cs, NEW rs, NEW op, SavesNext(k, r, cs, rs, op)
  PROVE  OutboxFollowsVersions'
<1> DEFINE e == NewTupleEvent(k, r, cs, rs, op)
           last == LastCommonVersion(k)
           n == Len(outbox)
<1>1. /\ e \in Event /\ e.key = k /\ n \in Nat
      /\ Len(outbox') = n + 1 /\ outbox'[n + 1] = e
      /\ \A i \in 1 .. n : outbox'[i] = outbox[i] /\ outbox[i].cv \in Version
      /\ \A j \in Keys : j # k => common'[j] = common[j]
      /\ \/ e.cv = NoVersion /\ LastCommonVersion(k)' = last
         \/ e.cv = last + 1 /\ LastCommonVersion(k)' = last + 1 /\ last + 1 \in Nat
  BY SaveEffect, EventFields DEF NewTupleEvent
<1> HIDE DEF e
<1>2. ASSUME NEW j \in Keys,
             j # k \/ e.cv = NoVersion
      PROVE  /\ VersionedEvents(j)' = VersionedEvents(j)
             /\ {outbox[i].cv : i \in VersionedEvents(j)}' = {outbox[i].cv : i \in VersionedEvents(j)}
  <2>1. VersionedEvents(j)' = VersionedEvents(j)
    BY <1>1, <1>2 DEF VersionedEvents
  <2> QED  BY <1>1, <2>1 DEF VersionedEvents
<1>3. ASSUME NEW j \in Keys, j # k \/ e.cv = NoVersion, LastCommonVersion(j)' = LastCommonVersion(j)
      PROVE  /\ {outbox[i].cv : i \in VersionedEvents(j)}' = 0 .. LastCommonVersion(j)'
             /\ \A a, b \in VersionedEvents(j)' : a < b => outbox'[a].cv < outbox'[b].cv
  <2>1. \A a \in VersionedEvents(j) : a \in 1 .. n  BY DEF VersionedEvents
  <2> QED  BY <1>1, <1>2, <1>3, <2>1 DEF OutboxFollowsVersions
<1>4. ASSUME e.cv = last + 1, LastCommonVersion(k)' = last + 1, last + 1 \in Nat
      PROVE  /\ {outbox[i].cv : i \in VersionedEvents(k)}' = 0 .. LastCommonVersion(k)'
             /\ \A a, b \in VersionedEvents(k)' : a < b => outbox'[a].cv < outbox'[b].cv
  <2>1. VersionedEvents(k)' = VersionedEvents(k) \cup {n + 1}
    BY <1>1, <1>4 DEF VersionedEvents, NoVersion
  <2>2. \A a \in VersionedEvents(k) : a \in 1 .. n /\ outbox'[a] = outbox[a]
    BY <1>1 DEF VersionedEvents
  <2>3. last \in Int /\ {outbox[i].cv : i \in VersionedEvents(k)} = 0 .. last
    BY DEF OutboxFollowsVersions, InventoryInv, Version, NoVersion
  <2>4. {outbox[i].cv : i \in VersionedEvents(k)}' = {outbox[i].cv : i \in VersionedEvents(k)} \cup {last + 1}
    BY <1>1, <1>4, <2>1, <2>2
  <2> HIDE DEF last
  <2>5. 0 .. (last + 1) = (0 .. last) \cup {last + 1}  BY <1>4, <2>3
  <2>6. \A a \in VersionedEvents(k) : outbox[a].cv \in 0 .. last  BY <2>3
  <2>7. \A a, b \in VersionedEvents(k) : a < b => outbox[a].cv < outbox[b].cv
    BY DEF OutboxFollowsVersions
  <2>8. ASSUME NEW a \in VersionedEvents(k)', NEW b \in VersionedEvents(k)', a < b
        PROVE  outbox'[a].cv < outbox'[b].cv
    <3>1. a \in VersionedEvents(k)  BY <1>1, <2>1, <2>2, <2>8
    <3>2. CASE b \in VersionedEvents(k)  BY <2>2, <2>7, <2>8, <3>1, <3>2
    <3>3. CASE b = n + 1  BY <1>1, <1>4, <2>2, <2>3, <2>6, <3>1, <3>3
    <3> QED  BY <2>1, <3>2, <3>3
  <2> QED  BY <1>4, <2>3, <2>4, <2>5, <2>8
<1>5. \A j \in Keys : j # k => LastCommonVersion(j)' = LastCommonVersion(j)
  BY <1>1 DEF LastCommonVersion
<1>6. ASSUME NEW j \in Keys
      PROVE  /\ {outbox[i].cv : i \in VersionedEvents(j)}' = 0 .. LastCommonVersion(j)'
             /\ \A a, b \in VersionedEvents(j)' : a < b => outbox'[a].cv < outbox'[b].cv
  BY <1>1, <1>3, <1>4, <1>5
<1> QED  BY <1>6 DEF OutboxFollowsVersions

\* A save keeps the outbox in step with the rows.
LEMMA SaveKeepsEvents ==
  ASSUME InventoryInv, EventsMatchRows,
         NEW k \in Keys, NEW r, NEW cs, NEW rs, NEW op, SavesNext(k, r, cs, rs, op),
         op = "created" => row[k] = NoRow,
         op = "deleted" <=> r.tomb, op = "deleted" => cs = {}
  PROVE  EventsMatchRows'
<1> DEFINE e == NewTupleEvent(k, r, cs, rs, op)
           n == Len(outbox)
<1>1. row[k] = NoRow => LastCommonVersion(k) = NoVersion
  BY DEF InventoryInv, ReporterRepsBounded, LastCommonVersion, LastVersion
<1>2. /\ e \in Event /\ e.key = k /\ e.op = op /\ n \in Nat
      /\ Len(outbox') = n + 1 /\ outbox'[n + 1] = e
      /\ \A i \in 1 .. n : outbox'[i] = outbox[i]
      /\ \A j \in Keys : j # k => row'[j] = row[j]
      /\ row'[k] = r /\ r # NoRow
      /\ cs = {} => e.cv = NoVersion
      /\ e.cv # NoVersion => e.cv = LastCommonVersion(k) + 1
  BY SaveEffect DEF NewTupleEvent
<1>3. \A i \in 1 .. n : outbox[i].key \in Keys  BY EventFields
<1> HIDE DEF e
<1>4. op = "created" => e.cv \in {NoVersion, 0}
  BY <1>1, <1>2 DEF NoVersion
<1>5. ASSUME NEW i \in 1 .. Len(outbox')
      PROVE  /\ row'[outbox'[i].key] # NoRow
             /\ outbox'[i].op = "created" => outbox'[i].cv \in {NoVersion, 0}
             /\ outbox'[i].op = "deleted" => outbox'[i].cv = NoVersion
  <2>1. CASE i = n + 1  BY <1>2, <1>4, <2>1
  <2>2. CASE i \in 1 .. n
    <3>1. /\ row[outbox[i].key] # NoRow
          /\ outbox[i].op = "created" => outbox[i].cv \in {NoVersion, 0}
          /\ outbox[i].op = "deleted" => outbox[i].cv = NoVersion
      BY <2>2 DEF EventsMatchRows
    <3> QED  BY <1>2, <1>3, <2>2, <3>1
  <2> QED  BY <1>2, <2>1, <2>2
<1>6. ASSUME NEW j \in Keys, row'[j] # NoRow, row'[j].tomb
      PROVE  \E i \in 1 .. Len(outbox') :
               /\ outbox'[i].key = j /\ outbox'[i].op = "deleted"
               /\ \A m \in i + 1 .. Len(outbox') : outbox'[m].key # j
  <2>1. CASE j = k
    <3>1. n + 1 \in 1 .. Len(outbox') /\ outbox'[n + 1].key = k /\ outbox'[n + 1].op = "deleted"
      BY <1>2, <1>6, <2>1
    <3>2. \A m \in (n + 1) + 1 .. Len(outbox') : FALSE  BY <1>2
    <3> QED  BY <2>1, <3>1, <3>2
  <2>2. CASE j # k
    <3>1. PICK i \in 1 .. n : /\ outbox[i].key = j /\ outbox[i].op = "deleted"
                              /\ \A m \in i + 1 .. n : outbox[m].key # j
      BY <1>2, <1>6, <2>2 DEF EventsMatchRows
    <3>2. i \in 1 .. Len(outbox') /\ outbox'[i].key = j /\ outbox'[i].op = "deleted"
      BY <1>2, <3>1
    <3>3. \A m \in i + 1 .. Len(outbox') : outbox'[m].key # j
      BY <1>2, <2>2, <3>1
    <3> QED  BY <3>2, <3>3
  <2> QED  BY <2>1, <2>2
<1> QED  BY <1>5, <1>6 DEF EventsMatchRows

\* Reporting, deleting and storing a token keep the outbox facts.
LEMMA ReportKeepsOutbox ==
  ASSUME InventoryInv, OutboxInv, NEW k \in Keys, NEW ws \in Workspaces \cup {NoWorkspace},
         NEW rep \in BOOLEAN, NEW t \in TxIds, Report(k, ws, rep, t)
  PROVE  OutboxInv'
<1>1. PICK r, cs, rs, op :
        /\ SavesNext(k, r, cs, rs, op) /\ ~r.tomb
        /\ op = IF row[k] = NoRow THEN "created" ELSE "updated"
  BY ReportSaves
<1>2. (op = "created" => row[k] = NoRow) /\ op # "deleted"  BY <1>1
<1>3. OutboxFollowsVersions'  BY <1>1, SaveKeepsOrder DEF OutboxInv
<1>4. EventsMatchRows'  BY <1>1, <1>2, SaveKeepsEvents DEF OutboxInv
<1> QED  BY <1>3, <1>4 DEF OutboxInv

LEMMA DeleteKeepsOutbox ==
  ASSUME InventoryInv, OutboxInv, NEW k \in Keys, DeleteResource(k)
  PROVE  OutboxInv'
<1> DEFINE r == Delete(row[k])
           rs == DeletedReporter(r)
<1>1. SavesNext(k, r, {}, rs, "deleted") /\ r.tomb  BY DeleteSaves
<1> HIDE DEF r, rs
<1>2. OutboxFollowsVersions'  BY <1>1, SaveKeepsOrder DEF OutboxInv
<1>3. EventsMatchRows'  BY <1>1, SaveKeepsEvents DEF OutboxInv
<1> QED  BY <1>2, <1>3 DEF OutboxInv

LEMMA TokenKeepsOutbox ==
  ASSUME InventoryInv, OutboxInv, NEW k \in Keys, NEW token \in Nat, UpdateConsistencyToken(k, token)
  PROVE  OutboxInv'
<1>1. UNCHANGED <<common, outbox>>  BY DEF UpdateConsistencyToken
<1>2. row[k] \in Resource /\ row \in [Keys -> Resource \cup {NoRow}]
  BY DEF UpdateConsistencyToken, InventoryInv, InventoryTypeOK
<1> DEFINE r == [row[k] EXCEPT !.ktn = token]
<1>3. r \in Resource /\ r.tomb = row[k].tomb  BY <1>2 DEF Resource
<1>4. row' = [row EXCEPT ![k] = r]  BY DEF UpdateConsistencyToken
<1> HIDE DEF r
<1>5. \A j \in Keys : row'[j] = (IF j = k THEN r ELSE row[j])  BY <1>2, <1>4
<1>6. \A j \in Keys : (row'[j] = NoRow <=> row[j] = NoRow) /\ row'[j].tomb = row[j].tomb
  BY <1>2, <1>3, <1>5, RowAssumption
<1>7. OutboxFollowsVersions'
  BY <1>1 DEF OutboxInv, OutboxFollowsVersions, VersionedEvents, LastCommonVersion
<1>8. \A i \in 1 .. Len(outbox) : outbox[i].key \in Keys  BY EventFields
<1>9. EventsMatchRows'
  BY <1>1, <1>6, <1>8 DEF OutboxInv, EventsMatchRows
<1> QED  BY <1>7, <1>9 DEF OutboxInv

\* The outbox is right when it is empty, and stays right while nothing changes.
LEMMA InitHasOutboxInv == InventoryInit => OutboxInv
<1> SUFFICES ASSUME InventoryInit PROVE OutboxInv  OBVIOUS
<1>1. outbox = <<>> /\ Len(outbox) = 0 /\ \A k \in Keys : row[k] = NoRow  BY DEF InventoryInit
<1>2. EventsMatchRows  BY <1>1 DEF EventsMatchRows
<1>3. \A k \in Keys : VersionedEvents(k) = {} /\ LastCommonVersion(k) = NoVersion
  BY <1>1 DEF InventoryInit, VersionedEvents, LastCommonVersion, LastVersion
<1>4. OutboxFollowsVersions  BY <1>3 DEF OutboxFollowsVersions, NoVersion
<1> QED  BY <1>2, <1>4 DEF OutboxInv

LEMMA OutboxStutters ==
  ASSUME OutboxInv, UNCHANGED inventoryVars
  PROVE  OutboxInv'
BY DEF inventoryVars, OutboxInv, OutboxFollowsVersions, EventsMatchRows, VersionedEvents,
   LastCommonVersion

----
(* Results *)

\* The inductive invariant holds throughout.
THEOREM InventoryInvariant == InventorySpec => []InventoryInv
BY InitHasInv, StepKeepsInv, PTL DEF InventorySpec

\* The tables and the outbox hold what their types say.
THEOREM InventoryTypeCorrect == InventorySpec => []InventoryTypeOK
<1>1. InventoryInv => InventoryTypeOK  BY DEF InventoryInv
<1> QED  BY <1>1, InventoryInvariant, PTL

\* The common versions of each resource are 0..last without gap or duplicate.
THEOREM VersionsContiguous == InventorySpec => []CommonVersionsContiguous
<1>1. InventoryInv => CommonVersionsContiguous  BY DEF InventoryInv
<1> QED  BY <1>1, InventoryInvariant, PTL

\* The versions that the next report or delete computes are unused: Save's
\* duplicate-key error can only come from a reused transaction id.
THEOREM NoPrimaryKeyCollision == InventorySpec => []PrimaryKeysNeverCollide
<1>1. InventoryInv => PrimaryKeysNeverCollide
  <2> SUFFICES ASSUME InventoryInv, NEW k \in Keys, row[k] # NoRow
               PROVE  /\ NextCommonVersion(row[k].cv, LastCommonVersion(k)) \notin CommonVersions(k)
                      /\ <<ReporterUpdate(row[k]).gen, ReporterUpdate(row[k]).rv>> \notin ReporterPKs(k)
                      /\ ~row[k].tomb =>
                           <<ReporterDelete(row[k]).gen, ReporterDelete(row[k]).rv>> \notin ReporterPKs(k)
    BY DEF PrimaryKeysNeverCollide
  <2> DEFINE last == LastCommonVersion(k)
             u == ReporterUpdate(row[k])
             d == ReporterDelete(row[k])
  <2>1. row[k] \in Resource  BY DEF InventoryInv, InventoryTypeOK
  <2>2. last \in Version /\ CommonVersions(k) = 0 .. last /\ row[k].cv \in {NoVersion, last}
    BY DEF InventoryInv, CommonVersionsContiguous
  <2> HIDE DEF last
  <2>3. NextCommonVersion(row[k].cv, last) = last + 1 /\ last + 1 \notin 0 .. last
    <3>1. NextCommonVersion(row[k].cv, last) = last + 1  BY <2>2, NextIsLastPlusOne
    <3>2. last + 1 \notin 0 .. last  BY <2>2 DEF Version, NoVersion
    <3> QED  BY <3>1, <3>2
  <2>4. \A q \in reps[k] : /\ q \in ReporterRep
                           /\ q.gen < row[k].gen \/ (q.gen = row[k].gen /\ q.version <= row[k].rv)
    BY DEF InventoryInv, InventoryTypeOK, ReporterRepsBounded
  <2>5. /\ u.gen = IF row[k].tomb THEN row[k].gen + 1 ELSE row[k].gen
        /\ u.rv = IF row[k].tomb THEN 0 ELSE row[k].rv + 1
        /\ d.gen = row[k].gen /\ d.rv = row[k].rv + 1
    BY <2>1, ReporterUpdateFields, ReporterDeleteFields
  <2> HIDE DEF u, d
  <2>6. \A q \in reps[k] : <<q.gen, q.version>> # <<u.gen, u.rv>> /\ <<q.gen, q.version>> # <<d.gen, d.rv>>
    BY <2>1, <2>4, <2>5 DEF Resource, ReporterRep
  <2> QED  BY <2>2, <2>3, <2>6 DEF ReporterPKs, ReporterPK, u, d, last
<1> QED  BY <1>1, InventoryInvariant, PTL

\* Every event moves a reporter resource strictly forward, and a deleted
\* resource comes back only as version 0 of the next generation.
THEOREM LifecycleForward == InventorySpec => LifecycleMovesForward
<1>1. InventoryInv /\ [InventoryNext]_inventoryVars => [LifecycleStep]_inventoryVars
  <2> SUFFICES ASSUME InventoryInv, InventoryNext, NEW j \in Keys,
                      row[j] # NoRow, row'[j] # row[j], outbox' # outbox
               PROVE  IF row[j].tomb
                      THEN ~row'[j].tomb /\ row'[j].gen = row[j].gen + 1 /\ row'[j].rv = 0
                      ELSE row'[j].gen = row[j].gen /\ row'[j].rv = row[j].rv + 1
    BY DEF LifecycleStep
  <2>1. row[j] \in Resource /\ row \in [Keys -> Resource \cup {NoRow}]
        /\ LastCommonVersion(j) \in Version /\ row[j].cv \in {NoVersion, LastCommonVersion(j)}
    BY DEF InventoryInv, InventoryTypeOK, CommonVersionsContiguous
  <2>2. ASSUME NEW k \in Keys, NEW ws \in Workspaces \cup {NoWorkspace}, NEW rep \in BOOLEAN,
               NEW t \in TxIds, Report(k, ws, rep, t)
        PROVE  row'[j] = Update(row[j], LastCommonVersion(j), ws)
    <3> DEFINE w == Reported(row[k], LastCommonVersion(k), ws, rep, t)
    <3>1. row' = [row EXCEPT ![k] = w.r]  BY <2>2 DEF Report, Save
    <3>2. k = j /\ row'[j] = w.r  BY <2>1, <3>1
    <3> QED  BY <3>2 DEF Reported
  <2>3. ASSUME NEW k \in Keys, DeleteResource(k)
        PROVE  ~row[j].tomb /\ row'[j] = ReporterDelete(row[j])
    <3>1. row' = [row EXCEPT ![k] = Delete(row[k])] /\ ~row[k].tomb  BY <2>3 DEF DeleteResource, Save
    <3>2. k = j /\ row'[j] = Delete(row[j])  BY <2>1, <3>1
    <3> QED  BY <3>1, <3>2 DEF Delete
  <2>4. ASSUME NEW k \in Keys, NEW token \in Tokens PROVE ~UpdateConsistencyToken(k, token)
    BY DEF UpdateConsistencyToken
  <2>5. ASSUME NEW ws \in Workspaces \cup {NoWorkspace}, row'[j] = Update(row[j], LastCommonVersion(j), ws)
        PROVE  IF row[j].tomb
               THEN ~row'[j].tomb /\ row'[j].gen = row[j].gen + 1 /\ row'[j].rv = 0
               ELSE row'[j].gen = row[j].gen /\ row'[j].rv = row[j].rv + 1
    BY <2>1, <2>5, UpdateFields
  <2>6. ASSUME ~row[j].tomb, row'[j] = ReporterDelete(row[j])
        PROVE  row'[j].gen = row[j].gen /\ row'[j].rv = row[j].rv + 1
    BY <2>1, <2>6, ReporterDeleteFields
  <2> QED  BY <2>2, <2>3, <2>4, <2>5, <2>6 DEF InventoryNext
<1> QED  BY <1>1, InventoryInvariant, PTL DEF InventorySpec, LifecycleMovesForward

\* The events of a resource that carry a common version carry 0, 1, ..., last
\* in outbox order, whatever the order of reports and deletes.
THEOREM OutboxInVersionOrder == InventorySpec => []OutboxFollowsVersions
<1>1. InventoryInv /\ OutboxInv /\ [InventoryNext]_inventoryVars => OutboxInv'
  <2> SUFFICES ASSUME InventoryInv, OutboxInv, [InventoryNext]_inventoryVars PROVE OutboxInv'  OBVIOUS
  <2>1. CASE UNCHANGED inventoryVars  BY <2>1, OutboxStutters
  <2> QED  BY <2>1, ReportKeepsOutbox, DeleteKeepsOutbox, TokenKeepsOutbox, TokensAssumption
             DEF InventoryNext
<1>2. OutboxInv => OutboxFollowsVersions  BY DEF OutboxInv
<1> QED  BY <1>1, <1>2, InitHasOutboxInv, InventoryInvariant, PTL DEF InventorySpec
====
