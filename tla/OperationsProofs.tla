---- MODULE OperationsProofs ----
(***************************************************************************)
(* Proofs about the commands of the binary.  Of Operations: the rollout,   *)
(* for any number of pods of any releases and any number of crashes; and   *)
(* the jobs, for any keys, batch size and retention and any number of      *)
(* purges that fail anywhere.  Of Serve: the process from its options to   *)
(* its end, for any chains, messages and retries; and the schemas it       *)
(* starts with, for any types and values.                                  *)
(***************************************************************************)
EXTENDS Operations, Serve, WellFoundedInduction, TLAPS

\* Most leaves are first-order: Zenon is tried before the SMT solver.
USE ZenonT(5), SMTT(30)

Migrating(p) == mpc[p] \in {"loop", "execute", "record"}

Finished(m) == effect[m] = "done" \/ (m \in Skipped /\ cutOff)

\* Only the holder of the lock is at work; what is before its place in the list
\* is recorded, and what it is about to record is finished.  A migration that is
\* skipped when begun is unfinished only in the hands of a pod, or cut off.
PodInv(p) ==
  /\ Migrating(p) => lock = p /\ \A e \in MigrationsList : e < at[p] => e \in recorded
  /\ mpc[p] \in {"execute", "record"} => at[p] \in MigrationsList /\ at[p] <= Known[p]
  /\ mpc[p] = "execute" => effect[at[p]] = "partial" /\ at[p] \notin recorded
  /\ mpc[p] = "record" => Finished(at[p])

MigrationsInv ==
  /\ MigrationsTypeOK
  /\ \A p \in Pods : PodInv(p)
  /\ \A m \in Skipped : effect[m] = "partial" => cutOff \/ \E p \in Pods : mpc[p] = "execute" /\ at[p] = m
  /\ RecordedIsComplete

LEMMA MigrationsInitial == MigrationsInit => MigrationsInv
<1> SUFFICES ASSUME MigrationsInit PROVE MigrationsInv
  OBVIOUS
<1>1. MigrationsTypeOK
  <2>1. 1 \in 1 .. Count + 1
    BY DEF Count
  <2>2. cutOff \in BOOLEAN /\ recorded \in SUBSET MigrationsList /\ crashes \in Nat
    BY Zenon DEF MigrationsInit
  <2> QED
    BY <2>1, <2>2, Zenon DEF MigrationsInit, MigrationsTypeOK
<1>2. \A p \in Pods : PodInv(p)
  BY DEF MigrationsInit, PodInv, Migrating
<1>3. \A m \in Skipped : effect[m] # "partial"
  BY MigrationsAssumption DEF MigrationsInit
<1>4. RecordedIsComplete
  BY DEF MigrationsInit, RecordedIsComplete
<1> QED
  BY <1>1, <1>2, <1>3, <1>4 DEF MigrationsInv

\* The pods but the one that moves hold no lock, and stay where they are.
LEMMA OthersRest ==
  ASSUME MigrationsInv, NEW p \in Pods, lock \in {p, NoPod}, NEW q \in Pods, q # p,
         mpc'[q] = mpc[q]
  PROVE  PodInv(q)'
<1>1. ~Migrating(q)
  BY MigrationsAssumption DEF MigrationsInv, PodInv
<1> QED
  BY <1>1 DEF PodInv, Migrating

LEMMA MigrateMoves == MigrationsInv /\ (\E p \in Pods : Migrate(p)) => MigrationsInv'
<1> SUFFICES ASSUME MigrationsInv, NEW p \in Pods, Migrate(p) PROVE MigrationsInv'
  OBVIOUS
<1> USE MigrationsAssumption DEF MigrationsList, Count
<1>1. MigrationsTypeOK /\ PodInv(p) /\ RecordedIsComplete
  BY DEF MigrationsInv
<1>2. lock \in {p, NoPod} /\ \A q \in Pods : q # p => mpc'[q] = mpc[q]
  BY <1>1 DEF MigrationsTypeOK, PodInv, Migrating, Migrate, MigrateStep, AcquireLock, RefuseUnknown, SkipRecorded,
              Execute, Executed, Record, Unlock, CrashMigrating, MoveTo
<1>3. \A q \in Pods : q # p => PodInv(q)'
  BY <1>2, OthersRest
<1>4. \A q \in Pods : q # p => ~Migrating(q)
  BY <1>2 DEF MigrationsInv, PodInv
<1>5. ASSUME MigrationsTypeOK', PodInv(p)', RecordedIsComplete',
             \A m \in Skipped : effect'[m] = "partial" => cutOff' \/ (mpc'[p] = "execute" /\ at'[p] = m)
      PROVE  MigrationsInv'
  BY <1>3, <1>5 DEF MigrationsInv
<1>6. \A m \in Skipped : effect[m] = "partial" => cutOff \/ (mpc[p] = "execute" /\ at[p] = m)
  BY <1>4, Zenon DEF MigrationsInv, Migrating
<1>7. CASE AcquireLock(p)
  <2>1. MigrationsTypeOK'
    BY <1>1, <1>7 DEF AcquireLock, MoveTo, MigrationsTypeOK
  <2>2. PodInv(p)'
    BY <1>1, <1>7 DEF AcquireLock, MoveTo, MigrationsTypeOK, PodInv, Migrating
  <2>3. RecordedIsComplete' /\ \A m \in Skipped : effect'[m] = "partial" => cutOff'
    BY <1>1, <1>6, <1>7 DEF AcquireLock, RecordedIsComplete
  <2> QED
    BY <1>5, <2>1, <2>2, <2>3
<1>8. CASE RefuseUnknown(p)
  <2>1. MigrationsTypeOK'
    BY <1>1, <1>8 DEF RefuseUnknown, MoveTo, MigrationsTypeOK
  <2>2. PodInv(p)'
    BY <1>1, <1>8 DEF RefuseUnknown, MoveTo, MigrationsTypeOK, PodInv, Migrating
  <2>3. RecordedIsComplete' /\ \A m \in Skipped : effect'[m] = "partial" => cutOff'
    BY <1>1, <1>6, <1>8, Zenon DEF RefuseUnknown, RecordedIsComplete
  <2> QED
    BY <1>5, <2>1, <2>2, <2>3
<1>9. CASE SkipRecorded(p)
  <2>1. MigrationsTypeOK'
    BY <1>1, <1>9 DEF SkipRecorded, MigrationsTypeOK
  <2>2. at[p] \in 1 .. Count + 1 /\ at'[p] = at[p] + 1 /\ mpc'[p] = "loop" /\ lock' = lock
    BY <1>1, <1>9 DEF SkipRecorded, MigrationsTypeOK
  <2>3. PodInv(p)'
    BY <1>1, <1>9, <2>2 DEF SkipRecorded, PodInv, Migrating
  <2>4. RecordedIsComplete' /\ \A m \in Skipped : effect'[m] = "partial" => cutOff'
    BY <1>1, <1>6, <1>9 DEF SkipRecorded, RecordedIsComplete
  <2> QED
    BY <1>5, <2>1, <2>3, <2>4
<1>10. CASE Execute(p)
  <2>1. at[p] \in MigrationsList /\ at[p] \notin recorded
    BY <1>1, <1>10 DEF Execute, MigrationsTypeOK
  <2>2. CASE at[p] \in Skipped /\ effect[at[p]] # "none"
    <3>1. mpc' = [mpc EXCEPT ![p] = "record"] /\ UNCHANGED <<effect, lock, at, recorded, cutOff, crashes>>
      BY <1>10, <2>2 DEF Execute, MoveTo
    <3>2. Finished(at[p])
      BY <1>1, <1>6, <1>10, <2>1, <2>2 DEF Execute, Finished, MigrationsTypeOK
    <3>3. MigrationsTypeOK'
      BY <1>1, <3>1 DEF MigrationsTypeOK
    <3>4. PodInv(p)'
      BY <1>1, <1>10, <2>1, <3>1, <3>2 DEF Execute, MigrationsTypeOK, PodInv, Migrating, Finished
    <3>5. RecordedIsComplete' /\ \A m \in Skipped : effect'[m] = "partial" => cutOff'
      BY <1>1, <1>6, <1>10, <3>1 DEF Execute, RecordedIsComplete
    <3> QED
      BY <1>5, <3>3, <3>4, <3>5
  <2>3. CASE ~(at[p] \in Skipped /\ effect[at[p]] # "none")
    <3>1. /\ mpc' = [mpc EXCEPT ![p] = "execute"] /\ effect' = [effect EXCEPT ![at[p]] = "partial"]
          /\ UNCHANGED <<lock, at, recorded, cutOff, crashes>>
      BY <1>10, <2>3 DEF Execute, MoveTo
    <3>2. MigrationsTypeOK'
      BY <1>1, <3>1, Zenon DEF MigrationsTypeOK
    <3>3. PodInv(p)'
      BY <1>1, <1>10, <2>1, <3>1 DEF Execute, MigrationsTypeOK, PodInv, Migrating
    <3>4. RecordedIsComplete'
      BY <1>1, <2>1, <3>1 DEF RecordedIsComplete, MigrationsTypeOK
    <3>5. \A m \in Skipped : effect'[m] = "partial" => cutOff' \/ (mpc'[p] = "execute" /\ at'[p] = m)
      BY <1>1, <1>6, <1>10, <3>1 DEF Execute, MigrationsTypeOK
    <3> QED
      BY <1>5, <3>2, <3>3, <3>4, <3>5
  <2> QED
    BY <2>2, <2>3
<1>11. CASE Executed(p)
  <2>1. at[p] \in MigrationsList /\ at[p] \notin recorded /\ at[p] <= Known[p]
    BY <1>1, <1>11 DEF Executed, PodInv
  <2>2. MigrationsTypeOK'
    BY <1>1, <1>11, Zenon DEF Executed, MoveTo, MigrationsTypeOK
  <2>3. PodInv(p)'
    BY <1>1, <1>11, <2>1 DEF Executed, MoveTo, MigrationsTypeOK, PodInv, Migrating, Finished
  <2>4. RecordedIsComplete'
    BY <1>1, <1>11, <2>1 DEF Executed, RecordedIsComplete, MigrationsTypeOK
  <2>5. \A m \in Skipped : effect'[m] = "partial" => cutOff'
    BY <1>1, <1>6, <1>11, <2>1 DEF Executed, MigrationsTypeOK
  <2> QED
    BY <1>5, <2>2, <2>3, <2>4, <2>5, Zenon
<1>12. CASE Record(p)
  <2>1. at[p] \in MigrationsList /\ Finished(at[p]) /\ \A e \in MigrationsList : e < at[p] => e \in recorded
    BY <1>1, <1>12 DEF Record, PodInv, Migrating
  <2>2. MigrationsTypeOK'
    <3>1. at[p] + 1 \in 1 .. Count + 1
      BY <2>1
    <3>2. at' \in [Pods -> 1 .. Count + 1] /\ mpc' = [mpc EXCEPT ![p] = "loop"]
      BY <1>1, <1>12, <3>1 DEF Record, MoveTo, MigrationsTypeOK
    <3>3. recorded' \in SUBSET MigrationsList /\ UNCHANGED <<lock, effect, cutOff, crashes>>
      BY <1>1, <1>12, <2>1, Zenon DEF Record, MigrationsTypeOK
    <3> QED
      BY <1>1, <3>2, <3>3 DEF MigrationsTypeOK
  <2>3. PodInv(p)'
    BY <1>1, <1>12, <2>1 DEF Record, MoveTo, MigrationsTypeOK, PodInv, Migrating
  <2>4. RecordedIsComplete'
    <3> SUFFICES ASSUME NEW m \in recorded \cup {at[p]}
                 PROVE  Finished(m) /\ \A e \in MigrationsList : e < m => e \in recorded
      BY <1>12, Zenon DEF Record, RecordedIsComplete, Finished
    <3>1. CASE m \in recorded
      BY <1>1, <3>1, Zenon DEF RecordedIsComplete, Finished
    <3> QED
      BY <2>1, <3>1, Zenon
  <2>5. \A m \in Skipped : effect'[m] = "partial" => cutOff'
    BY <1>1, <1>6, <1>12 DEF Record
  <2> QED
    BY <1>5, <2>2, <2>3, <2>4, <2>5
<1>13. CASE Unlock(p)
  <2>1. MigrationsTypeOK'
    BY <1>1, <1>13 DEF Unlock, MoveTo, MigrationsTypeOK
  <2>2. PodInv(p)'
    BY <1>1, <1>13 DEF Unlock, MoveTo, MigrationsTypeOK, PodInv, Migrating
  <2>3. RecordedIsComplete' /\ \A m \in Skipped : effect'[m] = "partial" => cutOff'
    BY <1>1, <1>6, <1>13 DEF Unlock, RecordedIsComplete
  <2> QED
    BY <1>5, <2>1, <2>2, <2>3
<1>14. CASE CrashMigrating(p)
  <2>1. MigrationsTypeOK'
    BY <1>1, <1>14 DEF CrashMigrating, MoveTo, MigrationsTypeOK
  <2>2. PodInv(p)'
    BY <1>1, <1>14 DEF CrashMigrating, MoveTo, MigrationsTypeOK, PodInv, Migrating
  <2>3. RecordedIsComplete' /\ \A m \in Skipped : effect'[m] = "partial" => cutOff'
    BY <1>1, <1>6, <1>14, Zenon DEF CrashMigrating, RecordedIsComplete
  <2> QED
    BY <1>5, <2>1, <2>2, <2>3
<1> QED
  BY <1>7, <1>8, <1>9, <1>10, <1>11, <1>12, <1>13, <1>14 DEF Migrate, MigrateStep

LEMMA MigrationsInvariant == OperationsSpec => []MigrationsInv
<1>1. OperationsInit => MigrationsInv
  BY MigrationsInitial DEF OperationsInit
<1>2. MigrationsInv /\ UNCHANGED migrationVars => MigrationsInv'
  BY DEF MigrationsInv, MigrationsTypeOK, PodInv, Migrating, Finished, RecordedIsComplete, migrationVars
<1>3. MigrationsInv /\ [OperationsNext]_operationVars => MigrationsInv'
  BY <1>2, MigrateMoves DEF OperationsNext, Rollout, RunMetrics, RunPurge, operationVars
<1> QED
  BY <1>1, <1>3, PTL DEF OperationsSpec

\* Whatever pods of whatever releases are rolled out, and wherever they die: a
\* migration the table lists was carried out to its end after all earlier ones,
\* but for an index build that was cut off.
THEOREM RecordedMigrationsAreComplete == OperationsSpec => []RecordedIsComplete
<1>1. MigrationsInv => RecordedIsComplete
  BY DEF MigrationsInv
<1> QED
  BY <1>1, MigrationsInvariant, PTL

\* No two pods are ever between taking the advisory lock and giving it back.
THEOREM OnePodMigrates == OperationsSpec => []OneMigrator
<1>1. MigrationsInv => OneMigrator
  BY DEF MigrationsInv, OneMigrator, PodInv, Migrating
<1> QED
  BY <1>1, MigrationsInvariant, PTL

----
(* The metrics job *)

\* The job that has stored its summary finds it when it cleans up, and nothing
\* recorded is of a later day.
MetricsInv ==
  /\ day \in Nat
  /\ \A s \in summaries : s \in 0 .. day
  /\ cleaning => day \in summaries
  /\ gauge \in Int /\ gauge <= day
  /\ LatestSummaryKept

LEMMA MaxInSet ==
  ASSUME NEW n \in Nat, NEW S, \A s \in S : s \in 0 .. n, S # {}
  PROVE  Max(S) \in S
<1> DEFINE R == OpToRel(<, Nat)
           T == {n - s : s \in S}
<1>1. IsWellFoundedOn(R, Nat)
  BY NatLessThanWellFounded, Zenon
<1>2. \A x, y \in Nat : x < y => <<x, y>> \in R
  BY DEF OpToRel
<1>3. T \subseteq Nat /\ T # {}
  OBVIOUS
<1> HIDE DEF R
<1>4. PICK t \in T : \A u \in T : ~ (<<u, t>> \in R)
  BY <1>1, <1>3, WFMin, Zenon
<1>5. PICK x \in S : t = n - x
  OBVIOUS
<1>6. \A y \in S : x >= y
  <2> TAKE y \in S
  <2>1. n - y \in T /\ n - y \in Nat /\ t \in Nat
    BY <1>3
  <2>2. ~(n - y < t)
    BY <1>2, <1>4, <2>1, Zenon
  <2>3. x \in Int /\ y \in Int
    OBVIOUS
  <2> QED
    BY <1>5, <2>2, <2>3
<1> QED
  BY <1>6, Zenon DEF Max

LEMMA MetricsStep == MetricsInv /\ Metrics => MetricsInv'
<1> SUFFICES ASSUME MetricsInv, Metrics PROVE MetricsInv'
  OBVIOUS
<1>1. CASE Tick
  BY <1>1 DEF Tick, MetricsInv, LatestSummaryKept
<1>2. CASE CollectMetrics
  BY <1>2 DEF CollectMetrics, MetricsInv, LatestSummaryKept
<1>3. CASE CleanUp
  <2>1. PICK given \in Retentions :
          \E older \in SUBSET (summaries \cap {day - RetentionDays(given)}) :
             summaries' = summaries \ (older \cup {s \in summaries : s < day - RetentionDays(given)})
    BY <1>3 DEF CleanUp
  <2>2. RetentionDays(given) \in Int /\ RetentionDays(given) > 0
    BY JobsAssumption DEF RetentionDays, DefaultRetentionDays
  <2>3. day \in summaries' /\ summaries' \subseteq summaries
    BY <1>3, <2>1, <2>2 DEF CleanUp, MetricsInv
  <2>4. UNCHANGED <<day, gauge>> /\ ~cleaning'
    BY <1>3, Zenon DEF CleanUp
  <2> QED
    BY <2>3, <2>4 DEF MetricsInv, LatestSummaryKept
<1>4. CASE CleanUpFails
  BY <1>4 DEF CleanUpFails, MetricsInv, LatestSummaryKept
<1>5. CASE CollectBusinessMetrics
  <2>1. Max(summaries) \in summaries
    BY <1>5, MaxInSet DEF CollectBusinessMetrics, MetricsInv
  <2> QED
    BY <1>5, <2>1 DEF CollectBusinessMetrics, MetricsInv, LatestSummaryKept
<1> QED
  BY <1>1, <1>2, <1>3, <1>4, <1>5 DEF Metrics

\* Whatever retention is given and whenever the job fails half way: the summary
\* a replica recorded is not removed before there is a newer one.
THEOREM LatestSummaryIsKept == OperationsSpec => []LatestSummaryKept
<1>1. OperationsInit => MetricsInv
  BY DEF OperationsInit, JobsInit, MetricsInv, LatestSummaryKept, NoDay
<1>2. MetricsInv /\ UNCHANGED metricsVars => MetricsInv'
  BY DEF MetricsInv, LatestSummaryKept, metricsVars
<1>3. (Service \/ Purge) => UNCHANGED metricsVars
  BY Zenon DEF Service, Create, UpdateReported, DeleteReported, Replace, Committed, Purge, StartPurge,
               PurgeReporters, PurgeCommons, PurgeResources, PurgeFails
<1>4. MetricsInv /\ [OperationsNext]_operationVars => MetricsInv'
  BY <1>2, <1>3, MetricsStep, Zenon DEF OperationsNext, Rollout, RunMetrics, RunPurge, operationVars, jobVars
<1>5. MetricsInv => LatestSummaryKept
  BY DEF MetricsInv
<1> QED
  BY <1>1, <1>4, <1>5, PTL DEF OperationsSpec

----
(* The purge *)

\* A resource and its reporter resource have one id and one key; a phase of a purge
\* that nothing disturbed has left no row to the phases before it; and where
\* leftover is not set, no purge was disturbed.
ReporterRowType == [id : Nat, key : Keys, rv : Nat, gen : Nat, tomb : BOOLEAN]
ResourceRowType == [id : Nat, key : Keys, cv : Version]

TableInv ==
  /\ used \in Nat
  /\ \A rr \in rrs : rr \in ReporterRowType /\ rr.id <= used
  /\ \A r \in resources : r \in ResourceRowType /\ r.id <= used
  /\ \A rr \in rrs, r \in resources : r.id = rr.id => r.key = rr.key

PhaseInv ==
  /\ ppc \in {"commons", "resources"} => disturbed \/ ReporterRows = {}
  /\ ppc = "resources" => disturbed \/ CommonRows = {}

PurgeInv ==
  /\ TableInv
  /\ PhaseInv
  /\ disturbed => leftover
  /\ OrphansNeedAReport

LEMMA ReplacedRow ==
  ASSUME NEW rr \in ReporterRowType, NEW new, new = ReporterUpdate(rr) \/ new = ReporterDelete(rr)
  PROVE  new \in ReporterRowType /\ new.id = rr.id /\ new.key = rr.key
<1> DEFINE bumped == [rr EXCEPT !.rv = rr.rv + 1]
<1>1. rr.rv \in Nat /\ rr.gen \in Nat
  BY DEF ReporterRowType
<1>2. bumped \in ReporterRowType /\ bumped.id = rr.id /\ bumped.key = rr.key /\ bumped.gen = rr.gen
  BY <1>1 DEF ReporterRowType
<1> HIDE DEF bumped
<1>3. ASSUME NEW b \in ReporterRowType, NEW g, g = startNewGeneration(b)
      PROVE  g \in ReporterRowType /\ g.id = b.id /\ g.key = b.key
  <2>1. b.gen + 1 \in Nat /\ 0 \in Nat /\ FALSE \in BOOLEAN
    BY DEF ReporterRowType
  <2> QED
    BY <1>3, <2>1, Zenon DEF startNewGeneration, ReporterRowType
<1>4. CASE new = ReporterDelete(rr)
  <2>1. rr.rv + 1 \in Nat /\ TRUE \in BOOLEAN
    BY <1>1
  <2> QED
    BY <1>4, <2>1, Zenon DEF ReporterDelete, ReporterRowType
<1>5. CASE new = ReporterUpdate(rr)
  <2>1. new = IF rr.tomb THEN startNewGeneration(bumped) ELSE bumped
    BY <1>5 DEF ReporterUpdate, bumped
  <2> QED
    BY <1>2, <1>3, <2>1, Zenon
<1> QED
  BY <1>4, <1>5

\* A commit of the service between the batches: unless it is of what is purged, it
\* adds no row that the purge is after.
LEMMA CommitKeepsPhase ==
  ASSUME PurgeInv, NEW k \in Keys, Committed(k),
         \A rr \in rrs' : rr \in rrs \/ rr.key = k,
         \A c \in commons' : c \in commons \/ c.key = k
  PROVE  PhaseInv' /\ (disturbed => leftover)'
<1>1. UNCHANGED ppc
  BY Zenon DEF Committed, purgeVars
<1>2. (disturbed => leftover)'
  BY Zenon DEF Committed, PurgeInv
<1>3. CASE k \in Purged
  BY <1>1, <1>2, <1>3, Zenon DEF Committed, PhaseInv, Phases
<1>4. CASE k \notin Purged
  <2>1. ReporterRows' \subseteq ReporterRows
    BY <1>4, Zenon DEF ReporterRows
  <2>2. ReporterOf[k] # PurgedReporter
    BY <1>4, JobsAssumption, Zenon DEF Purged
  <2>3. CommonRows' \subseteq CommonRows
    BY <2>2, Zenon DEF CommonRows
  <2>4. disturbed => disturbed'
    BY Zenon DEF Committed
  <2> QED
    BY <1>1, <1>2, <2>1, <2>3, <2>4, Zenon DEF PurgeInv, PhaseInv
<1> QED
  BY <1>3, <1>4

LEMMA CreateStep == ASSUME PurgeInv, NEW k \in Keys, Create(k) PROVE PurgeInv'
<1> DEFINE rr == [id |-> used + 1, key |-> k, rv |-> 0, gen |-> 0, tomb |-> FALSE]
           r == [id |-> used + 1, key |-> k, cv |-> 0]
<1>1. /\ used' = used + 1 /\ rrs' = rrs \cup {rr} /\ resources' = resources \cup {r}
      /\ commons' = commons \cup {[id |-> used + 1, key |-> k, version |-> 0]} /\ Committed(k)
  BY DEF Create
<1>2. TableInv
  BY DEF PurgeInv
<1>3. rr \in ReporterRowType /\ r \in ResourceRowType /\ rr.id = used + 1 /\ r.id = used + 1 /\ rr.key = k /\ r.key = k
  BY <1>2 DEF TableInv, ReporterRowType, ResourceRowType, Version
<1> HIDE DEF rr, r
<1>4. /\ \A x \in rrs : x.id \in Nat /\ x.id <= used
      /\ \A x \in resources : x.id \in Nat /\ x.id <= used
      /\ used \in Nat
  BY <1>2 DEF TableInv, ReporterRowType, ResourceRowType
<1>5. TableInv'
  BY <1>1, <1>2, <1>3, <1>4 DEF TableInv
<1>6. PhaseInv' /\ (disturbed => leftover)'
  <2>1. \A c \in commons' : c \in commons \/ c.key = k
    BY <1>1
  <2> QED
    BY <1>1, <1>3, <2>1, CommitKeepsPhase
<1>7. leftover => leftover'
  BY <1>1, Zenon DEF Committed
<1>8. OrphansNeedAReport'
  BY <1>1, <1>3, <1>7, Zenon DEF PurgeInv, OrphansNeedAReport
<1> QED
  BY <1>5, <1>6, <1>8, Zenon DEF PurgeInv

\* A report or a delete of a resource that was found, whose row stays in place.
LEMMA FoundStep ==
  ASSUME PurgeInv, NEW k \in Keys, UpdateReported(k) \/ DeleteReported(k) PROVE PurgeInv'
<1> DEFINE Replaced(rr, new, res, cv) ==
             /\ new = ReporterUpdate(rr) \/ new = ReporterDelete(rr)
             /\ rrs' = (rrs \ {rr}) \cup {new} /\ Committed(new.key) /\ used' = used
             /\ \/ UNCHANGED <<resources, commons>>
                \/ /\ res = CHOOSE r \in resources : r.id = rr.id
                   /\ cv = NextCommonVersion(res.cv, NoVersion)
                   /\ resources' = (resources \ {res}) \cup {[res EXCEPT !.cv = cv]}
                   /\ commons' = commons \cup {[id |-> rr.id, key |-> k, version |-> cv]}
<1>1. \E rr \in Found(k) : \E new, res, cv : Replaced(rr, new, res, cv)
  <2>1. CASE UpdateReported(k)
    <3>1. PICK rr \in Found(k) :
            LET res == CHOOSE r \in resources : r.id = rr.id
            IN  Replaced(rr, ReporterUpdate(rr), res, NextCommonVersion(res.cv, NoVersion))
      BY <2>1, Zenon DEF UpdateReported, Replace
    <3> HIDE DEF Replaced
    <3> QED
      BY <3>1, Zenon
  <2>2. CASE DeleteReported(k)
    <3>1. PICK rr \in Found(k) : Replaced(rr, ReporterDelete(rr), rr, 0)
      BY <2>2, Zenon DEF DeleteReported, Replace
    <3> HIDE DEF Replaced
    <3> QED
      BY <3>1, Zenon
  <2> QED
    BY <2>1, <2>2, Zenon
<1> HIDE DEF Replaced
<1>0. PICK rr \in Found(k) : \E new, res, cv : Replaced(rr, new, res, cv)
  BY <1>1, Zenon
<1>2. PICK new, res, cv : Replaced(rr, new, res, cv)
  BY <1>0, Zenon
<1> USE DEF Replaced
<1>3. rr \in rrs /\ rr.key = k /\ \E r \in resources : r.id = rr.id
  BY Zenon DEF Found
<1>4. TableInv
  BY DEF PurgeInv
<1>5. new \in ReporterRowType /\ new.id = rr.id /\ new.key = k
  BY <1>2, <1>3, <1>4, ReplacedRow, Zenon DEF TableInv
\* The rows of resources keep their ids and keys.
<1>6. /\ \A r \in resources' : /\ r \in ResourceRowType
                               /\ \E s \in resources : s.id = r.id /\ s.key = r.key
      /\ \A s \in resources : \E r \in resources' : r.id = s.id
      /\ \A c \in commons' : c \in commons \/ c.key = k
  <2>1. CASE UNCHANGED <<resources, commons>>
    BY <1>4, <2>1, Zenon DEF TableInv
  <2>2. CASE ~ UNCHANGED <<resources, commons>>
    <3>1. res \in resources /\ res.id = rr.id
      BY <1>2, <1>3, <2>2, Zenon
    <3>2. res \in ResourceRowType
      BY <1>4, <3>1, Zenon DEF TableInv
    <3>3. cv \in Version
      BY <1>2, <2>2, <3>2 DEF NextCommonVersion, ResourceRowType, Version, NoVersion
    <3> DEFINE moved == [res EXCEPT !.cv = cv]
    <3>4. moved \in ResourceRowType /\ moved.id = res.id /\ moved.key = res.key
      BY <3>2, <3>3 DEF ResourceRowType
    <3>5. /\ resources' = (resources \ {res}) \cup {moved}
          /\ commons' = commons \cup {[id |-> rr.id, key |-> k, version |-> cv]}
      BY <1>2, <2>2, Zenon
    <3> HIDE DEF moved
    <3>6. \A c \in commons' : c \in commons \/ c.key = k
      BY <3>5
    <3>7. \A r \in resources : r \in ResourceRowType
      BY <1>4 DEF TableInv
    <3> QED
      BY <3>1, <3>4, <3>5, <3>6, <3>7, Zenon
  <2> QED
    BY <2>1, <2>2
<1>7. TableInv'
  <2>1. used' = used /\ used \in Nat
    BY <1>2, <1>4 DEF TableInv
  <2>2. \A x \in rrs' : x \in ReporterRowType /\ x.id <= used /\ \E y \in rrs : y.id = x.id /\ y.key = x.key
    BY <1>2, <1>3, <1>4, <1>5, Zenon DEF TableInv
  <2>3. \A r \in resources' : r.id <= used
    BY <1>4, <1>6, Zenon DEF TableInv
  <2>4. \A x \in rrs', r \in resources' : r.id = x.id => r.key = x.key
    <3> TAKE x \in rrs', r \in resources'
    <3>1. PICK y \in rrs : y.id = x.id /\ y.key = x.key
      BY <2>2, Zenon
    <3>2. PICK z \in resources : z.id = r.id /\ z.key = r.key
      BY <1>6, Zenon
    <3> QED
      BY <1>4, <3>1, <3>2, Zenon DEF TableInv
  <2> QED
    BY <1>6, <2>1, <2>2, <2>3, <2>4, Zenon DEF TableInv
<1>8. PhaseInv' /\ (disturbed => leftover)'
  <2>1. Committed(k) /\ \A x \in rrs' : x \in rrs \/ x.key = k
    BY <1>2, <1>5, Zenon
  <2> QED
    BY <1>6, <2>1, CommitKeepsPhase, Zenon
<1>9. OrphansNeedAReport'
  <2>1. leftover => leftover'
    BY <1>2, Zenon DEF Committed
  <2> SUFFICES ASSUME NEW x \in rrs', \A r \in resources' : r.id # x.id PROVE leftover' /\ x.key \in Purged
    BY Zenon DEF OrphansNeedAReport
  <2>2. \A r \in resources : r.id # x.id
    BY <1>6, Zenon
  <2>3. x \in rrs
    BY <1>2, <1>3, <1>5, <2>2, Zenon
  <2> QED
    BY <2>1, <2>2, <2>3, Zenon DEF PurgeInv, OrphansNeedAReport
<1> QED
  BY <1>7, <1>8, <1>9, Zenon DEF PurgeInv

\* The purge itself deletes reporter resources first, so that the resources it
\* deletes have none left, but those of reports beside it.
LEMMA PurgeStep == ASSUME PurgeInv, Purge PROVE PurgeInv'
<1>1. CASE StartPurge
  <2>1. /\ ppc' = "reporters" /\ disturbed' = FALSE /\ UNCHANGED <<resources, rrs, commons, used, leftover>>
    BY <1>1, Zenon DEF StartPurge, tableVars
  <2> QED
    BY <2>1, Zenon DEF PurgeInv, TableInv, PhaseInv, OrphansNeedAReport
<1>2. CASE PurgeReporters
  <2>1. /\ rrs' \subseteq rrs /\ UNCHANGED <<resources, commons, used, disturbed, leftover>>
        /\ ppc' = "reporters" \/ (ppc' = "commons" /\ rrs' = rrs /\ ReporterRows = {})
    BY <1>2, Zenon DEF PurgeReporters
  <2>2. TableInv'
    BY <2>1, Zenon DEF PurgeInv, TableInv
  <2>3. PhaseInv'
    BY <2>1, Zenon DEF PhaseInv, ReporterRows
  <2> QED
    BY <2>1, <2>2, <2>3, Zenon DEF PurgeInv, OrphansNeedAReport
<1>3. CASE PurgeCommons
  <2>1. /\ ppc = "commons" /\ UNCHANGED <<resources, rrs, used, disturbed, leftover>>
        /\ ppc' = "commons" \/ (ppc' = "resources" /\ commons' = commons /\ CommonRows = {})
    BY <1>3, Zenon DEF PurgeCommons
  <2>2. PhaseInv'
    BY <2>1, Zenon DEF PurgeInv, PhaseInv, ReporterRows, CommonRows
  <2> QED
    BY <2>1, <2>2, Zenon DEF PurgeInv, TableInv, OrphansNeedAReport
<1>4. CASE PurgeResources
  <2>1. /\ ppc = "resources" /\ UNCHANGED <<rrs, commons, used, disturbed>>
        /\ \/ ppc' = "done" /\ leftover' = disturbed /\ resources' = resources
           \/ /\ ppc' = "resources" /\ leftover' = leftover /\ resources' \subseteq resources
              /\ \A r \in resources \ resources' : TypeOf[r.key] = PurgedType
    BY <1>4, Zenon DEF PurgeResources, Batch, ResourceRows
  <2>2. disturbed \/ ReporterRows = {}
    BY <2>1, Zenon DEF PurgeInv, PhaseInv
  <2>3. PhaseInv' /\ TableInv' /\ (disturbed => leftover)'
    <3>1. resources' \subseteq resources
      BY <2>1, Zenon
    <3>2. TableInv'
      BY <2>1, <3>1, Zenon DEF PurgeInv, TableInv
    <3>3. PhaseInv'
      BY <2>1, Zenon DEF PurgeInv, PhaseInv, ReporterRows, CommonRows
    <3>4. (disturbed => leftover)'
      BY <2>1, Zenon DEF PurgeInv
    <3> QED
      BY <3>2, <3>3, <3>4
  <2>4. OrphansNeedAReport'
    <3> SUFFICES ASSUME NEW rr \in rrs, \A r \in resources' : r.id # rr.id PROVE leftover' /\ rr.key \in Purged
      BY <2>1, Zenon DEF OrphansNeedAReport
    <3>1. rr.key \in Purged
      <4>1. CASE \A r \in resources : r.id # rr.id
        BY <4>1, Zenon DEF PurgeInv, OrphansNeedAReport
      <4>2. CASE \E r \in resources : r.id = rr.id
        <5>1. PICK r \in resources : r.id = rr.id
          BY <4>2
        <5>2. TypeOf[r.key] = PurgedType
          BY <2>1, <5>1, Zenon
        <5>3. r.key = rr.key /\ rr \in ReporterRowType
          BY <5>1, Zenon DEF PurgeInv, TableInv
        <5>4. rr.key \in Keys
          BY <5>3 DEF ReporterRowType
        <5> QED
          BY <5>2, <5>3, <5>4, JobsAssumption, Zenon DEF Purged
      <4> QED
        BY <4>1, <4>2, Zenon
    <3>2. disturbed
      BY <2>2, <3>1, Zenon DEF ReporterRows
    <3> QED
      BY <2>1, <3>1, <3>2, Zenon DEF PurgeInv
  <2> QED
    BY <2>3, <2>4, Zenon DEF PurgeInv
<1>5. CASE PurgeFails
  <2>1. ppc' = "failed" /\ UNCHANGED <<resources, rrs, commons, used, disturbed, leftover>>
    BY <1>5, Zenon DEF PurgeFails, tableVars
  <2> QED
    BY <2>1, Zenon DEF PurgeInv, TableInv, PhaseInv, OrphansNeedAReport
<1> QED
  BY <1>1, <1>2, <1>3, <1>4, <1>5, Zenon DEF Purge

LEMMA PurgeInvariant == OperationsSpec => []PurgeInv
<1>1. OperationsInit => PurgeInv
  BY DEF OperationsInit, JobsInit, PurgeInv, TableInv, PhaseInv, OrphansNeedAReport
<1>2. PurgeInv /\ UNCHANGED <<tableVars, purgeVars, disturbed, leftover>> => PurgeInv'
  <2> SUFFICES ASSUME PurgeInv, UNCHANGED <<tableVars, purgeVars, disturbed, leftover>> PROVE PurgeInv'
    OBVIOUS
  <2>1. UNCHANGED <<resources, rrs, commons, used, disturbed, leftover>> /\ ppc' = ppc
    BY Zenon DEF tableVars, purgeVars
  <2>2. TableInv'
    BY <2>1, Zenon DEF PurgeInv, TableInv
  <2>3. PhaseInv'
    BY <2>1 DEF PurgeInv, PhaseInv, ReporterRows, CommonRows
  <2>4. OrphansNeedAReport'
    BY <2>1 DEF PurgeInv, OrphansNeedAReport
  <2> QED
    BY <2>1, <2>2, <2>3, <2>4 DEF PurgeInv
<1>3. Metrics => UNCHANGED <<tableVars, purgeVars, disturbed, leftover>>
  BY Zenon DEF Metrics, Tick, CollectMetrics, CleanUp, CleanUpFails, CollectBusinessMetrics
<1>4. PurgeInv /\ Service => PurgeInv'
  BY CreateStep, FoundStep, Zenon DEF Service
<1>5. PurgeInv /\ [OperationsNext]_operationVars => PurgeInv'
  BY <1>2, <1>3, <1>4, PurgeStep, Zenon DEF OperationsNext, Rollout, RunMetrics, RunPurge, operationVars, jobVars
<1> QED
  BY <1>1, <1>5, PTL DEF OperationsSpec

\* For any batch size and any number of purges, wherever they fail: a reporter
\* resource loses its resource only to a purge of its type beside which something
\* of that type was reported.
THEOREM OrphansNeedReports == OperationsSpec => []OrphansNeedAReport
<1>1. PurgeInv => OrphansNeedAReport
  BY DEF PurgeInv
<1> QED
  BY <1>1, PurgeInvariant, PTL

\* For any batch size: a purge that ends undisturbed leaves no row of its type in
\* any table, whatever purges before it left.
THEOREM PurgesLeaveNothing == OperationsSpec => PurgeLeavesNothing
<1> DEFINE Step == ppc # "done" /\ ppc' = "done" /\ ~disturbed
                     => (ReporterRows \cup CommonRows \cup ResourceRows)' = {}
<1>1. PurgeInv /\ [OperationsNext]_operationVars => [Step]_jobVars
  <2> SUFFICES ASSUME PurgeInv, OperationsNext, ppc # "done", ppc' = "done", ~disturbed
               PROVE  (ReporterRows \cup CommonRows \cup ResourceRows)' = {}
    BY Zenon DEF operationVars
  <2>1. PurgeResources
    BY Zenon DEF OperationsNext, Rollout, RunMetrics, RunPurge, Metrics, Tick, CollectMetrics, CleanUp, CleanUpFails,
         CollectBusinessMetrics, Service, Create, UpdateReported, DeleteReported, Replace, Committed,
         Purge, StartPurge, PurgeReporters, PurgeCommons, PurgeFails, jobVars, purgeVars
  <2>2. ResourceRows = {} /\ UNCHANGED <<resources, rrs, commons>>
    BY <2>1, Zenon DEF PurgeResources
  <2>3. ReporterRows = {} /\ CommonRows = {}
    BY <2>1, Zenon DEF PurgeResources, PurgeInv, PhaseInv
  <2> QED
    BY <2>2, <2>3, Zenon DEF ReporterRows, CommonRows, ResourceRows
<1> QED
  BY <1>1, PurgeInvariant, PTL DEF OperationsSpec, PurgeLeavesNothing

----
(* Schemas *)

\* A cache in sync with its directory loads as the directory does, for any
\* resource types and reporter types: FromDir and FromJson of Preload.
LEMMA SourcesAgree == LoadersAgree
<1> SUFFICES ASSUME NEW tree \in Trees,
                    \A t \in ResourceTypes :
                      /\ tree[t].dir # "other"
                      /\ tree[t].common = Absent => Present(tree[t].reporters) = {}
             PROVE  FromDir(tree) = FromJson(Preload(tree))
  BY DEF LoadersAgree
<1> DEFINE found == {t \in ResourceTypes : tree[t].dir = "normal"}
           complete == {t \in found : tree[t].common # Absent}
           keys == {x \in found \X ReporterTypes : tree[x[1]].reporters[x[2]] # Absent}
           cache == Preload(tree)
<1>1. \A t \in ResourceTypes : /\ tree[t].dir \in {Absent, "normal", "other"}
                               /\ DOMAIN tree[t].reporters = ReporterTypes
  BY DEF Trees
<1>2. found = {t \in ResourceTypes : tree[t].dir # Absent}
  BY <1>1 DEF Absent
<1>3. cache.common = [t \in complete |-> tree[t].common]
  BY <1>2 DEF Preload
<1>4. cache.reporter = [x \in keys |-> tree[x[1]].reporters[x[2]]]
  BY <1>2 DEF Preload
<1>5. ~ \E t \in found \ complete : Present(tree[t].reporters) # {}
  OBVIOUS
<1>6. FromDir(tree) = [t \in complete |-> ResourceEntry(tree[t].common, tree[t].reporters)]
  BY <1>5 DEF FromDir
<1> HIDE DEF cache
<1>7. ASSUME NEW t \in complete
      PROVE  [schema |-> cache.common[t],
              reporters |-> [r \in {q \in ReporterTypes : <<t, q>> \in DOMAIN cache.reporter} |->
                               cache.reporter[<<t, r>>]]]
             = ResourceEntry(tree[t].common, tree[t].reporters)
  <2>1. cache.common[t] = tree[t].common
    BY <1>3
  <2>2. \A q \in ReporterTypes :
          /\ <<t, q>> \in DOMAIN cache.reporter <=> tree[t].reporters[q] # Absent
          /\ <<t, q>> \in DOMAIN cache.reporter => cache.reporter[<<t, q>>] = tree[t].reporters[q]
    BY <1>4
  <2>3. {q \in ReporterTypes : <<t, q>> \in DOMAIN cache.reporter} = Present(tree[t].reporters)
    BY <1>1, <2>2 DEF Present
  <2>4. \A q \in Present(tree[t].reporters) : cache.reporter[<<t, q>>] = tree[t].reporters[q]
    BY <2>2, <2>3
  <2> QED
    BY <2>1, <2>3, <2>4 DEF ResourceEntry
<1>8. DOMAIN cache.common = complete
  BY <1>3
<1> QED
  BY <1>6, <1>7, <1>8 DEF FromJson, cache

\* DiffRelationValues and UpdateTuple lead to the current tuples, if no two
\* definitions write the same relation.
LEMMA DiffsReach ==
  ASSUME NEW defs, \A d, e \in defs : d.relation = e.relation => d = e
  PROVE  DiffReaches(defs)
<1> SUFFICES ASSUME NEW current, NEW previous
             PROVE  UpdateTuple(TuplesOf(defs, previous),
                                CalculateTuplesFromRelationDefs(defs, current, previous))
                      = TuplesOf(defs, current)
  BY DEF DiffReaches
<1> DEFINE diff == CalculateTuplesFromRelationDefs(defs, current, previous)
           now(d) == RelationValues(d, current)
           before(d) == RelationValues(d, previous)
           one(d) == DiffRelationValues(d.relation, now(d), before(d))
<1>1. /\ diff.create = UNION {e.create : e \in {one(d) : d \in defs}}
      /\ diff.delete = UNION {e.delete : e \in {one(d) : d \in defs}}
  BY DEF CalculateTuplesFromRelationDefs
<1>2. \A d \in defs : /\ one(d).create = {d.relation} \X (now(d) \ before(d))
                      /\ one(d).delete = {d.relation} \X (before(d) \ now(d))
  BY DEF DiffRelationValues
<1> HIDE DEF diff, one, now, before
<1>3. \A x : x \in diff.create <=> \E d \in defs : x \in {d.relation} \X (now(d) \ before(d))
  BY <1>1, <1>2
<1>4. \A x : x \in diff.delete <=> \E d \in defs : x \in {d.relation} \X (before(d) \ now(d))
  BY <1>1, <1>2
<1>5. \A x : x \in TuplesOf(defs, previous) <=> \E d \in defs : x \in {d.relation} \X before(d)
  BY DEF TuplesOf, before
<1>6. \A x : x \in TuplesOf(defs, current) <=> \E d \in defs : x \in {d.relation} \X now(d)
  BY DEF TuplesOf, now
<1>7. ASSUME NEW x \in TuplesOf(defs, previous) \cup diff.create, x \notin diff.delete
      PROVE  x \in TuplesOf(defs, current)
  BY <1>3, <1>4, <1>5, <1>6, <1>7
<1>8. ASSUME NEW x \in TuplesOf(defs, current)
      PROVE  x \in TuplesOf(defs, previous) \cup diff.create /\ x \notin diff.delete
  BY <1>3, <1>4, <1>5, <1>6
<1> QED
  BY <1>7, <1>8 DEF UpdateTuple, diff

LEMMA UpdatesReach == UpdatesReachCurrent
<1>1. \A d, e \in serviceRelations : d.relation = e.relation => d = e
  <2> DEFINE allowed == RelationDef("allowed_workspaces", "allowed_workspaces", TRUE)
             billing == RelationDef("billing_account", "billing_account", TRUE)
             parent == RelationDef("parent", "parent", FALSE)
  <2>1. /\ allowed.relation = "allowed_workspaces"
        /\ billing.relation = "billing_account"
        /\ parent.relation = "parent"
    BY DEF RelationDef
  <2>2. serviceRelations = {allowed, billing, parent}
    BY DEF serviceRelations
  <2> HIDE DEF allowed, billing, parent
  <2> QED
    BY <2>1, <2>2
<1>2. \A d, e \in billingAccountRelations : d.relation = e.relation => d = e
  BY DEF billingAccountRelations, RelationDef
<1> QED
  BY <1>1, <1>2, DiffsReach DEF UpdatesReachCurrent

\* SchemaSourcesAgree, for any resource types and reporter types.
THEOREM SourcesAgreeAtStartup == ServeSpec => []SchemaSourcesAgree
<1>1. SchemaSourcesAgree
  BY SourcesAgree DEF SchemaSourcesAgree
<1> QED
  BY <1>1, PTL

\* UpdatesAreExact, for any values of the fields.
THEOREM UpdatesAreAlwaysExact == ServeSpec => []UpdatesAreExact
<1>1. UpdatesAreExact
  BY UpdatesReach DEF UpdatesAreExact
<1> QED
  BY <1>1, PTL

----
(* From the options to the end of the process *)

\* What Validate and Complete of the authn section let through, NewForProtocol builds.
LEMMA AcceptedChainBuilds ==
  ASSUME NEW o, NEW providers \in BOOLEAN, AuthnCompletes(AuthnConfig(o))
  PROVE  NewAuthn(o, providers) \in {"ok", "absent"}
<1> DEFINE chain == AuthnConfig(o).chain
<1>1. ASSUME NEW p \in Protocols
      PROVE  Builds(chain, p)
  BY DEF AuthnCompletes, EntryCompletes, Builds, Authenticators
<1> QED
  BY <1>1 DEF NewAuthn

\* Nothing that a constructor could not use is ever kept.
UsablePlans ==
  [database : {"postgres", "sqlite3"}, storage : {"ok", "absent"}, authn : {"ok", "absent"},
   authz : Outcomes \ {"unusable"}, schema : {"ok", "absent"}, consumer : BOOLEAN, pprof : BOOLEAN]

PcType == pc \in [main : MainPCs, consumer : ConsumerPCs]

\* Until Launch nothing runs but the main goroutine, from then on there is an App.
Preparing == {"storage", "authn", "authz", "consumer", "schema", "server", "construct", "launch"}

LaunchInv ==
  /\ app \in {"none", "starting", "running", "stopping", "returned"}
  /\ pc.main \in Preparing => pc.consumer = "off"
  /\ app = "none" => pc.main \in Preparing

\* What the steps of shutdown before the next one of goroutine g have done, and
\* nobody undoes.
ShutdownInv(g) ==
  /\ pc[g] \in {"stopPprof", "closeDB", "closeConsumer"} => app \in {"stopping", "returned"}
  /\ pc[g] \in {"closeDB", "closeConsumer"} => pprof # "serving"
  /\ pc[g] = "closeConsumer" => db = "closed"

LifeInv ==
  /\ PcType /\ plan \in UsablePlans /\ LaunchInv /\ then \in {"new", "ended"}
  /\ ShutdownInv("main") /\ ShutdownInv("consumer")
  /\ OrderlyExit

\* Every step is one of a running process.
LEMMA StepsOfARunningProcess == ASSUME ServeNext PROVE process = "running"
BY DEF ServeNext, MainGoroutine, ConfigureStorage, ConfigureAuthn, ConfigureAuthz, ConfigureConsumer,
   ConfigureSchema, ConfigureServer, Construct, Launch, Notify, Select, Shutdown, StopApp, StopPprof,
   CloseDB, CloseConsumer, ConsumerGoroutine, Consume, NewConsumer, GiveUp, Subscribe, Poll,
   ProcessMessage, UpdateToken, StoreOffset, ConsumeReturns, RunApp, AppStops, Environment, Sigterm,
   AppFails, PprofFails, ListenerFails, At

LEMMA GotoMain ==
  ASSUME PcType, NEW where \in MainPCs, Goto("main", where)
  PROVE  PcType' /\ pc'.main = where /\ pc'.consumer = pc.consumer
BY DEF PcType, Goto

LEMMA GotoConsumer ==
  ASSUME PcType, NEW where \in ConsumerPCs, Goto("consumer", where)
  PROVE  PcType' /\ pc'.main = pc.main /\ pc'.consumer = where
BY DEF PcType, Goto

\* A section of the options keeps the invariant if what it keeps can be used.
LEMMA ConfiguredKeeps ==
  ASSUME LifeInv, process = "running", pc.main \in Preparing, NEW ok, NEW kept,
         NEW where \in Preparing, Configured(ok, kept, where), ok => kept \in UsablePlans
  PROVE  LifeInv'
<1>1. UNCHANGED <<app, pprof, db, kafka, then>>
  BY DEF Configured, lifeVars, consumerVars
<1>2. CASE ok
  <2>1. plan' = kept /\ Goto("main", where) /\ process' = process
    BY <1>2 DEF Configured
  <2>2. PcType' /\ pc'.main = where /\ pc'.consumer = pc.consumer
    BY <2>1, GotoMain DEF LifeInv, Preparing, MainPCs
  <2> QED
    BY <1>1, <1>2, <2>1, <2>2 DEF LifeInv, LaunchInv, ShutdownInv, OrderlyExit, ShutDown, Preparing
<1>3. CASE ~ok
  <2>1. process' = "failed" /\ plan' = plan /\ pc' = pc
    BY <1>3 DEF Configured, Ends
  <2> QED
    BY <1>1, <2>1 DEF LifeInv, PcType, LaunchInv, ShutdownInv, OrderlyExit, ShutDown
<1> QED
  BY <1>2, <1>3

\* Storage, authn, authz, consumer, schema and server: what is kept can be used.
LEMMA ConfigureKeeps ==
  ASSUME LifeInv,
         \/ ConfigureStorage \/ ConfigureAuthn \/ ConfigureAuthz
         \/ ConfigureConsumer \/ ConfigureSchema \/ ConfigureServer
  PROVE  LifeInv'
<1>1. plan \in UsablePlans
  BY DEF LifeInv
<1>2. CASE ConfigureStorage
  <2>1. PICK o \in StorageOptions :
          Configured(StorageValidate(o),
                     [plan EXCEPT !.database = o.database, !.storage = NewStorage(o)], "authn")
    BY <1>2 DEF ConfigureStorage
  <2>2. StorageValidate(o) => o.database \in {"postgres", "sqlite3"} /\ NewStorage(o) \in {"ok", "absent"}
    BY DEF StorageValidate, NewStorage
  <2>3. StorageValidate(o) =>
          [plan EXCEPT !.database = o.database, !.storage = NewStorage(o)] \in UsablePlans
    BY <1>1, <2>2 DEF UsablePlans
  <2>4. process = "running" /\ pc.main \in Preparing
    BY <1>2 DEF ConfigureStorage, At, Preparing
  <2> QED
    BY <2>1, <2>3, <2>4, ConfiguredKeeps DEF Preparing
<1>3. CASE ConfigureAuthn
  <2>1. PICK o \in AuthnOptions(Chains), providers \in BOOLEAN :
          Configured(AuthnValidate(o) /\ AuthnCompletes(AuthnConfig(o)),
                     [plan EXCEPT !.authn = NewAuthn(o, providers)], "authz")
    BY <1>3 DEF ConfigureAuthn
  <2>2. AuthnCompletes(AuthnConfig(o)) => NewAuthn(o, providers) \in {"ok", "absent"}
    BY AcceptedChainBuilds
  <2>3. AuthnCompletes(AuthnConfig(o)) => [plan EXCEPT !.authn = NewAuthn(o, providers)] \in UsablePlans
    BY <1>1, <2>2 DEF UsablePlans
  <2>4. process = "running" /\ pc.main \in Preparing
    BY <1>3 DEF ConfigureAuthn, At, Preparing
  <2> QED
    BY <2>1, <2>3, <2>4, ConfiguredKeeps DEF Preparing
<1>4. CASE ConfigureAuthz
  <2>1. PICK o \in RelationsOptions :
          Configured(RelationsValidate(o), [plan EXCEPT !.authz = NewRelations(o)], "consumer")
    BY <1>4 DEF ConfigureAuthz
  <2>2. RelationsValidate(o) => NewRelations(o) \in Outcomes \ {"unusable"}
    BY DEF RelationsValidate, NewRelations, RelationsConfig, Outcomes
  <2>3. RelationsValidate(o) => [plan EXCEPT !.authz = NewRelations(o)] \in UsablePlans
    BY <1>1, <2>2 DEF UsablePlans
  <2>4. process = "running" /\ pc.main \in Preparing
    BY <1>4 DEF ConfigureAuthz, At, Preparing
  <2> QED
    BY <2>1, <2>3, <2>4, ConfiguredKeeps DEF Preparing
<1>5. CASE ConfigureConsumer
  <2>1. PICK o \in ConsumerOptions :
          Configured(ConsumerValidate(o), [plan EXCEPT !.consumer = o.enabled], "schema")
    BY <1>5 DEF ConfigureConsumer
  <2>2. [plan EXCEPT !.consumer = o.enabled] \in UsablePlans
    BY <1>1 DEF UsablePlans, ConsumerOptions
  <2>3. process = "running" /\ pc.main \in Preparing
    BY <1>5 DEF ConfigureConsumer, At, Preparing
  <2> QED
    BY <2>1, <2>2, <2>3, ConfiguredKeeps DEF Preparing
<1>6. CASE ConfigureSchema
  <2>1. PICK o \in SchemaOptions :
          Configured(SchemaValidate(o), [plan EXCEPT !.schema = NewSchema(o)], "server")
    BY <1>6 DEF ConfigureSchema
  <2>2. SchemaValidate(o) => NewSchema(o) \in {"ok", "absent"}
    BY DEF SchemaValidate, NewSchema
  <2>3. SchemaValidate(o) => [plan EXCEPT !.schema = NewSchema(o)] \in UsablePlans
    BY <1>1, <2>2 DEF UsablePlans
  <2>4. process = "running" /\ pc.main \in Preparing
    BY <1>6 DEF ConfigureSchema, At, Preparing
  <2> QED
    BY <2>1, <2>3, <2>4, ConfiguredKeeps DEF Preparing
<1>7. CASE ConfigureServer
  <2>1. PICK o \in ServerOptions :
          Configured(ServerValidate(o) /\ ServerCompletes(o), [plan EXCEPT !.pprof = o.pprof], "construct")
    BY <1>7 DEF ConfigureServer
  <2>2. [plan EXCEPT !.pprof = o.pprof] \in UsablePlans
    BY <1>1 DEF UsablePlans, ServerOptions
  <2>3. process = "running" /\ pc.main \in Preparing
    BY <1>7 DEF ConfigureServer, At, Preparing
  <2> QED
    BY <2>1, <2>2, <2>3, ConfiguredKeeps DEF Preparing
<1> QED
  BY <1>2, <1>3, <1>4, <1>5, <1>6, <1>7

\* Construct, Launch and the select.
LEMMA LaunchKeeps ==
  ASSUME LifeInv, process = "running", Construct \/ Launch \/ Notify \/ Select
  PROVE  LifeInv'
<1>1. /\ PcType /\ plan \in UsablePlans /\ LaunchInv /\ then \in {"new", "ended"}
      /\ ShutdownInv("main") /\ ShutdownInv("consumer")
  BY DEF LifeInv
<1>2. CASE Construct
  <2>1. UNCHANGED <<plan, app, pprof, kafka, then>> /\ pc.main = "construct" /\ pc.consumer = "off"
    BY <1>1, <1>2 DEF Construct, consumerVars, At, LaunchInv, Preparing
  <2>2. CASE Constructed(plan) = "ok"
    <3>1. Goto("main", "launch") /\ process' = process
      BY <1>2, <2>2 DEF Construct
    <3>2. PcType' /\ pc'.main = "launch" /\ pc'.consumer = "off"
      BY <1>1, <2>1, <3>1, GotoMain DEF MainPCs
    <3> QED
      BY <1>1, <2>1, <3>1, <3>2 DEF LifeInv, LaunchInv, ShutdownInv, OrderlyExit, ShutDown, Preparing
  <2>3. CASE Constructed(plan) # "ok"
    <3>1. pc' = pc /\ db' = db /\ process' = IF Constructed(plan) = "panicked" THEN "panicked" ELSE "failed"
      BY <1>2, <2>3 DEF Construct, Ends
    <3>2. Constructed(plan) = "panicked" => plan.authz = "panicked"
      BY <1>1 DEF Constructed, UsablePlans
    <3> QED
      BY <1>1, <2>1, <3>1, <3>2 DEF LifeInv, PcType, LaunchInv, ShutdownInv, OrderlyExit, ShutDown
  <2> QED
    BY <2>2, <2>3
<1>3. CASE Launch
  <2>1. UNCHANGED <<process, plan, db, kafka, then>> /\ app' = "starting"
    BY <1>3 DEF Launch, consumerVars
  <2>2. pc' = [main |-> "notify", consumer |-> IF plan.consumer THEN "new" ELSE "off"]
    BY <1>3 DEF Launch
  <2>3. PcType' /\ pc'.main = "notify" /\ pc'.consumer \in {"new", "off"}
    BY <2>2 DEF PcType, MainPCs, ConsumerPCs
  <2> QED
    BY <1>1, <2>1, <2>3 DEF LifeInv, LaunchInv, ShutdownInv, OrderlyExit, ShutDown, Preparing
<1>4. CASE Notify \/ Select
  <2>1. UNCHANGED <<process, plan, app, pprof, db, kafka, then>>
    BY <1>4 DEF Notify, Select, lifeVars, consumerVars
  <2>2. PICK where \in {"select", "stopApp"} : Goto("main", where)
    BY <1>4 DEF Notify, Select
  <2>3. pc.main \notin Preparing
    BY <1>4 DEF Notify, Select, At, Preparing
  <2>4. PcType' /\ pc'.main = where /\ pc'.consumer = pc.consumer
    BY <1>1, <2>2, GotoMain DEF MainPCs, ShutdownPCs
  <2> QED
    BY <1>1, <2>1, <2>3, <2>4 DEF LifeInv, LaunchInv, ShutdownInv, OrderlyExit, ShutDown, Preparing
<1> QED
  BY <1>2, <1>3, <1>4

\* The servers, the listener and a signal.
LEMMA WorldKeeps ==
  ASSUME LifeInv, process = "running", RunApp \/ AppStops \/ Environment
  PROVE  LifeInv'
<1>1. /\ PcType /\ plan \in UsablePlans /\ LaunchInv /\ then \in {"new", "ended"}
      /\ ShutdownInv("main") /\ ShutdownInv("consumer")
  BY DEF LifeInv
<1>2. UNCHANGED <<pc, plan, db, kafka, then>>
  BY DEF RunApp, AppStops, Environment, Sigterm, AppFails, PprofFails, ListenerFails, consumerVars
<1>3. process' \in {process, "killed"}
  BY DEF RunApp, AppStops, Environment, Sigterm, AppFails, PprofFails, ListenerFails
<1>4. \/ app' = app
      \/ app \in {"starting"} /\ app' = "running"
      \/ app \in {"running", "stopping"} /\ app' \in {"stopping", "returned"}
  BY DEF RunApp, AppStops, Environment, Sigterm, AppFails, PprofFails, ListenerFails
<1>5. pprof' \in {pprof, "returned"}
  BY DEF RunApp, AppStops, Environment, Sigterm, AppFails, PprofFails, ListenerFails
<1> QED
  BY <1>1, <1>2, <1>3, <1>4, <1>5 DEF LifeInv, PcType, LaunchInv, ShutdownInv, OrderlyExit, ShutDown

\* A step of shutdown, of either goroutine: the next step has what it relies on.
LEMMA ShutdownKeeps ==
  ASSUME LifeInv, process = "running", NEW g \in {"main", "consumer"}, Shutdown(g)
  PROVE  LifeInv'
<1>1. /\ PcType /\ plan \in UsablePlans /\ LaunchInv /\ then \in {"new", "ended"}
      /\ ShutdownInv("main") /\ ShutdownInv("consumer")
  BY DEF LifeInv
<1>2. plan' = plan /\ then' = then
  BY DEF Shutdown, StopApp, StopPprof, CloseDB, CloseConsumer, consumerVars
<1>3. pc.main \notin Preparing
  <2>1. pc[g] \in ShutdownPCs
    BY DEF Shutdown, StopApp, StopPprof, CloseDB, CloseConsumer, At, ShutdownPCs
  <2> QED
    BY <1>1, <2>1 DEF LaunchInv, Preparing, ShutdownPCs
<1>4. ASSUME NEW where \in MainPCs \cap ConsumerPCs, Goto(g, where)
      PROVE  /\ PcType' /\ pc'[g] = where
             /\ \A h \in {"main", "consumer"} \ {g} : pc'[h] = pc[h]
             /\ where \notin Preparing => pc'.main \notin Preparing
  <2>1. CASE g = "main"
    BY <1>1, <1>4, <2>1, GotoMain
  <2>2. CASE g = "consumer"
    BY <1>1, <1>3, <1>4, <2>2, GotoConsumer
  <2> QED
    BY <2>1, <2>2
<1>5. CASE StopApp(g)
  <2>1. UNCHANGED <<pprof, db, kafka>>
    BY <1>5 DEF StopApp, consumerVars
  <2>2. CASE app = "starting"
    <3>1. process' = "panicked" /\ pc' = pc /\ app' = app /\ pc[g] = "stopApp"
      BY <1>5, <2>2 DEF StopApp, Ends, At
    <3> QED
      BY <1>1, <1>2, <2>1, <2>2, <3>1 DEF LifeInv, PcType, LaunchInv, ShutdownInv, OrderlyExit, ShutDown
  <2>3. CASE app # "starting"
    <3>1. app' \in {"stopping", "returned"} /\ process' = process /\ Goto(g, "stopPprof")
      BY <1>1, <1>3, <1>5, <2>3 DEF StopApp, LaunchInv
    <3>2. /\ PcType' /\ pc'[g] = "stopPprof" /\ \A h \in {"main", "consumer"} \ {g} : pc'[h] = pc[h]
          /\ pc'.main \notin Preparing
      BY <1>4, <3>1 DEF MainPCs, ConsumerPCs, ShutdownPCs, Preparing
    <3> QED
      BY <1>1, <1>2, <2>1, <3>1, <3>2 DEF LifeInv, LaunchInv, ShutdownInv, OrderlyExit, ShutDown
  <2> QED
    BY <2>2, <2>3
<1>6. CASE StopPprof(g)
  <2>1. UNCHANGED <<process, app, db, kafka>> /\ pprof' # "serving" /\ pc[g] = "stopPprof"
    BY <1>6 DEF StopPprof, consumerVars, At
  <2>2. Goto(g, "closeDB")
    BY <1>6 DEF StopPprof
  <2>3. /\ PcType' /\ pc'[g] = "closeDB" /\ \A h \in {"main", "consumer"} \ {g} : pc'[h] = pc[h]
        /\ pc'.main \notin Preparing
    BY <1>4, <2>2 DEF MainPCs, ConsumerPCs, ShutdownPCs, Preparing
  <2> QED
    BY <1>1, <1>2, <2>1, <2>3 DEF LifeInv, LaunchInv, ShutdownInv, OrderlyExit, ShutDown
<1>7. CASE CloseDB(g)
  <2>1. UNCHANGED <<process, app, pprof, kafka>> /\ db' = "closed" /\ pc[g] = "closeDB"
    BY <1>7 DEF CloseDB, consumerVars, At
  <2>2. Goto(g, "closeConsumer")
    BY <1>7 DEF CloseDB
  <2>3. /\ PcType' /\ pc'[g] = "closeConsumer" /\ \A h \in {"main", "consumer"} \ {g} : pc'[h] = pc[h]
        /\ pc'.main \notin Preparing
    BY <1>4, <2>2 DEF MainPCs, ConsumerPCs, ShutdownPCs, Preparing
  <2> QED
    BY <1>1, <1>2, <2>1, <2>3 DEF LifeInv, LaunchInv, ShutdownInv, OrderlyExit, ShutDown
<1>8. CASE CloseConsumer(g)
  <2>1. UNCHANGED <<app, pprof, db>> /\ pc[g] = "closeConsumer"
    BY <1>8 DEF CloseConsumer, lifeVars, At
  <2>2. CASE kafka = "none"
    <3>1. process' = "panicked" /\ pc' = pc /\ kafka' = kafka
      BY <1>8, <2>2 DEF CloseConsumer, Ends
    <3> QED
      BY <1>1, <1>2, <2>1, <2>2, <3>1 DEF LifeInv, PcType, LaunchInv, ShutdownInv, OrderlyExit, ShutDown
  <2>3. CASE kafka # "none" /\ g = "main"
    <3>1. Goto("main", "over") /\ process' = "returned"
      BY <1>8, <2>3 DEF CloseConsumer
    <3>2. PcType' /\ pc'.main = "over" /\ pc'.consumer = pc.consumer
      BY <1>1, <3>1, GotoMain DEF MainPCs
    <3>3. app \in {"stopping", "returned"} /\ pprof # "serving" /\ db = "closed"
      BY <1>1, <2>1, <2>3 DEF ShutdownInv
    <3> QED
      BY <1>1, <1>2, <2>1, <3>1, <3>2, <3>3 DEF LifeInv, LaunchInv, ShutdownInv, OrderlyExit, ShutDown, Preparing
  <2>4. CASE kafka # "none" /\ g = "consumer"
    <3>1. Goto("consumer", then) /\ process' = process
      BY <1>8, <2>4 DEF CloseConsumer
    <3>2. PcType' /\ pc'.main = pc.main /\ pc'.consumer \in {"new", "ended"}
      BY <1>1, <3>1, GotoConsumer DEF ConsumerPCs
    <3> QED
      BY <1>1, <1>2, <1>3, <2>1, <3>1, <3>2 DEF LifeInv, LaunchInv, ShutdownInv, OrderlyExit, ShutDown
  <2> QED
    BY <2>2, <2>3, <2>4
<1> QED
  BY <1>5, <1>6, <1>7, <1>8 DEF Shutdown

\* A step of the consumer loop itself: it is not at a step of shutdown that relies on
\* another.
LEMMA ConsumeKeeps ==
  ASSUME LifeInv, process = "running", Consume
  PROVE  LifeInv'
<1>1. /\ PcType /\ plan \in UsablePlans /\ LaunchInv /\ then \in {"new", "ended"}
      /\ ShutdownInv("main") /\ ShutdownInv("consumer")
  BY DEF LifeInv
<1>2. UNCHANGED <<process, plan, app, pprof, db>> /\ then' \in {then, "new", "ended"}
  BY DEF Consume, NewConsumer, GiveUp, Subscribe, Poll, ProcessMessage, UpdateToken, StoreOffset,
     ConsumeReturns, lifeVars, consumerVars
<1>3. pc.consumer # "off"
  BY DEF Consume, NewConsumer, GiveUp, Subscribe, Poll, ProcessMessage, UpdateToken, StoreOffset,
     ConsumeReturns, At
<1>4. PICK where \in {"new", "subscribe", "poll", "process", "token", "store", "stuck", "close", "stopApp"} :
        Goto("consumer", where)
  BY DEF Consume, NewConsumer, GiveUp, Subscribe, Poll, ProcessMessage, UpdateToken, StoreOffset,
     ConsumeReturns
<1>5. PcType' /\ pc'.main = pc.main /\ pc'.consumer = where
  BY <1>1, <1>4, GotoConsumer DEF ConsumerPCs, ShutdownPCs
<1> QED
  BY <1>1, <1>2, <1>3, <1>4, <1>5, ZenonT(20) DEF LifeInv, LaunchInv, ShutdownInv, OrderlyExit, ShutDown

LEMMA LifeStep == ASSUME LifeInv, [ServeNext]_serveVars PROVE LifeInv'
<1>1. CASE ServeNext
  <2>1. process = "running"
    BY <1>1, StepsOfARunningProcess
  <2> QED
    BY <1>1, <2>1, ConfigureKeeps, LaunchKeeps, WorldKeeps, ShutdownKeeps, ConsumeKeeps, ZenonT(20)
       DEF ServeNext, MainGoroutine, ConsumerGoroutine
<1>2. CASE UNCHANGED serveVars
  BY <1>2 DEF serveVars, lifeVars, consumerVars, LifeInv, PcType, LaunchInv, ShutdownInv, OrderlyExit, ShutDown
<1> QED
  BY <1>1, <1>2

LEMMA LifeAlways == ServeSpec => []LifeInv
<1>1. ASSUME ServeInit PROVE LifeInv
  <2>1. PcType /\ pc.main = "storage" /\ pc.consumer = "off"
    BY <1>1 DEF ServeInit, PcType, MainPCs, ConsumerPCs
  <2>2. plan \in UsablePlans
    BY <1>1 DEF ServeInit, UsablePlans, Outcomes
  <2> QED
    BY <1>1, <2>1, <2>2 DEF ServeInit, LifeInv, LaunchInv, ShutdownInv, OrderlyExit, ShutDown, Preparing
<1> QED
  BY <1>1, LifeStep, PTL DEF ServeSpec

\* AcceptedOptionsConstruct, for any chains an operator may configure.
THEOREM AcceptedAlwaysConstruct == ServeSpec => []AcceptedOptionsConstruct
<1>1. LifeInv => AcceptedOptionsConstruct
  BY DEF LifeInv, UsablePlans, AcceptedOptionsConstruct
<1> QED
  BY <1>1, LifeAlways, PTL

\* OrderlyExit, for any options, messages and number of retries: a process returns
\* only shut down, and panics only at the three places named, however the two
\* goroutines interleave in shutdown.
THEOREM ExitsOrderly == ServeSpec => []OrderlyExit
<1>1. LifeInv => OrderlyExit
  BY DEF LifeInv
<1> QED
  BY <1>1, LifeAlways, PTL

----
(* Offsets and tuples *)

\* Everything before the next message, the stored and the committed offset has its
\* tuples, and a message at its token or its offset has them itself.
ReplicatedInv ==
  /\ next \in Nat /\ stored \in Nat /\ committed \in Nat
  /\ 1 .. next - 1 \subseteq replicated
  /\ 1 .. stored \subseteq replicated
  /\ 1 .. committed \subseteq replicated
  /\ pc.consumer \in {"token", "store"} => next \in replicated

LEMMA ShutdownCommits ==
  ASSUME ReplicatedInv, ShutdownConsumer
  PROVE  committed' \in Nat /\ 1 .. committed' \subseteq replicated
<1>1. committed' \in {committed, stored}
  BY DEF ShutdownConsumer, Commit
<1> QED
  BY <1>1 DEF ReplicatedInv

\* Only the consumer loop goes to its token or its offset.
LEMMA OthersDoNotProcess ==
  ASSUME LifeInv, ServeNext, ~ Consume
  PROVE  /\ UNCHANGED <<next, stored, replicated>>
         /\ pc'.consumer \in {"token", "store"} => pc.consumer = pc'.consumer
         /\ committed' = committed \/ ShutdownConsumer
<1>1. PcType /\ then \in {"new", "ended"}
  BY DEF LifeInv
<1>2. CASE RunApp \/ AppStops \/ Environment
  BY <1>2 DEF RunApp, AppStops, Environment, Sigterm, AppFails, PprofFails, ListenerFails, consumerVars
<1>3. ASSUME NEW g \in {"main", "consumer"}, Shutdown(g)
      PROVE  /\ UNCHANGED <<next, stored, replicated>>
             /\ pc'.consumer \in {"token", "store"} => pc.consumer = pc'.consumer
             /\ committed' = committed \/ ShutdownConsumer
  <2>1. UNCHANGED <<next, stored, replicated>> /\ (committed' = committed \/ ShutdownConsumer)
    BY <1>3 DEF Shutdown, StopApp, StopPprof, CloseDB, CloseConsumer, consumerVars
  <2>2. CASE pc' = pc
    BY <2>1, <2>2
  <2>3. CASE pc' # pc
    <3>1. PICK where \in {"stopPprof", "closeDB", "closeConsumer", "over", "new", "ended"} :
            Goto(g, where)
      BY <1>1, <1>3, <2>3 DEF Shutdown, StopApp, StopPprof, CloseDB, CloseConsumer
    <3>2. pc'.consumer \in {pc.consumer, where}
      BY <1>1, <3>1 DEF PcType, Goto
    <3> QED
      BY <2>1, <3>2
  <2> QED
    BY <2>2, <2>3
<1>4. CASE MainGoroutine /\ ~ Shutdown("main")
  <2>1. UNCHANGED <<next, stored, replicated, committed>>
    BY <1>4 DEF MainGoroutine, ConfigureStorage, ConfigureAuthn, ConfigureAuthz, ConfigureConsumer,
       ConfigureSchema, ConfigureServer, Configured, Construct, Launch, Notify, Select, consumerVars
  <2>2. \/ pc' = pc \/ \E where : Goto("main", where)
        \/ pc' = [main |-> "notify", consumer |-> IF plan.consumer THEN "new" ELSE "off"]
    BY <1>4 DEF MainGoroutine, ConfigureStorage, ConfigureAuthn, ConfigureAuthz, ConfigureConsumer,
       ConfigureSchema, ConfigureServer, Configured, Construct, Launch, Notify, Select
  <2>3. pc'.consumer \in {pc.consumer, "new", "off"}
    BY <1>1, <2>2 DEF PcType, Goto
  <2> QED
    BY <2>1, <2>3
<1> QED
  BY <1>2, <1>3, <1>4 DEF ServeNext, MainGoroutine, ConsumerGoroutine

LEMMA ReplicatedStep ==
  ASSUME LifeInv, ReplicatedInv, [ServeNext]_serveVars
  PROVE  ReplicatedInv'
<1>1. PcType
  BY DEF LifeInv
<1>2. /\ next \in Nat /\ stored \in Nat /\ committed \in Nat
      /\ 1 .. next - 1 \subseteq replicated /\ 1 .. stored \subseteq replicated
      /\ 1 .. committed \subseteq replicated
  BY DEF ReplicatedInv
<1>3. CASE UNCHANGED serveVars
  BY <1>3 DEF serveVars, consumerVars, ReplicatedInv
<1>4. CASE ServeNext /\ ~ Consume
  <2>1. committed' \in Nat /\ 1 .. committed' \subseteq replicated
    BY <1>2, <1>4, OthersDoNotProcess, ShutdownCommits
  <2> QED
    BY <1>2, <1>4, <2>1, OthersDoNotProcess DEF ReplicatedInv
<1>5. ASSUME NEW where \in ConsumerPCs \ {"token", "store"}, Goto("consumer", where)
      PROVE  pc'.consumer \notin {"token", "store"}
  BY <1>1, <1>5, GotoConsumer
<1>6. CASE NewConsumer
  <2>1. \/ Goto("consumer", "subscribe") /\ next' = committed + 1
        \/ Goto("consumer", "stopApp") /\ next' = next
    BY <1>6 DEF NewConsumer
  <2>2. stored' = 0 /\ UNCHANGED <<replicated, committed>>
    BY <1>6 DEF NewConsumer
  <2>3. pc'.consumer \notin {"token", "store"}
    BY <1>5, <2>1 DEF ConsumerPCs, ShutdownPCs
  <2> QED
    BY <1>2, <2>1, <2>2, <2>3 DEF ReplicatedInv
<1>7. CASE GiveUp \/ Subscribe \/ Poll
  <2>1. UNCHANGED <<next, stored, replicated, committed>>
    BY <1>7 DEF GiveUp, Subscribe, Poll, consumerVars
  <2>2. PICK where \in {"stopApp", "poll", "stuck", "close", "process"} : Goto("consumer", where)
    BY <1>7 DEF GiveUp, Subscribe, Poll
  <2>3. pc'.consumer \notin {"token", "store"}
    BY <1>5, <2>2 DEF ConsumerPCs, ShutdownPCs
  <2> QED
    BY <1>2, <2>1, <2>3 DEF ReplicatedInv
<1>8. CASE ProcessMessage
  <2>1. UNCHANGED <<next, stored, committed>>
    BY <1>8 DEF ProcessMessage
  <2>2. \/ replicated' = replicated \cup {next}
        \/ Goto("consumer", "close") /\ replicated' = replicated
    BY <1>8 DEF ProcessMessage
  <2>3. pc'.consumer \in {"token", "store"} => next \in replicated'
    BY <1>5, <2>2 DEF ConsumerPCs
  <2> QED
    BY <1>2, <2>1, <2>2, <2>3 DEF ReplicatedInv
<1>9. CASE UpdateToken
  <2>1. UNCHANGED <<stored, replicated, committed>> /\ next \in replicated
    BY <1>9 DEF UpdateToken, At, ReplicatedInv
  <2>2. next' = next \/ (next' = next + 1 /\ Goto("consumer", "poll"))
    BY <1>9 DEF UpdateToken
  <2>3. pc'.consumer \in {"token", "store"} => next' \in replicated'
    BY <1>5, <2>1, <2>2 DEF ConsumerPCs
  <2>4. next' \in Nat /\ 1 .. next' - 1 \subseteq replicated
    BY <1>2, <2>1, <2>2
  <2> QED
    BY <1>2, <2>1, <2>3, <2>4 DEF ReplicatedInv
<1>10. CASE StoreOffset
  <2>1. next \in replicated /\ next' = next + 1 /\ stored' = next /\ replicated' = replicated
    BY <1>10 DEF StoreOffset, At, ReplicatedInv
  <2>2. committed' \in {committed, next}
    BY <1>10 DEF StoreOffset, Commit
  <2>3. pc'.consumer \notin {"token", "store"}
    BY <1>5, <1>10 DEF StoreOffset, ConsumerPCs
  <2>4. 1 .. next \subseteq replicated
    BY <1>2, <2>1
  <2> QED
    BY <1>2, <2>1, <2>2, <2>3, <2>4 DEF ReplicatedInv
<1>11. CASE ConsumeReturns
  <2>1. UNCHANGED <<next, stored, replicated>> /\ ShutdownConsumer
    BY <1>11 DEF ConsumeReturns
  <2>2. PICK where \in {"new", "stopApp"} : Goto("consumer", where)
    BY <1>11 DEF ConsumeReturns
  <2>3. pc'.consumer \notin {"token", "store"}
    BY <1>5, <2>2 DEF ConsumerPCs, ShutdownPCs
  <2> QED
    BY <1>2, <2>1, <2>3, ShutdownCommits DEF ReplicatedInv
<1> QED
  BY <1>3, <1>4, <1>6, <1>7, <1>8, <1>9, <1>10, <1>11 DEF Consume

\* CommitsOnlyReplicated, for any number of messages, deletes among them, retries
\* and any commit modulus.
THEOREM CommittedIsAlwaysReplicated == ServeSpec => []CommitsOnlyReplicated
<1>1. ServeInit => ReplicatedInv
  BY DEF ServeInit, ReplicatedInv
<1>2. ReplicatedInv => CommitsOnlyReplicated
  BY DEF ReplicatedInv, CommitsOnlyReplicated
<1> QED
  BY <1>1, <1>2, ReplicatedStep, LifeAlways, PTL DEF ServeSpec
====
