---- MODULE Jobs ----
(***************************************************************************)
(* The batch jobs beside a running service.                                *)
(*   resource-delete-job   purges one resource type of one reporter: the   *)
(*     reporter resources, then the common representations, then the       *)
(*     resources, batch by batch, each batch a transaction of its own;     *)
(*   metrics-collect-job   stores a summary and removes the old ones, and  *)
(*     the collector of every replica reads the latest.                    *)
(* Reports and deletes of the service commit between the batches.          *)
(*                                                                         *)
(* Here the rows of the tables are kept apart, since a purge separates     *)
(* them: a resource, its reporter resource and its common representations  *)
(* share the resource id; "key" stands for their type and reporter.  The   *)
(* reporter representations go with their reporter resource (CASCADE).     *)
(***************************************************************************)
EXTENDS ResourceModel, FiniteSets, FiniteSetsExt

CONSTANTS Keys,          \* reporter resource keys
          TypeOf,        \* the resource type of each key
          ReporterOf,    \* the reporter type of each key
          PurgedType,    \* --resource-type
          PurgedReporter,\* --reporter-type
          BatchSize,     \* --batch-size
          MaxIds,        \* bound: the resource ids given out
          MaxVersion,    \* bound: the highest representation version
          MaxGeneration, \* bound: the highest generation
          MaxPurges,     \* bound: the runs of the purge
          MaxDay,        \* bound: the days that pass
          Retentions     \* the values of --retention-days

DefaultRetentionDays == 30

\* The last conjunct is the documented scope of the purge: a reporter of that
\* type alone, and a type of that reporter alone.
ASSUME JobsAssumption ==
  /\ TypeOf \in [Keys -> STRING] /\ ReporterOf \in [Keys -> STRING]
  /\ BatchSize \in Nat \ {0}
  /\ MaxIds \in Nat /\ MaxVersion \in Nat /\ MaxGeneration \in Nat
  /\ MaxPurges \in Nat /\ MaxDay \in Nat
  /\ Retentions \subseteq Int
  /\ \A k \in Keys : TypeOf[k] = PurgedType <=> ReporterOf[k] = PurgedReporter

Ids == 1 .. MaxIds
Purged == {k \in Keys : TypeOf[k] = PurgedType /\ ReporterOf[k] = PurgedReporter}

VARIABLES resources,     \* resource
          rrs,           \* reporter_resources
          commons,       \* common_representations
          used,          \* how many ids were given out
          ppc,           \* the phase of the purge
          purges,
          disturbed,     \* history: a report committed while a purge was under way
          leftover,      \* history: as disturbed, since the last purge that met none
          day,
          summaries,     \* metrics_summary: the day each row was collected
          cleaning,      \* the metrics job stored its summary and has not cleaned up
          gauge          \* the day of the summary the collector recorded last, or NoDay

purgeVars == <<ppc, purges>>
tableVars == <<resources, rrs, commons, used>>
metricsVars == <<day, summaries, cleaning, gauge>>
jobVars == <<tableVars, purgeVars, disturbed, leftover, metricsVars>>

NoDay == -1
Phases == {"reporters", "commons", "resources"}

ResourceRow == [id : Ids, key : Keys, cv : Version]
ReporterRow == [id : Ids, key : Keys, rv : Nat, gen : Nat, tomb : BOOLEAN]
CommonRow == [id : Ids, key : Keys, version : Nat]

JobsTypeOK ==
  /\ resources \subseteq ResourceRow
  /\ rrs \subseteq ReporterRow
  /\ commons \subseteq CommonRow
  /\ used \in 0 .. MaxIds
  /\ ppc \in {"idle", "done", "failed"} \cup Phases
  /\ purges \in 0 .. MaxPurges
  /\ disturbed \in BOOLEAN /\ leftover \in BOOLEAN
  /\ day \in 0 .. MaxDay
  /\ summaries \subseteq 0 .. MaxDay
  /\ cleaning \in BOOLEAN
  /\ gauge \in {NoDay} \cup 0 .. MaxDay

JobsInit ==
  /\ resources = {} /\ rrs = {} /\ commons = {} /\ used = 0
  /\ ppc = "idle" /\ purges = 0
  /\ disturbed = FALSE /\ leftover = FALSE
  /\ day = 0 /\ summaries = {} /\ cleaning = FALSE /\ gauge = NoDay

----
(* The service *)

\* FindResourceByKeys: the JOIN of reporter_resources and resource.
Found(k) == {rr \in rrs : rr.key = k /\ \E r \in resources : r.id = rr.id}

\* The unique index reporter_resource_key_idx.
KeyFree(new, old) ==
  \A rr \in rrs \ old : <<rr.key, rr.rv, rr.gen>> # <<new.key, new.rv, new.gen>>

Committed(k) ==
  /\ disturbed' = (disturbed \/ (ppc \in Phases /\ k \in Purged))
  /\ leftover' = (leftover \/ (ppc \in Phases /\ k \in Purged))
  /\ UNCHANGED <<purgeVars, metricsVars>>

\* ReportResource with a common representation, where there is none yet.
Create(k) ==
  LET rr == [id |-> used + 1, key |-> k, rv |-> 0, gen |-> 0, tomb |-> FALSE]
  IN  /\ Found(k) = {}
      /\ used + 1 \in Ids
      /\ KeyFree(rr, {})
      /\ used' = used + 1
      /\ rrs' = rrs \cup {rr}
      /\ resources' = resources \cup {[id |-> rr.id, key |-> k, cv |-> 0]}
      /\ commons' = commons \cup {[id |-> rr.id, key |-> k, version |-> 0]}
      /\ Committed(k)

\* What a report or a delete makes of the row it found.
Replace(old, new) ==
  /\ new.rv <= MaxVersion /\ new.gen <= MaxGeneration
  /\ KeyFree(new, {old})
  /\ rrs' = (rrs \ {old}) \cup {new}
  /\ Committed(new.key)

UpdateReported(k) ==
  \E rr \in Found(k) :
    LET res == CHOOSE r \in resources : r.id = rr.id
        cv == NextCommonVersion(res.cv, NoVersion)
    IN  /\ Replace(rr, ReporterUpdate(rr))
        /\ resources' = (resources \ {res}) \cup {[res EXCEPT !.cv = cv]}
        /\ commons' = commons \cup {[id |-> rr.id, key |-> k, version |-> cv]}
        /\ UNCHANGED used

DeleteReported(k) ==
  \E rr \in Found(k) :
    /\ ~rr.tomb
    /\ Replace(rr, ReporterDelete(rr))
    /\ UNCHANGED <<resources, commons, used>>

Service == \E k \in Keys : Create(k) \/ UpdateReported(k) \/ DeleteReported(k)

----
(* resource-delete-job *)

\* A mistaken variant: the purge begins with the resources.
StartPurge_ResourcesFirst ==
  /\ ppc \notin Phases
  /\ purges < MaxPurges
  /\ purges' = purges + 1
  /\ ppc' = "resources"
  /\ disturbed' = FALSE
  /\ UNCHANGED <<tableVars, leftover, metricsVars>>

StartPurge ==
  /\ ppc \notin Phases
  /\ purges < MaxPurges
  /\ purges' = purges + 1
  /\ ppc' = "reporters"
  /\ disturbed' = FALSE
  /\ UNCHANGED <<tableVars, leftover, metricsVars>>

\* One DELETE ... LIMIT batchSize of the rows the WHERE clause selects: as many
\* as there are, up to the batch.  A phase is over when one deletes no row.
Batch(rows) ==
  {S \in SUBSET rows : Cardinality(S) = Min({BatchSize, Cardinality(rows)})}

ReporterRows == {rr \in rrs : rr.key \in Purged}
CommonRows == {c \in commons : ReporterOf[c.key] = PurgedReporter}
ResourceRows == {r \in resources : TypeOf[r.key] = PurgedType}

PurgeReporters ==
  /\ ppc = "reporters"
  /\ IF ReporterRows = {}
       THEN ppc' = "commons" /\ UNCHANGED rrs
       ELSE (\E S \in Batch(ReporterRows) : rrs' = rrs \ S) /\ UNCHANGED ppc
  /\ UNCHANGED <<resources, commons, used, purges, disturbed, leftover, metricsVars>>

\* A mistaken variant: one batch is all the phase deletes.
PurgeCommons_OneBatch ==
  /\ ppc = "commons"
  /\ \E S \in Batch(CommonRows) : commons' = commons \ S
  /\ ppc' = "resources"
  /\ UNCHANGED <<resources, rrs, used, purges, disturbed, leftover, metricsVars>>

PurgeCommons ==
  /\ ppc = "commons"
  /\ IF CommonRows = {}
       THEN ppc' = "resources" /\ UNCHANGED commons
       ELSE (\E S \in Batch(CommonRows) : commons' = commons \ S) /\ UNCHANGED ppc
  /\ UNCHANGED <<resources, rrs, used, purges, disturbed, leftover, metricsVars>>

PurgeResources ==
  /\ ppc = "resources"
  /\ IF ResourceRows = {}
       THEN ppc' = "done" /\ leftover' = disturbed /\ UNCHANGED resources
       ELSE /\ \E S \in Batch(ResourceRows) : resources' = resources \ S
            /\ UNCHANGED <<ppc, leftover>>
  /\ UNCHANGED <<rrs, commons, used, purges, disturbed, metricsVars>>

\* A batch fails and the job returns, or the pod is killed.  (A dry run counts
\* the rows and changes nothing.)
PurgeFails ==
  /\ ppc \in Phases
  /\ ppc' = "failed"
  /\ UNCHANGED <<tableVars, purges, disturbed, leftover, metricsVars>>

Purge == StartPurge \/ PurgeReporters \/ PurgeCommons \/ PurgeResources \/ PurgeFails

----
(* metrics-collect-job and the collector *)

\* A day has passed; the job does not sleep between its statements.
Tick ==
  /\ day < MaxDay
  /\ ~cleaning
  /\ day' = day + 1
  /\ UNCHANGED <<tableVars, purgeVars, disturbed, leftover, summaries, cleaning, gauge>>

CollectMetrics ==
  /\ ~cleaning
  /\ summaries' = summaries \cup {day}
  /\ cleaning' = TRUE
  /\ UNCHANGED <<tableVars, purgeVars, disturbed, leftover, day, gauge>>

\* A mistaken variant: --retention-days is used as it was given.
RetentionDays_AsGiven(given) == given

RetentionDays(given) == IF given <= 0 THEN DefaultRetentionDays ELSE given

\* The cutoff is read after the summary was dated, so a summary of this day is
\* older than a cutoff of this day; one of the cutoff's day may be.
CleanUp ==
  /\ cleaning
  /\ \E given \in Retentions :
       LET cutoff == day - RetentionDays(given)
       IN  \E older \in SUBSET (summaries \cap {cutoff}) :
             /\ cutoff = day => older = {day}
             /\ summaries' = summaries \ (older \cup {s \in summaries : s < cutoff})
  /\ cleaning' = FALSE
  /\ UNCHANGED <<tableVars, purgeVars, disturbed, leftover, day, gauge>>

CleanUpFails ==
  /\ cleaning
  /\ cleaning' = FALSE
  /\ UNCHANGED <<tableVars, purgeVars, disturbed, leftover, day, summaries, gauge>>

\* On start and every 24 hours; a read that fails records nothing.
CollectBusinessMetrics ==
  /\ summaries # {}
  /\ gauge' = Max(summaries)
  /\ UNCHANGED <<tableVars, purgeVars, disturbed, leftover, day, summaries, cleaning>>

Metrics == Tick \/ CollectMetrics \/ CleanUp \/ CleanUpFails \/ CollectBusinessMetrics

----
(* Properties *)

\* A reporter resource without its resource is not found by FindResourceByKeys,
\* and its unique key refuses the next report.  The purge deletes the reporter
\* resources first, so no failure of it, at whatever batch, leaves such a row: it
\* takes a report of the purged type that committed while the purge ran.
OrphansNeedAReport ==
  \A rr \in rrs : (\A r \in resources : r.id # rr.id) => leftover /\ rr.key \in Purged

\* "Safe to re-run": a purge that completes and during which nothing of its type
\* was reported leaves no row of that type, whatever an earlier one that failed
\* or was disturbed left behind.
PurgeLeavesNothing ==
  [][ppc # "done" /\ ppc' = "done" /\ ~disturbed
       => (ReporterRows \cup CommonRows \cup ResourceRows)' = {}]_jobVars

\* The summary a replica recorded stays in metrics_summary until a newer one is
\* there: a replica that starts later never records an older one, or none.
LatestSummaryKept ==
  gauge # NoDay => \E s \in summaries : s >= gauge
====
