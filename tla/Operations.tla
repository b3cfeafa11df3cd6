---- MODULE Operations ----
(***************************************************************************)
(* What operates on the database beside the handlers: the rollout of a     *)
(* release (Migrations), and the jobs (Jobs), which need the tables the    *)
(* migrations create.  A deployment has some of them at a time: a purge is *)
(* run by hand, into a schema that is complete, and no purge is run during *)
(* a rollout, so the two are explored side by side and not interleaved.    *)
(***************************************************************************)
EXTENDS Jobs, Migrations

CONSTANT Deployments      \* which of "rollout", "metrics" and "purge" are under way

ASSUME DeploymentsAssumption ==
  Deployments \subseteq SUBSET {"rollout", "metrics", "purge"}

VARIABLE deployed

MetricsSummaryMigration == 2

operationVars == <<deployed, jobVars, migrationVars>>

OperationsTypeOK ==
  /\ deployed \in Deployments
  /\ JobsTypeOK
  /\ MigrationsTypeOK

OperationsInit ==
  /\ deployed \in Deployments
  /\ JobsInit
  /\ MigrationsInit

Rollout ==
  /\ "rollout" \in deployed
  /\ \E p \in Pods : Migrate(p)
  /\ UNCHANGED <<deployed, jobVars>>

\* Before its table is there, every statement on metrics_summary fails.
RunMetrics ==
  /\ "metrics" \in deployed
  /\ effect[MetricsSummaryMigration] = "done"
  /\ Metrics
  /\ UNCHANGED <<deployed, migrationVars>>

RunPurge ==
  /\ "purge" \in deployed
  /\ Service \/ Purge
  /\ UNCHANGED <<deployed, migrationVars>>

OperationsNext == Rollout \/ RunMetrics \/ RunPurge

\* A migrate container is scheduled, gets the lock when it is free, and its
\* statements end.  Crashes are not fair.
OperationsSpec ==
  /\ OperationsInit
  /\ [][OperationsNext]_operationVars
  /\ \A p \in Pods : SF_operationVars("rollout" \in deployed /\ MigrateStep(p)
                                        /\ UNCHANGED <<deployed, jobVars>>)

----
(* Properties *)

\* Every pod's init container ends: with the schema of its release, or refused
\* since the table lists migrations it does not know.  No dead pod keeps the
\* advisory lock and no pod waits for it forever.
RolloutEnds ==
  \A p \in Pods : <>("rollout" \notin deployed \/ mpc[p] \in {"migrated", "refused"})
====
