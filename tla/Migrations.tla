---- MODULE Migrations ----
(***************************************************************************)
(* `inventory-api migrate`, the init container of every pod: the pods      *)
(* serialize on an advisory lock of the database, and the one that holds   *)
(* it runs the migrations of its own release that the migrations table     *)
(* does not list yet, recording each one after it ran.  Nothing is in a    *)
(* transaction (UseTransaction is false), so a pod that dies leaves a      *)
(* migration begun and not finished, or finished and not recorded.         *)
(*                                                                         *)
(* A migration is its position in MigrationsList.  gormigrate's loop and   *)
(* Postgres' locks and DDL are external.                                   *)
(***************************************************************************)
EXTENDS Integers

CONSTANTS Pods,
          NoPod,
          Known,        \* Known[p]: how many migrations the release of pod p has
          Skipped,      \* migrations that do nothing when their object exists, even unfinished
          MaxCrashes    \* bound: pods that die while migrating

Count == 4              \* Len(MigrationsList)
MigrationsList == 1 .. Count

ASSUME MigrationsAssumption ==
  /\ NoPod \notin Pods
  /\ Known \in [Pods -> MigrationsList]
  /\ Skipped \subseteq MigrationsList
  /\ MaxCrashes \in Nat

VARIABLES lock,        \* the pod whose session holds MigrationAdvisoryLockKey
          mpc,         \* where the migrate command of each pod is
          at,          \* the migration its loop has reached
          effect,      \* what the database holds of each migration
          recorded,    \* the migrations table
          cutOff,      \* history: a migration of Skipped was interrupted
          crashes

migrationVars == <<lock, mpc, at, effect, recorded, cutOff, crashes>>

MigrationsTypeOK ==
  /\ lock \in Pods \cup {NoPod}
  /\ mpc \in [Pods -> {"start", "loop", "execute", "record", "migrated", "refused"}]
  /\ at \in [Pods -> 1 .. Count + 1]
  /\ effect \in [MigrationsList -> {"none", "partial", "done"}]
  /\ recorded \in SUBSET MigrationsList
  /\ cutOff \in BOOLEAN
  /\ crashes \in Nat

MigrationsInit ==
  /\ lock = NoPod
  /\ mpc = [p \in Pods |-> "start"]
  /\ at = [p \in Pods |-> 1]
  /\ effect = [m \in MigrationsList |-> "none"]
  /\ recorded = {}
  /\ cutOff = FALSE
  /\ crashes = 0

MoveTo(p, where) == mpc' = [mpc EXCEPT ![p] = where]

\* WithAdvisoryLock: pg_advisory_lock waits for the session that has it.
AcquireLock(p) ==
  /\ mpc[p] = "start"
  /\ lock = NoPod
  /\ recorded \subseteq 1 .. Known[p]
  /\ lock' = p
  /\ at' = [at EXCEPT ![p] = 1]
  /\ MoveTo(p, "loop")
  /\ UNCHANGED <<effect, recorded, cutOff, crashes>>

\* ValidateUnknownMigrations: the table lists a migration of a newer release.
RefuseUnknown(p) ==
  /\ mpc[p] = "start"
  /\ lock = NoPod
  /\ ~(recorded \subseteq 1 .. Known[p])
  /\ MoveTo(p, "refused")
  /\ UNCHANGED <<lock, at, effect, recorded, cutOff, crashes>>

SkipRecorded(p) ==
  /\ mpc[p] = "loop"
  /\ at[p] <= Known[p]
  /\ at[p] \in recorded
  /\ at' = [at EXCEPT ![p] = @ + 1]
  /\ UNCHANGED <<lock, mpc, effect, recorded, cutOff, crashes>>

\* A mistaken variant: a migration is listed when it begins.
Execute_RecordsFirst(p) ==
  /\ mpc[p] = "loop"
  /\ at[p] <= Known[p]
  /\ at[p] \notin recorded
  /\ effect' = [effect EXCEPT ![at[p]] = "partial"]
  /\ recorded' = recorded \cup {at[p]}
  /\ MoveTo(p, "execute")
  /\ UNCHANGED <<lock, at, cutOff, crashes>>

\* AutoMigrate and DROP TABLE IF EXISTS do what is left to do; CREATE INDEX
\* CONCURRENTLY IF NOT EXISTS does nothing if the index exists, valid or not.
Execute(p) ==
  /\ mpc[p] = "loop"
  /\ at[p] <= Known[p]
  /\ at[p] \notin recorded
  /\ IF at[p] \in Skipped /\ effect[at[p]] # "none"
       THEN MoveTo(p, "record") /\ UNCHANGED effect
       ELSE /\ effect' = [effect EXCEPT ![at[p]] = "partial"]
            /\ MoveTo(p, "execute")
  /\ UNCHANGED <<lock, at, recorded, cutOff, crashes>>

Executed(p) ==
  /\ mpc[p] = "execute"
  /\ effect' = [effect EXCEPT ![at[p]] = "done"]
  /\ MoveTo(p, "record")
  /\ UNCHANGED <<lock, at, recorded, cutOff, crashes>>

Record(p) ==
  /\ mpc[p] = "record"
  /\ recorded' = recorded \cup {at[p]}
  /\ at' = [at EXCEPT ![p] = @ + 1]
  /\ MoveTo(p, "loop")
  /\ UNCHANGED <<lock, effect, cutOff, crashes>>

Unlock(p) ==
  /\ mpc[p] = "loop"
  /\ at[p] > Known[p]
  /\ lock' = NoPod
  /\ MoveTo(p, "migrated")
  /\ UNCHANGED <<at, effect, recorded, cutOff, crashes>>

\* A mistaken variant: the lock outlives the session of the pod.
CrashMigrating_KeepsLock(p) ==
  /\ mpc[p] \in {"loop", "execute", "record"}
  /\ crashes < MaxCrashes
  /\ crashes' = crashes + 1
  /\ cutOff' = (cutOff \/ (mpc[p] = "execute" /\ at[p] \in Skipped))
  /\ MoveTo(p, "start")
  /\ UNCHANGED <<lock, at, effect, recorded>>

\* The pod dies or its statement fails; the session ends and with it the lock,
\* and the init container is started again.
CrashMigrating(p) ==
  /\ mpc[p] \in {"loop", "execute", "record"}
  /\ crashes < MaxCrashes
  /\ crashes' = crashes + 1
  /\ lock' = NoPod
  /\ cutOff' = (cutOff \/ (mpc[p] = "execute" /\ at[p] \in Skipped))
  /\ MoveTo(p, "start")
  /\ UNCHANGED <<at, effect, recorded>>

MigrateStep(p) ==
  \/ AcquireLock(p)
  \/ RefuseUnknown(p)
  \/ SkipRecorded(p)
  \/ Execute(p)
  \/ Executed(p)
  \/ Record(p)
  \/ Unlock(p)

Migrate(p) == MigrateStep(p) \/ CrashMigrating(p)

----
(* Properties *)

\* "ensuring only one process runs migrations at a time across multiple
\* application instances" (WithAdvisoryLock): only the pod whose session holds
\* the lock is between taking it and giving it back, whichever pods died.
OneMigrator ==
  \A p \in Pods : mpc[p] \in {"loop", "execute", "record"} => lock = p

\* A migration the table lists was carried out to its end, and after all the
\* earlier ones; except that an index whose concurrent build was cut off is
\* skipped by the next run (IF NOT EXISTS finds it) and listed unfinished.
RecordedIsComplete ==
  \A m \in recorded :
     /\ effect[m] = "done" \/ (m \in Skipped /\ cutOff)
     /\ \A e \in MigrationsList : e < m => e \in recorded

====
