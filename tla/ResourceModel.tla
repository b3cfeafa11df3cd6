---- MODULE ResourceModel ----
(***************************************************************************)
(* The domain model of internal/biz/model: how one report or delete        *)
(* changes a resource, and which relation tuples follow from two           *)
(* successive common representations.  Pure operators, no state.           *)
(*                                                                         *)
(* A resource is the pair (resource row, reporter_resources row) that      *)
(* Resource and ReporterResource hold together; createResource makes one   *)
(* of each per reporter key, so the key identifies both.                   *)
(*   cv   common_version, NoVersion for the nil pointer                    *)
(*   rv   representation_version     gen  generation     tomb  tombstone   *)
(*   ktn  the consistency token of the resource row                        *)
(* A common representation is abstracted to its workspace_id.              *)
(***************************************************************************)
EXTENDS Integers

CONSTANTS Workspaces,    \* the workspace_id values reported
          NoWorkspace    \* a report without common representation; the "" of WorkspaceID()

ASSUME WorkspaceAssumption == NoWorkspace \notin Workspaces

NoVersion == -1

Version == Nat \cup {NoVersion}

Resource == [cv : Version, rv : Nat, gen : Nat, tomb : BOOLEAN, ktn : Nat]

----
(* ReporterResource *)

\* A mistaken variant: the version of the previous generation is kept.
startNewGeneration_KeepsVersion(rr) == [rr EXCEPT !.tomb = FALSE, !.gen = @ + 1]

startNewGeneration(rr) == [rr EXCEPT !.tomb = FALSE, !.gen = @ + 1, !.rv = 0]

ReporterUpdate(rr) ==
  LET bumped == [rr EXCEPT !.rv = @ + 1]
  IN  IF rr.tomb THEN startNewGeneration(bumped) ELSE bumped

ReporterDelete(rr) == [rr EXCEPT !.rv = @ + 1, !.tomb = TRUE]

----
(* Resource *)

NewResource(ws) ==
  [cv |-> IF ws # NoWorkspace THEN 0 ELSE NoVersion,
   rv |-> 0, gen |-> 0, tomb |-> FALSE, ktn |-> 0]

\* A mistaken variant: numbering restarts when the current version is nil.
NextCommonVersion_Restart(cv, lastCommonVersion) ==
  IF cv # NoVersion THEN cv + 1 ELSE 0

\* lastCommonVersion is MAX(version) over the resource's common representations.
NextCommonVersion(cv, lastCommonVersion) ==
  IF cv # NoVersion THEN cv + 1
  ELSE IF lastCommonVersion # NoVersion THEN lastCommonVersion + 1
  ELSE 0

\* A mistaken variant: every report advances the common version.
Update_AlwaysAdvances(r, lastCommonVersion, ws) ==
  [ReporterUpdate(r) EXCEPT !.cv = NextCommonVersion(r.cv, lastCommonVersion)]

\* Resource.Update: a report without common representation clears cv.
Update(r, lastCommonVersion, ws) ==
  [ReporterUpdate(r) EXCEPT
     !.cv = IF ws # NoWorkspace THEN NextCommonVersion(r.cv, lastCommonVersion)
            ELSE NoVersion]

\* Resource.Delete drops the deletion of a resource that is already tombstoned.
Delete(r) == IF r.tomb THEN r ELSE ReporterDelete(r)

----
(* DefaultSchema.CalculateTuples: the workspaces whose tuple with the      *)
(* resource is to be created and to be deleted.                            *)

CalculateTuples(current, previous) ==
  IF previous # NoWorkspace /\ previous = current
  THEN [create |-> {}, delete |-> {}]
  ELSE [create |-> {current} \ {NoWorkspace}, delete |-> {previous} \ {NoWorkspace}]
====
