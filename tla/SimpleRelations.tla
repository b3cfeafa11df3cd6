---- MODULE SimpleRelations ----
(***************************************************************************)
(* SimpleRelationsRepository, the in-memory tuple store the service's own  *)
(* tests run on: a version that every mutation advances, the current       *)
(* tuples, and the older states a test retained.  Each method holds the    *)
(* mutex from beginning to end and is one action.                          *)
(*                                                                         *)
(* "past" is a history variable: the store itself forgets what is not      *)
(* retained.  A filter is the set of tuples it matches.                    *)
(***************************************************************************)
EXTENDS Integers, Sequences, FiniteSetsExt

CONSTANTS Tuples,
          Filters,         \* the tuple filters in use, each the set it matches
          Faults,          \* the sets of methods that are made to fail together
          MaxRevisions     \* bound: versions of the store

ASSUME SimpleRelationsAssumption ==
  /\ Filters \subseteq SUBSET Tuples
  /\ Faults \subseteq SUBSET {"GetReadyz", "CreateTuples", "DeleteTuples", "AcquireLock"}
  /\ MaxRevisions \in Nat \ {0}

VARIABLES version,
          tuples,
          snapshots,       \* retained: version -> tuples
          errors,          \* the methods set to fail
          past,            \* history: the tuples at every version
          answer           \* the answer of the last call, until the next step

simpleVars == <<version, tuples, snapshots, errors, past, answer>>

Store == INSTANCE RelationsStore WITH history <- past, Demands <- 0 .. MaxRevisions

\* What the comment of SimpleRelationsRepository promises the tests.
RelationsStoreSpec == Store!StoreSpec

SimpleTypeOK ==
  /\ version \in 1 .. MaxRevisions
  /\ tuples \in SUBSET Tuples
  /\ DOMAIN snapshots \subseteq 1 .. MaxRevisions
  /\ \A v \in DOMAIN snapshots : snapshots[v] \in SUBSET Tuples
  /\ errors \in Faults \cup {{}}

SimpleInit ==
  /\ version = 1
  /\ tuples = {}
  /\ snapshots = <<>>
  /\ errors = {}
  /\ past = <<{}>>
  /\ answer = Store!NoAnswer

----
(* Mutations *)

\* advanceVersion after the change.
Mutate(changed) ==
  /\ version < MaxRevisions
  /\ tuples' = changed
  /\ version' = version + 1
  /\ past' = Append(past, changed)
  /\ answer' = [Store!NoAnswer EXCEPT !.token = version + 1]
  /\ UNCHANGED <<snapshots, errors>>

\* No method fails by itself; a configured error changes nothing.
Refuse == answer' = Store!NoAnswer /\ UNCHANGED <<version, tuples, snapshots, errors, past>>

CreateTuples(S) == "CreateTuples" \notin errors /\ Mutate(tuples \cup S)

DeleteTuples(filter) == "DeleteTuples" \notin errors /\ Mutate(tuples \ filter)

Grant(t) == Mutate(tuples \cup {t})

RetainCurrentSnapshot ==
  /\ snapshots' = [v \in DOMAIN snapshots \cup {version} |->
                     IF v = version THEN tuples ELSE snapshots[v]]
  /\ answer' = Store!NoAnswer
  /\ UNCHANGED <<version, tuples, errors, past>>

Keep(versions) ==
  /\ snapshots' = [v \in DOMAIN snapshots \cap versions |-> snapshots[v]]
  /\ answer' = Store!NoAnswer
  /\ UNCHANGED <<version, tuples, errors, past>>

ReleaseSnapshot(v) == v \in DOMAIN snapshots /\ Keep(DOMAIN snapshots \ {v})
ClearSnapshots == Keep({})

\* SetHealthError, SetCreateTuplesError, SetDeleteTuplesError, SetAcquireLockError.
SetErrors(methods) ==
  /\ errors' = methods
  /\ answer' = Store!NoAnswer
  /\ UNCHANGED <<version, tuples, snapshots, past>>

Reset ==
  /\ version' = 1 /\ tuples' = {} /\ snapshots' = <<>>
  /\ errors' = {}
  /\ past' = <<{}>>
  /\ answer' = Store!NoAnswer

\* The token is a function of the lock's id, and no other method looks at the locks.
AcquireLock ==
  /\ "AcquireLock" \notin errors
  /\ Refuse

----
(* Reads *)

\* A mistaken variant: the newest retained snapshot that is not after the demand.
TuplesForToken_Older(demand) ==
  LET older == {v \in DOMAIN snapshots : v <= demand}
  IN  IF older = {} THEN tuples ELSE snapshots[Max(older)]

\* getTuplesForToken: the oldest state kept that is as fresh as the demand, where
\* the current one is kept as well; the current one for a token from the future.
TuplesForToken(demand) ==
  LET fresh == {v \in DOMAIN snapshots \cup {version} : v >= demand}
  IN  IF fresh = {} \/ Min(fresh) = version THEN tuples ELSE snapshots[Min(fresh)]

Answer(asked, demand, S, token) ==
  /\ answer' = [asked |-> asked, found |-> asked \cap S, demand |-> demand, token |-> token]
  /\ UNCHANGED <<version, tuples, snapshots, errors, past>>

\* Check and CheckBulk; demand is 0 for any consistency without a token. The
\* token is the current version, whatever was read.
CheckTuples(asked, demand) == Answer(asked, demand, TuplesForToken(demand), version)

\* CheckForUpdate and CheckForUpdateBulk.
ReadLatest(asked) == Answer(asked, version, tuples, version)

\* LookupObjects and LookupSubjects, which return no token, and ReadTuples, which
\* returns the empty one: all read the current tuples, whatever is demanded.
ListLatest(asked) == Answer(asked, version, tuples, Store!NoToken)

\* What a test does with the store between the requests.
TestCalls ==
  \/ \E t \in Tuples : Grant(t)
  \/ RetainCurrentSnapshot
  \/ \E v \in 1 .. version : ReleaseSnapshot(v)
  \/ ClearSnapshots
  \/ \E methods \in Faults \cup {{}} : SetErrors(methods)
  \/ Reset
====
