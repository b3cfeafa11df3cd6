---- MODULE RelationsStore ----
(***************************************************************************)
(* The versioned store that the comment of SimpleRelationsRepository       *)
(* promises: every mutation makes a revision, a list is of the latest one, *)
(* and a check is answered from one revision, as fresh as the caller       *)
(* demands.  The token of a check or a write is never older than its       *)
(* answer, so a caller that presents it does not see the store go back.  A *)
(* list gives no such token: a check after it may see an older revision.   *)
(***************************************************************************)
EXTENDS Integers, Sequences

CONSTANTS Tuples,
          Demands     \* the revisions a caller may demand, known to the store or not

VARIABLES history,    \* history[r]: the tuples at revision r
          answer      \* what the last call was answered

storeVars == <<history, answer>>

NoToken == 0
NoAnswer == [asked |-> {}, found |-> {}, demand |-> 0, token |-> NoToken]

StoreInit ==
  /\ history = <<{}>>
  /\ answer = NoAnswer

\* A write makes one revision and its token is that revision.
Write ==
  \E S \in SUBSET Tuples :
    /\ history' = Append(history, S)
    /\ answer' = [NoAnswer EXCEPT !.token = Len(history) + 1]

\* A demand the store does not know of is met by its latest revision.
Check ==
  /\ UNCHANGED history
  /\ answer' \in [asked : SUBSET Tuples, found : SUBSET Tuples, demand : Demands, token : 1 .. Len(history)]
  /\ \E rev \in 1 .. answer'.token :
       /\ rev >= answer'.demand \/ rev = Len(history)
       /\ answer'.found = answer'.asked \cap history[rev]

List ==
  /\ UNCHANGED history
  /\ \E asked \in SUBSET Tuples :
       answer' = [asked |-> asked, found |-> asked \cap history[Len(history)],
                  demand |-> Len(history), token |-> NoToken]

\* The store is emptied, and its revisions begin again.
Empty ==
  /\ history' = <<{}>>
  /\ answer' = NoAnswer

Forget ==
  /\ answer' = NoAnswer
  /\ UNCHANGED history

StoreNext == Forget \/ Empty \/ Check \/ List \/ Write

StoreSpec == StoreInit /\ [][StoreNext]_storeVars
====
