---- MODULE Access ----
(***************************************************************************)
(* The read side: checks, bulk checks and streamed lists, answered from a  *)
(* snapshot of the tuple store while the consumer goes on writing to it.   *)
(* Which snapshot will do follows from the consistency of the request:     *)
(* resolveConsistency may read the resource's token from the database, and *)
(* determineConsistency turns the outcome into a demand on the store.      *)
(*                                                                         *)
(* A deployment has one back end: the tuple store itself ("spicedb"), the  *)
(* relations service in front of one ("kessel"), or none ("allow-all").    *)
(*                                                                         *)
(* One subject and one relation stand for all: a snapshot is the set of    *)
(* items the subject is related to, and a list returns its members.  The   *)
(* tuple store is external: it answers a request from one snapshot that    *)
(* meets the demand, and continues a list in the snapshot of its cursor.   *)
(***************************************************************************)
EXTENDS Integers, Sequences, FiniteSets

CONSTANTS Requests,
          Items,                       \* in the order of the store's lists
          DefaultToAtLeastAsAcknowledged,
          FullyConsistentAsDefault,
          DefaultStreamingLimit,
          MaxRevisions,                \* bound: revisions of the tuple store
          MaxFailures                  \* bound: failed calls

ASSUME AccessAssumption ==
  /\ Items \subseteq Nat /\ IsFiniteSet(Items)
  /\ DefaultToAtLeastAsAcknowledged \in BOOLEAN
  /\ FullyConsistentAsDefault \in BOOLEAN
  /\ DefaultStreamingLimit \in Nat \ {0}
  /\ MaxRevisions \in Nat \ {0}
  /\ MaxFailures \in Nat

VARIABLES backend,    \* relations.impl, chosen when the server starts
          history,    \* history[r] is the tuple store at revision r
          ktn,        \* the token in each item's row, NoToken for "" or no row
          unstored,   \* the token of the consumer's last write, not in the row yet
          req,        \* the requests
          failures

vars == <<backend, history, ktn, unstored, req, failures>>

NoToken == 0
Revision == Len(history)

Singles == {"Check", "CheckSelf", "CheckForUpdate"}
Bulks == {"CheckBulk", "CheckSelfBulk", "CheckForUpdateBulk"}
Lists == {"LookupObjects", "LookupSubjects", "ReadTuples"}
Strong == {"CheckForUpdate", "CheckForUpdateBulk"}
Self == {"CheckSelf", "CheckSelfBulk"}
Contexts == {"unknown", "grpc", "allowlisted", "identity"}

Unspecified == [type |-> "unspecified", token |-> NoToken]
MinimizeLatency == [type |-> "minimize_latency", token |-> NoToken]
AtLeastAsAcknowledged == [type |-> "at_least_as_acknowledged", token |-> NoToken]
AtLeastAsFresh(t) == [type |-> "at_least_as_fresh", token |-> t]
FullyConsistent == [type |-> "fully_consistent", token |-> NoToken]

Request(pc, op, items, use, limit, floor) ==
  [pc |-> pc, op |-> op, items |-> items, use |-> use, limit |-> limit, left |-> 0,
   from |-> 0, at |-> 0, answer |-> <<>>, got |-> <<>>, floor |-> floor]

Idle == Request("idle", "Check", <<>>, Unspecified, 0, 0)
Failed == Request("error", "Check", <<>>, Unspecified, 0, 0)

Backends == {"spicedb", "kessel", "allow-all"}

TypeOK ==
  /\ backend \in Backends
  /\ history \in Seq(SUBSET Items) /\ Revision \in 1 .. MaxRevisions
  /\ ktn \in [Items -> 0 .. Revision]
  /\ unstored \in [Items -> 0 .. Revision]
  /\ failures \in 0 .. MaxFailures
  /\ \A r \in Requests :
       /\ req[r].pc \in {"idle", "resolve", "call", "stream", "page", "done", "error"}
       /\ req[r].op \in Singles \cup Bulks \cup Lists
       /\ req[r].items \in Seq(Items)
       /\ req[r].at \in 0 .. Revision
       /\ req[r].answer \in Seq({"allowed", "denied", "error"})
       /\ req[r].got \in Seq(Items)
       /\ req[r].left \in Nat

Init ==
  /\ backend \in Backends
  /\ \E s \in SUBSET Items : history = <<s>>
  /\ ktn = [i \in Items |-> NoToken]
  /\ unstored = [i \in Items |-> NoToken]
  /\ req = [r \in Requests |-> Idle]
  /\ failures = 0

Fail == failures < MaxFailures /\ failures' = failures + 1

Continue(r, changed) == req' = [req EXCEPT ![r] = changed]

\* The caller has its answer; the handler's locals go out of scope.
Returned(q) == [q EXCEPT !.pc = "done", !.use = Unspecified, !.limit = 0, !.left = 0, !.from = 0]

----
(* The writers, as the requests see them *)

\* The consumer, or the tuple service, creates or deletes an item's tuple. A
\* write that changes nothing is left out: its revision is like the one before.
WriteTuples(i) ==
  /\ backend # "allow-all"
  /\ Revision < MaxRevisions
  /\ LET now == history[Revision] IN
       history' = Append(history, IF i \in now THEN now \ {i} ELSE now \cup {i})
  /\ unstored' = [unstored EXCEPT ![i] = Revision + 1]
  /\ UNCHANGED <<backend, ktn, req, failures>>

UpdateConsistencyToken(i) ==
  /\ unstored[i] # NoToken
  /\ ktn' = [ktn EXCEPT ![i] = unstored[i]]
  /\ unstored' = [unstored EXCEPT ![i] = NoToken]
  /\ UNCHANGED <<backend, history, req, failures>>

----
(* Arrival: authorization of the caller and early refusals *)

\* SimpleMetaAuthorizer, and WhitelistMetaAuthorizer for the tuple service.
\* CheckSelfBulk asks for check_self.
MetaAuthorized(ctx, op) ==
  CASE ctx = "unknown" -> FALSE
    [] op = "ReadTuples" -> ctx = "allowlisted"
    [] ctx \in {"grpc", "allowlisted"} -> op \notin Self
    [] ctx = "identity" -> op \in Self

\* Bulk checks and lookups have no single resource whose token to look up.
Refused(op, want) ==
  want = AtLeastAsAcknowledged /\ op \in {"CheckBulk", "CheckSelfBulk", "LookupObjects", "LookupSubjects"}

\* What the caller is promised, from the documentation of the consistency
\* types: a revision that the answer is at least as fresh as. History only.
Promised(op, items, want) ==
  CASE op \in Strong -> Revision
    [] want.type = "at_least_as_fresh" -> want.token
    [] op = "Check" /\ want = Unspecified /\ DefaultToAtLeastAsAcknowledged -> ktn[items[1]]
    [] op \in {"Check", "CheckSelf"} /\ want = AtLeastAsAcknowledged -> ktn[items[1]]
    [] op \in Bulks \cup Lists /\ op \notin Strong /\ want = Unspecified
       /\ FullyConsistentAsDefault /\ backend = "spicedb" -> Revision
    [] OTHER -> 0

\* The callers that may ask for an operation.
Authorized(op) == {ctx \in Contexts : MetaAuthorized(ctx, op)}

\* Check and CheckSelf go on to resolve their consistency; the others hand
\* theirs to the tuple store as it is.
Arrive(r, op, items, want, limit) ==
  /\ ~Refused(op, want) /\ Authorized(op) # {}
  /\ Continue(r, Request(IF op \in {"Check", "CheckSelf"} THEN "resolve" ELSE "call",
                          op, items, want, limit, Promised(op, items, want)))
  /\ UNCHANGED <<backend, history, ktn, unstored, failures>>

\* A caller may present any token that a check or a write of tuples returned.
\* The checks for update take no consistency.
Consistencies(op) ==
  IF op \in Strong THEN {Unspecified}
  ELSE {Unspecified, MinimizeLatency, AtLeastAsAcknowledged} \cup {AtLeastAsFresh(t) : t \in 1 .. Revision}

ArriveSingle(r) ==
  /\ req[r].pc = "idle"
  /\ \E op \in Singles, i \in Items : \E want \in Consistencies(op) : Arrive(r, op, <<i>>, want, 0)

ArriveBulk(r) ==
  /\ req[r].pc = "idle"
  /\ \E op \in Bulks, i, j \in Items : \E want \in Consistencies(op) : Arrive(r, op, <<i, j>>, want, 0)

ArriveList(r) ==
  /\ req[r].pc = "idle"
  /\ \E op \in Lists, limit \in 0 .. DefaultStreamingLimit + 1 : \E want \in Consistencies(op) :
       Arrive(r, op, <<>>, want, limit)

\* The consistency is refused, the caller may not ask, or the self subject of a
\* caller that may is missing.
ArriveRefused(r) ==
  /\ req[r].pc = "idle"
  /\ {op \in Singles \cup Bulks \cup Lists :
        \/ \E want \in Consistencies(op) : Refused(op, want)
        \/ Authorized(op) # Contexts
        \/ op \in Self} # {}
  /\ Continue(r, Failed)
  /\ UNCHANGED <<backend, history, ktn, unstored, failures>>

----
(* Consistency *)

\* A mistaken variant: a check without a preference ignores the flag.
ResolveConsistency_IgnoresFlag(op, want, token) ==
  IF want = AtLeastAsAcknowledged /\ token # NoToken THEN AtLeastAsFresh(token)
  ELSE IF want.type = "at_least_as_fresh" THEN want ELSE MinimizeLatency

\* CheckSelf overrides the flag. Without a row, or with an empty token,
\* latency is minimized.
ResolveConsistency(op, want, token) ==
  IF \/ want = AtLeastAsAcknowledged
     \/ want = Unspecified /\ DefaultToAtLeastAsAcknowledged /\ op # "CheckSelf"
  THEN IF token = NoToken THEN MinimizeLatency ELSE AtLeastAsFresh(token)
  ELSE IF want.type = "at_least_as_fresh" THEN want ELSE MinimizeLatency

\* lookupConsistencyTokenFromDB reads outside any transaction.
Resolve(r) ==
  /\ req[r].pc = "resolve"
  /\ \/ /\ Continue(r, [req[r] EXCEPT !.pc = "call",
                          !.use = ResolveConsistency(req[r].op, req[r].use, ktn[req[r].items[1]])])
        /\ UNCHANGED failures
     \/ Fail /\ Continue(r, Failed)
  /\ UNCHANGED <<backend, history, ktn, unstored>>

\* consistencyToV1Beta1: without a token, the relations service is asked to
\* minimize latency, whatever its own default.
ConsistencyToV1Beta1(use) ==
  IF use.type = "at_least_as_fresh" THEN use ELSE MinimizeLatency

DetermineConsistency(op, use) ==
  CASE op \in Strong -> FullyConsistent
    [] op \notin Strong /\ backend = "kessel" -> ConsistencyToV1Beta1(use)
    [] op \notin Strong /\ backend # "kessel" /\ use.type \in {"at_least_as_fresh", "minimize_latency"} -> use
    [] OTHER -> IF FullyConsistentAsDefault THEN FullyConsistent ELSE MinimizeLatency

\* The snapshots that the store may answer from (external).
Snapshots(demand) ==
  CASE demand.type = "fully_consistent" -> {Revision}
    [] demand.type = "at_least_as_fresh" -> demand.token .. Revision
    [] demand.type = "minimize_latency" -> 1 .. Revision

----
(* Checks *)

\* A mistaken variant: results are paired with the requests in reverse.
PairResults_Reversed(items, rev, failed) ==
  [n \in 1 .. Len(items) |->
     IF n \in failed THEN "error" ELSE IF items[Len(items) + 1 - n] \in history[rev] THEN "allowed" ELSE "denied"]

\* The pairs of a bulk answer are matched with the requests by position. Each
\* may be an error of its own.
PairResults(items, rev, failed) ==
  [n \in 1 .. Len(items) |->
     IF n \in failed THEN "error" ELSE IF items[n] \in history[rev] THEN "allowed" ELSE "denied"]

CallCheck(r) ==
  /\ backend = "spicedb"
  /\ req[r].pc = "call" /\ req[r].op \notin Lists
  /\ \E rev \in Snapshots(DetermineConsistency(req[r].op, req[r].use)),
        failed \in (IF req[r].op \in Bulks THEN SUBSET (1 .. Len(req[r].items)) ELSE {{}}) :
       Continue(r, Returned([req[r] EXCEPT !.at = rev, !.answer = PairResults(req[r].items, rev, failed)]))
  /\ UNCHANGED <<backend, history, ktn, unstored, failures>>

\* checkBulkResultFromV1Beta1: a pair may be an error, or malformed, with neither
\* an error nor an item.
CheckBulkResultFromV1Beta1(items, rev, pairs) ==
  [n \in 1 .. Len(items) |->
     CASE pairs[n] \in {"error", "malformed"} -> "error"
       [] pairs[n] = "item" -> IF items[n] \in history[rev] THEN "allowed" ELSE "denied"]

\* The checks of the relations service.
CallService(r) ==
  /\ backend = "kessel"
  /\ req[r].pc = "call" /\ req[r].op \notin Lists
  /\ \E rev \in Snapshots(DetermineConsistency(req[r].op, req[r].use)),
        pairs \in [1 .. Len(req[r].items) -> IF req[r].op \in Bulks THEN {"item", "error", "malformed"} ELSE {"item"}] :
       Continue(r, Returned([req[r] EXCEPT !.at = rev,
                                           !.answer = CheckBulkResultFromV1Beta1(req[r].items, rev, pairs)]))
  /\ UNCHANGED <<backend, history, ktn, unstored, failures>>

\* AllowAllRelationsRepository: every check passes, every list is empty, nothing
\* is written, and the answer's token is the empty one.
AllowAll(r) ==
  /\ backend = "allow-all"
  /\ req[r].pc = "call"
  /\ Continue(r, Returned([req[r] EXCEPT !.answer = [n \in 1 .. Len(req[r].items) |-> "allowed"]]))
  /\ UNCHANGED <<backend, history, ktn, unstored, failures>>

\* The store fails, or answers a number of pairs other than the number asked for.
\* The relations service is not even called when there is no bearer token to be
\* had, or a lookup does not name the reporter type.
CallFails(r) ==
  /\ backend # "allow-all"
  /\ req[r].pc = "call"
  /\ Fail
  /\ Continue(r, Failed)
  /\ UNCHANGED <<backend, history, ktn, unstored>>

----
(* Streamed lists *)

effectiveLimit(limit) == IF limit > 0 /\ limit < DefaultStreamingLimit THEN limit ELSE DefaultStreamingLimit

\* LookupSubjects passes its limit on as it is; 0 is no limit to the store.
PageSize(op, limit) ==
  IF op # "LookupSubjects" THEN effectiveLimit(limit)
  ELSE IF limit = 0 THEN Cardinality(Items) ELSE limit

\* The relations service gets every limit as it is, and chooses one for 0.
PaginationToV1Beta1(limit) == IF limit = 0 THEN 1 .. Cardinality(Items) ELSE {limit}

PageSizes(op, limit) == IF backend = "kessel" THEN PaginationToV1Beta1(limit) ELSE {PageSize(op, limit)}

\* A mistaken variant: the cursor of a continued list is not passed on.
OpenStream_NoCursor(r) ==
  /\ backend # "allow-all"
  /\ req[r].pc = "call" /\ req[r].op \in Lists
  /\ \E rev \in Snapshots(DetermineConsistency(req[r].op, req[r].use)), size \in PageSizes(req[r].op, req[r].limit) :
       Continue(r, [req[r] EXCEPT !.pc = "stream", !.at = rev,
                             !.left = size, !.from = Len(req[r].got)])
  /\ UNCHANGED <<backend, history, ktn, unstored, failures>>

\* A first page is served from a snapshot that meets the demand, a later one
\* from that of its cursor, whatever it demands.
OpenStream(r) ==
  /\ backend # "allow-all"
  /\ req[r].pc = "call" /\ req[r].op \in Lists
  /\ \E rev \in IF req[r].got = <<>> THEN Snapshots(DetermineConsistency(req[r].op, req[r].use)) ELSE {req[r].at},
        size \in PageSizes(req[r].op, req[r].limit) :
       Continue(r, [req[r] EXCEPT !.pc = "stream", !.use = Unspecified, !.at = rev,
                             !.left = size, !.from = Len(req[r].got)])
  /\ UNCHANGED <<backend, history, ktn, unstored, failures>>

\* The entries after the cursor, which names the last one received.
Remaining(q) ==
  {i \in history[q.at] : \A n \in 1 .. Len(q.got) : q.got[n] < i}

\* Recv and Send: one entry at a time, however the store changes meanwhile.
StreamEntry(r) ==
  /\ req[r].pc = "stream" /\ req[r].left > 0
  /\ \E i \in Remaining(req[r]) :
       /\ \A j \in Remaining(req[r]) : i <= j
       /\ Continue(r, [req[r] EXCEPT !.got = Append(@, i), !.left = @ - 1])
  /\ UNCHANGED <<backend, history, ktn, unstored, failures>>

\* io.EOF: the page is full or nothing remains.  A page without an entry is the
\* end for the caller.
StreamEnds(r) ==
  /\ req[r].pc = "stream"
  /\ req[r].left = 0 \/ Remaining(req[r]) = {}
  /\ Continue(r, IF Len(req[r].got) = req[r].from THEN Returned(req[r]) ELSE [req[r] EXCEPT !.pc = "page"])
  /\ UNCHANGED <<backend, history, ktn, unstored, failures>>

\* Recv or Send fails: the caller has what was sent, and the cursors with it.
StreamFails(r) ==
  /\ req[r].pc = "stream"
  /\ Fail
  /\ Continue(r, IF req[r].got = <<>> THEN Failed ELSE [req[r] EXCEPT !.pc = "page"])
  /\ UNCHANGED <<backend, history, ktn, unstored>>

\* The caller asks for the page after the last entry it received.
NextPage(r) ==
  /\ req[r].pc = "page"
  /\ Continue(r, [req[r] EXCEPT !.pc = "call"])
  /\ UNCHANGED <<backend, history, ktn, unstored, failures>>

Handle(r) ==
  \/ Resolve(r) \/ CallCheck(r) \/ CallService(r) \/ AllowAll(r) \/ CallFails(r)
  \/ OpenStream(r) \/ StreamEntry(r) \/ StreamEnds(r) \/ StreamFails(r) \/ NextPage(r)

Next ==
  \/ \E i \in Items : WriteTuples(i) \/ UpdateConsistencyToken(i)
  \/ \E r \in Requests : ArriveSingle(r) \/ ArriveBulk(r) \/ ArriveList(r) \/ ArriveRefused(r) \/ Handle(r)

Spec == Init /\ [][Next]_vars

----
(* Properties *)

Answered(r) == backend # "allow-all" /\ (req[r].pc = "done" \/ req[r].got # <<>>)

\* No answer comes from a snapshot older than the caller was promised when it
\* asked: the token it presented, the token in the resource's row for
\* at_least_as_acknowledged (or by the flag's default), the latest revision for
\* the checks for update, whatever is written and stored in between, with the
\* store itself or with the relations service behind it.
FreshEnough == \A r \in Requests : Answered(r) => req[r].at >= req[r].floor

\* A check whose item has not changed since the revision the caller was promised
\* is answered with what holds now: in a bulk check each item by itself, however
\* often the others were written since, and whatever snapshot was read.
SettledChecksAreRight ==
  \A r \in Requests : Answered(r) /\ req[r].op \notin Lists /\ req[r].floor # NoToken =>
    \A n \in 1 .. Len(req[r].items) :
      LET related(rev) == req[r].items[n] \in history[rev]
      IN  (\A rev \in req[r].floor .. Revision : related(rev) <=> related(Revision)) =>
            req[r].answer[n] = "error" \/ (req[r].answer[n] = "allowed" <=> related(Revision))

\* A caller that follows the continuation tokens to an empty page has received
\* every entry of one snapshot exactly once, whatever the limit it asks for,
\* whatever is written between the pages and wherever a stream breaks off.
PagesAreOneList ==
  \A r \in Requests : Answered(r) /\ req[r].pc = "done" /\ req[r].op \in Lists =>
    /\ {req[r].got[n] : n \in 1 .. Len(req[r].got)} = history[req[r].at]
    /\ Len(req[r].got) = Cardinality(history[req[r].at])
====
