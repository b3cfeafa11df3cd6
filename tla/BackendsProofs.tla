---- MODULE BackendsProofs ----
(***************************************************************************)
(* Proofs about the relations back ends, for any number of requests, calls *)
(* and items, any history of the tuple store and any lifetimes of tokens.  *)
(***************************************************************************)
EXTENDS Backends, FiniteSetTheorems, TLAPS

\* Most leaves are first-order: Zenon is tried before the SMT solver.
USE ZenonT(5), SMTT(30)

----
(* The bearer tokens *)

Supplied(c) ==
  /\ call[c].began <= now
  /\ call[c].pc = "store" => call[c].token.kind # "none" /\ call[c].token.issued >= call[c].began
  /\ oidc /\ call[c].pc \in {"send", "sent"} =>
       \/ call[c].token.kind # "none" /\ call[c].token.issued >= call[c].began
       \/ call[c].token.kind = "jwt" /\ call[c].token.exp >= call[c].began

\* Where a call of a client with OIDC is, its token is good enough to go on: a
\* call began before now, what it fetched was issued since, and what it sends is
\* live.
TokenInv ==
  /\ TokenTypeOK
  /\ \A c \in Calls : Supplied(c)

LEMMA TokenInitial == TokenInit => TokenInv
  BY TokenAssumption DEF TokenInit, TokenInv, Supplied, TokenTypeOK, Bearers, NoBearer, NoExp, IdleCall

LEMMA TokenStep == TokenInv /\ [TokenNext]_tokenVars => TokenInv'
<1> SUFFICES ASSUME TokenInv, [TokenNext]_tokenVars PROVE TokenInv'
  OBVIOUS
<1> USE DEF TokenInv, TokenTypeOK, Supplied
<1>1. CASE Tick
  BY <1>1 DEF Tick
<1>2. ASSUME NEW c \in Calls, GetCallOptions(c) PROVE TokenInv'
  BY <1>2 DEF GetCallOptions, NoBearer, NoExp, Bearers
<1>3. ASSUME NEW c \in Calls, FromCache(c) PROVE TokenInv'
  <2>1. GetCachedToken \in Bearers
    BY DEF GetCachedToken, NoBearer, NoExp, Bearers
  <2>2. CASE GetCachedToken.kind \notin {"none", "empty"} /\ ~IsJWTTokenExpired(GetCachedToken)
    <3>1. /\ call' = [call EXCEPT ![c].pc = "send", ![c].token = GetCachedToken]
          /\ UNCHANGED <<now, oidc, cache>>
      BY <1>3, <2>2 DEF FromCache
    <3>2. GetCachedToken.kind = "jwt" /\ GetCachedToken.exp >= now
      BY <2>1, <2>2 DEF IsJWTTokenExpired, Bearers
    <3>3. TokenTypeOK'
      BY <2>1, <3>1, ZenonT(30)
    <3>4. /\ call'[c].pc = "send" /\ call'[c].began = call[c].began /\ call'[c].token = GetCachedToken
          /\ \A d \in Calls : d # c => call'[d] = call[d]
      BY <3>1
    <3>5. call'[c].token.kind = "jwt" /\ call'[c].token.exp >= call'[c].began
      BY <2>1, <3>2, <3>4 DEF Bearers
    <3>6. Supplied(c)'
      BY <3>1, <3>4, <3>5
    <3>7. \A d \in Calls : d # c => Supplied(d)'
      BY <3>1, <3>4
    <3> QED
      BY <3>3, <3>6, <3>7, Zenon DEF TokenInv
  <2>3. CASE ~(GetCachedToken.kind \notin {"none", "empty"} /\ ~IsJWTTokenExpired(GetCachedToken))
    <3>1. call' = [call EXCEPT ![c].pc = "fetch"] /\ UNCHANGED <<now, oidc, cache>>
      BY <1>3, <2>3 DEF FromCache
    <3> QED BY <3>1, ZenonT(20)
  <2> QED BY <2>2, <2>3
<1>4. ASSUME NEW c \in Calls, Fetch(c) PROVE TokenInv'
  <2>1. CASE call' = [call EXCEPT ![c].pc = "error"]
    BY <1>4, <2>1 DEF Fetch
  <2>2. ASSUME NEW token \in {Opaque(now), Empty(now)} \cup {Jwt(now, life) : life \in Lifetimes},
               call' = [call EXCEPT ![c].pc = "store", ![c].token = token]
        PROVE  TokenInv'
    <3>1. token \in Bearers /\ token.kind # "none" /\ token.issued = now
      BY <2>2, TokenAssumption DEF Opaque, Empty, Jwt, NoExp, Bearers
    <3>2. UNCHANGED <<now, oidc, cache>>
      BY <1>4 DEF Fetch
    <3>3. TokenTypeOK'
      BY <2>2, <3>1, <3>2, ZenonT(30)
    <3>4. call'[c].pc = "store" /\ call'[c].began = call[c].began /\ call'[c].token = token
      BY <2>2
    <3>5. \A d \in Calls : d # c => call'[d] = call[d]
      BY <2>2
    <3>6. Supplied(c)'
      BY <3>1, <3>2, <3>4
    <3>7. \A d \in Calls : d # c => Supplied(d)'
      BY <3>2, <3>5
    <3> QED BY <3>3, <3>6, <3>7 DEF TokenInv
  <2> QED
    BY <1>4, <2>1, <2>2, Zenon DEF Fetch
<1>5. ASSUME NEW c \in Calls, CacheToken(c) PROVE TokenInv'
  BY <1>5, TokenAssumption DEF CacheToken
<1>6. ASSUME NEW c \in Calls, Send(c) PROVE TokenInv'
  BY <1>6 DEF Send
<1>7. ASSUME NEW c \in Calls, Return(c) PROVE TokenInv'
  BY <1>7 DEF Return, IdleCall, NoBearer, NoExp, Bearers
<1>8. CASE UNCHANGED tokenVars
  BY <1>8 DEF tokenVars
<1> QED
  BY <1>1, <1>2, <1>3, <1>4, <1>5, <1>6, <1>7, <1>8 DEF TokenNext

LEMMA TokenInvLive == TokenInv => BearerTokensAreLive
  BY DEF TokenInv, Supplied, BearerTokensAreLive

\* Whatever the number of calls, the lifetimes of the tokens and the order in
\* which the calls fetch and store them, no call to the relations service leaves
\* with a token that had expired when the call began.
THEOREM BearersLive == BackendsSpec => []BearerTokensAreLive
<1>1. BackendsInit => TokenInv
  BY TokenInitial DEF BackendsInit
<1>2. TokenInv /\ [BackendsNext]_allVars => TokenInv'
  BY TokenStep DEF BackendsNext, allVars
<1> QED
  BY <1>1, <1>2, TokenInvLive, PTL DEF BackendsSpec

----
(* The answers *)

ConsistencyTypes ==
  {"unspecified", "minimize_latency", "at_least_as_acknowledged", "at_least_as_fresh", "fully_consistent"}

RequestType ==
  [pc : {"idle", "resolve", "call", "stream", "page", "done", "error"}, op : Singles \cup Bulks \cup Lists,
   items : Seq(Items), use : [type : ConsistencyTypes, token : Nat], limit : Nat, left : Nat, from : Nat,
   at : Nat, answer : Seq({"allowed", "denied", "error"}), got : Seq(Items), floor : Nat]

StoreType ==
  /\ backend \in Backends
  /\ history \in Seq(SUBSET Items) /\ Revision >= 1
  /\ ktn \in [Items -> 0 .. Revision] /\ unstored \in [Items -> 0 .. Revision]

\* What a check that is still to resolve its consistency will be answered from.
Due(q) ==
  IF \/ q.use = AtLeastAsAcknowledged
     \/ q.use = Unspecified /\ DefaultToAtLeastAsAcknowledged /\ q.op # "CheckSelf"
  THEN ktn[q.items[1]]
  ELSE IF q.use.type = "at_least_as_fresh" THEN q.use.token ELSE 0

\* The consistency of a call demands what was promised.
Enough(q) ==
  \/ q.op \in Strong
  \/ q.floor = 0
  \/ q.use.type = "at_least_as_fresh" /\ q.use.token >= q.floor
  \/ q.use = Unspecified /\ FullyConsistentAsDefault /\ backend = "spicedb"

\* A request is on its way to an answer that is fresh enough.
Timely(q) ==
  /\ q.floor <= Revision /\ q.at <= Revision
  /\ q.use.type = "at_least_as_fresh" => q.use.token \in 1 .. Revision
  /\ q.op \notin Lists => q.got = <<>> /\ q.pc \notin {"stream", "page"}
  /\ q.pc = "resolve" => q.got = <<>> /\ q.items # <<>> /\ q.floor <= Due(q)
  /\ q.pc = "call" /\ q.got = <<>> => Enough(q)
  /\ q.pc = "stream" => q.at >= q.floor /\ q.at >= 1 /\ q.from <= Len(q.got)
  /\ q.pc = "page" => q.got # <<>>
  /\ backend # "allow-all" /\ (q.pc = "done" \/ q.got # <<>>) => q.at >= q.floor
  /\ backend # "allow-all" /\ q.got # <<>> => q.at >= 1

\* A check is answered from the revision it names.
Faithful(q) ==
  backend # "allow-all" /\ q.pc = "done" /\ q.op \notin Lists =>
    /\ q.at \in 1 .. Revision
    /\ Len(q.answer) = Len(q.items)
    /\ \A n \in 1 .. Len(q.items) :
         q.answer[n] # "error" => (q.answer[n] = "allowed" <=> q.items[n] \in history[q.at])

\* A token to be stored is never older than the stored one.
AccessInv ==
  /\ StoreType
  /\ \A i \in Items : unstored[i] # NoToken => unstored[i] >= ktn[i]
  /\ req \in [Requests -> RequestType]
  /\ \A r \in Requests : Timely(req[r]) /\ Faithful(req[r])

LEMMA IdleTimely == ASSUME StoreType PROVE Idle \in RequestType /\ Timely(Idle) /\ Faithful(Idle)
  BY DEF StoreType, Idle, Request, RequestType, Timely, Faithful, Unspecified, NoToken, ConsistencyTypes, Singles, Revision, Lists

LEMMA FailedTimely == ASSUME StoreType PROVE Failed \in RequestType /\ Timely(Failed) /\ Faithful(Failed)
  BY DEF StoreType, Failed, Request, RequestType, Timely, Faithful, Unspecified, NoToken, ConsistencyTypes, Singles,
         Revision, Lists

LEMMA AccessInitial == Init => AccessInv
<1> SUFFICES ASSUME Init PROVE AccessInv
  OBVIOUS
<1>1. StoreType
  BY DEF Init, StoreType, NoToken, Revision
<1> QED
  BY <1>1, IdleTimely DEF Init, AccessInv, NoToken

\* A step that changes one request leaves the others as timely as they were.
LEMMA OneRequest ==
  ASSUME AccessInv, NEW r \in Requests, NEW q \in RequestType, Timely(q), Faithful(q),
         req' = [req EXCEPT ![r] = q], UNCHANGED <<backend, history, ktn, unstored>>
  PROVE  AccessInv'
<1>1. StoreType'
  BY DEF AccessInv, StoreType, Revision
<1>2. req' \in [Requests -> RequestType]
  BY DEF AccessInv
<1>3. ASSUME NEW s \in Requests PROVE Timely(req[s])' /\ Faithful(req[s])'
  <2>1. CASE s = r
    <3>1. req'[s] = q
      BY <2>1 DEF AccessInv
    <3>2. Timely(req[s])'
      BY <3>1, ZenonT(20) DEF Timely, Due, Enough, Revision
    <3> QED
      BY <3>1, <3>2 DEF Faithful, Revision
  <2>2. CASE s # r
    <3>1. req'[s] = req[s] /\ Timely(req[s]) /\ Faithful(req[s])
      BY <2>2 DEF AccessInv
    <3>2. Timely(req[s])'
      BY <3>1, ZenonT(20) DEF Timely, Due, Enough, Revision
    <3> QED
      BY <3>1, <3>2, Zenon DEF Faithful, Revision
  <2> QED
    BY <2>1, <2>2
<1> QED
  BY <1>1, <1>2, <1>3 DEF AccessInv

\* The snapshots that a call may be answered from are as fresh as was promised.
LEMMA SnapshotsFresh ==
  ASSUME AccessInv, backend # "allow-all", NEW r \in Requests, req[r].pc = "call", req[r].got = <<>>,
         NEW rev \in Snapshots(DetermineConsistency(req[r].op, req[r].use))
  PROVE  rev \in 1 .. Revision /\ rev >= req[r].floor
<1> DEFINE q == req[r]
           d == DetermineConsistency(q.op, q.use)
<1>1. /\ q \in RequestType /\ Enough(q) /\ q.floor <= Revision /\ Revision \in Nat \ {0}
      /\ q.use.type = "at_least_as_fresh" => q.use.token \in 1 .. Revision
  BY DEF AccessInv, Timely, StoreType, Revision
<1>2. CASE q.op \in Strong
  <2>1. d = FullyConsistent
    BY <1>2 DEF DetermineConsistency
  <2> QED
    BY <1>1, <2>1 DEF Snapshots, FullyConsistent
<1>3. CASE q.op \notin Strong /\ q.use.type = "at_least_as_fresh"
  <2>1. d = q.use
    BY <1>3 DEF DetermineConsistency, ConsistencyToV1Beta1
  <2>2. rev \in q.use.token .. Revision
    BY <1>3, <2>1 DEF Snapshots
  <2>3. q.use.token \in 1 .. Revision
    BY <1>1, <1>3
  <2>4. q.use.token >= q.floor
    BY <1>1, <1>3, <2>3 DEF Enough, Unspecified, RequestType
  <2>5. q.floor \in Nat
    BY <1>1 DEF RequestType
  <2> QED
    BY <1>1, <2>2, <2>3, <2>4, <2>5
<1>4. CASE q.op \notin Strong /\ q.use.type # "at_least_as_fresh"
  <2>1. d = FullyConsistent \/ (d.type = "minimize_latency" /\ q.floor = 0)
    <3>1. CASE backend = "kessel"
      BY <1>1, <1>4, <3>1 DEF DetermineConsistency, ConsistencyToV1Beta1, Enough, MinimizeLatency
    <3>2. CASE backend = "spicedb" /\ q.use.type = "minimize_latency"
      BY <1>1, <1>4, <3>2 DEF DetermineConsistency, Enough, Unspecified
    <3>3. CASE backend = "spicedb" /\ q.use.type # "minimize_latency"
      BY <1>1, <1>4, <3>3 DEF DetermineConsistency, Enough, MinimizeLatency
    <3> QED
      BY <3>1, <3>2, <3>3 DEF AccessInv, StoreType, Backends
  <2>2. CASE d = FullyConsistent
    BY <1>1, <2>2 DEF Snapshots, FullyConsistent
  <2>3. CASE d.type = "minimize_latency" /\ q.floor = 0
    BY <1>1, <2>3 DEF Snapshots
  <2> QED
    BY <2>1, <2>2, <2>3
<1> QED
  BY <1>2, <1>3, <1>4

LEMMA FirstOfSeq ==
  ASSUME NEW S, NEW s \in Seq(S), s # <<>> PROVE s[1] \in S
  OBVIOUS

\* The tuple store and the tokens move forward only: every request stays timely.
LEMMA WritersStep ==
  ASSUME AccessInv, NEW i \in Items, WriteTuples(i) \/ UpdateConsistencyToken(i)
  PROVE  AccessInv'
<1>1. CASE WriteTuples(i)
  <2>1. /\ history' \in Seq(SUBSET Items) /\ Len(history') = Len(history) + 1
        /\ \A v \in 1 .. Len(history) : history'[v] = history[v]
    BY <1>1 DEF WriteTuples, AccessInv, StoreType, Revision
  <2>2. StoreType' /\ \A j \in Items : unstored'[j] # NoToken => unstored'[j] >= ktn'[j]
    BY <1>1, <2>1 DEF WriteTuples, AccessInv, StoreType, Revision, NoToken
  <2>3. ASSUME NEW s \in Requests PROVE Timely(req[s])' /\ Faithful(req[s])'
    <3>1. /\ Timely(req[s]) /\ Faithful(req[s]) /\ req[s] \in RequestType
          /\ req'[s] = req[s] /\ UNCHANGED <<backend, ktn>>
      BY <1>1 DEF WriteTuples, AccessInv
    <3>2. Len(history) \in Nat
      BY DEF AccessInv, StoreType
    <3>3. Timely(req[s])'
      <4>1. Due(req[s])' = Due(req[s]) /\ Enough(req[s])' = Enough(req[s])
        BY <3>1 DEF Due, Enough
      <4>2. req[s].floor \in Nat /\ req[s].at \in Nat /\ req[s].use.token \in Nat
        BY <3>1 DEF RequestType
      <4> QED
        BY <2>1, <3>1, <3>2, <4>1, <4>2, SMTT(30) DEF Timely, Revision
    <3>4. Faithful(req[s])'
      BY <2>1, <3>1, <3>2 DEF Faithful, Revision
    <3> QED
      BY <3>3, <3>4
  <2> QED
    BY <1>1, <2>2, <2>3 DEF WriteTuples, AccessInv
<1>2. CASE UpdateConsistencyToken(i)
  <2>1. /\ StoreType' /\ \A j \in Items : unstored'[j] # NoToken => unstored'[j] >= ktn'[j]
        /\ \A j \in Items : ktn'[j] >= ktn[j]
    BY <1>2 DEF UpdateConsistencyToken, AccessInv, StoreType, Revision, NoToken
  <2>2. ASSUME NEW s \in Requests PROVE Timely(req[s])' /\ Faithful(req[s])'
    <3>1. /\ Timely(req[s]) /\ Faithful(req[s]) /\ req[s] \in RequestType
          /\ req'[s] = req[s] /\ UNCHANGED <<backend, history>>
      BY <1>2 DEF UpdateConsistencyToken, AccessInv
    <3>2. req[s].pc = "resolve" => req[s].floor <= Due(req[s])'
      <4> SUFFICES ASSUME req[s].pc = "resolve" PROVE req[s].floor <= Due(req[s])'
        OBVIOUS
      <4>1. req[s].items[1] \in Items /\ req[s].floor \in Nat /\ req[s].floor <= Due(req[s])
        <5>1. req[s].items \in Seq(Items) /\ req[s].floor \in Nat
          BY <3>1 DEF RequestType
        <5>2. req[s].items # <<>> /\ req[s].floor <= Due(req[s])
          BY <3>1, Zenon DEF Timely
        <5> QED
          BY <5>1, <5>2, FirstOfSeq, Zenon
      <4>2. ktn'[req[s].items[1]] >= ktn[req[s].items[1]] /\ ktn[req[s].items[1]] \in Nat /\ ktn'[req[s].items[1]] \in Nat
        <5>1. \A j \in Items : ktn[j] \in Nat /\ ktn'[j] \in Nat
          BY <2>1 DEF AccessInv, StoreType, Revision
        <5> QED
          BY <2>1, <4>1, <5>1, Zenon
      <4> QED
        BY <3>1, <4>1, <4>2 DEF Due
    <3>3. Timely(req[s])'
      BY <3>1, <3>2 DEF Timely, Enough, Revision
    <3> QED
      BY <3>1, <3>3 DEF Faithful, Revision
  <2> QED
    BY <1>2, <2>1, <2>2 DEF UpdateConsistencyToken, AccessInv
<1> QED
  BY <1>1, <1>2

\* What is promised at arrival is what the request is then on its way to.
LEMMA ArriveStep ==
  ASSUME AccessInv, NEW r \in Requests, NEW op \in Singles \cup Bulks \cup Lists, NEW items \in Seq(Items),
         op \notin Lists => items # <<>>, NEW want \in Consistencies(op), NEW limit \in Nat,
         Arrive(r, op, items, want, limit)
  PROVE  AccessInv'
<1> DEFINE pc == IF op \in {"Check", "CheckSelf"} THEN "resolve" ELSE "call"
           promised == Promised(op, items, want)
           q == Request(pc, op, items, want, limit, promised)
<1>1. req' = [req EXCEPT ![r] = q] /\ UNCHANGED <<backend, history, ktn, unstored>>
  BY Zenon DEF Arrive, Continue
<1>2. Revision \in Nat \ {0} /\ StoreType
  BY DEF AccessInv, StoreType, Revision
<1>3. /\ want \in [type : ConsistencyTypes, token : Nat]
      /\ want.type = "at_least_as_fresh" => want.token \in 1 .. Revision
      /\ op \in Strong => want = Unspecified
      /\ want.type = "unspecified" => want = Unspecified
      /\ want.type = "at_least_as_acknowledged" => want = AtLeastAsAcknowledged
  BY <1>2 DEF Consistencies, Unspecified, MinimizeLatency, AtLeastAsAcknowledged, AtLeastAsFresh, NoToken, ConsistencyTypes
<1>4. op \notin Lists => items[1] \in Items /\ ktn[items[1]] \in 0 .. Revision
  BY <1>2 DEF StoreType
<1>5. /\ promised \in Nat /\ promised <= Revision
      /\ op \in {"Check", "CheckSelf"} => promised <= Due(q)
      /\ op \notin {"Check", "CheckSelf"} => Enough(q)
  <2>1. CASE op \in Strong
    <3>1. promised = Revision /\ op \notin {"Check", "CheckSelf"}
      BY <1>3, <2>1 DEF Promised, Strong, Unspecified, AtLeastAsAcknowledged
    <3> QED
      BY <1>2, <2>1, <3>1 DEF Request, Enough
  <2>2. CASE op \notin Strong /\ want.type = "at_least_as_fresh"
    <3>1. promised = want.token
      BY <2>2 DEF Promised, Unspecified, AtLeastAsAcknowledged
    <3> QED
      BY <1>2, <1>3, <2>2, <3>1, SMTT(30) DEF Request, Enough, Due, Unspecified, AtLeastAsAcknowledged
  <2>3. CASE op \in {"Check", "CheckSelf"} /\ want.type # "at_least_as_fresh"
    <3>1. op \notin Lists /\ op \notin Strong /\ op \notin Bulks
      BY <2>3 DEF Lists, Strong, Bulks
    <3>2. CASE want = AtLeastAsAcknowledged \/ (want = Unspecified /\ DefaultToAtLeastAsAcknowledged /\ op = "Check")
      <4>1. promised = ktn[items[1]]
        BY <2>3, <3>1, <3>2 DEF Promised, Unspecified, AtLeastAsAcknowledged
      <4>2. Due(q) = ktn[items[1]]
        BY <2>3, <3>2 DEF Request, Due
      <4> QED
        BY <1>2, <1>4, <2>3, <3>1, <4>1, <4>2
    <3>3. CASE ~(want = AtLeastAsAcknowledged \/ (want = Unspecified /\ DefaultToAtLeastAsAcknowledged /\ op = "Check"))
      <4>1. promised = 0
        BY <2>3, <3>1, <3>3 DEF Promised
      <4>2. Due(q) = 0
        BY <2>3, <3>3 DEF Request, Due
      <4> QED
        BY <1>2, <2>3, <4>1, <4>2
    <3> QED
      BY <3>2, <3>3
  <2>4. CASE op \notin Strong /\ op \notin {"Check", "CheckSelf"} /\ want.type # "at_least_as_fresh"
    <3>1. \/ promised = Revision /\ want = Unspecified /\ FullyConsistentAsDefault /\ backend = "spicedb"
          \/ promised = 0
      BY <2>4 DEF Promised
    <3> QED
      BY <1>2, <2>4, <3>1 DEF Request, Enough
  <2> QED
    BY <2>1, <2>2, <2>3, <2>4
<1> HIDE DEF promised
<1>6. q \in RequestType
  BY <1>3, <1>5 DEF Request, RequestType
<1>7. Timely(q)
  BY <1>2, <1>3, <1>5, <1>6, SMTT(30) DEF Request, Timely, Lists
<1>8. Faithful(q)
  BY DEF Request, Faithful
<1> HIDE DEF q
<1> QED
  BY <1>1, <1>6, <1>7, <1>8, OneRequest, Zenon

LEMMA FunctionIsSeq ==
  ASSUME NEW n \in Nat, NEW S, NEW f \in [1 .. n -> S] PROVE f \in Seq(S) /\ Len(f) = n
<1>1. f \in Seq(S)
  OBVIOUS
<1>2. DOMAIN f = 1 .. Len(f) /\ Len(f) \in Nat
  BY <1>1
<1> QED
  BY <1>1, <1>2

LEMMA ReturnedFields ==
  ASSUME NEW q \in RequestType
  PROVE  /\ Returned(q) \in RequestType
         /\ Returned(q).pc = "done" /\ Returned(q).use = Unspecified
         /\ Returned(q).op = q.op /\ Returned(q).items = q.items /\ Returned(q).at = q.at
         /\ Returned(q).answer = q.answer /\ Returned(q).got = q.got /\ Returned(q).floor = q.floor
<1>1. Unspecified \in [type : ConsistencyTypes, token : Nat]
  BY DEF Unspecified, ConsistencyTypes, NoToken
<1> QED
  BY <1>1, Zenon DEF Returned, RequestType

\* A request as a check's answer and an opened stream leave it.
WithAnswer(q, at, answer) == [q EXCEPT !.at = at, !.answer = answer]

Opened(q, at, size) ==
  [q EXCEPT !.pc = "stream", !.use = Unspecified, !.at = at, !.left = size, !.from = Len(q.got)]

LEMMA RecordFields ==
  ASSUME NEW q \in RequestType, NEW at \in Nat, NEW answer \in Seq({"allowed", "denied", "error"}),
         NEW p, p = WithAnswer(q, at, answer)
  PROVE  /\ p \in RequestType /\ p.at = at /\ p.answer = answer
         /\ p.items = q.items /\ p.op = q.op /\ p.got = q.got /\ p.floor = q.floor
  BY Zenon DEF RequestType, WithAnswer

\* A check that is answered from a fresh enough revision.
LEMMA AnswerStep ==
  ASSUME AccessInv, NEW r \in Requests, req[r].pc = "call", req[r].op \notin Lists,
         NEW rev \in 1 .. Revision, rev >= req[r].floor,
         NEW answer \in [1 .. Len(req[r].items) -> {"allowed", "denied", "error"}],
         \A n \in 1 .. Len(req[r].items) :
           answer[n] # "error" => (answer[n] = "allowed" <=> req[r].items[n] \in history[rev]),
         req' = [req EXCEPT ![r] = Returned([req[r] EXCEPT !.at = rev, !.answer = answer])],
         UNCHANGED <<backend, history, ktn, unstored>>
  PROVE  AccessInv'
<1> DEFINE p == [req[r] EXCEPT !.at = rev, !.answer = answer]
           q == Returned(p)
<1>1. req[r] \in RequestType /\ Timely(req[r]) /\ Revision \in Nat
  BY DEF AccessInv, StoreType, Revision
<1>2. Len(req[r].items) \in Nat /\ answer \in Seq({"allowed", "denied", "error"}) /\ Len(answer) = Len(req[r].items)
  <2>1. Len(req[r].items) \in Nat
    BY <1>1 DEF RequestType
  <2> QED
    BY <2>1, FunctionIsSeq
<1>3. /\ p \in RequestType /\ p.at = rev /\ p.answer = answer /\ p.items = req[r].items /\ p.op = req[r].op
      /\ p.got = req[r].got /\ p.floor = req[r].floor
  <2>1. rev \in Nat
    BY <1>1
  <2>2. p = WithAnswer(req[r], rev, answer)
    BY DEF WithAnswer
  <2> HIDE DEF p
  <2> QED
    BY <1>1, <1>2, <2>1, <2>2, RecordFields
<1>4. /\ q \in RequestType /\ q.pc = "done" /\ q.use = Unspecified /\ q.at = rev /\ q.answer = answer
      /\ q.items = req[r].items /\ q.op = req[r].op /\ q.got = req[r].got /\ q.floor = req[r].floor
  BY <1>3, ReturnedFields, Zenon
<1> HIDE DEF p, q
<1>5. Timely(q)
  BY <1>1, <1>4 DEF Timely, Unspecified
<1>6. Faithful(q)
  BY <1>2, <1>4 DEF Faithful
<1>7. req' = [req EXCEPT ![r] = q]
  BY DEF p, q
<1> QED
  BY <1>4, <1>5, <1>6, <1>7, OneRequest, Zenon

\* A request that returns as it is: a list, or any with allow-all.
LEMMA ReturnTimely ==
  ASSUME NEW q \in RequestType, Timely(q), NEW p \in RequestType, p.pc = "done", p.use = Unspecified,
         p.op = q.op, p.got = q.got, p.floor = q.floor, p.at = q.at,
         backend = "allow-all" \/ (q.op \in Lists /\ q.at >= q.floor)
  PROVE  Timely(p) /\ Faithful(p)
<1>1. Faithful(p)
  BY Zenon DEF Faithful
<1>2. p.use.type # "at_least_as_fresh"
  BY DEF Unspecified
<1>3. p.pc # "resolve" /\ p.pc # "call" /\ p.pc # "stream" /\ p.pc # "page"
  OBVIOUS
<1> QED
  BY <1>1, <1>2, <1>3, Zenon DEF Timely

LEMMA ResolvedType ==
  ASSUME NEW op, NEW want \in [type : ConsistencyTypes, token : Nat], NEW n \in Nat,
         want.type = "at_least_as_fresh" => want.token \in 1 .. n,
         NEW t \in 0 .. n, NEW use, use = ResolveConsistency(op, want, t)
  PROVE  /\ use \in [type : ConsistencyTypes, token : Nat]
         /\ use.type = "at_least_as_fresh" => use.token \in 1 .. n
<1>1. use = MinimizeLatency \/ (use = AtLeastAsFresh(t) /\ t # 0) \/ use = want
  BY Zenon DEF ResolveConsistency, NoToken
<1> QED
  BY <1>1 DEF MinimizeLatency, AtLeastAsFresh, NoToken, ConsistencyTypes

LEMMA ResolvedEnough ==
  ASSUME NEW q \in RequestType, NEW t \in Nat, t = ktn[q.items[1]], q.floor <= Due(q),
         NEW use, use = ResolveConsistency(q.op, q.use, t)
  PROVE  q.floor = 0 \/ (use.type = "at_least_as_fresh" /\ use.token >= q.floor)
<1>1. q.floor \in Nat /\ q.use.token \in Nat
  BY DEF RequestType
<1> QED
  BY <1>1 DEF ResolveConsistency, Due, MinimizeLatency, AtLeastAsFresh, NoToken

\* The revision that a stream, or a later page, is served from.
LEMMA CursorAt ==
  ASSUME NEW q \in RequestType, Timely(q), Revision \in Nat, (backend # "allow-all" /\ q.got # <<>>) \/ q.pc = "stream"
  PROVE  q.at \in 1 .. Revision /\ q.at >= q.floor
<1>1. q.at \in Nat
  BY DEF RequestType
<1>2. q.at <= Revision /\ q.at >= q.floor /\ q.at >= 1
  BY Zenon DEF Timely
<1> QED
  BY <1>1, <1>2

LEMMA AppendedSeq ==
  ASSUME NEW S, NEW s \in Seq(S), NEW e \in S
  PROVE  /\ Append(s, e) \in Seq(S) /\ Append(s, e) # <<>>
         /\ Len(Append(s, e)) = Len(s) + 1 /\ Len(s) \in Nat
  OBVIOUS

LEMMA EntryTimely ==
  ASSUME NEW q \in RequestType, Timely(q), q.pc = "stream", q.left > 0, NEW i \in Items,
         NEW p, p = [q EXCEPT !.got = Append(q.got, i), !.left = q.left - 1]
  PROVE  p \in RequestType /\ Timely(p) /\ Faithful(p)
<1>1. q.got \in Seq(Items) /\ q.left \in Nat /\ q.from \in Nat
  BY DEF RequestType
<1>2. /\ Append(q.got, i) \in Seq(Items) /\ Append(q.got, i) # <<>>
      /\ Len(Append(q.got, i)) = Len(q.got) + 1 /\ Len(q.got) \in Nat
  BY <1>1, AppendedSeq, Zenon
<1>3. q.left - 1 \in Nat
  BY <1>1
<1>4. /\ p \in RequestType /\ p.pc = "stream" /\ p.use = q.use /\ p.at = q.at /\ p.from = q.from
      /\ p.op = q.op /\ p.got = Append(q.got, i) /\ p.floor = q.floor
  BY <1>2, <1>3, Zenon DEF RequestType
<1>5. p.from <= Len(p.got)
  <2>1. q.from <= Len(q.got)
    BY Zenon DEF Timely
  <2> QED
    BY <1>1, <1>2, <1>4, <2>1
<1>6. Timely(p)
  BY <1>2, <1>4, <1>5, Zenon DEF Timely
<1>7. Faithful(p)
  BY <1>4 DEF Faithful
<1> QED
  BY <1>4, <1>6, <1>7

LEMMA ItemsOfSnapshot ==
  ASSUME StoreType, NEW v \in 1 .. Revision PROVE history[v] \subseteq Items
  BY DEF StoreType, Revision

LEMMA CallStep ==
  ASSUME AccessInv, NEW r \in Requests, CallCheck(r) \/ CallService(r) \/ AllowAll(r) \/ CallFails(r) \/ Resolve(r)
  PROVE  AccessInv'
<1>1. req[r] \in RequestType /\ Timely(req[r]) /\ StoreType /\ Revision \in Nat \ {0}
  BY DEF AccessInv, StoreType, Revision
<1>2. CASE CallCheck(r)
  <2>1. PICK rev \in Snapshots(DetermineConsistency(req[r].op, req[r].use)), failed \in SUBSET (1 .. Len(req[r].items)) :
          Continue(r, Returned([req[r] EXCEPT !.at = rev, !.answer = PairResults(req[r].items, rev, failed)]))
    BY <1>2, <1>1, Zenon DEF CallCheck, RequestType
  <2>2. req[r].got = <<>> /\ backend # "allow-all" /\ req[r].pc = "call" /\ req[r].op \notin Lists
    BY <1>1, <1>2, Zenon DEF CallCheck, Timely
  <2>3. rev \in 1 .. Revision /\ rev >= req[r].floor
    BY <2>2, SnapshotsFresh
  <2>4. /\ PairResults(req[r].items, rev, failed) \in [1 .. Len(req[r].items) -> {"allowed", "denied", "error"}]
        /\ \A n \in 1 .. Len(req[r].items) :
             LET answer == PairResults(req[r].items, rev, failed)[n] IN
             answer # "error" => (answer = "allowed" <=> req[r].items[n] \in history[rev])
    BY DEF PairResults
  <2>5. UNCHANGED <<backend, history, ktn, unstored>>
    BY <1>2, Zenon DEF CallCheck
  <2> QED
    BY <2>1, <2>2, <2>3, <2>4, <2>5, AnswerStep, Zenon DEF Continue
<1>3. CASE CallService(r)
  <2>1. PICK rev \in Snapshots(DetermineConsistency(req[r].op, req[r].use)),
             pairs \in [1 .. Len(req[r].items) -> {"item", "error", "malformed"}] :
          Continue(r, Returned([req[r] EXCEPT !.at = rev,
                                              !.answer = CheckBulkResultFromV1Beta1(req[r].items, rev, pairs)]))
    BY <1>3, <1>1, Zenon DEF CallService, RequestType
  <2>2. req[r].got = <<>> /\ backend # "allow-all" /\ req[r].pc = "call" /\ req[r].op \notin Lists
    BY <1>1, <1>3, Zenon DEF CallService, Timely
  <2>3. rev \in 1 .. Revision /\ rev >= req[r].floor
    BY <2>2, SnapshotsFresh
  <2>4. /\ CheckBulkResultFromV1Beta1(req[r].items, rev, pairs)
             \in [1 .. Len(req[r].items) -> {"allowed", "denied", "error"}]
        /\ \A n \in 1 .. Len(req[r].items) :
             LET answer == CheckBulkResultFromV1Beta1(req[r].items, rev, pairs)[n] IN
             answer # "error" => (answer = "allowed" <=> req[r].items[n] \in history[rev])
    BY DEF CheckBulkResultFromV1Beta1
  <2>5. UNCHANGED <<backend, history, ktn, unstored>>
    BY <1>3, Zenon DEF CallService
  <2> QED
    BY <2>1, <2>2, <2>3, <2>4, <2>5, AnswerStep, Zenon DEF Continue
<1>4. CASE AllowAll(r)
  <2> DEFINE answer == [n \in 1 .. Len(req[r].items) |-> "allowed"]
             p == [req[r] EXCEPT !.answer = answer]
  <2>1. answer \in Seq({"allowed", "denied", "error"})
    <3>1. Len(req[r].items) \in Nat
      BY <1>1 DEF RequestType
    <3> QED
      BY <3>1, FunctionIsSeq, ZenonT(20)
  <2>2. p \in RequestType /\ p.op = req[r].op /\ p.got = req[r].got /\ p.floor = req[r].floor /\ p.at = req[r].at
    BY <1>1, <2>1, Zenon DEF RequestType
  <2>3. Timely(Returned(p)) /\ Faithful(Returned(p)) /\ Returned(p) \in RequestType
    <3>1. backend = "allow-all"
      BY <1>4 DEF AllowAll
    <3>2. /\ Returned(p) \in RequestType /\ Returned(p).pc = "done" /\ Returned(p).use = Unspecified
          /\ Returned(p).op = req[r].op /\ Returned(p).got = req[r].got
          /\ Returned(p).floor = req[r].floor /\ Returned(p).at = req[r].at
      BY <2>2, ReturnedFields, Zenon
    <3> HIDE DEF p
    <3> QED
      BY <1>1, <3>1, <3>2, ReturnTimely, Zenon
  <2>4. req' = [req EXCEPT ![r] = Returned(p)] /\ UNCHANGED <<backend, history, ktn, unstored>>
    BY <1>4, Zenon DEF AllowAll, Continue
  <2> QED
    BY <2>3, <2>4, OneRequest, Zenon
<1>5. CASE CallFails(r)
  BY <1>1, <1>5, FailedTimely, OneRequest, Zenon DEF CallFails, Continue
<1>6. CASE Resolve(r)
  <2> DEFINE use == ResolveConsistency(req[r].op, req[r].use, ktn[req[r].items[1]])
             q == [req[r] EXCEPT !.pc = "call", !.use = use]
  <2>1. CASE Continue(r, q)
    <3>1. req[r].items[1] \in Items /\ ktn[req[r].items[1]] \in 0 .. Revision /\ req[r].floor <= Due(req[r])
      <4>1. req[r].items \in Seq(Items) /\ req[r].items # <<>> /\ req[r].floor <= Due(req[r])
        BY <1>1, <1>6 DEF Resolve, Timely, RequestType
      <4>2. req[r].items[1] \in Items
        BY <4>1, FirstOfSeq, Zenon
      <4>3. ktn \in [Items -> 0 .. Revision]
        BY <1>1, Zenon DEF StoreType
      <4> QED
        BY <4>1, <4>2, <4>3, Zenon
    <3>2. /\ use \in [type : ConsistencyTypes, token : Nat]
          /\ use.type = "at_least_as_fresh" => use.token \in 1 .. Revision
      <4>1. /\ req[r].use \in [type : ConsistencyTypes, token : Nat]
            /\ req[r].use.type = "at_least_as_fresh" => req[r].use.token \in 1 .. Revision
        BY <1>1, Zenon DEF RequestType, Timely
      <4>2. Revision \in Nat
        BY <1>1
      <4> QED
        BY <3>1, <4>1, <4>2, ResolvedType, Zenon
    <3>3. req[r].floor = 0 \/ (use.type = "at_least_as_fresh" /\ use.token >= req[r].floor)
      <4>1. ktn[req[r].items[1]] \in Nat
        BY <1>1, <3>1
      <4> QED
        BY <1>1, <3>1, <4>1, ResolvedEnough, Zenon
    <3> HIDE DEF use
    <3>4. /\ q \in RequestType /\ q.pc = "call" /\ q.use = use /\ q.op = req[r].op /\ q.got = req[r].got
          /\ q.floor = req[r].floor /\ q.at = req[r].at
      BY <1>1, <3>2, Zenon DEF RequestType
    <3> HIDE DEF q
    <3>5. Timely(q) /\ Faithful(q)
      BY <1>1, <1>6, <3>2, <3>3, <3>4 DEF Timely, Faithful, Enough, Resolve
    <3> QED
      BY <1>6, <2>1, <3>4, <3>5, OneRequest, ZenonT(30) DEF Continue, Resolve
  <2>2. CASE Continue(r, Failed)
    BY <1>1, <1>6, <2>2, FailedTimely, OneRequest, Zenon DEF Resolve, Continue
  <2> QED
    BY <1>6, <2>1, <2>2 DEF Resolve
<1> QED
  BY <1>2, <1>3, <1>4, <1>5, <1>6

LEMMA PageSizesNat ==
  ASSUME NEW op, NEW limit \in Nat PROVE PageSizes(op, limit) \subseteq Nat
<1>1. Cardinality(Items) \in Nat
  BY AccessAssumption, FS_CardinalityType, Zenon
<1> QED
  BY <1>1, AccessAssumption DEF PageSizes, PaginationToV1Beta1, PageSize, effectiveLimit

LEMMA OpenedTimely ==
  ASSUME NEW q \in RequestType, Timely(q), q.op \in Lists, Revision \in Nat,
         NEW rev \in 1 .. Revision, rev >= q.floor, NEW size \in Nat
  PROVE  Opened(q, rev, size) \in RequestType /\ Timely(Opened(q, rev, size)) /\ Faithful(Opened(q, rev, size))
<1> DEFINE p == Opened(q, rev, size)
<1>1. Unspecified \in [type : ConsistencyTypes, token : Nat]
  BY DEF Unspecified, ConsistencyTypes, NoToken
<1>2. Len(q.got) \in Nat /\ rev \in Nat
  BY DEF RequestType
<1>3. /\ p \in RequestType /\ p.pc = "stream" /\ p.use = Unspecified /\ p.at = rev
      /\ p.from = Len(q.got) /\ p.op = q.op /\ p.got = q.got /\ p.floor = q.floor
  BY <1>1, <1>2, Zenon DEF RequestType, Opened
<1> HIDE DEF p
<1>4. Timely(p) /\ Faithful(p)
  BY <1>2, <1>3 DEF Timely, Faithful, Unspecified
<1> QED
  BY <1>3, <1>4 DEF p

LEMMA PageTimely ==
  ASSUME NEW q \in RequestType, Timely(q), q.pc = "stream", q.got # <<>>
  PROVE  /\ [q EXCEPT !.pc = "page"] \in RequestType
         /\ Timely([q EXCEPT !.pc = "page"]) /\ Faithful([q EXCEPT !.pc = "page"])
<1> DEFINE p == [q EXCEPT !.pc = "page"]
<1>1. /\ p \in RequestType /\ p.pc = "page" /\ p.use = q.use /\ p.at = q.at
      /\ p.op = q.op /\ p.got = q.got /\ p.floor = q.floor
  BY Zenon DEF RequestType
<1> HIDE DEF p
<1>2. Timely(p) /\ Faithful(p)
  BY <1>1 DEF Timely, Faithful
<1> QED
  BY <1>1, <1>2 DEF p

LEMMA StreamStep ==
  ASSUME AccessInv, NEW r \in Requests,
         OpenStream(r) \/ StreamEntry(r) \/ StreamEnds(r) \/ StreamFails(r) \/ NextPage(r)
  PROVE  AccessInv'
<1>1. req[r] \in RequestType /\ Timely(req[r]) /\ StoreType /\ Revision \in Nat \ {0}
  BY DEF AccessInv, StoreType, Revision
<1>2. CASE OpenStream(r)
  <2>1. PICK rev \in IF req[r].got = <<>> THEN Snapshots(DetermineConsistency(req[r].op, req[r].use)) ELSE {req[r].at},
             size \in PageSizes(req[r].op, req[r].limit) :
          Continue(r, [req[r] EXCEPT !.pc = "stream", !.use = Unspecified, !.at = rev,
                                     !.left = size, !.from = Len(req[r].got)])
    BY <1>2, Zenon DEF OpenStream
  <2>2. size \in Nat
    BY <1>1, AccessAssumption, PageSizesNat, Zenon DEF RequestType
  <2>3. rev \in 1 .. Revision /\ rev >= req[r].floor
    <3>1. backend # "allow-all" /\ req[r].pc = "call"
      BY <1>2, ZenonT(30) DEF OpenStream
    <3>2. CASE req[r].got = <<>>
      <4>1. rev \in Snapshots(DetermineConsistency(req[r].op, req[r].use))
        BY <2>1, <3>2
      <4>2. rev \in 1 .. Revision /\ rev >= req[r].floor
        BY <3>1, <3>2, <4>1, SnapshotsFresh, Zenon
      <4> QED
        BY <1>1, <4>2
    <3>3. CASE req[r].got # <<>>
      <4>1. rev = req[r].at
        BY <2>1, <3>3, Zenon
      <4>2. Revision \in Nat
        BY <1>1
      <4> QED
        BY <1>1, <3>1, <3>3, <4>1, <4>2, CursorAt, Zenon
    <3> QED
      BY <3>2, <3>3
  <2> DEFINE q == Opened(req[r], rev, size)
  <2>4. q \in RequestType /\ Timely(q) /\ Faithful(q)
    <3>1. req[r].op \in Lists
      BY <1>2, Zenon DEF OpenStream
    <3> QED
      BY <1>1, <2>2, <2>3, <3>1, OpenedTimely
  <2> QED
    <3>1. req' = [req EXCEPT ![r] = q]
      BY <2>1 DEF Continue, Opened
    <3>2. UNCHANGED <<backend, history, ktn, unstored>>
      BY <1>2, Zenon DEF OpenStream
    <3> HIDE DEF q
    <3> QED
      BY <2>4, <3>1, <3>2, OneRequest, Zenon
<1>3. CASE StreamEntry(r)
  <2>1. PICK i \in Items : Continue(r, [req[r] EXCEPT !.got = Append(@, i), !.left = @ - 1])
    <3>1. req[r].pc = "stream" /\ Revision \in Nat
      BY <1>1, <1>3 DEF StreamEntry
    <3>2. history[req[r].at] \subseteq Items
      BY <1>1, <3>1, CursorAt, ItemsOfSnapshot, Zenon
    <3>3. Remaining(req[r]) \subseteq Items
      BY <3>2, Zenon DEF Remaining
    <3> QED
      BY <1>3, <3>3, ZenonT(30) DEF StreamEntry
  <2> DEFINE q == [req[r] EXCEPT !.got = Append(req[r].got, i), !.left = req[r].left - 1]
  <2>2. req[r].pc = "stream" /\ req[r].left > 0 /\ UNCHANGED <<backend, history, ktn, unstored>>
    BY <1>3, Zenon DEF StreamEntry
  <2>3. q \in RequestType /\ Timely(q) /\ Faithful(q)
    BY <1>1, <2>2, EntryTimely, Zenon
  <2>4. req' = [req EXCEPT ![r] = q]
    BY <2>1, Zenon DEF Continue
  <2> HIDE DEF q
  <2> QED
    BY <2>2, <2>3, <2>4, OneRequest, Zenon
<1>4. CASE StreamEnds(r)
  <2>1. req[r].pc = "stream" /\ req[r].got \in Seq(Items) /\ req[r].from \in Nat
    BY <1>1, <1>4 DEF StreamEnds, RequestType
  <2>2. CASE Len(req[r].got) = req[r].from
    <3> DEFINE q == Returned(req[r])
    <3>1. /\ q \in RequestType /\ q.pc = "done" /\ q.use = Unspecified /\ q.op = req[r].op /\ q.at = req[r].at
          /\ q.got = req[r].got /\ q.floor = req[r].floor
      BY <1>1, ReturnedFields, Zenon
    <3>2. req' = [req EXCEPT ![r] = q] /\ UNCHANGED <<backend, history, ktn, unstored>>
      BY <1>4, <2>2, ZenonT(30) DEF StreamEnds, Continue
    <3> HIDE DEF q
    <3>3. req[r].op \in Lists /\ req[r].at >= req[r].floor
      BY <1>1, <2>1, Zenon DEF Timely
    <3>4. Timely(q) /\ Faithful(q)
      BY <1>1, <3>1, <3>3, ReturnTimely, Zenon
    <3> QED
      BY <3>1, <3>2, <3>4, OneRequest, Zenon
  <2>3. CASE Len(req[r].got) # req[r].from
    <3> DEFINE q == [req[r] EXCEPT !.pc = "page"]
    <3>1. req[r].got # <<>>
      <4>1. req[r].from <= Len(req[r].got)
        BY <1>1, <2>1, Zenon DEF Timely
      <4> QED
        BY <2>1, <2>3, <4>1, SMTT(30)
    <3>2. q \in RequestType /\ Timely(q) /\ Faithful(q)
      BY <1>1, <2>1, <3>1, PageTimely
    <3> QED
      BY <1>4, <2>3, <3>2, OneRequest, ZenonT(30) DEF StreamEnds, Continue
  <2> QED
    BY <2>2, <2>3
<1>5. CASE StreamFails(r)
  <2>1. CASE req[r].got = <<>>
    BY <1>1, <1>5, <2>1, FailedTimely, OneRequest, Zenon DEF StreamFails, Continue
  <2>2. CASE req[r].got # <<>>
    <3>1. [req[r] EXCEPT !.pc = "page"] \in RequestType /\ Timely([req[r] EXCEPT !.pc = "page"])
          /\ Faithful([req[r] EXCEPT !.pc = "page"])
      BY <1>1, <1>5, <2>2, PageTimely DEF StreamFails
    <3> QED
      BY <1>5, <2>2, <3>1, OneRequest, Zenon DEF StreamFails, Continue
  <2> QED
    BY <2>1, <2>2
<1>6. CASE NextPage(r)
  <2> DEFINE q == [req[r] EXCEPT !.pc = "call"]
  <2>1. /\ q \in RequestType /\ q.pc = "call" /\ q.use = req[r].use /\ q.at = req[r].at
        /\ q.op = req[r].op /\ q.got = req[r].got /\ q.floor = req[r].floor
    BY <1>1, Zenon DEF RequestType
  <2>2. Timely(q) /\ Faithful(q)
    <3> HIDE DEF q
    <3> QED
      BY <1>1, <1>6, <2>1 DEF Timely, Faithful, NextPage
  <2> QED
    BY <1>6, <2>1, <2>2, OneRequest, Zenon DEF NextPage, Continue
<1> QED
  BY <1>2, <1>3, <1>4, <1>5, <1>6

LEMMA AccessStep == AccessInv /\ [Next]_vars => AccessInv'
<1> SUFFICES ASSUME AccessInv, [Next]_vars PROVE AccessInv'
  OBVIOUS
<1>1. ASSUME NEW i \in Items, WriteTuples(i) \/ UpdateConsistencyToken(i) PROVE AccessInv'
  BY <1>1, WritersStep
<1>2. ASSUME NEW r \in Requests, ArriveSingle(r) PROVE AccessInv'
  <2>1. PICK op \in Singles, i \in Items : \E want \in Consistencies(op) : Arrive(r, op, <<i>>, want, 0)
    BY <1>2 DEF ArriveSingle
  <2>2. PICK want \in Consistencies(op) : Arrive(r, op, <<i>>, want, 0)
    BY <2>1
  <2>3. <<i>> \in Seq(Items) /\ <<i>> # <<>>
    OBVIOUS
  <2> QED
    BY <2>2, <2>3, ArriveStep, Zenon
<1>3. ASSUME NEW r \in Requests, ArriveBulk(r) PROVE AccessInv'
  <2>1. PICK op \in Bulks, i \in Items, j \in Items : \E want \in Consistencies(op) : Arrive(r, op, <<i, j>>, want, 0)
    BY <1>3 DEF ArriveBulk
  <2>2. PICK want \in Consistencies(op) : Arrive(r, op, <<i, j>>, want, 0)
    BY <2>1
  <2>3. <<i, j>> \in Seq(Items) /\ <<i, j>> # <<>>
    OBVIOUS
  <2> QED
    BY <2>2, <2>3, ArriveStep, Zenon
<1>4. ASSUME NEW r \in Requests, ArriveList(r) PROVE AccessInv'
  <2>1. PICK op \in Lists, limit \in 0 .. DefaultStreamingLimit + 1 :
          \E want \in Consistencies(op) : Arrive(r, op, <<>>, want, limit)
    BY <1>4 DEF ArriveList
  <2>2. PICK want \in Consistencies(op) : Arrive(r, op, <<>>, want, limit)
    BY <2>1
  <2>3. <<>> \in Seq(Items) /\ limit \in Nat
    BY AccessAssumption
  <2> QED
    BY <2>2, <2>3, ArriveStep, Zenon
<1>5. ASSUME NEW r \in Requests, ArriveRefused(r) PROVE AccessInv'
  <2>1. StoreType
    BY DEF AccessInv
  <2>2. req' = [req EXCEPT ![r] = Failed] /\ UNCHANGED <<backend, history, ktn, unstored>>
    BY <1>5 DEF ArriveRefused, Continue
  <2> QED
    BY <2>1, <2>2, FailedTimely, OneRequest, Zenon
<1>6. ASSUME NEW r \in Requests, Handle(r) PROVE AccessInv'
  BY <1>6, CallStep, StreamStep DEF Handle
<1>7. CASE UNCHANGED vars
  <2>1. StoreType' /\ \A i \in Items : unstored'[i] # NoToken => unstored'[i] >= ktn'[i]
    BY <1>7, Zenon DEF vars, AccessInv, StoreType, Revision
  <2>2. ASSUME NEW r \in Requests PROVE Timely(req[r])' /\ Faithful(req[r])'
    BY <1>7, ZenonT(30) DEF vars, AccessInv, Timely, Faithful, Due, Enough, Revision
  <2> QED
    BY <1>7, <2>1, <2>2, Zenon DEF vars, AccessInv
<1> QED
  BY <1>1, <1>2, <1>3, <1>4, <1>5, <1>6, <1>7, Zenon DEF Next

LEMMA AccessInvariant == BackendsSpec => []AccessInv
<1>1. BackendsInit => AccessInv
  BY AccessInitial DEF BackendsInit
<1>2. AccessInv /\ [BackendsNext]_allVars => AccessInv'
  BY AccessStep DEF BackendsNext, allVars
<1> QED
  BY <1>1, <1>2, PTL DEF BackendsSpec

\* For any number of requests and items, whatever the flags of the server, and
\* however writes, stored tokens and failures interleave with the requests:
\* a request is answered, or its stream opened, from a revision no older than
\* the one its consistency promised when it arrived.
THEOREM AnswersAreFresh == BackendsSpec => []FreshEnough
<1>1. AccessInv => FreshEnough
  <2> SUFFICES ASSUME AccessInv, NEW r \in Requests, Answered(r) PROVE req[r].at >= req[r].floor
    BY DEF FreshEnough
  <2>1. Timely(req[r])
    BY DEF AccessInv
  <2> QED
    BY <2>1 DEF Answered, Timely
<1> QED
  BY <1>1, AccessInvariant, PTL

\* An item that no write has changed since the revision a check was promised is
\* answered with what holds now, for any flags, writes, failures and bulk checks:
\* the snapshot lies between the promise and now, and the answer is the snapshot's.
THEOREM SettledChecksAnsweredRight == BackendsSpec => []SettledChecksAreRight
<1>1. AccessInv => SettledChecksAreRight
  <2> SUFFICES ASSUME AccessInv, NEW r \in Requests, Answered(r), req[r].op \notin Lists,
                      NEW n \in 1 .. Len(req[r].items),
                      \A rev \in req[r].floor .. Revision :
                        req[r].items[n] \in history[rev] <=> req[r].items[n] \in history[Revision],
                      req[r].answer[n] # "error"
               PROVE  req[r].answer[n] = "allowed" <=> req[r].items[n] \in history[Revision]
    BY Zenon DEF SettledChecksAreRight
  <2>1. Timely(req[r]) /\ Faithful(req[r]) /\ req[r] \in RequestType
    BY DEF AccessInv
  <2>2. req[r].pc = "done" /\ backend # "allow-all"
    BY <2>1 DEF Answered, Timely
  <2>3. req[r].answer[n] = "allowed" <=> req[r].items[n] \in history[req[r].at]
    BY <2>1, <2>2 DEF Faithful
  <2>4. req[r].at \in req[r].floor .. Revision
    <3>1. req[r].at \in 1 .. Revision /\ req[r].at >= req[r].floor
      BY <2>1, <2>2 DEF Faithful, Timely
    <3>2. req[r].floor \in Nat /\ req[r].at \in Nat /\ Revision \in Int
      BY <2>1 DEF RequestType, AccessInv, StoreType, Revision
    <3> QED
      BY <3>1, <3>2
  <2> QED
    BY <2>3, <2>4, Zenon
<1> QED
  BY <1>1, AccessInvariant, PTL

----
(* The lists *)

Increasing(s) == \A m, n \in 1 .. Len(s) : m < n => s[m] < s[n]

\* What was received is the beginning of the snapshot's list.
Begun(q) ==
  /\ Increasing(q.got)
  /\ \A n \in 1 .. Len(q.got) : q.got[n] \in history[q.at]
  /\ \A i \in history[q.at] : i \in Remaining(q) \/ \E n \in 1 .. Len(q.got) : q.got[n] = i

\* A page that has brought nothing yet has room for an entry, if there is one; and
\* nothing remains of a list that was followed to its end.
Paged(q) ==
  backend # "allow-all" /\ q.op \in Lists =>
    /\ Begun(q)
    /\ q.pc = "stream" /\ Len(q.got) = q.from => q.left > 0 \/ Remaining(q) = {}
    /\ q.pc = "done" => q.at >= 1 /\ Remaining(q) = {}

PagedInv == \A r \in Requests : Paged(req[r])

\* A step that changes one request leaves the lists of the others as they were.
LEMMA OneRequestPaged ==
  ASSUME AccessInv, PagedInv, NEW r \in Requests, NEW q, Paged(q),
         req' = [req EXCEPT ![r] = q], UNCHANGED <<backend, history>>
  PROVE  PagedInv'
<1> SUFFICES ASSUME NEW s \in Requests PROVE Paged(req[s])'
  BY DEF PagedInv
<1>1. req'[s] = IF s = r THEN q ELSE req[s]
  BY DEF AccessInv
<1>2. Paged(req'[s])
  BY <1>1 DEF PagedInv
<1> QED
  BY <1>2 DEF Paged, Begun, Remaining

\* Nothing is the beginning of every list.
LEMMA NothingBegun ==
  ASSUME NEW q, q.got = <<>> PROVE Begun(q)
<1>1. Len(q.got) = 0
  OBVIOUS
<1> QED
  BY <1>1 DEF Begun, Increasing, Remaining

\* Only what was received, and of which snapshot, counts.
LEMMA StillBegun ==
  ASSUME NEW q, NEW p, p.got = q.got, p.at = q.at
  PROVE  Remaining(p) = Remaining(q) /\ (Begun(p) <=> Begun(q))
<1>1. Remaining(p) = Remaining(q)
  BY DEF Remaining
<1> QED
  BY <1>1 DEF Begun

\* The next entry of the list continues it.
LEMMA EntryBegun ==
  ASSUME NEW q, q.got \in Seq(Items), history[q.at] \subseteq Items, Begun(q),
         NEW i \in Remaining(q), \A j \in Remaining(q) : i <= j,
         NEW p, p.at = q.at, p.got = Append(q.got, i)
  PROVE  Begun(p)
<1>1. i \in Items /\ i \in history[q.at] /\ \A n \in 1 .. Len(q.got) : q.got[n] < i
  BY DEF Remaining
<1>2. Len(q.got) \in Nat /\ Len(p.got) = Len(q.got) + 1
  BY <1>1
<1>3. p.got[Len(q.got) + 1] = i /\ \A n \in 1 .. Len(q.got) : p.got[n] = q.got[n]
  BY <1>1
<1>4. \A n \in 1 .. Len(p.got) : n \in 1 .. Len(q.got) \/ n = Len(q.got) + 1
  BY <1>2
<1>5. Increasing(p.got)
  <2> SUFFICES ASSUME NEW m \in 1 .. Len(p.got), NEW n \in 1 .. Len(p.got), m < n PROVE p.got[m] < p.got[n]
    BY DEF Increasing
  <2>1. m \in 1 .. Len(q.got)
    BY <1>2, SMT
  <2>2. CASE n = Len(q.got) + 1
    BY <1>1, <1>3, <2>1, <2>2
  <2>3. CASE n \in 1 .. Len(q.got)
    BY <1>3, <2>1, <2>3 DEF Begun, Increasing
  <2> QED
    BY <1>4, <2>2, <2>3
<1>6. \A n \in 1 .. Len(p.got) : p.got[n] \in history[p.at]
  BY <1>1, <1>3, <1>4 DEF Begun
<1>7. ASSUME NEW j \in history[p.at]
      PROVE  j \in Remaining(p) \/ \E n \in 1 .. Len(p.got) : p.got[n] = j
  <2>1. CASE j \in Remaining(q) /\ i = j
    <3>1. Len(q.got) + 1 \in 1 .. Len(p.got)
      BY <1>2, SMT
    <3> QED
      BY <1>3, <2>1, <3>1
  <2>2. CASE j \in Remaining(q) /\ i # j
    <3>1. i < j
      <4>1. i \in Nat /\ j \in Nat
        BY <1>1, AccessAssumption
      <4>2. i <= j
        BY <2>2
      <4> QED
        BY <2>2, <4>1, <4>2, SMT
    <3>2. \A n \in 1 .. Len(p.got) : p.got[n] < j
      BY <1>3, <1>4, <2>2, <3>1 DEF Remaining
    <3> QED
      BY <3>2 DEF Remaining
  <2>3. CASE \E n \in 1 .. Len(q.got) : q.got[n] = j
    <3>1. PICK n \in 1 .. Len(q.got) : q.got[n] = j
      BY <2>3
    <3>2. n \in 1 .. Len(p.got)
      BY <1>2, SMT
    <3> QED
      BY <1>3, <3>1, <3>2
  <2> QED
    BY <2>1, <2>2, <2>3 DEF Begun
<1> QED
  BY <1>5, <1>6, <1>7 DEF Begun

\* A page is never empty by its size, unless the store has no items.
LEMMA PageSizesPositive ==
  ASSUME NEW op, NEW limit \in Nat, NEW size \in PageSizes(op, limit)
  PROVE  size > 0 \/ Items = {}
<1>1. Cardinality(Items) \in Nat /\ (Cardinality(Items) = 0 => Items = {})
  BY AccessAssumption, FS_CardinalityType, FS_EmptySet, Zenon
<1>2. CASE backend = "kessel"
  BY <1>1, <1>2, SMT DEF PageSizes, PaginationToV1Beta1
<1>3. CASE backend # "kessel"
  <2>1. size = PageSize(op, limit)
    BY <1>3 DEF PageSizes
  <2>2. effectiveLimit(limit) > 0
    BY AccessAssumption, SMT DEF effectiveLimit
  <2> QED
    BY <1>1, <2>1, <2>2, SMT DEF PageSize
<1> QED
  BY <1>2, <1>3

\* A write adds a revision and leaves the earlier ones as they are.
LEMMA PagedWrite ==
  ASSUME AccessInv, PagedInv, NEW i \in Items, WriteTuples(i)
  PROVE  PagedInv'
<1> SUFFICES ASSUME NEW r \in Requests, backend # "allow-all", req[r].op \in Lists PROVE Paged(req[r])'
  BY DEF PagedInv, Paged, WriteTuples
<1>1. req' = req /\ backend' = backend
  BY DEF WriteTuples
<1>2. \A v \in 1 .. Revision : history'[v] = history[v]
  BY DEF WriteTuples, AccessInv, StoreType, Revision
<1>3. Paged(req[r]) /\ Timely(req[r]) /\ req[r] \in RequestType /\ Revision \in Nat
  BY DEF PagedInv, AccessInv, StoreType, Revision
<1>4. CASE req[r].got = <<>> /\ req[r].pc \notin {"stream", "done"}
  <2>1. Len(req[r].got) = 0
    BY <1>4
  <2> QED
    BY <1>1, <1>4, <2>1 DEF Paged, Begun, Increasing, Remaining
<1>5. CASE ~(req[r].got = <<>> /\ req[r].pc \notin {"stream", "done"})
  <2>1. req[r].at \in 1 .. Revision
    <3>1. req[r].at \in Nat /\ req[r].at <= Revision
      BY <1>3 DEF RequestType, Timely
    <3>2. CASE req[r].pc = "done"
      BY <1>3, <3>1, <3>2, SMT DEF Paged
    <3> QED
      BY <1>3, <1>5, <3>2, CursorAt
  <2>2. history'[req[r].at] = history[req[r].at]
    BY <1>2, <2>1
  <2> QED
    BY <1>1, <1>3, <2>2 DEF Paged, Begun, Remaining
<1> QED
  BY <1>4, <1>5

\* The steps of a request that is not streaming.
LEMMA PagedCall ==
  ASSUME AccessInv, PagedInv, NEW r \in Requests,
         \/ ArriveSingle(r) \/ ArriveBulk(r) \/ ArriveList(r) \/ ArriveRefused(r)
         \/ Resolve(r) \/ CallCheck(r) \/ CallService(r) \/ AllowAll(r) \/ CallFails(r)
  PROVE  PagedInv'
<1>1. req[r] \in RequestType /\ Timely(req[r]) /\ Paged(req[r])
  BY DEF AccessInv, PagedInv
<1>2. Paged(Failed)
  BY DEF Paged, Failed, Request, Lists
<1>3. ASSUME NEW op, NEW items, NEW want, NEW limit, Arrive(r, op, items, want, limit) PROVE PagedInv'
  <2> DEFINE pc == IF op \in {"Check", "CheckSelf"} THEN "resolve" ELSE "call"
             q == Request(pc, op, items, want, limit, Promised(op, items, want))
  <2>1. q.got = <<>> /\ q.pc \notin {"stream", "done"}
    BY DEF Request
  <2>2. req' = [req EXCEPT ![r] = q] /\ UNCHANGED <<backend, history>>
    BY <1>3 DEF Arrive, Continue
  <2> HIDE DEF q
  <2>3. Paged(q)
    BY <2>1, NothingBegun DEF Paged
  <2> QED
    BY <2>2, <2>3, OneRequestPaged
<1>4. CASE ArriveSingle(r) \/ ArriveBulk(r) \/ ArriveList(r)
  BY <1>3, <1>4 DEF ArriveSingle, ArriveBulk, ArriveList
<1>5. CASE ArriveRefused(r) \/ CallFails(r)
  BY <1>2, <1>5, OneRequestPaged DEF ArriveRefused, CallFails, Continue
<1>6. CASE Resolve(r)
  <2>1. ASSUME NEW use PROVE Paged([req[r] EXCEPT !.pc = "call", !.use = use])
    <3> DEFINE q == [req[r] EXCEPT !.pc = "call", !.use = use]
    <3>1. q.pc = "call" /\ q.got = req[r].got /\ q.at = req[r].at /\ q.op = req[r].op
      BY <1>1 DEF RequestType
    <3> HIDE DEF q
    <3>2. Paged(q)
      BY <1>1, <3>1, StillBegun DEF Paged
    <3> QED
      BY <3>2 DEF q
  <2> QED
    BY <1>2, <1>6, <2>1, OneRequestPaged DEF Resolve, Continue
<1>7. CASE CallCheck(r) \/ CallService(r)
  <2>1. PICK rev, answer : /\ req' = [req EXCEPT ![r] = Returned([req[r] EXCEPT !.at = rev, !.answer = answer])]
                           /\ req[r].op \notin Lists /\ UNCHANGED <<backend, history>>
    BY <1>7 DEF CallCheck, CallService, Continue
  <2> DEFINE q == Returned([req[r] EXCEPT !.at = rev, !.answer = answer])
  <2>2. q.op = req[r].op
    BY <1>1 DEF Returned, RequestType
  <2>3. Paged(q)
    BY <2>1, <2>2 DEF Paged
  <2> HIDE DEF q
  <2> QED
    BY <2>1, <2>3, OneRequestPaged DEF q
<1>8. CASE AllowAll(r)
  <2>1. backend = "allow-all" /\ backend' = backend
    BY <1>8 DEF AllowAll
  <2> QED
    BY <2>1 DEF PagedInv, Paged
<1> QED
  BY <1>4, <1>5, <1>6, <1>7, <1>8

\* The steps of a stream.
LEMMA PagedStream ==
  ASSUME AccessInv, PagedInv, NEW r \in Requests,
         OpenStream(r) \/ StreamEntry(r) \/ StreamEnds(r) \/ StreamFails(r) \/ NextPage(r)
  PROVE  PagedInv'
<1>1. req[r] \in RequestType /\ Timely(req[r]) /\ Paged(req[r]) /\ StoreType /\ Revision \in Nat
  BY DEF AccessInv, PagedInv, StoreType, Revision
<1>2. UNCHANGED <<backend, history>>
  BY DEF OpenStream, StreamEntry, StreamEnds, StreamFails, NextPage
<1>3. ASSUME NEW pc \in {"page", "call"} PROVE Paged([req[r] EXCEPT !.pc = pc])
  <2> DEFINE q == [req[r] EXCEPT !.pc = pc]
  <2>1. q.pc = pc /\ q.got = req[r].got /\ q.at = req[r].at /\ q.op = req[r].op
    BY <1>1 DEF RequestType
  <2> HIDE DEF q
  <2>2. Paged(q)
    BY <1>1, <2>1, StillBegun DEF Paged
  <2> QED
    BY <2>2 DEF q
<1>4. Paged(Failed)
  BY DEF Paged, Failed, Request, Lists
<1>5. CASE OpenStream(r)
  <2>1. PICK rev \in IF req[r].got = <<>> THEN Snapshots(DetermineConsistency(req[r].op, req[r].use)) ELSE {req[r].at},
             size \in PageSizes(req[r].op, req[r].limit) :
          req' = [req EXCEPT ![r] = Opened(req[r], rev, size)]
    BY <1>5 DEF OpenStream, Continue, Opened
  <2>2. backend # "allow-all" /\ req[r].pc = "call"
    BY <1>5 DEF OpenStream
  <2>3. rev \in 1 .. Revision
    <3>1. CASE req[r].got = <<>>
      BY <2>1, <2>2, <3>1, SnapshotsFresh
    <3>2. CASE req[r].got # <<>>
      BY <1>1, <2>1, <2>2, <3>2, CursorAt
    <3> QED
      BY <3>1, <3>2
  <2>4. history[rev] \subseteq Items
    BY <1>1, <2>3, ItemsOfSnapshot
  <2>5. size > 0 \/ Items = {}
    <3>1. req[r].limit \in Nat
      BY <1>1 DEF RequestType
    <3> QED
      BY <2>1, <3>1, PageSizesPositive
  <2> DEFINE q == Opened(req[r], rev, size)
  <2>6. q.pc = "stream" /\ q.got = req[r].got /\ q.at = rev /\ q.op = req[r].op /\ q.left = size
    BY <1>1 DEF Opened, RequestType
  <2> HIDE DEF q
  <2>7. q.op \in Lists => Begun(q)
    <3>1. CASE req[r].got = <<>>
      BY <2>6, <3>1, NothingBegun
    <3>2. CASE req[r].got # <<>>
      <4>1. rev = req[r].at
        BY <2>1, <3>2
      <4> QED
        BY <1>1, <2>2, <2>6, <4>1, StillBegun, ZenonT(20) DEF Paged
    <3> QED
      BY <3>1, <3>2
  <2>8. q.left > 0 \/ Remaining(q) = {}
    BY <2>4, <2>5, <2>6 DEF Remaining
  <2>9. Paged(q)
    BY <2>6, <2>7, <2>8 DEF Paged
  <2> QED
    BY <1>2, <2>1, <2>9, OneRequestPaged DEF q
<1>6. CASE StreamEntry(r)
  <2>1. PICK i \in Remaining(req[r]) :
          /\ \A j \in Remaining(req[r]) : i <= j
          /\ req' = [req EXCEPT ![r] = [req[r] EXCEPT !.got = Append(req[r].got, i), !.left = req[r].left - 1]]
    BY <1>6 DEF StreamEntry, Continue
  <2>2. req[r].pc = "stream"
    BY <1>6 DEF StreamEntry
  <2>3. history[req[r].at] \subseteq Items
    BY <1>1, <2>2, CursorAt, ItemsOfSnapshot
  <2> DEFINE q == [req[r] EXCEPT !.got = Append(req[r].got, i), !.left = req[r].left - 1]
  <2>4. /\ q.pc = "stream" /\ q.got = Append(req[r].got, i) /\ q.at = req[r].at
        /\ q.op = req[r].op /\ q.from = req[r].from
    BY <1>1, <2>2 DEF RequestType
  <2> HIDE DEF q
  <2>5. req[r].got \in Seq(Items) /\ req[r].from \in Nat /\ req[r].from <= Len(req[r].got)
    BY <1>1, <2>2 DEF RequestType, Timely
  <2>6. Len(q.got) # q.from
    <3>1. i \in Items
      BY <2>3 DEF Remaining
    <3>2. Len(q.got) = Len(req[r].got) + 1 /\ Len(req[r].got) \in Nat
      BY <2>4, <2>5, <3>1, AppendedSeq
    <3> QED
      BY <2>4, <2>5, <3>2, SMT
  <2>7. backend # "allow-all" /\ q.op \in Lists => Begun(q)
    BY <1>1, <2>1, <2>3, <2>4, <2>5, EntryBegun DEF Paged
  <2>8. Paged(q)
    BY <2>4, <2>6, <2>7 DEF Paged
  <2> QED
    BY <1>2, <2>1, <2>8, OneRequestPaged DEF q
<1>7. CASE StreamEnds(r)
  <2>1. CASE Len(req[r].got) = req[r].from
    <3> DEFINE q == Returned(req[r])
    <3>1. q.pc = "done" /\ q.got = req[r].got /\ q.at = req[r].at /\ q.op = req[r].op
      BY <1>1, ReturnedFields
    <3>2. req' = [req EXCEPT ![r] = q]
      BY <1>7, <2>1 DEF StreamEnds, Continue
    <3> HIDE DEF q
    <3>3. req[r].pc = "stream" /\ (req[r].left = 0 \/ Remaining(req[r]) = {})
      BY <1>7 DEF StreamEnds
    <3>4. req[r].at >= 1
      BY <1>1, <3>3 DEF Timely
    <3>5. ~(0 > 0)
      BY SMT
    <3>6. Paged(q)
      BY <1>1, <2>1, <3>1, <3>3, <3>4, <3>5, StillBegun, ZenonT(20) DEF Paged
    <3> QED
      BY <1>2, <3>2, <3>6, OneRequestPaged
  <2>2. CASE Len(req[r].got) # req[r].from
    <3>1. req' = [req EXCEPT ![r] = [req[r] EXCEPT !.pc = "page"]]
      BY <1>7, <2>2 DEF StreamEnds, Continue
    <3> QED
      BY <1>2, <1>3, <3>1, OneRequestPaged
  <2> QED
    BY <2>1, <2>2
<1>8. CASE StreamFails(r)
  BY <1>2, <1>3, <1>4, <1>8, OneRequestPaged DEF StreamFails, Continue
<1>9. CASE NextPage(r)
  BY <1>2, <1>3, <1>9, OneRequestPaged DEF NextPage, Continue
<1> QED
  BY <1>5, <1>6, <1>7, <1>8, <1>9

\* AccessInv gives the types, and that a stream has a revision.
LEMMA PagedStep == AccessInv /\ PagedInv /\ [Next]_vars => PagedInv'
<1> SUFFICES ASSUME AccessInv, PagedInv, [Next]_vars PROVE PagedInv'
  OBVIOUS
<1>1. ASSUME UNCHANGED <<backend, history, req>> PROVE PagedInv'
  <2> SUFFICES ASSUME NEW r \in Requests PROVE Paged(req[r])'
    BY DEF PagedInv
  <2>1. Paged(req[r])
    BY DEF PagedInv
  <2> QED
    BY <1>1, <2>1 DEF Paged, Begun, Remaining
<1>2. ASSUME NEW i \in Items, UpdateConsistencyToken(i) PROVE PagedInv'
  BY <1>1, <1>2 DEF UpdateConsistencyToken
<1>3. CASE UNCHANGED vars
  BY <1>1, <1>3 DEF vars
<1> QED
  BY <1>2, <1>3, PagedWrite, PagedCall, PagedStream DEF Next, Handle

\* An increasing sequence has as many entries as their set.
LEMMA IncreasingCounts ==
  ASSUME NEW s \in Seq(Items), Increasing(s), NEW S, S = {s[n] : n \in 1 .. Len(s)}
  PROVE  Cardinality(S) = Len(s)
<1>1. Len(s) \in Nat /\ \A n \in 1 .. Len(s) : s[n] \in Nat
  <2>1. Len(s) \in Nat /\ \A n \in 1 .. Len(s) : s[n] \in Items
    OBVIOUS
  <2> QED
    BY <2>1, AccessAssumption
<1>2. s \in [1 .. Len(s) -> S]
  BY SMT
<1>3. ASSUME NEW m \in 1 .. Len(s), NEW n \in 1 .. Len(s), s[m] = s[n] PROVE m = n
  <2>1. ~(m < n) /\ ~(n < m)
    BY <1>1, <1>3, SMT DEF Increasing
  <2> QED
    BY <1>1, <2>1, SMT
<1>4. s \in Injection(1 .. Len(s), S)
  BY <1>2, <1>3 DEF Injection, IsInjective
<1>5. s \in Surjection(1 .. Len(s), S)
  BY <1>2 DEF Surjection
<1>6. ExistsBijection(1 .. Len(s), S)
  BY <1>4, <1>5 DEF ExistsBijection, Bijection
<1> QED
  BY <1>1, <1>6, FS_CountingElements

\* For any number of items and any limits, a caller that follows a list to its
\* end has received every entry of one snapshot exactly once, however the store
\* is written to between the pages and wherever the streams break off.
THEOREM FollowedListsAreWhole == BackendsSpec => []PagesAreOneList
<1>1. BackendsInit => PagedInv
  BY DEF BackendsInit, Init, PagedInv, Paged, Idle, Request, Lists
<1>2. AccessInv /\ PagedInv /\ [BackendsNext]_allVars => PagedInv'
  BY PagedStep DEF BackendsNext, allVars
<1>3. AccessInv /\ PagedInv => PagesAreOneList
  <2> SUFFICES ASSUME AccessInv, PagedInv, NEW r \in Requests,
                      backend # "allow-all", req[r].pc = "done", req[r].op \in Lists
               PROVE  /\ {req[r].got[n] : n \in 1 .. Len(req[r].got)} = history[req[r].at]
                      /\ Len(req[r].got) = Cardinality(history[req[r].at])
    BY DEF PagesAreOneList, Answered
  <2>1. Begun(req[r]) /\ Remaining(req[r]) = {}
    BY DEF PagedInv, Paged
  <2>2. {req[r].got[n] : n \in 1 .. Len(req[r].got)} = history[req[r].at]
    BY <2>1 DEF Begun
  <2>3. req[r].got \in Seq(Items)
    BY DEF AccessInv, RequestType
  <2> QED
    BY <2>1, <2>2, <2>3, IncreasingCounts DEF Begun
<1> QED
  BY <1>1, <1>2, <1>3, AccessInvariant, PTL DEF BackendsSpec
====
