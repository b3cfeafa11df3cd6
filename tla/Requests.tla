---- MODULE Requests ----
(***************************************************************************)
(* A request on its way through the servers: the interceptors and          *)
(* middleware in their order, the handler, the usecase's own authorization *)
(* and the relations repository, up to the status the caller receives.     *)
(* Several requests are under way at once, while a test goes on changing   *)
(* the repository (SimpleRelations) beneath them.                          *)
(*                                                                         *)
(* A unary request meets validation, authentication, the read-only guard   *)
(* and the handler, a stream authentication, validation and the handler.   *)
(* What the versions of a report do to the tables is in ResourceStore;     *)
(* here a resource is there or not.  Bulk variants differ from the single  *)
(* ones by what is asked.                                                  *)
(***************************************************************************)
EXTENDS Authn, Schemas, SimpleRelations, Names

CONSTANTS Clients,
          Spellings,         \* the names that requests give their resource
          Fields,            \* what they give in their other fields
          Configurations     \* the servers: chain, its grpc-endpoints, legacy allow-
                             \* unauthenticated option, read-only mode, allowlist of the
                             \* tuple service, schemas

Health == {"GetLivez", "GetReadyz"}
Writes == {"ReportResource", "DeleteResource"}
Checks == {"Check", "CheckSelf", "CheckForUpdate"}
TupleService == {"CreateTuples", "DeleteTuples", "ReadTuples", "AcquireLock"}
Streams == {"StreamedListObjects", "StreamedListSubjects", "ReadTuples"}
Operations == Health \cup Writes \cup Checks \cup TupleService \cup Streams

ASSUME RequestsAssumption ==
  \A c \in Configurations :
    /\ c.chain \in Seq(ChainEntry)
    /\ AuthnCompletes([strategy |-> "first_match", chain |-> c.chain])
    /\ c.endpoints \subseteq Operations
    /\ c.allowUnauthenticated \in BOOLEAN /\ c.readOnly \in BOOLEAN
    /\ c.allowlist \subseteq {"rbac", "*"}

ASSUME SpellingsAssumption ==
  /\ \A f \in Fields : IsString(f)
  /\ \A n \in Spellings : IsString(n.id) /\ IsString(n.type) /\ IsString(n.reporter) /\ IsString(n.instance)

VARIABLES config,      \* the configuration this server was started with
          row,         \* the resource of the requests is in the database
          req

requestVars == <<config, row, req, simpleVars>>

\* The tuple service and the streams are registered with the gRPC server only.
Served(protocol) ==
  IF protocol = "grpc" THEN Operations ELSE Operations \ (TupleService \cup Streams)

ClientIDs == {"", "rbac", "other"}

Statuses == {"none", "OK", "InvalidArgument", "Unauthenticated", "PermissionDenied",
             "Unavailable", "NotFound", "Internal", "Unknown"}

NoCredentials == [token |-> "absent", identity |-> "absent", listed |-> FALSE]

NoRequest ==
  [pc |-> "idle", op |-> "GetLivez", protocol |-> "grpc", credentials |-> NoCredentials,
   authType |-> "none", client |-> "", pending |-> {}, status |-> "none"]

Stages == {"idle", "validate", "authenticate", "readOnly", "handle", "call", "stream", "done"}

Request ==
  [pc : Stages, op : Operations, protocol : Protocols, credentials : Credentials,
   authType : EntryTypes \cup {"none"}, client : ClientIDs, pending : SUBSET Tuples, status : Statuses]

RequestsTypeOK ==
  /\ SimpleTypeOK
  /\ config \in Configurations
  /\ row \in BOOLEAN
  /\ req \in [Clients -> Request]

RequestsInit ==
  /\ SimpleInit
  /\ config \in Configurations
  /\ row \in BOOLEAN
  /\ req = [c \in Clients |-> NoRequest]

\* Every step but a call of the repository leaves the repository alone.
Untouched == Refuse

Continue(c, q) == req' = [req EXCEPT ![c] = q]

\* MapError: what reaches the caller for an error of the layers below it.
MapError(cause) ==
  CASE cause \in {"authz context missing", "self subject missing"} -> "Unauthenticated"
    [] cause = "meta authorization denied" -> "PermissionDenied"
    [] cause = "resource not found" -> "NotFound"
    [] cause = "database error" -> "Internal"
    [] cause \in {"empty field", "schema"} -> "InvalidArgument"
    [] OTHER -> "Unknown"

\* Of a request that fails, only the status is kept.
Respond(q, status) ==
  IF status = "OK" THEN [q EXCEPT !.pc = "done", !.status = status, !.pending = {}]
  ELSE [NoRequest EXCEPT !.pc = "done", !.status = status]

Arrive(c) ==
  /\ req[c].pc \in {"idle", "done"}
  /\ \E protocol \in Protocols : \E op \in Served(protocol) :
       Continue(c, [NoRequest EXCEPT !.op = op, !.protocol = protocol,
                      !.pc = IF op \in Streams THEN "authenticate" ELSE "validate"])
  /\ UNCHANGED <<config, row>>
  /\ Untouched

\* Validation; a stream's message is validated when the handler receives it.
Validate(c) ==
  /\ req[c].pc = "validate"
  /\ \/ Continue(c, [req[c] EXCEPT !.pc = IF req[c].op \in Streams THEN "handle" ELSE "authenticate"])
     \/ Continue(c, Respond(req[c], "InvalidArgument"))
  /\ UNCHANGED <<config, row>>
  /\ Untouched

\* NewWhiteListMatcher.
Whitelisted(op) == op \in Health

\* What callers of an operation may present.
Presented(op) == {r \in Credentials : r.listed <=> op \in config.endpoints}

\* A mistaken variant: a chain that ignores the request lets it through.
Authenticate_AllowsIgnored(c) ==
  /\ req[c].pc = "authenticate"
  /\ \E r \in Presented(req[c].op), client \in ClientIDs :
       LET verdict == FirstMatch(config.chain, req[c].protocol, r)
       IN  IF verdict.decision = "Deny" /\ ~Whitelisted(req[c].op)
             THEN Continue(c, Respond(req[c], "Unauthenticated"))
             ELSE Continue(c, [req[c] EXCEPT !.pc = "readOnly", !.credentials = r, !.authType = verdict.authType,
                                 !.client = IF verdict.authType = "oidc" THEN client ELSE ""])
  /\ UNCHANGED <<config, row>>
  /\ Untouched

validateAuthDecision(verdict) == verdict.decision = "Allow"

\* The claims in the authz context of a request that goes on; a client id comes
\* with OIDC alone.
ensureAuthzContext(q, r, verdict, client) ==
  [q EXCEPT !.pc = IF q.op \in Streams THEN "validate" ELSE "readOnly",
            !.credentials = r, !.authType = verdict.authType,
            !.client = IF verdict.authType = "oidc" THEN client ELSE ""]

\* Authentication and the stream interceptor: only Allow goes on.
Authenticate(c) ==
  /\ req[c].pc = "authenticate"
  /\ IF Whitelisted(req[c].op)
       THEN Continue(c, [req[c] EXCEPT !.pc = "readOnly"])
       ELSE \E r \in Presented(req[c].op), client \in ClientIDs :
              LET verdict == FirstMatch(config.chain, req[c].protocol, r)
              IN  IF ~validateAuthDecision(verdict)
                    THEN Continue(c, Respond(req[c], "Unauthenticated"))
                    ELSE Continue(c, ensureAuthzContext(req[c], r, verdict, client))
  /\ UNCHANGED <<config, row>>
  /\ Untouched

\* A mistaken variant: DeleteResource is not in the list of write endpoints.
IsWriteEndpoint_ReportOnly(op) == op = "ReportResource"

\* UnaryReadOnlyInterceptor and HTTPReadOnlyMiddleware, only in read-only mode.
IsWriteEndpoint(op) == op \in Writes

ReadOnly(c) ==
  /\ req[c].pc = "readOnly"
  /\ Continue(c, IF config.readOnly /\ IsWriteEndpoint(req[c].op)
                   THEN Respond(req[c], "Unavailable")
                   ELSE [req[c] EXCEPT !.pc = "handle"])
  /\ UNCHANGED <<config, row>>
  /\ Untouched

----
(* The handlers *)

SimpleMetaAuthorizer(q) ==
  IF q.protocol = "grpc" THEN q.op # "CheckSelf"
  ELSE q.authType = "x-rh-identity" /\ q.op = "CheckSelf"

WhitelistMetaAuthorizer(q) ==
  /\ q.protocol = "grpc" /\ q.authType = "oidc" /\ q.client # ""
  /\ "*" \in config.allowlist \/ q.client \in config.allowlist

\* The tuple service has its own authorizer unless the server is open anyway.
MetaAuthorized(q) ==
  IF q.op \in TupleService /\ ~config.allowUnauthenticated
    THEN WhitelistMetaAuthorizer(q)
    ELSE SimpleMetaAuthorizer(q)

\* The converters of the requests, as far as they may refuse one.
Commands(op, n, f, g) ==
  CASE op = "ReportResource" -> ToReportResourceCommand(n, f, g)
    [] op = "DeleteResource" -> ReporterKeyFromResourceReference(n)
    [] op \in Checks -> ResourceReferenceFromProto(n)
    [] op = "StreamedListObjects" -> ToLookupObjectsCommand(n, n)
    [] op = "StreamedListSubjects" -> ToLookupSubjectsCommand(n, n)
    [] op = "CreateTuples" -> {<<t, l>> : t \in RelationshipToRelationsTuple(n), l \in FencingCheckFromProto(<<f, g>>)}
    [] op = "DeleteTuples" -> FencingCheckFromProto(<<f, g>>)
    [] op = "AcquireLock" -> NewLockId(f)
    [] op \in Health \cup {"ReadTuples"} -> {<<>>}

Refusable == {op \in Operations : \E n \in Spellings, f, g \in Fields : Commands(op, n, f, g) = {}}
Convertible == {op \in Operations : \E n \in Spellings, f, g \in Fields : Commands(op, n, f, g) # {}}

\* The converters refuse what the proto rules let through; then the usecase
\* enforces its meta-authorization, and CheckSelf finds its subject.
Handle(c) ==
  /\ req[c].pc = "handle"
  /\ \/ /\ req[c].op \in Refusable
        /\ Continue(c, Respond(req[c], MapError("empty field")))
     \/ /\ req[c].op \notin Health /\ ~MetaAuthorized(req[c])
        /\ Continue(c, Respond(req[c], MapError("meta authorization denied")))
     \/ /\ req[c].op = "CheckSelf" /\ MetaAuthorized(req[c])
        /\ Continue(c, Respond(req[c], MapError("self subject missing")))
     \/ /\ req[c].op \in Convertible
        /\ req[c].op \in Health \/ MetaAuthorized(req[c])
        /\ Continue(c, [req[c] EXCEPT !.pc = "call"])
  /\ UNCHANGED <<config, row>>
  /\ Untouched

\* GetReadyz reports an unhealthy repository in its answer, with status OK.
CallHealth(c) ==
  /\ req[c].pc = "call" /\ req[c].op \in Health
  /\ Continue(c, Respond(req[c], "OK"))
  /\ UNCHANGED <<config, row>>
  /\ Untouched

SchemaVerdicts ==
  {Accepts(config.schemas, t, r, x, y) :
     t \in ResourceTypes, r \in ReporterTypes, x, y \in Representations}

\* The transaction of the report or the delete commits; a report is checked
\* against the schema before it, a delete must find its resource.
CallResource(c) ==
  /\ req[c].pc = "call" /\ req[c].op \in Writes
  /\ \/ /\ req[c].op = "ReportResource"
        /\ \E accepted \in SchemaVerdicts :
             IF accepted
               THEN Continue(c, Respond(req[c], "OK")) /\ row' = TRUE
               ELSE Continue(c, Respond(req[c], MapError("schema"))) /\ UNCHANGED row
     \/ /\ req[c].op = "DeleteResource"
        /\ IF row
             THEN Continue(c, Respond(req[c], "OK")) /\ row' = FALSE
             ELSE Continue(c, Respond(req[c], MapError("resource not found"))) /\ UNCHANGED row
  /\ UNCHANGED config
  /\ Untouched

CallCheck(c) ==
  /\ req[c].pc = "call" /\ req[c].op \in Checks
  /\ \E asked \in SUBSET Tuples \ {{}} :
       IF req[c].op = "CheckForUpdate"
         THEN ReadLatest(asked)
         ELSE \E demand \in 0 .. MaxRevisions : CheckTuples(asked, demand)
  /\ Continue(c, Respond(req[c], "OK"))
  /\ UNCHANGED <<config, row>>

CallTuples(c) ==
  /\ req[c].pc = "call" /\ req[c].op \in TupleService \ Streams
  /\ \/ req[c].op = "CreateTuples" /\ \E S \in SUBSET Tuples : CreateTuples(S)
     \/ req[c].op = "DeleteTuples" /\ \E filter \in Filters : DeleteTuples(filter)
     \/ req[c].op = "AcquireLock" /\ AcquireLock
  /\ Continue(c, Respond(req[c], "OK"))
  /\ UNCHANGED <<config, row>>

\* The database fails a write, or a check that looks its token up; the relations
\* repository fails a call.
CallFails(c) ==
  /\ req[c].pc = "call"
  /\ \/ /\ req[c].op \in Writes \cup {"Check", "CheckSelf"}
        /\ Continue(c, Respond(req[c], MapError("database error")))
     \/ /\ req[c].op \in errors \ Health
        /\ Continue(c, Respond(req[c], MapError("relations error")))
  /\ UNCHANGED <<config, row>>
  /\ Untouched

\* The repository collects the results of a list before it returns the stream.
OpenStream(c) ==
  /\ req[c].pc = "call" /\ req[c].op \in Streams
  /\ \E filter \in Filters :
       /\ ListLatest(filter)
       /\ Continue(c, [req[c] EXCEPT !.pc = "stream", !.pending = filter \cap tuples])
  /\ UNCHANGED <<config, row>>

\* Recv and Send.
StreamEntry(c) ==
  /\ req[c].pc = "stream"
  /\ \E t \in req[c].pending :
       Continue(c, [req[c] EXCEPT !.pending = @ \ {t}])
  /\ UNCHANGED <<config, row>>
  /\ Untouched

\* io.EOF, or Send fails as the caller is gone.
StreamEnds(c) ==
  /\ req[c].pc = "stream"
  /\ \/ req[c].pending = {} /\ Continue(c, Respond(req[c], "OK"))
     \/ req[c].pending # {} /\ Continue(c, Respond(req[c], "Unavailable"))
  /\ UNCHANGED <<config, row>>
  /\ Untouched

Process(c) ==
  \/ Validate(c) \/ Authenticate(c) \/ ReadOnly(c) \/ Handle(c)
  \/ CallHealth(c) \/ CallResource(c) \/ CallCheck(c) \/ CallTuples(c) \/ CallFails(c)
  \/ OpenStream(c) \/ StreamEntry(c) \/ StreamEnds(c)

RequestsNext ==
  \/ \E c \in Clients : Arrive(c) \/ Process(c)
  \/ TestCalls /\ UNCHANGED <<config, row, req>>

RequestsSpec == RequestsInit /\ [][RequestsNext]_requestVars

----
(* Properties *)

\* A request gets past the usecase's gate only if an authenticator that is enabled
\* for its protocol allowed its credentials, the first of the chain to do so being
\* the one whose claims it carries, and the rules in the comments of the
\* meta-authorizers hold: nothing but check_self over HTTP, and only with an
\* identity header; check_self not over gRPC; the tuple service for an OIDC client
\* of the allowlist, unless the server is open to everybody. That an authenticator
\* before it denied the request does not count: FirstMatch goes on.
AnsweredOnlyIfAdmitted ==
  \A c \in Clients : req[c].pc \in {"call", "stream"} \/ req[c].status = "OK" =>
    \/ req[c].op \in Health
    \/ /\ \E i \in Allowing(config.chain, req[c].protocol, req[c].credentials) :
            /\ \A j \in Allowing(config.chain, req[c].protocol, req[c].credentials) : i <= j
            /\ AuthTypeOf(config.chain[i]) = req[c].authType
       /\ req[c].protocol = "http" <=> req[c].op = "CheckSelf"
       /\ req[c].protocol = "http" => req[c].authType = "x-rh-identity"
       /\ req[c].op \in TupleService /\ ~config.allowUnauthenticated =>
            req[c].authType = "oidc" /\ config.allowlist \cap {"*", req[c].client} # {}

\* A server in read-only mode leaves the resources as they are, whatever is
\* requested of it over either protocol; the tuple service, which the guard leaves
\* alone, writes tuples and not resources.
ReadOnlyKeepsResources == [][config.readOnly => row' = row]_requestVars

\* Whatever the requests to come are called, their names meet: see NamesAgree.
SpellingsAgree == RequestsInit => NamesAgree(Spellings, Fields)
====
