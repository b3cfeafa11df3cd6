---- MODULE MCRequests ----
(* Three servers: OIDC or an identity header, in read-only mode; that of    *)
(* the repository's .inventory-api.yaml with its OIDC entry enabled, for    *)
(* the tuple service; open to everybody, with an empty schema repository.   *)
EXTENDS Requests

Entry(type, http, grpc, config_) ==
  [type |-> type, enable |-> TRUE, http |-> http, grpc |-> grpc, config |-> config_]

Server(chain, endpoints, open, readOnly, allowlist, schemas) ==
  [chain |-> chain, endpoints |-> endpoints, allowUnauthenticated |-> open, readOnly |-> readOnly,
   allowlist |-> allowlist, schemas |-> schemas]

Loaded ==
  FromDir([t \in ResourceTypes |->
             [dir |-> "normal", common |-> "lax", reporters |-> [r \in ReporterTypes |-> "strict"]]])

MCConfigurations ==
  {Server(<<Entry("oidc", TRUE, TRUE, "all"), Entry("x-rh-identity", TRUE, FALSE, "nil")>>,
          {}, FALSE, TRUE, {"rbac"}, Loaded),
   Server(<<Entry("oidc", FALSE, TRUE, "some"), Entry("x-rh-identity", TRUE, FALSE, "nil"),
            Entry("allow-unauthenticated", FALSE, TRUE, "nil")>>, TupleService, FALSE, FALSE, {"*"}, Loaded),
   Server(<<LegacyEntry("allow-unauthenticated", "nil")>>, {}, TRUE, FALSE, {}, <<>>)}

Spelled(word, upper, slash, blank) == [word |-> word, upper |-> upper, slash |-> slash, blank |-> blank]
Plain == Spelled("a", FALSE, FALSE, FALSE)
Upper == Spelled("a", TRUE, FALSE, FALSE)
Slash == Spelled("a", TRUE, TRUE, FALSE)
Padded == Spelled("a", FALSE, FALSE, TRUE)
Other == Spelled("b", FALSE, FALSE, FALSE)
Blank == Spelled("", FALSE, FALSE, TRUE)

MCFields == {Plain, Blank, EmptyString}
MCSpellings ==
  [id : {Plain, Upper, Padded, Blank}, type : {Plain, Upper, Slash, Other},
   reporter : {Plain, Upper, Slash, EmptyString}, instance : {Plain, Upper, Blank, EmptyString}]

MCFilters == {{"t1"}, Tuples}
MCFaults == {{"GetReadyz", "CreateTuples", "DeleteTuples", "AcquireLock"}}
====
