---- MODULE Startup ----
(***************************************************************************)
(* The configuration of `serve`: every section of the options is completed *)
(* and validated, its config is completed, and only then are the parts     *)
(* constructed from the completed configs, in a fixed order.  What a       *)
(* section's Validate lets through, its constructor must be able to use.   *)
(*                                                                         *)
(* A field is modelled by what the code asks of it: present or absent, in  *)
(* its list or not.  The outcome of reading a file or dialling an address  *)
(* is a field of its own, since no option says it beforehand.              *)
(***************************************************************************)
EXTENDS Authn

\* What a constructor makes of a completed config: "absent" when something outside
\* (a database, a file, a provider) is missing, "unusable" when the config is.
Outcomes == {"ok", "absent", "unusable", "panicked"}

\* --- storage
StorageOptions ==
  [database : {"postgres", "sqlite3", "other"}, sslmode : {"", "valid", "other"},
   outboxMode : {"none", "wal", "other"}, reachable : BOOLEAN]

StorageValidate(o) ==
  /\ o.database \in {"postgres", "sqlite3"}
  /\ o.database = "postgres" => o.sslmode \in {"", "valid"}
  /\ o.outboxMode \in {"none", "wal"}
  /\ o.outboxMode = "wal" => o.database = "postgres"

\* storage.New; NewPgx and the two drivers connect for postgres only.
NewStorage(o) ==
  CASE o.database \notin {"postgres", "sqlite3"} -> "unusable"
    [] OTHER -> IF o.reachable THEN "ok" ELSE "absent"

\* --- authz: the relations repository
RelationsOptions ==
  [impl : {"allow-all", "kessel", "spicedb", "other"}, endpoint : BOOLEAN,
   token : BOOLEAN, schemaFile : BOOLEAN, dials : BOOLEAN]

RelationsValidate(o) ==
  /\ o.impl \in {"allow-all", "kessel", "spicedb"}
  /\ o.impl = "kessel" => o.endpoint
  /\ o.impl = "spicedb" => o.endpoint /\ o.token /\ o.schemaFile

\* Config.Complete dials kessel; when that fails it returns an empty config and
\* no error.
RelationsConfig(o) == IF o.impl = "kessel" /\ ~o.dials THEN "empty" ELSE o.impl

\* NewRelationsRepository reads config.Authz, a nil dereference on an empty config.
NewRelations(o) ==
  CASE RelationsConfig(o) = "empty" -> "panicked"
    [] RelationsConfig(o) \in {"allow-all", "kessel"} -> "ok"
    [] RelationsConfig(o) = "spicedb" -> IF o.dials THEN "ok" ELSE "absent"
    [] OTHER -> "unusable"

\* --- consumer; its config is completed only when it is enabled
ConsumerOptions == [enabled : BOOLEAN, bootstrapServers : BOOLEAN, commitModulo : -1 .. 2]

ConsumerValidate(o) ==
  /\ o.enabled => o.bootstrapServers
  /\ o.commitModulo > 0

\* --- schema repository
SchemaOptions ==
  [repository : {"in-memory", "other"}, type : {"empty", "json", "dir", "other"},
   path : BOOLEAN, loads : BOOLEAN]

\* A mistaken variant: the path is not asked for.
SchemaValidate_NoPath(o) ==
  /\ o.repository = "in-memory"
  /\ o.type \in {"empty", "json", "dir"}

SchemaValidate(o) ==
  /\ o.repository = "in-memory"
  /\ o.type \in {"empty", "json", "dir"}
  /\ o.type \in {"json", "dir"} => o.path

NewSchema(o) ==
  CASE o.repository # "in-memory" \/ o.type \notin {"empty", "json", "dir"} -> "unusable"
    [] o.repository = "in-memory" /\ o.type = "empty" -> "ok"
    [] OTHER -> IF ~o.path THEN "unusable" ELSE IF o.loads THEN "ok" ELSE "absent"

\* --- http and grpc server (their options and configs are the same code), pprof
ServerOptions ==
  [timeout : -1 .. 1, certFile : BOOLEAN, keyFile : BOOLEAN, certOpt : {-1, 0, 4, 5},
   keyPairLoads : BOOLEAN, pprof : BOOLEAN, readOnly : BOOLEAN]

\* pprof's Complete gives an empty port or address its default before Validate asks.
ServerValidate(o) ==
  /\ o.timeout >= 0
  /\ o.certFile <=> o.keyFile
  /\ 0 <= o.certOpt /\ o.certOpt <= 4

\* getTSLConfig loads the key pair when both files are named.
ServerCompletes(o) == o.certFile /\ o.keyFile => o.keyPairLoads

\* --- authn: authn.New for both protocols; oidc.New asks its provider first
NewAuthn(o, providers) ==
  LET chain == AuthnConfig(o).chain
      oidc == \E p \in Protocols : \E i \in Authenticators(chain, p) : chain[i].type = "oidc"
  IN  IF \E p \in Protocols : ~Builds(chain, p)
        THEN "unusable"
        ELSE IF oidc /\ ~providers THEN "absent" ELSE "ok"

\* The constructors in the order of `serve`; the first that does not succeed decides.
Constructed(plan) ==
  CASE plan.storage # "ok" -> plan.storage
    [] plan.storage = "ok" /\ plan.authn # "ok" -> plan.authn
    [] plan.storage = "ok" /\ plan.authn = "ok" /\ plan.authz # "ok" -> plan.authz
    [] OTHER -> plan.schema
====
