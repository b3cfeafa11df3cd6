# A TLA+ model of the Kessel Inventory API

The Inventory API stores reports about resources and keeps the authorization
tuples that follow from them in a relations store. This directory models the
service end to end: how a process starts, serves and stops; how a request gets
through the servers; how reports and deletes change the database under
concurrency; how the consumer turns the outbox into tuples and how several
consumers take a partition from each other; how a request waits until its own
write is visible; how fresh the answers of the read side are; and what the jobs
and migrations do to the same database. TLC checks the models on small
instances; TLAPS proves most of the safety properties for every value of the
constants.

## The system

```
 options --> serve: construct, launch, select, shutdown            migrate (init container)
                |                                                          |
 client --> validation, authn, read-only, meta-authz                       v
    |  ReportResource/Delete --> use case --serializable tx--> Postgres (row, representations)
    |  waits (IMMEDIATE)                                         | outbox, in the WAL    ^
    |                                                            v                       |
 ListenManager <--pg_notify-- consumer <------ Kafka <------ Debezium      purge, metrics jobs
                                 | \--- consistency token --> Postgres (resource.ktn)
                                 v
 client --Check/List/tuples--> use case --> SpiceDB | relations service | allow-all | in-memory
```

| Part | State | Operations | Module |
|---|---|---|---|
| Domain model, `internal/biz/model` | resource row: generation, reporter and common version, tombstone, token | `NewResource`, `Update`, `Delete`, `CalculateTuples` | `ResourceModel` |
| Names, `biz/model/common.go`, converters | none: pure conversions | constructors, request converters, store conversions | `Names` |
| Schemas, `inmemory_schema_repository.go`, `schema.go` | none: loaded at start | load from directory or cache, validate a report, diff relations | `Schemas` |
| Repository, `resource_repository.go` | row, common and reporter representations, outbox | `Save`, finders by key, version and transaction id | `Inventory` |
| Use cases and transactions, `resource_service.go`, `gorm_transaction_manager.go` | handlers in flight, transaction snapshots | `ReportResource`, `Delete`, the idempotency check, both retry loops | `ResourceStore` |
| Consumer, `internal/consumer`, and its loop in `cmd/serve` | position, stored and committed offsets, attempts | `Consume`, tuple calls, token update, `commitStoredOffsets`, `Shutdown`, restart | `Replication` |
| Rebalancing and fencing, `RebalanceCallback`, `AcquireLock` | assignment, lock tuple, lock tokens | assign, acquire, fenced write, revoke | `ConsumerGroup` |
| Read-after-write, `internal/pubsub` | subscriptions, channels, breaker, notifier connection and mutex | `Subscribe`, `BlockForNotification`, `Notify`, `Run` | `ReadAfterWrite` |
| Reads, `Check*`, `StreamedList*`, `ReadTuples` over each back end | requests in flight, page position | `resolveConsistency`, `determineConsistency`, stream relay | `Access` |
| Tokens for the relations service, `grpc_relations_repository_token.go` | cache, calls in flight, time | `getToken`, `CacheToken`, `IsJWTTokenExpired` | `TokenClient`, with `Access` in `Backends` |
| In-memory repository, `relations_simple.go` | version, tuples, snapshots | every method | `SimpleRelations`, its promise `RelationsStore` |
| Servers and middleware, `internal/server`, `internal/middleware`, `internal/service` | requests in flight | interceptors in order, handlers, error mapping | `Requests`, with `Authn` |
| Process, `cmd/serve`, options and configs | goroutines, servers, signals, consumer loop | configure, construct, launch, select, shutdown | `Serve`, with `Startup`, `Authn`, `Schemas` |
| Jobs and migrations, `cmd/jobs`, `data/migrations` | tables, summaries, advisory lock | batches of the purge, summary and retention, migrate | `Jobs`, `Migrations`, composed in `Operations` |

### What is hard, and what must hold

* **Store.** Two requests on one resource read the same row and each write back
  every column of what they computed. No update may be lost, versions must not
  collide or skip (the consumer looks up `version - 1`), and a newer consistency
  token must survive. The idempotency check runs *outside* the transaction.
* **Consumer.** It crashes or fails between any two calls and replays up to
  `commit-modulo` messages; a delete reads the *latest* representation. No
  message may be dropped, and in the end the tuples must be those of the
  last reports.
* **Group.** A consumer that lost the partition keeps running until its
  callback does; the fencing token must keep it from undoing newer writes.
* **Waiting.** Notifications go to everyone through channels of two; a handler
  must not be told of somebody else's event, nor leave a subscription behind.
* **Reads.** The token is read from Postgres and used in a later call, while
  both stores move on; pages of one list are separate calls; bearer tokens
  expire while unordered calls share their cache.
* **Requests.** Unary calls and streams meet validation, authentication and the
  read-only guard in different orders and code; every path spells the names of a
  resource in its own way.
* **Process.** The main goroutine and the consumer loop run the same shutdown,
  perhaps at once, perhaps while the servers are starting; options that validate
  must construct.
* **Operations.** A purge deletes three tables batch by batch beside reports;
  migrations run outside transactions in pods that may die.

`PROJECT.json` lists each of these hazards at its line with the properties that
cover it.

## Modules

### ResourceModel, Inventory: what the store promises

`ResourceModel` holds the pure part: a `Resource` record (generation `gen`,
reporter version `rv`, common version `cv`, tombstone, token `ktn`), and the
effect of a report or a delete on it. Representation data is reduced to the
workspace id, the only field the tuple calculation of the default schemas
reads. `Inventory` has the database (`row`, `common`, `reps`, `outbox`) and the
atomic operations `Report`, `DeleteResource` and `UpdateConsistencyToken`. It is the
abstract specification.

### ResourceStore: concurrent handlers implement it

Each handler has a program counter through the code of `ReportResource`:
receive, check idempotency, begin (read a snapshot), commit or fail, retry.
Postgres is modelled by what `HandleSerializableTransaction` relies on: a
transaction whose reads are stale gets SQLSTATE 40001, and unique indexes
refuse a second row. A COMMIT may fail for the caller and yet have taken effect;
that is the status `commitfailed`, and the history variable `applied` says which
requests did. A duplicate transaction id ends in "skipped" or, with the
check off, in one more run with a generated id. The consumer appears as `StoreToken`. The
refinement mapping to `Inventory` is the identity on the database variables:
`InventorySpec` is a property of a run and a theorem.

### Replication: from the outbox to the tuples

Extends `Inventory` with the consumer loop: poll, compute the tuples from the
database *at that time*, create and then delete, each with bounded attempts
(a call that fails may still have taken effect), store the token, store the
offset, commit at every `CommitModulo`-th offset. A failure ends the consumer,
`serve.go` makes a new one up to `ConsumerMaxRetries`, then the process exits
and the platform (external) restarts it. Debezium and Kafka (external) deliver
the outbox in commit order on one partition. SIGTERM is a shutdown followed by
the exit. `UnderflowRejected` says whether the driver refuses 2^64 - 1 as a bigint.

### ConsumerGroup: who may write

Several consumers and one partition. Broker assignment and the callback that
reacts to it are separate steps, so two consumers may consume at once. The lock
is the set `locks` of valid tokens; `AcquireLock` reads it, then replaces it
under a precondition, and is retried `OperationMaxRetries` times. A tuple write
carries the token as a precondition, except an empty one, which matches any
lock: SpiceDB treats an empty `OptionalSubjectId` as absent. Only the owner's
commits reach the broker, and the Kafka client ignores the callback's error.

### ReadAfterWrite: waiting for one's own write

A request stands for its transaction id. It subscribes *before* committing,
commits, and waits under the circuit breaker (gobreaker, external, with its
generations). The notifier's driver has its mutex and connection; `Distribute`
is the ListenManager, which drops what a full channel cannot take. A token that
cannot be stored makes the consumer pass on without notifying
(consumer.go:226-229). `missed` keeps the ids that either of these left without
a notification. `Others` are events nobody waits for. Replays send a notification again; that is not
modelled here. The listener's end ends the process, which is in `Serve`.

### Access, TokenClient, Backends: what the read side answers

A relations store (external) is a sequence of snapshots, and a call is answered
from one at least as new as its consistency demands. A request arrives with a
promise (`floor`), its consistency is resolved (`resolveConsistency`, with the
database read it makes), then translated (`determineConsistency` for SpiceDB,
the proto consistency for the relations service) and called, with writes in
between. Lists relay stream entries up to a limit, may break off, and go on
from the last continuation token; a cursor pins its snapshot. The allow-all
back end answers yes. Read handlers share no state, so one request against a
changing store shows what any number would. `TokenClient` has the calls to the
relations service and their bearer tokens: the cached one if it has not expired, else a new
one, with time passing in between. A call does not ask for its token again, so
the two share no state; `Backends` is their union, each explored with the other
at rest (`half`), which makes the state space a sum and not a product.

### RelationsStore, SimpleRelations, Names, Authn, Requests: one request

`RelationsStore` is the versioned store that the comment of
`SimpleRelationsRepository` describes: a write makes one revision and returns it
as its token; a check is answered from one revision at least as new as the
caller demands (or the last), with a token that is not older; a list is of the
last revision, and its token demands nothing (`ReadTuples` returns that of
minimize_latency), so a check after a list may see an older revision.
`SimpleRelations` is the in-memory repository with its
retained snapshots; it implements the promise by `INSTANCE ... WITH history <-
past`, where `past` is a history variable. `Authn` builds the chain of authenticators
for a protocol from new or legacy options and decides on credentials. `Names`
has every conversion between a request's names, the row, the event, the
tuple and back; a string is its word and how it is spelled. `Requests` composes them: a
request of any operation over gRPC or HTTP passes validation, authentication,
the read-only guard and its handler up to its status, on servers of several
configurations. Its credentials are a bearer token and an identity header, each
absent, valid or not, and whether its endpoint is one of the chain's
`grpc-endpoints`.

### Schemas, Startup, Serve: one process

`Startup` has `Validate`, `Complete` and the constructors of each section of the
options by what they ask of their fields. `Serve` runs them in the order of
`NewCommand`, launches the goroutines and waits in the select; a signal, the
end of a server, of pprof or of the listener, or the consumer loop may come
first, and both goroutines may be inside `shutdown`. The consumer loop goes
through its messages, since the database is closed before the consumer is.
`Schemas` loads the schema directory and the cache made of it and computes the
tuples of an update from relation definitions.

### Jobs, Migrations, Operations: the rest of the database's users

`Jobs` keeps the rows of the tables apart, as the purge separates them; reports
and deletes of the service commit between its batches. The metrics job stores a
summary and deletes old ones. `Migrations` has pods of two releases with their
own lists of migrations, one session lock, and crashes before, in and after a
migration. In `Operations` a deployment has a rollout with the metrics job, or a purge:
a purge runs by hand into a complete schema.

## Runs

Each run is a `.cfg` with the module it instantiates; the `MC*` modules only
give constants their values and define symmetry sets.

| Run | Instance | Shows |
|---|---|---|
| `store_idempotent` | 3 handlers, 1 key, 1 client id that may be reused, 2 serialization attempts | no lost update, no collision or gap of versions, outbox in version order, a repeated id applied once, also after a commit whose answer was lost, tokens never go back, lifecycle moves forward, and the refinement of `Inventory` |
| `store_retrying` | 2 handlers, check off | a reused id is replaced by a generated one; an acknowledged report published one event, one whose commit failed at most one, the others none; every request is answered (liveness) |
| `repl` | 1 key, 2 workspaces, 4 events, 2 failures, 3 processes | nothing committed unapplied, no stale tuple, live resources are bound (except the case below), tokens cover creations; the consumer catches up (liveness) |
| `raw` | 2 waiting requests, 2 other events, breaker threshold 0, 1 lost connection | a notified handler's own event is replicated; subscriptions are those of the requests under way; a waiting handler is notified without its deadline, unless its notification was missed or the connection lost (liveness) |
| `group` | 2 consumers, 3 messages, 4 assignments, 1 failure | one valid lock token; nothing committed unwritten; rewrites are followed, up to two named cases |
| `access` | 1 request, 2 items, 3 revisions, limit 2, 1 failure; 2 calls, lifetimes 0 and 2, time to 3 | answers as fresh as promised; a check of what did not change since the promised revision is right, item by item; pages form one list; no call is sent with a token that was expired when it was taken |
| `operations` | 2 purged keys and another, batches of 1, 2 purges, 3 days; 2 pods, 4 migrations, 1 crash | a purge leaves orphans only to a report beside it, and finishes when run again; the latest summary survives; recorded migrations are complete; a rollout ends (liveness) |
| `serve` | every authentication chain of at most 2 entries, 2 messages | accepted options construct; the process returns shut down and panics in three named places only; no commit without its tuples; directory and cache accept the same reports; updates lead to the current tuples; the process ends when told to (liveness) |
| `requests` | 1 client, 3 servers, 2 tuples, 3 versions | only those are answered whom an authenticator of their protocol and the meta-authorizer's rules admit; read-only mode changes no resource; every spelling of a name meets its own row and tuples; the in-memory repository refines `RelationsStore` |

Three more expect a violation; see below.

**Bounds.** With three handlers a request can lose the race to each of the others
and so use up its attempts. Resources are independent but for
transaction ids, so one key suffices; four events cover
report, move, delete, revive, with the consumer anywhere behind them. Two
failures allow one in the recovery from another; a commit modulus of 2 leaves
an applied but uncommitted message to replay. Two other events fill a channel
of `ChanSize`, which `EventuallyNotified` must then excuse, as it does a token
that could not be stored. The breaker's
threshold (2 in `serve.go`) is a constant, set to 0 or 1 so that one or two
failures trip it and there is a request left to probe.
Four assignments let a partition go back and forth twice. Three revisions give
a write between reading the token and the call, and one between pages; two
items and a limit of 2 give a list that ends exactly at a page, and a limit of
1 one that takes several. Two calls are enough for one to store its token
over another's, and time runs past the end of a cached one. Two batches of one row put a
report between any two deletes of a purge, a second purge finishes what the first
left, and three days outlive a retention of one. The old pod knows three of
four migrations, the third of which is the concurrently built index; a crash of
either leaves the other with it. A request meets what it shares with others, the
repository and the resource, in one step, its call, so one client that repeats
itself meets all there is to meet; the theorems cover any number. Its three
servers are a read-only one with OIDC or an identity header, that of the
repository's `.inventory-api.yaml` with its OIDC entry enabled for the tuple service,
and an open one. Symmetry is used over handlers and consumers, only in runs without liveness
properties; the temporal properties of `store_idempotent` are action properties
and the refinement, all symmetric.

**Deadlock** is checked in `requests`, whose clients can always begin again. In
the others handlers, processes and pods end, and bounded logs run out.

**Fairness.** Weak fairness of the steps of a handler, of the consumer loop,
of the notifier, of the listener and, in `Serve`, of the main goroutine, the
consumer loop and the servers: goroutines that can run do, and the platform
restarts a process that exited. In `Operations` each pod's migration steps are strongly
fair: two pods compete for one lock, and Postgres queues waiters for an advisory
lock, so a pod that is able to take it again and again in the end does. Clients,
failures, crashes, signals, deadlines and the breaker's timer get none. `group`, `access`
and `requests` state safety only.

**Types.** `TypeOK` of `ResourceStore` is checked and proved. The type invariants
of the other modules describe their state; those the proofs need are parts of
their inductive invariants, and `RequestsTypeOK` is a theorem.

## Where the code and its documentation disagree

Three runs expect a violation; each checks one statement the repository makes.

| Run | Statement | What the code does |
|---|---|---|
| `repl_revive` | lifecycle_test.go:17, re-reporting restores access | report, delete, report in the same workspace: `CalculateTuples` compares with the version before the deletion, finds no difference, and creates no tuple |
| `raw_driver` | driver.go:101, a lost connection is re-established | `ensureConnected` calls `Connect` with the mutex held that `Connect` locks |
| `serve_fatal` | consumer GUIDELINES.md:27, fatal errors stop the consumer and reach the error channel | `Errors` is never made (consumer.go:119): the send blocks the consumer for ever and the process goes on without one |

`LiveIsReplicated` holds up to the first of them, which it names
(`RevivedInPlace`).

Other observations made on the way have no run of their own:

* A resource created without a common representation gets its first one as
  version 0 of an *updated* event, and the lookup asks for `0 - 1`
  (resource_repository.go:317), although resource_report_event.go:81 says nil
  prevents the underflow. `EventuallyCaughtUp` names the case
  (`Unprocessable`).
* After a move the stored token is that of the create; the delete of the old
  tuple has a later revision (consumer.go:539). `TokenCoversCreate` promises no more.
* `retries` of the consumer loop is never reset (serve.go:351), where
  retry/options.go:27 speaks of retries to process *a message*.
* Without its exceptions `RewritesAreFollowedInTime` fails: a consumer still in
  its assignment callback after losing the partition takes the lock from the new
  owner, since `AcquireLock` is retried without regard to ownership
  (consumer.go:722); `late` names this case, and `kept` that of offsets kept
  from a failed commit at revocation.
* With `DefaultToAtLeastAsAcknowledged` off, a `Check` without consistency is
  resolved to minimize_latency before it reaches `determineConsistency`, so
  `FullyConsistentAsDefault` does not apply to it.
* `relations.Config.Complete` drops the errors of the kessel config
  (config.go:50), and the constructor of the repository dereferences the empty one.
  `AcceptedOptionsConstruct` excludes this case by name; `OrderlyExit` has it as the
  only panic of the constructors.
* serve.go:412 says that `shutdown` "gracefully closes all server components". It
  stops the servers without waiting for them, panics when a signal comes before
  `App` is assigned, and with a disabled consumer ends in a panic every time: it is
  given the address of a zero consumer (serve.go:347), whose nil client
  `Shutdown` asks whether it is closed (consumer.go:652). All the rest is closed by then;
  these are the other two panics of `OrderlyExit`.
* authn GUIDELINES.md:23 and :32 have a denial of the OIDC authenticator as final,
  and .inventory-api.yaml:22 says that OIDC must succeed for its endpoints. In the
  chain it is one vote: `FirstMatch` goes on after a Deny and returns any later
  Allow, as its own comment says (first_match.go:38-41).
  `AnsweredOnlyIfAdmitted` states what the code does. For the tuple service its
  own rule still asks for an OIDC client of the allowlist.
* Two first acquisitions of a lock each create one without a precondition
  (spicedb_relations_repository.go:610), and both tokens are valid. `OneValidToken`
  and `RewritesAreFollowedInTime` assume that a lock exists.
* A report of the purged type during a purge may leave a reporter row without
  its resource, which the next purge finds (`OrphansNeedAReport`).
* An index whose concurrent build is cut off is skipped by `IF NOT EXISTS` in the
  next run and recorded (`RecordedIsComplete` names the case).
* Names: two reporter instances with the same local id share one tuple object; the
  tuple service neither normalises types nor trims the ids of filters, while the
  ids of created tuples are trimmed; a reporter type keeps its slashes on the
  way to SpiceDB and is refused on the way back. `NamesAgree` states what
  does agree and under which conditions.

## Proofs

All theorems hold for every value of the constants that satisfies the named
assumptions of the modules (retry limits and modulus are natural numbers,
server ids are transaction ids, flags are Boolean, accepted chains complete, the
tuple store has finitely many items, and the like).

* **InventoryProofs.** `CommonVersionsContiguous` and `PrimaryKeysNeverCollide`
  are not inductive: that the next version is free depends on the last stored one
  being the maximum, also while the row's own `cv` is nil. `InventoryInv` adds
  that the last common version is a version, and that every reporter
  representation is at or below the row's (generation, version), in lexical
  order. `SaveKeepsInv` proves the step once for `Save`; report, delete and
  token update are instances. From it: `InventoryTypeCorrect`,
  `VersionsContiguous`, `NoPrimaryKeyCollision`, and the action property
  `LifecycleForward`. `OutboxInv` relates the outbox to the rows: which events
  carry which versions, in which order, and what the last event of a key says of
  its row (`OutboxInVersionOrder`).
* **ResourceStoreProofs.** `StoreInv` is `InventoryInv` with the handlers'
  types. `StepRefines`: a commit whose snapshot is current is the atomic
  operation, and every other step stutters. Hence `StoreImplementsInventory`,
  through which the invariants of `Inventory` carry over
  (`StoreKeysNeverCollide`). `StoreKeepsTokens` is an action property of the
  write-back. `ReportsAppliedOnce` needs one more invariant: every report that took effect
  left a representation with its transaction id (`ReportsRecorded`), so the
  unique index refuses its repetition. `ReportsPublishOneEvent` counts: there are
  as many reports that took effect as events of reports (`EventsCounted`), and those
  are the acknowledged ones and some of those whose commit failed
  (`AppliedReturned`, a part of `StoreInv`).
* **ConsumerProofs.** `CommittedIsAlwaysApplied`. `ProgressInv`: the
  committed offset, every stored one and the position have everything before them
  done, and a message at its token or its offset is done itself. The proof turns on
  the retries: a message at a tuple call has something to create or delete, so
  that starting over cannot jump past its calls. The rest of the module is about
  one resource: `Settled(k, n)` says what its tuples are when the first n events
  are processed. They need not be those of event n, since a replay leaves what
  later events wrote; but each is of a representation that the n events have not
  overtaken (`BoundAhead`), a deleted resource with no event to come has none
  (`DeletedUnbound`), and the latest workspace is among them if all that is not
  overtaken agrees on it (`LatestBound`). `CallKeepsSettled`, `WorkDoneSettles` and
  `SaveKeepsSettled` show what a call, a finished message and a report do to it.
* **ReplicationProofs.** `ReplicationInv` says that of every resource, at the position and
  at *every offset at which a later consumer may resume* (`Bounds`): the committed
  one and all stored ones. A replay therefore starts from a place whose
  `Settled` still holds. `MessageInv` ties the calculated work to the message although
  reports arrive meanwhile, `TokensInv` and `TokenDue` do the same for tokens: one
  that is behind its creation has an event still to come that will store it, or was
  passed over. With the position at the end of the outbox nothing is ahead, and
  `NoTupleIsStale`, `LiveIsAlwaysReplicated` and `TokensCoverCreates` follow.
  A report comes with an unused transaction id (`FreshTxId`), so `Produce` is
  disabled when the set of ids is used up.
* **ConsumerGroupProofs.** `LockInv`: there is exactly one token, and whoever is
  about to replace the lock read one; so replacement cannot add a second
  (`LockIsExclusive`, given that a lock exists). `OffsetInv`: what is committed,
  stored, or a position to go on from has every message before it written
  (`NothingCommittedUnwritten`). `RewriteInv`: unless one of the two named cases
  happened, a consumer that owns the partition or has the valid token is at or
  behind the message after the last write, and when these are two consumers the
  owner is still in its callback, so nobody commits while another one writes
  (`RewritesFollowedInTime`). It too assumes that a lock exists: after two first
  acquisitions both consumers write with valid tokens.
* **RequestsProofs, on ReadAfterWrite.** `SubscriptionsAlwaysMatch` is inductive with the
  type of `rpc`: every way out of the handler goes through `Return`.
  `NotifiedMeansReplicated` needs `SentInv`: what the notifier holds, the wire
  and each channel carry are replicated ids. `OneProbeAtATime` needs that
  no request was admitted by a later generation than the breaker's, so a new
  generation has admitted none (`ProbeInv`).
* **BackendsProofs.** `AccessInv` says of each request in flight that what it
  is about to ask for covers what it was promised, and that its answers are those
  of the revision it recorded; the stores only move forward, so a promise met
  once stays met (`AnswersAreFresh`); and an item that did not change since has in the
revision that was read the relation it has now (`SettledChecksAnsweredRight`). `PagedInv` builds
  on it: what a caller has received of a list is a beginning of one snapshot's
  list (`Begun`), also across pages, writes and broken streams; and a page that
  brought nothing yet has room for an entry, so that an empty one means the end. That
  last part needs page sizes to be positive (`PageSizesPositive`), which only a store
  without items could break. An increasing list then has as many entries as
  the snapshot (`FollowedListsAreWhole`). `TokenInv` says what a call has in hand
  at each of its steps (`BearersLive`).
* **OperationsProofs, on Operations.** `MigrationsInv` relates each pod's place in the
  migrations to the lock, to what is recorded, and to how far its current
  migration got (`OnePodMigrates`, `RecordedMigrationsAreComplete`).
  `PurgeInv`: a resource and its reporter resource share id and key, and a
  phase of a purge that nothing disturbed has left no row to the phases before
  it (`OrphansNeedReports`, `PurgesLeaveNothing`). `MetricsInv`: the job that
  cleans up has today's summary, and a retention is at least a day
  (`LatestSummaryIsKept`).
* **OperationsProofs, on Serve.** `LifeInv` follows the process from its options to its
  end. What was kept of the options is usable, since what validation lets through
  the constructors build, chains of any length included
  (`AcceptedChainBuilds`, `AcceptedAlwaysConstruct`). Until the launch only the main
  goroutine runs; and both goroutines may be in `shutdown` at once, so
  `ShutdownInv(g)` says for each what the steps behind it have done and the other
  does not undo (`ExitsOrderly`). `ReplicatedInv` relates the offsets to the
  messages with tuples, wherever the consumer is when another goroutine closes
  it and commits (`CommittedIsAlwaysReplicated`). Of the schemas, for any resource
  types, reporter types and directory trees: the directory and the cache made of it
  load the same (`SourcesAgreeAtStartup`), and the difference of any two
  representations leads from the tuples of one to those of the other
  (`UpdatesAreAlwaysExact`), because no two definitions write one relation.
* **RequestsProofs, on Requests.** `RequestsInv` follows a request: past authentication an
  authenticator of its protocol's chain let it through, past the gate the
  meta-authorizer did, and on a read-only server it is never at a write
  (`OnlyTheAdmittedAreAnswered`, `ReadOnlyModeKeepsResources`,
  `RequestsAreWellTyped`). `StoreInv`: the history ends with the current
  tuples and every retained snapshot is the one of its version. With it each
  step of the in-memory repository is a step of `RelationsStore` or a stutter
  (`SimpleRelationsIsARelationsStore`); the oldest suitable snapshot exists since the
  natural numbers are well-founded. `SpellingsAlwaysAgree` is about the names alone,
  for any words in any spelling: the conversions are idempotent, so what a list
  returns can be asked for again; each path comes down to the same three converted
  parts (`ReportedKey`, `AskedKey`, `AskedReference`); and an instance that is given
  never becomes the empty one that stands for any (`NamesMeet`).

Every invariant, action property and refinement that a passing run checks is also
the subject of a theorem. Only model-checked is the liveness
(`EveryRequestAnswered`, `EventuallyCaughtUp`, `EventuallyNotified`, `EndsWhenToldTo`,
`RolloutEnds`), which is out of reach of the prover as it needs fairness, and the
violations above, each of which is a single behaviour.

## Assumptions about the environment

Postgres aborts a serializable transaction with stale reads, and an advisory
lock ends with its session; the outbox is delivered in commit order, possibly
repeatedly; only a partition's owner can commit; a tuple write is atomic and
idempotent and yields a revision; SpiceDB answers a call from one snapshot that
meets its demand, and a cursor keeps its snapshot; a failed remote call may or
may not have taken effect; verifying a token, decoding an identity header and
JSON-schema validation are decisions of their libraries.

## Not modelled

* Metrics, logging and stream counters: no operation depends on them.
* The command line, flags and viper bindings, and generated protocol code.
* Kafka and server options, whose errors come from libraries; the set-up, TLS and
  health of the SpiceDB connection.
* Messages that do not parse, and more than one partition: offsets and lock
  of a partition are its own, and the restart loop is the only thing shared.
* Notifications repeated by a replay: they name an event that is replicated
  already, and can only fill channels, as `Others` do.
* An identity provider that never answers: the token request has no timeout
  (grpc_relations_repository_token.go:109) and would keep its own call waiting;
  it holds no lock.
* `Replication` composed with `ReadAfterWrite`: they meet in the notification
  after the token update, which `ReadAfterWrite` has as one step.
