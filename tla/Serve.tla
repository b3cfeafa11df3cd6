---- MODULE Serve ----
(***************************************************************************)
(* One `inventory-api serve` process from its options to its end: the main *)
(* goroutine configures and constructs the parts, launches the servers,    *)
(* the pprof server, the listen manager and the consumer loop, and waits   *)
(* in one select for the first of them to return or for a signal.  Both it *)
(* and the consumer loop call the same shutdown function, possibly at the  *)
(* same time, and the process ends when the main goroutine returns from it *)
(* or when either panics.                                                  *)
(*                                                                         *)
(* kratos' App, the Kafka client and the delivery of signals are external. *)
(***************************************************************************)
EXTENDS Startup, Schemas, FiniteSets

CONSTANTS Chains,               \* the authn chains an operator may configure
          Messages,             \* offsets 1 .. Messages of the topic's partition
          Deletes,              \* those of delete events, which store no token
          ConsumerMaxRetries,
          CommitModulo

ASSUME ServeAssumption ==
  /\ Messages \in Nat
  /\ Deletes \subseteq 1 .. Messages
  /\ ConsumerMaxRetries \in Nat
  /\ CommitModulo \in Nat \ {0}

VARIABLES process,      \* running, or how it ended
          pc,           \* where the main goroutine and the consumer loop are
          plan,         \* what the accepted options say, section by section
          app,          \* server.App
          pprof,
          listener,     \* the goroutine of listenManager.Run
          db,
          quit,         \* the buffered signal channel of the main goroutine
          signalled,
          kafka,        \* inventoryConsumer.Consumer
          sigchan,      \* the signal channel Consume makes for itself
          retries,
          then,         \* where the consumer loop goes on after its shutdown
          next,         \* the offset Poll returns next, or the one being processed
          replicated,   \* messages whose tuples are written
          stored,       \* the last offset in OffsetStorage
          committed

lifeVars == <<app, pprof, listener, db>>
consumerVars == <<kafka, sigchan, retries, then, next, replicated, stored, committed>>
serveVars == <<process, pc, plan, lifeVars, quit, signalled, consumerVars>>

ShutdownPCs == {"stopApp", "stopPprof", "closeDB", "closeConsumer"}
MainPCs == {"storage", "authn", "authz", "consumer", "schema", "server", "construct",
            "launch", "notify", "select", "over"} \cup ShutdownPCs
ConsumerPCs == {"off", "new", "subscribe", "poll", "process", "token", "store", "stuck",
                "close", "ended"} \cup ShutdownPCs

ServeTypeOK ==
  /\ process \in {"running", "returned", "failed", "panicked", "killed"}
  /\ pc \in [main : MainPCs, consumer : ConsumerPCs]
  /\ plan \in [database : {"postgres", "sqlite3"}, storage : Outcomes, authn : Outcomes,
               authz : Outcomes, schema : Outcomes, consumer : BOOLEAN, pprof : BOOLEAN]
  /\ app \in {"none", "starting", "running", "stopping", "returned"}
  /\ pprof \in {"off", "serving", "returned"}
  /\ listener \in {"off", "running", "returned"}
  /\ db \in {"none", "open", "closed"}
  /\ quit \in BOOLEAN /\ signalled \in BOOLEAN /\ sigchan \in BOOLEAN
  /\ kafka \in {"none", "open", "closed"}
  /\ retries \in 0 .. ConsumerMaxRetries
  /\ then \in {"new", "ended"}
  /\ next \in 1 .. Messages + 1
  /\ replicated \subseteq 1 .. Messages
  /\ stored \in 0 .. Messages /\ committed \in 0 .. Messages

ServeInit ==
  /\ process = "running"
  /\ pc = [main |-> "storage", consumer |-> "off"]
  /\ plan = [database |-> "sqlite3", storage |-> "ok", authn |-> "ok", authz |-> "ok",
             schema |-> "ok", consumer |-> FALSE, pprof |-> FALSE]
  /\ app = "none" /\ pprof = "off" /\ listener = "off" /\ db = "none"
  /\ quit = FALSE /\ signalled = FALSE
  /\ kafka = "none" /\ sigchan = FALSE
  /\ retries = 0 /\ then = "ended"
  /\ next = 1 /\ replicated = {} /\ stored = 0 /\ committed = 0

Goto(g, where) == pc' = [pc EXCEPT ![g] = where]
Ends(how) == process' = how
At(g, where) == process = "running" /\ pc[g] = where

----
(* Startup: the sections of the options, one after the other *)

\* One section: rejected options end the command, accepted ones are kept.
Configured(ok, kept, where) ==
  /\ IF ok THEN plan' = kept /\ Goto("main", where) /\ UNCHANGED process
           ELSE Ends("failed") /\ UNCHANGED <<plan, pc>>
  /\ UNCHANGED <<lifeVars, quit, signalled, consumerVars>>

ConfigureStorage ==
  /\ At("main", "storage")
  /\ \E o \in StorageOptions :
       Configured(StorageValidate(o),
                  [plan EXCEPT !.database = o.database, !.storage = NewStorage(o)], "authn")

ConfigureAuthn ==
  /\ At("main", "authn")
  /\ \E o \in AuthnOptions(Chains), providers \in BOOLEAN :
       Configured(AuthnValidate(o) /\ AuthnCompletes(AuthnConfig(o)),
                  [plan EXCEPT !.authn = NewAuthn(o, providers)], "authz")

ConfigureAuthz ==
  /\ At("main", "authz")
  /\ \E o \in RelationsOptions :
       Configured(RelationsValidate(o), [plan EXCEPT !.authz = NewRelations(o)], "consumer")

ConfigureConsumer ==
  /\ At("main", "consumer")
  /\ \E o \in ConsumerOptions :
       Configured(ConsumerValidate(o), [plan EXCEPT !.consumer = o.enabled], "schema")

ConfigureSchema ==
  /\ At("main", "schema")
  /\ \E o \in SchemaOptions :
       Configured(SchemaValidate(o), [plan EXCEPT !.schema = NewSchema(o)], "server")

ConfigureServer ==
  /\ At("main", "server")
  /\ \E o \in ServerOptions :
       Configured(ServerValidate(o) /\ ServerCompletes(o),
                  [plan EXCEPT !.pprof = o.pprof], "construct")

\* The listen manager starts on the way, the consumer is created in its own loop.
Construct ==
  /\ At("main", "construct")
  /\ IF Constructed(plan) = "ok"
       THEN /\ db' = "open"
            /\ listener' = IF plan.database = "postgres" THEN "running" ELSE "off"
            /\ Goto("main", "launch")
            /\ UNCHANGED process
       ELSE /\ Ends(IF Constructed(plan) = "panicked" THEN "panicked" ELSE "failed")
            /\ UNCHANGED <<pc, db, listener>>
  /\ UNCHANGED <<plan, app, pprof, quit, signalled, consumerVars>>

Launch ==
  /\ At("main", "launch")
  /\ app' = "starting"
  /\ pprof' = IF plan.pprof THEN "serving" ELSE "off"
  /\ pc' = [main |-> "notify", consumer |-> IF plan.consumer THEN "new" ELSE "off"]
  /\ UNCHANGED <<process, plan, listener, db, quit, signalled, consumerVars>>

Notify ==
  /\ At("main", "notify")
  /\ Goto("main", "select")
  /\ UNCHANGED <<process, plan, lifeVars, quit, signalled, consumerVars>>

\* A mistaken variant: nobody waits for the listener.
Select_NoListener ==
  /\ At("main", "select")
  /\ quit \/ app = "returned" \/ pprof = "returned"
  /\ quit' \in (IF app = "returned" \/ pprof = "returned" THEN {quit, FALSE} ELSE {FALSE})
  /\ Goto("main", "stopApp")
  /\ UNCHANGED <<process, plan, lifeVars, signalled, consumerVars>>

\* The select.  The consumer's error channel is nil and never ready.
Select ==
  /\ At("main", "select")
  /\ quit \/ app = "returned" \/ pprof = "returned" \/ listener = "returned"
  /\ quit' \in (IF app = "returned" \/ pprof = "returned" \/ listener = "returned"
                  THEN {quit, FALSE} ELSE {FALSE})
  /\ Goto("main", "stopApp")
  /\ UNCHANGED <<process, plan, lifeVars, signalled, consumerVars>>

----
(* The other goroutines and the world *)

\* SIGTERM reaches every channel registered for it; with none it kills the process.
Sigterm ==
  /\ process = "running"
  /\ ~signalled
  /\ signalled' = TRUE
  /\ LET main == pc.main \in {"select"} \cup ShutdownPCs
         consuming == pc.consumer \in {"poll", "process", "token", "store"}
     IN  /\ quit' = main
         /\ app' = IF app = "running" THEN "stopping" ELSE app
         /\ sigchan' = consuming
         /\ process' = IF main \/ consuming \/ app \notin {"none", "starting"}
                         THEN process ELSE "killed"
  /\ UNCHANGED <<pc, plan, pprof, listener, db, kafka, retries, then, next, replicated,
                 stored, committed>>

\* server.Run: it assigns App, runs it, and returns when stopped or on an error.
RunApp ==
  /\ process = "running"
  /\ app = "starting"
  /\ app' = "running"
  /\ UNCHANGED <<process, pc, plan, pprof, listener, db, quit, signalled, consumerVars>>

AppFails ==
  /\ process = "running"
  /\ app = "running"
  /\ app' = "returned"
  /\ UNCHANGED <<process, pc, plan, pprof, listener, db, quit, signalled, consumerVars>>

AppStops ==
  /\ process = "running"
  /\ app = "stopping"
  /\ app' = "returned"
  /\ UNCHANGED <<process, pc, plan, pprof, listener, db, quit, signalled, consumerVars>>

PprofFails ==
  /\ process = "running"
  /\ pprof = "serving"
  /\ pprof' = "returned"
  /\ UNCHANGED <<process, pc, plan, app, listener, db, quit, signalled, consumerVars>>

ListenerFails ==
  /\ process = "running"
  /\ listener = "running"
  /\ listener' = "returned"
  /\ UNCHANGED <<process, pc, plan, app, pprof, db, quit, signalled, consumerVars>>

----
(* shutdown, run by goroutine g; its deferred calls run in reverse order *)

StopApp(g) ==
  /\ At(g, "stopApp")
  /\ IF app = "starting"                \* App is still nil
       THEN Ends("panicked") /\ UNCHANGED <<pc, app>>
       ELSE /\ app' = IF app = "running" THEN "stopping" ELSE app
            /\ Goto(g, "stopPprof")
            /\ UNCHANGED process
  /\ UNCHANGED <<plan, pprof, listener, db, quit, signalled, consumerVars>>

StopPprof(g) ==
  /\ At(g, "stopPprof")
  /\ pprof' = IF pprof = "serving" THEN "returned" ELSE pprof
  /\ Goto(g, "closeDB")
  /\ UNCHANGED <<process, plan, app, listener, db, quit, signalled, consumerVars>>

\* A mistaken variant: the database is left open.
CloseDB_Forgotten(g) ==
  /\ At(g, "closeDB")
  /\ Goto(g, "closeConsumer")
  /\ UNCHANGED <<process, plan, app, pprof, listener, db, quit, signalled, consumerVars>>

CloseDB(g) ==
  /\ At(g, "closeDB")
  /\ db' = "closed"
  /\ Goto(g, "closeConsumer")
  /\ UNCHANGED <<process, plan, app, pprof, listener, quit, signalled, consumerVars>>

\* commitStoredOffsets fails on a closed client, and may fail on an open one.
Commit(offset) == committed' \in {committed} \cup (IF kafka = "open" THEN {offset} ELSE {})

\* InventoryConsumer.Shutdown: commit what is stored, close; closing may fail.
ShutdownConsumer ==
  IF kafka = "open"
    THEN /\ Commit(IF stored > 0 THEN stored ELSE committed)
         /\ kafka' \in {"open", "closed"}
    ELSE UNCHANGED <<kafka, committed>>

\* A consumer that was never created is a nil interface in a non-nil struct.
CloseConsumer(g) ==
  /\ At(g, "closeConsumer")
  /\ IF kafka = "none"
       THEN Ends("panicked") /\ UNCHANGED <<pc, kafka, committed>>
       ELSE /\ ShutdownConsumer
            /\ Goto(g, IF g = "main" THEN "over" ELSE then)
            /\ process' = IF g = "main" THEN "returned" ELSE process
  /\ UNCHANGED <<plan, lifeVars, quit, signalled, sigchan, retries, then, next,
                 replicated, stored>>

Shutdown(g) == StopApp(g) \/ StopPprof(g) \/ CloseDB(g) \/ CloseConsumer(g)

----
(* The consumer loop *)

\* The loop of `serve`: a new client starts again after the committed offset.
NewConsumer ==
  /\ At("consumer", "new")
  /\ retries < ConsumerMaxRetries
  /\ \/ /\ kafka' = "open"
        /\ next' = committed + 1
        /\ Goto("consumer", "subscribe")
        /\ UNCHANGED then
     \/ /\ kafka' = "none"
        /\ then' = "new"
        /\ Goto("consumer", "stopApp")
        /\ UNCHANGED next
  /\ stored' = 0
  /\ UNCHANGED <<process, plan, lifeVars, quit, signalled, sigchan, retries, replicated,
                 committed>>

GiveUp ==
  /\ At("consumer", "new")
  /\ retries = ConsumerMaxRetries
  /\ then' = "ended"
  /\ Goto("consumer", "stopApp")
  /\ UNCHANGED <<process, plan, lifeVars, quit, signalled, kafka, sigchan, retries, next,
                 replicated, stored, committed>>

\* A failed subscription is sent on i.Errors, which is nil: the send never returns.
Subscribe ==
  /\ At("consumer", "subscribe")
  /\ \E where \in {"poll", "stuck"} : Goto("consumer", where)
  /\ UNCHANGED <<process, plan, lifeVars, quit, signalled, consumerVars>>

\* So is a fatal error of the client.
Poll ==
  /\ At("consumer", "poll")
  /\ \/ sigchan /\ sigchan' = FALSE /\ Goto("consumer", "close")
     \/ ~sigchan /\ kafka = "open" /\ next <= Messages /\ Goto("consumer", "process")
        /\ UNCHANGED sigchan
     \/ ~sigchan /\ kafka = "open" /\ Goto("consumer", "stuck") /\ UNCHANGED sigchan
  /\ UNCHANGED <<process, plan, lifeVars, quit, signalled, kafka, retries, then, next,
                 replicated, stored, committed>>

\* A mistaken variant: a message that cannot be processed is passed over.
ProcessMessage_Skips ==
  /\ At("consumer", "process")
  /\ \/ /\ db = "open"
        /\ replicated' = replicated \cup {next}
        /\ Goto("consumer", IF next \in Deletes THEN "store" ELSE "token")
        /\ UNCHANGED next
     \/ Goto("consumer", "poll") /\ next' = next + 1 /\ UNCHANGED replicated
  /\ UNCHANGED <<process, plan, lifeVars, quit, signalled, kafka, sigchan, retries, then,
                 stored, committed>>

\* ProcessMessage looks the representations up in the database and writes the
\* tuples; what fails after its retries ends Consume.
ProcessMessage ==
  /\ At("consumer", "process")
  /\ \/ /\ db = "open"
        /\ replicated' = replicated \cup {next}
        /\ Goto("consumer", IF next \in Deletes THEN "store" ELSE "token")
     \/ Goto("consumer", "close") /\ UNCHANGED replicated
  /\ UNCHANGED <<process, plan, lifeVars, quit, signalled, kafka, sigchan, retries, then,
                 next, stored, committed>>

\* UpdateConsistencyTokenIfPresent; when it fails the message is passed over.
UpdateToken ==
  /\ At("consumer", "token")
  /\ \/ db = "open" /\ Goto("consumer", "store") /\ UNCHANGED next
     \/ Goto("consumer", "poll") /\ next' = next + 1
  /\ UNCHANGED <<process, plan, lifeVars, quit, signalled, kafka, sigchan, retries, then,
                 replicated, stored, committed>>

StoreOffset ==
  /\ At("consumer", "store")
  /\ stored' = next
  /\ next' = next + 1
  /\ IF next % CommitModulo = 0 THEN Commit(next) ELSE UNCHANGED committed
  /\ Goto("consumer", "poll")
  /\ UNCHANGED <<process, plan, lifeVars, quit, signalled, kafka, sigchan, retries, then,
                 replicated>>

\* The end of Consume: ErrClosed counts as a retry, any other error shuts down
\* and lets the loop go round again.
ConsumeReturns ==
  /\ At("consumer", "close")
  /\ ShutdownConsumer
  /\ IF kafka' = "closed"
       THEN Goto("consumer", "new") /\ retries' = retries + 1 /\ UNCHANGED then
       ELSE Goto("consumer", "stopApp") /\ then' = "new" /\ UNCHANGED retries
  /\ UNCHANGED <<process, plan, lifeVars, quit, signalled, sigchan, next, replicated,
                 stored>>

Consume ==
  \/ NewConsumer \/ GiveUp \/ Subscribe \/ Poll
  \/ ProcessMessage \/ UpdateToken \/ StoreOffset \/ ConsumeReturns

----
(* The process *)

MainGoroutine ==
  \/ ConfigureStorage \/ ConfigureAuthn \/ ConfigureAuthz
  \/ ConfigureConsumer \/ ConfigureSchema \/ ConfigureServer
  \/ Construct \/ Launch \/ Notify \/ Select \/ Shutdown("main")

ConsumerGoroutine == Consume \/ Shutdown("consumer")

Environment == Sigterm \/ AppFails \/ PprofFails \/ ListenerFails

ServeNext == MainGoroutine \/ ConsumerGoroutine \/ RunApp \/ AppStops \/ Environment

\* Goroutines are scheduled; nothing makes a signal or a failure happen.
ServeFairness ==
  /\ WF_serveVars(MainGoroutine)
  /\ WF_serveVars(ConsumerGoroutine)
  /\ WF_serveVars(RunApp)
  /\ WF_serveVars(AppStops)

ServeSpec == ServeInit /\ [][ServeNext]_serveVars /\ ServeFairness

----
(* Properties *)

Ended == process # "running"

\* What every Validate and Complete accepted, the constructors can use: each
\* succeeds unless something outside is missing; the only panic on the way to
\* the select is the repository of a kessel endpoint that could not be dialled,
\* whose error relations.Config.Complete drops.
AcceptedOptionsConstruct ==
  pc.main = "construct" =>
     /\ {plan.storage, plan.authn, plan.schema} \subseteq {"ok", "absent"}
     /\ plan.authz # "unusable"

\* What a shutdown has done before it turns to the consumer: the servers are told
\* to stop (nobody waits until they have), pprof and the database are closed.
ShutDown == app \in {"stopping", "returned"} /\ pprof # "serving" /\ db = "closed"

\* However the two goroutines that shut the process down overlap, it returns from
\* the select only when it is ShutDown; and it panics in three places only: in the
\* constructors, where the error of the relations config was dropped; in a shutdown
\* that finds App not yet assigned; and in a shutdown that has done all the rest
\* and finds that no consumer was created. The last is how every shutdown of a
\* server ends whose consumer is disabled.
OrderlyExit ==
  /\ process = "returned" => ShutDown
  /\ process = "panicked" =>
       \/ pc.main = "construct" /\ plan.authz = "panicked"
       \/ "stopApp" \in {pc.main, pc.consumer} /\ app = "starting"
       \/ "closeConsumer" \in {pc.main, pc.consumer} /\ kafka = "none" /\ ShutDown

\* The database is closed before the consumer is, while the consumer may be in
\* the middle of a message: no offset is committed, by the loop, by the loop's
\* shutdown or by the main goroutine's, whose message or an earlier one did not
\* get its tuples written.
CommitsOnlyReplicated == 1 .. committed \subseteq replicated

\* LoadersAgree, where the server decides on the source of its schemas: a server
\* that starts from the cache and one that starts from the directory the cache was
\* made of accept the same reports.
SchemaSourcesAgree == pc.main = "schema" => LoadersAgree

\* UpdatesReachCurrent, where the consumer has a message of an update in hand: what
\* it is about to create and delete leads from the tuples of one version to those
\* of the next.
UpdatesAreExact == pc.consumer = "process" => UpdatesReachCurrent

\* The select leads to the end of the process, whoever gets there first: after
\* a signal the main goroutine received, after a server, the pprof server or
\* the listener returned, and after the consumer loop gave up.
EndsWhenToldTo ==
  (\/ quit
   \/ app = "returned"
   \/ pc.main = "select" /\ (pprof = "returned" \/ listener = "returned")
   \/ pc.consumer = "ended") ~> Ended

\* "Fatal errors: Stop consumer and propagate to error channel", on which the
\* select waits: after one, the process ends.
FatalErrorEndsProcess == (pc.consumer = "stuck") ~> Ended
====
