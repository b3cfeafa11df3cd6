---- MODULE ReadAfterWrite ----
(***************************************************************************)
(* write_visibility IMMEDIATE: a report handler subscribes under its       *)
(* transaction id, commits, and waits, under a circuit breaker, until the  *)
(* consumer has replicated its event and notified it.  The consumer sends  *)
(* the id with pg_notify; the ListenManager hands every notification to    *)
(* every subscription, whose channel holds two.                            *)
(*                                                                         *)
(* A request stands for its transaction id.  Events of other origins       *)
(* (deletes, other replicas, reports that do not wait) are Others: they    *)
(* are notified too, and fill the channels.                                *)
(***************************************************************************)
EXTENDS Integers, Sequences, FiniteSets

CONSTANTS Requests,
          Others,
          NoTxId,
          MaxConsecutiveFailures,   \* the breaker trips above it (2 in serve.go)
          MaxLosses                 \* bound: losses of the notifier's connection

ASSUME IdsAssumption == Requests \cap Others = {} /\ NoTxId \notin Requests \cup Others
ASSUME BreakerAssumption == MaxConsecutiveFailures \in Nat

ChanSize == 2

VARIABLES rpc,         \* where each request is
          subs,        \* ListenManager.subscriptions
          chan,        \* listenChan of each request's subscription
          log,         \* the outbox: ids of the committed events
          processed,   \* events whose tuples the consumer has written
          npc,         \* the notifier: idle, or where it is in Notify
          sending,     \* the id it is sending
          mu,          \* is the mutex of its driver held?
          conn,        \* its connection
          losses,
          wire,        \* notifications sent by Postgres, in order
          breaker,     \* waitForNotifBreaker
          admitted,    \* the breaker's generation that admitted each request
          missed       \* history: ids whose notification was not delivered

vars == <<rpc, subs, chan, log, processed, npc, sending, mu, conn, losses, wire, breaker, admitted, missed>>
handlerVars == <<rpc, subs, chan, log, breaker, admitted>>
notifierVars == <<processed, npc, sending, mu, conn, losses>>

Ids == Requests \cup Others
Waiting == {"subscribed", "committed", "waiting"}
Answered == {"notified", "timeout", "skipped", "failed"}

TypeOK ==
  /\ rpc \in [Requests -> {"idle"} \cup Waiting \cup Answered]
  /\ subs \subseteq Requests
  /\ chan \in [Requests -> Seq(Ids)]
  /\ \A r \in Requests : Len(chan[r]) <= ChanSize
  /\ log \in Seq(Ids)
  /\ processed \in 0 .. Len(log)
  /\ npc \in {"idle", "ensure", "ensuring", "connect", "connecting", "exec"}
  /\ sending \in Ids \cup {NoTxId}
  /\ mu \in BOOLEAN
  /\ conn \in {"open", "closed", "none"}
  /\ losses \in 0 .. MaxLosses
  /\ wire \in Seq(Ids)
  /\ breaker \in [state : {"closed", "open", "half-open"}, generation : Nat, requests : Nat, failures : Nat]
  /\ admitted \in [Requests -> Nat]
  /\ missed \subseteq Ids

Init ==
  /\ rpc = [r \in Requests |-> "idle"]
  /\ subs = {}
  /\ chan = [r \in Requests |-> <<>>]
  /\ log = <<>>
  /\ processed = 0
  /\ npc = "connect"
  /\ sending = NoTxId
  /\ mu = FALSE
  /\ conn = "none"
  /\ losses = 0
  /\ wire = <<>>
  /\ breaker = [state |-> "closed", generation |-> 0, requests |-> 0, failures |-> 0]
  /\ admitted = [r \in Requests |-> 0]
  /\ missed = {}

----
(* The breaker, gobreaker with MaxRequests 1 (external)                    *)

NewGeneration(state) ==
  [state |-> state, generation |-> breaker.generation + 1, requests |-> 0, failures |-> 0]

Admits == \/ breaker.state = "closed"
          \/ breaker.state = "half-open" /\ breaker.requests < 1

\* A result counts only in the generation that admitted the request.
AfterRequest(r, success) ==
  breaker' =
    IF admitted[r] # breaker.generation THEN breaker
    ELSE IF success
    THEN IF breaker.state = "half-open" THEN NewGeneration("closed")
         ELSE [breaker EXCEPT !.failures = 0]
    ELSE IF breaker.state = "half-open" \/ breaker.failures + 1 > MaxConsecutiveFailures
         THEN NewGeneration("open") ELSE [breaker EXCEPT !.failures = @ + 1]

BreakerTimeout ==
  /\ breaker.state = "open"
  /\ breaker' = NewGeneration("half-open")
  /\ UNCHANGED <<notifierVars, rpc, subs, chan, log, wire, admitted, missed>>

----
(* The request handlers *)

\* The server starts once the notifier's driver has connected.
Started == npc = "idle" \/ sending # NoTxId

Subscribe(r) ==
  /\ Started
  /\ rpc[r] = "idle"
  /\ rpc' = [rpc EXCEPT ![r] = "subscribed"]
  /\ subs' = subs \cup {r}
  /\ UNCHANGED <<notifierVars, chan, log, wire, breaker, admitted, missed>>

Commit(r) ==
  /\ rpc[r] = "subscribed"
  /\ rpc' = [rpc EXCEPT ![r] = "committed"]
  /\ log' = Append(log, r)
  /\ UNCHANGED <<notifierVars, subs, chan, wire, breaker, admitted, missed>>

\* The handler returns, and its deferred Unsubscribe runs.
Return(r, answer) ==
  /\ rpc' = [rpc EXCEPT ![r] = answer]
  /\ subs' = subs \ {r}
  /\ chan' = [chan EXCEPT ![r] = <<>>]

\* Mutant: the early return forgets to unsubscribe.
ReturnEarly_StaysSubscribed(r) ==
  /\ rpc[r] = "subscribed"
  /\ rpc' = [rpc EXCEPT ![r] = "failed"]
  /\ UNCHANGED <<notifierVars, subs, chan, log, wire, breaker, admitted, missed>>

\* Already processed, or the transaction failed.
ReturnEarly(r) ==
  /\ rpc[r] = "subscribed"
  /\ Return(r, "failed")
  /\ UNCHANGED <<notifierVars, log, wire, breaker, admitted, missed>>

EnterWait(r) ==
  /\ rpc[r] = "committed"
  /\ Admits
  /\ rpc' = [rpc EXCEPT ![r] = "waiting"]
  /\ admitted' = [admitted EXCEPT ![r] = breaker.generation]
  /\ breaker' = [breaker EXCEPT !.requests = IF breaker.state = "half-open" THEN @ + 1 ELSE @]
  /\ UNCHANGED <<notifierVars, subs, chan, log, wire, missed>>

\* ErrOpenState and ErrTooManyRequests
SkipWait(r) ==
  /\ rpc[r] = "committed"
  /\ ~Admits
  /\ Return(r, "skipped")
  /\ UNCHANGED <<notifierVars, log, wire, breaker, admitted, missed>>

\* Mutant: any notification ends the wait.
TakeNotification_Any(r) ==
  /\ rpc[r] = "waiting"
  /\ chan[r] # <<>>
  /\ Return(r, "notified")
  /\ AfterRequest(r, TRUE)
  /\ UNCHANGED <<notifierVars, log, wire, admitted, missed>>

\* BlockForNotification passes over the ids of others.
TakeNotification(r) ==
  /\ rpc[r] = "waiting"
  /\ chan[r] # <<>>
  /\ IF Head(chan[r]) = r
     THEN Return(r, "notified") /\ AfterRequest(r, TRUE)
     ELSE /\ chan' = [chan EXCEPT ![r] = Tail(@)]
          /\ UNCHANGED <<rpc, subs, breaker>>
  /\ UNCHANGED <<notifierVars, log, wire, admitted, missed>>

\* The deadline or the client's cancellation. The report has succeeded.
Timeout(r) ==
  /\ rpc[r] = "waiting"
  /\ Return(r, "timeout")
  /\ AfterRequest(r, FALSE)
  /\ UNCHANGED <<notifierVars, log, wire, admitted, missed>>

CommitOther(t) ==
  /\ \A i \in 1 .. Len(log) : log[i] # t
  /\ log' = Append(log, t)
  /\ UNCHANGED <<notifierVars, rpc, subs, chan, wire, breaker, admitted, missed>>

----
(* The consumer's side: Notify, on a driver of its own                     *)

\* The tuples and the token of the next event are written, then Notify is called.
ProcessMessage ==
  /\ npc = "idle"
  /\ processed < Len(log)
  /\ processed' = processed + 1
  /\ sending' = log[processed + 1]
  /\ npc' = "ensure"
  /\ UNCHANGED <<handlerVars, mu, conn, losses, wire, missed>>

\* The tuples are written, the token cannot be stored: the loop goes on with
\* the next message, and nobody is notified of this one.
TokenUpdateFails ==
  /\ npc = "idle"
  /\ processed < Len(log)
  /\ processed' = processed + 1
  /\ missed' = missed \cup {log[processed + 1]}
  /\ UNCHANGED <<handlerVars, npc, sending, mu, conn, losses, wire>>

\* The mutex is taken by ensureConnected, by Connect, at the start and when
\* ensureConnected calls it. It is not reentrant.
Lock ==
  /\ npc \in {"ensure", "connect"}
  /\ ~mu
  /\ mu' = TRUE
  /\ npc' = IF npc = "ensure" THEN "ensuring" ELSE "connecting"
  /\ UNCHANGED <<handlerVars, processed, sending, conn, losses, wire, missed>>

ensureConnected ==
  /\ npc = "ensuring"
  /\ IF conn = "open" THEN npc' = "exec" /\ mu' = FALSE /\ UNCHANGED conn
     ELSE npc' = "connect" /\ conn' = "none" /\ UNCHANGED mu
  /\ UNCHANGED <<handlerVars, processed, sending, losses, wire, missed>>

Connect ==
  /\ npc = "connecting"
  /\ conn' = "open"
  /\ mu' = FALSE
  /\ npc' = IF sending = NoTxId THEN "idle" ELSE "exec"
  /\ UNCHANGED <<handlerVars, processed, sending, losses, wire, missed>>

\* pg_notify. Its failure is logged and the consumer goes on.
Exec ==
  /\ npc = "exec"
  /\ IF conn = "open" THEN wire' = Append(wire, sending) /\ UNCHANGED missed
     ELSE missed' = missed \cup {sending} /\ UNCHANGED wire
  /\ npc' = "idle"
  /\ sending' = NoTxId
  /\ UNCHANGED <<handlerVars, processed, mu, conn, losses>>

LoseConnection ==
  /\ conn = "open"
  /\ losses < MaxLosses
  /\ losses' = losses + 1
  /\ conn' = "closed"
  /\ UNCHANGED <<handlerVars, processed, npc, sending, mu, wire, missed>>

----
\* Mutant: the loop ends at the first subscription.
Distribute_FirstOnly ==
  /\ wire # <<>>
  /\ wire' = Tail(wire)
  /\ chan' = [r \in Requests |-> IF r \in subs /\ r = (CHOOSE s \in subs : TRUE) /\ Len(chan[r]) < ChanSize
                                 THEN Append(chan[r], Head(wire)) ELSE chan[r]]
  /\ UNCHANGED <<notifierVars, rpc, subs, log, breaker, admitted, missed>>

\* WaitAndDistribute: a full channel drops the notification.
Distribute ==
  /\ wire # <<>>
  /\ wire' = Tail(wire)
  /\ chan' = [r \in Requests |-> IF r \in subs /\ Len(chan[r]) < ChanSize
                                 THEN Append(chan[r], Head(wire)) ELSE chan[r]]
  /\ missed' = missed \cup {r \in subs : r = Head(wire) /\ Len(chan[r]) >= ChanSize}
  /\ UNCHANGED <<notifierVars, rpc, subs, log, breaker, admitted>>

HandlerStep(r) == Commit(r) \/ ReturnEarly(r) \/ EnterWait(r) \/ SkipWait(r) \/ TakeNotification(r)
Notify == ProcessMessage \/ TokenUpdateFails \/ Lock \/ ensureConnected \/ Connect \/ Exec

Next ==
  \/ \E r \in Requests : Subscribe(r) \/ HandlerStep(r) \/ Timeout(r)
  \/ \E t \in Others : CommitOther(t)
  \/ Notify \/ Distribute
  \/ BreakerTimeout \/ LoseConnection

\* Goroutines run; deadlines are long, so no wait relies on one.
Spec ==
  /\ Init /\ [][Next]_vars
  /\ \A r \in Requests : WF_vars(HandlerStep(r))
  /\ WF_vars(Notify) /\ WF_vars(Distribute)

----
(* Properties *)

\* A handler that was notified answers after its own event was replicated.
NotifiedIsReplicated ==
  \A r \in Requests : rpc[r] = "notified" => \E i \in 1 .. processed : log[i] = r

\* The subscriptions are those of the requests under way, on every path out.
SubscriptionsMatch == subs = {r \in Requests : rpc[r] \in Waiting}

\* While the breaker probes, one request waits; the others do not block.
OneProbe ==
  LET probes(r) == rpc[r] = "waiting" /\ admitted[r] = breaker.generation
  IN  breaker.state = "half-open" => \A r, s \in Requests : probes(r) /\ probes(s) => r = s

\* A handler that waits is notified without help of its deadline, since it
\* subscribed before its event was published, unless the token of its event
\* could not be stored, its channel was full (missed, in either case) or the
\* notifier's connection was lost.
EventuallyNotified ==
  \A r \in Requests :
    rpc[r] = "waiting" ~> rpc[r] # "waiting" \/ r \in missed \/ losses > 0

\* A Notify that finds the connection lost establishes it again and ends.
NotifyReconnects == npc = "ensure" ~> npc = "idle"
====
