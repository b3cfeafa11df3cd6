---- MODULE TokenClient ----
(***************************************************************************)
(* The bearer tokens of the calls to the relations service.  A call asks   *)
(* getToken for one: the token in the cache if it has not expired, or else *)
(* a new one from the provider, which it puts in the cache.  Nothing       *)
(* orders the calls: several may find the cache stale, fetch, and store    *)
(* what they were given in any order.  The cache drops a token after five  *)
(* minutes, and a token carries its own, shorter or longer, expiry.        *)
(*                                                                         *)
(* The provider is external: it issues tokens of any lifetime, opaque ones *)
(* (whose expiry the client cannot read) or empty ones, or fails.          *)
(***************************************************************************)
EXTENDS Integers

CONSTANTS Calls,
          CacheLife,       \* cacheCleanupInterval, in ticks
          Lifetimes,       \* the lifetimes of issued tokens, in ticks
          MaxTime          \* bound: ticks of the clock

ASSUME TokenAssumption ==
  /\ CacheLife \in Nat \ {0}
  /\ Lifetimes \subseteq Nat
  /\ MaxTime \in Nat

VARIABLES now,      \* the clock
          oidc,     \* EnableOIDCAuth
          cache,    \* the cached token, and when the cache drops it
          call      \* the calls

tokenVars == <<now, oidc, cache, call>>

NoExp == -1
NoBearer == [kind |-> "none", issued |-> 0, exp |-> NoExp]
Opaque(t) == [kind |-> "opaque", issued |-> t, exp |-> NoExp]
Empty(t) == [kind |-> "empty", issued |-> t, exp |-> NoExp]
Jwt(t, life) == [kind |-> "jwt", issued |-> t, exp |-> t + life]

IdleCall == [pc |-> "idle", began |-> 0, token |-> NoBearer]

Bearers == [kind : {"none", "opaque", "empty", "jwt"}, issued : Nat, exp : Int]

TokenTypeOK ==
  /\ now \in Nat
  /\ oidc \in BOOLEAN
  /\ cache \in [token : Bearers, until : Int]
  /\ call \in [Calls -> [pc : {"idle", "cache", "fetch", "store", "send", "sent", "error"},
                         began : Nat, token : Bearers]]

TokenInit ==
  /\ now = 0
  /\ oidc \in BOOLEAN
  /\ cache = [token |-> NoBearer, until |-> NoExp]
  /\ call = [c \in Calls |-> IdleCall]

Tick ==
  /\ now < MaxTime
  /\ now' = now + 1
  /\ UNCHANGED <<oidc, cache, call>>

\* getCallOptions: without OIDC the call carries no token.
GetCallOptions(c) ==
  /\ call[c].pc = "idle"
  /\ call' = [call EXCEPT ![c] = [pc |-> IF oidc THEN "cache" ELSE "send", began |-> now, token |-> NoBearer]]
  /\ UNCHANGED <<now, oidc, cache>>

\* The entry is there until the cache's own deadline has passed.
GetCachedToken == IF now <= cache.until THEN cache.token ELSE NoBearer

\* A mistaken variant: what is still in the cache has not expired.
IsJWTTokenExpired_TrustsCache(token) == token.kind # "jwt" \/ now > cache.until

\* A token without a readable expiry counts as expired.
IsJWTTokenExpired(token) == token.kind # "jwt" \/ now > token.exp

\* getToken, the cached half.
FromCache(c) ==
  /\ call[c].pc = "cache"
  /\ LET token == GetCachedToken IN
       call' = IF token.kind \notin {"none", "empty"} /\ ~IsJWTTokenExpired(token)
               THEN [call EXCEPT ![c].pc = "send", ![c].token = token]
               ELSE [call EXCEPT ![c].pc = "fetch"]
  /\ UNCHANGED <<now, oidc, cache>>

\* getToken: the provider's answer is on its way (external), or the request,
\* its status or its body is in error. There is no timeout and no retry.
Fetch(c) ==
  /\ call[c].pc = "fetch"
  /\ \/ \E token \in {Opaque(now), Empty(now)} \cup {Jwt(now, life) : life \in Lifetimes} :
          call' = [call EXCEPT ![c].pc = "store", ![c].token = token]
     \/ call' = [call EXCEPT ![c].pc = "error"]
  /\ UNCHANGED <<now, oidc, cache>>

\* getToken: the answer is read and cached, whatever is in the cache by now.
CacheToken(c) ==
  /\ call[c].pc = "store"
  /\ cache' = [token |-> call[c].token, until |-> now + CacheLife]
  /\ call' = [call EXCEPT ![c].pc = "send"]
  /\ UNCHANGED <<now, oidc>>

\* WithBearerToken and the call itself.
Send(c) ==
  /\ call[c].pc = "send"
  /\ call' = [call EXCEPT ![c].pc = "sent"]
  /\ UNCHANGED <<now, oidc, cache>>

\* The call returns, or returned an error; another one may be made in its place.
Return(c) ==
  /\ call[c].pc \in {"sent", "error"}
  /\ call' = [call EXCEPT ![c] = IdleCall]
  /\ UNCHANGED <<now, oidc, cache>>

TokenNext ==
  \/ Tick
  \/ \E c \in Calls : GetCallOptions(c) \/ FromCache(c) \/ Fetch(c) \/ CacheToken(c) \/ Send(c) \/ Return(c)

TokenSpec == TokenInit /\ [][TokenNext]_tokenVars

----
(* Properties *)

\* With OIDC, no call leaves with a token that had expired before the call
\* began: the token was issued for this call, or its expiry was still to come
\* when the call asked for it, though other calls refresh the cache meanwhile
\* and a slow one may put an old token over a new one.
BearerTokensAreLive ==
  \A c \in Calls : oidc /\ call[c].pc = "sent" =>
    \/ call[c].token.kind # "none" /\ call[c].token.issued >= call[c].began
    \/ call[c].token.kind = "jwt" /\ call[c].token.exp >= call[c].began
====
