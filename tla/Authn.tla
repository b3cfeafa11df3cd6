---- MODULE Authn ----
(***************************************************************************)
(* Authentication: how the chain of authenticators is built from the       *)
(* options at startup, and how it decides on a request.                    *)
(*                                                                         *)
(* The options are modelled by what the code asks of them.  A chain entry  *)
(* is its type, the three switches (absent means TRUE) and, for oidc, the  *)
(* shape of its config: absent, with malformed grpc-endpoints, without     *)
(* endpoints, or limited to some.  A token and an identity header are the  *)
(* verdict their library reaches on them.                                  *)
(***************************************************************************)
EXTENDS Integers, Sequences

Protocols == {"http", "grpc"}
EntryTypes == {"oidc", "guest", "allow-unauthenticated", "x-rh-identity"}

ChainEntry ==
  [type : EntryTypes \cup {"", "other"}, enable : BOOLEAN,
   http : BOOLEAN, grpc : BOOLEAN, config : {"nil", "malformed", "all", "some"}]

\* authenticator: the new format is present; the other two are the legacy ones.
AuthnOptions(Chains) ==
  [authenticator : BOOLEAN, strategy : {"", "first_match", "other"}, chain : Chains,
   allowUnauthenticated : BOOLEAN, oidc : BOOLEAN]

AuthnValidate(o) ==
  IF o.authenticator
    THEN /\ o.strategy # ""
         /\ o.chain # <<>>
         /\ \A i \in DOMAIN o.chain : o.chain[i].type \in EntryTypes
    ELSE IF o.allowUnauthenticated THEN ~o.oidc ELSE o.oidc

LegacyEntry(type, config) ==
  [type |-> type, enable |-> TRUE, http |-> TRUE, grpc |-> TRUE, config |-> config]

\* The chain is empty where the code leaves cfg.Authenticator nil.
AuthnConfig(o) ==
  IF o.authenticator
    THEN [strategy |-> o.strategy, chain |-> o.chain]
    ELSE [strategy |-> "first_match",
          chain |-> IF o.allowUnauthenticated
                      THEN <<LegacyEntry("allow-unauthenticated", "nil")>>
                      ELSE IF o.oidc THEN <<LegacyEntry("oidc", "all")>> ELSE <<>>]

Enabled(e, protocol) == e.enable /\ e[protocol]

\* completeChainEntry: an oidc entry disabled for both protocols is not looked at.
EntryCompletes(e) ==
  /\ e.type \in EntryTypes
  /\ e.type = "oidc" /\ (\E p \in Protocols : Enabled(e, p)) => e.config \in {"all", "some"}

AuthnCompletes(c) ==
  /\ c.strategy = "first_match"
  /\ \A i \in DOMAIN c.chain : EntryCompletes(c.chain[i])
  /\ \A p \in Protocols : \E i \in DOMAIN c.chain : Enabled(c.chain[i], p)

\* NewForProtocol on a completed chain: an enabled entry becomes an
\* authenticator, if its type is known and an oidc one has its config.
Authenticators(chain, protocol) == {i \in DOMAIN chain : Enabled(chain[i], protocol)}

Builds(chain, protocol) ==
  /\ Authenticators(chain, protocol) # {}
  /\ \A i \in Authenticators(chain, protocol) :
       /\ chain[i].type \in EntryTypes
       /\ chain[i].type = "oidc" => chain[i].config \in {"all", "some"}

----
(* Deciding on a request *)

Credentials ==
  [token : {"absent", "invalid", "valid"},      \* what Verify and the claim checks say of it
   identity : {"absent", "invalid", "valid"},   \* what DecodeAndCheckIdentity says of it
   listed : BOOLEAN]                            \* the operation is one of grpc-endpoints

\* An entry limited to some endpoints leaves the others alone and requires a
\* token at its own.
OidcDecision(e, r) ==
  IF e.config = "some" /\ ~r.listed
    THEN "Ignore"
    ELSE CASE r.token = "absent" -> IF e.config = "some" THEN "Deny" ELSE "Ignore"
           [] r.token = "invalid" -> "Deny"
           [] r.token = "valid" -> "Allow"

IdentityDecision(r) ==
  CASE r.identity = "absent" -> "Ignore"
    [] r.identity = "invalid" -> "Deny"
    [] r.identity = "valid" -> "Allow"

Decision(e, r) ==
  CASE e.type = "oidc" -> OidcDecision(e, r)
    [] e.type = "x-rh-identity" -> IdentityDecision(r)
    [] e.type \in {"guest", "allow-unauthenticated"} -> "Allow"

AuthTypeOf(e) ==
  IF e.type \in {"guest", "allow-unauthenticated"} THEN "allow-unauthenticated" ELSE e.type

Allowing(chain, protocol, r) ==
  {i \in Authenticators(chain, protocol) : Decision(chain[i], r) = "Allow"}

\* FirstMatchAuthenticator: the first that allows decides; a mix of Deny and
\* Ignore is a Deny, and so is an empty chain.
FirstMatch(chain, protocol, r) ==
  LET asked == Authenticators(chain, protocol)
      allowing == Allowing(chain, protocol, r)
  IN  IF allowing # {}
        THEN [decision |-> "Allow",
              authType |-> AuthTypeOf(chain[CHOOSE i \in allowing : \A j \in allowing : i <= j])]
        ELSE [decision |-> IF asked # {} /\ \A i \in asked : Decision(chain[i], r) = "Ignore"
                             THEN "Ignore" ELSE "Deny",
              authType |-> "none"]
====
