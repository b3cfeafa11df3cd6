---- MODULE Backends ----
(***************************************************************************)
(* The relations back ends together: what they answer (Access), and, for   *)
(* the relations service, the bearer tokens of its calls (TokenClient).  A *)
(* call has its options before it is made and does not ask for them again: *)
(* the two halves share no state, and each is explored with the other at   *)
(* rest.                                                                   *)
(***************************************************************************)
EXTENDS Access, TokenClient

VARIABLES half        \* the half that is explored

allVars == <<vars, tokenVars, half>>

\* At rest: no request has arrived, or no call is made.
AnswersAtRest == history = <<{}>> /\ backend = "kessel"
TokensAtRest == ~oidc

BackendsInit ==
  /\ half \in {"answers", "tokens"}
  /\ Init /\ TokenInit
  /\ half = "tokens" => AnswersAtRest
  /\ half = "answers" => TokensAtRest

BackendsNext ==
  /\ UNCHANGED half
  /\ \/ half = "answers" /\ Next /\ UNCHANGED tokenVars
     \/ half = "tokens" /\ TokenNext /\ UNCHANGED vars

BackendsSpec == BackendsInit /\ [][BackendsNext]_allVars
====
