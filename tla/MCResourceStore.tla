---- MODULE MCResourceStore ----
(* ResourceStore for TLC: see store_*.cfg for the sets. *)
EXTENDS ResourceStore, TLC

MCTokens == 0 .. 1
HandlerSymmetry == Permutations(Handlers)
====
