---- MODULE MCReplication ----
(* Replication for TLC: see repl_*.cfg for the sets. *)
EXTENDS Replication

MCTokens == 0 .. 0
====
