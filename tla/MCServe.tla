---- MODULE MCServe ----
(* Every chain of at most two entries; only an oidc entry has a config.    *)
EXTENDS Serve

MCEntries == {e \in ChainEntry : e.type # "oidc" => e.config = "nil"}
MCChains == {<<>>} \cup {<<e>> : e \in MCEntries} \cup (MCEntries \X MCEntries)
====
