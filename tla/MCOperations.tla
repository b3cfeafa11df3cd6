---- MODULE MCOperations ----
(* Two hosts of one reporter to purge and a cluster of another; a pod of    *)
(* the release before the last migration and one of the release with it.   *)
EXTENDS Operations, TLC

MCTypeOf == ("h1" :> "host") @@ ("h2" :> "host") @@ ("c1" :> "k8s_cluster")
MCReporterOf == ("h1" :> "hbi") @@ ("h2" :> "hbi") @@ ("c1" :> "acm")
MCKnown == ("old" :> 3) @@ ("new" :> 4)
MCDeployments == {{"rollout", "metrics"}, {"purge"}}
====
