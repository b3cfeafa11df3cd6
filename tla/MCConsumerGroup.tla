---- MODULE MCConsumerGroup ----
(* ConsumerGroup for TLC: consumers are interchangeable. *)
EXTENDS ConsumerGroup, TLC

ConsumerSymmetry == Permutations(Consumers)
====
