---- MODULE MCReadAfterWrite ----
(* ReadAfterWrite for TLC. No symmetry: the runs check liveness.           *)
EXTENDS ReadAfterWrite
====
