-------------------------- MODULE MCStreamRegistry --------------------------
(* StreamRegistry on small instances; the configurations name the sessions, *)
(* callers and streams.  No symmetry is used: the runs check liveness too.  *)
EXTENDS StreamRegistry
=============================================================================
