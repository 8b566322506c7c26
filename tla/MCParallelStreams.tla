------------------------- MODULE MCParallelStreams -------------------------
(* Small instances of ParallelStreams for TLC; the values are in the cfg files. *)
EXTENDS ParallelStreams
=============================================================================
