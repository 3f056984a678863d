---------------------------- MODULE MCJobRemoval ----------------------------
(* The instances of MCJob, with the threads that a removal misses. *)
EXTENDS MCJob, JobRemoval
=============================================================================
