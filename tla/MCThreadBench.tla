---------------------------- MODULE MCThreadBench ----------------------------
(* Three workers in the second scenario, batches of two. *)
EXTENDS ThreadBench
================================================================================
