----------------------------- MODULE MCMerging -----------------------------
(* Merging on small instances.                                              *)
EXTENDS Merging
=============================================================================
