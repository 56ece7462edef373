---------------------------- MODULE MCPublication ----------------------------
(* Publication on small instances.                                          *)
EXTENDS Publication
=============================================================================
