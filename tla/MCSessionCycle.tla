-------------------------- MODULE MCSessionCycle --------------------------
(* Bounds for TLC: every counter stops at the limit its constant names.    *)
EXTENDS SessionCycle
=============================================================================
