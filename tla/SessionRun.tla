---------------------------- MODULE SessionRun ----------------------------
(***************************************************************************)
(* What the cycle machinery of a session promises: it works in cycles, it  *)
(* may publish a candidate, it ends.  Cycles are an allowance: they begin  *)
(* only against it, and only a grant (a converging extension, an answered  *)
(* time question, a CI repair) adds to it, so that a session that is sent  *)
(* back for another cycle always can begin it.                             *)
(***************************************************************************)
EXTENDS Integers

CONSTANT MaxCycles    \* loop.max_cycles

VARIABLES
    phase,       \* "ready", "working", "publishing", "over"
    allowance    \* cycles that may still begin

vars == <<phase, allowance>>

Init == phase = "ready" /\ allowance = MaxCycles

Begin   == phase = "ready" /\ allowance > 0 /\ phase' = "working" /\ allowance' = allowance - 1
Again   == phase = "working" /\ allowance > 0 /\ phase' = "ready" /\ UNCHANGED allowance
Grant   == phase \in {"working", "publishing"} /\ phase' = "ready" /\ allowance' = allowance + 1
Publish == phase = "working" /\ phase' = "publishing" /\ UNCHANGED allowance
End     == phase \in {"working", "publishing"} /\ phase' = "over" /\ UNCHANGED allowance

Next == Begin \/ Again \/ Grant \/ Publish \/ End

Spec == Init /\ [][Next]_vars
=============================================================================
