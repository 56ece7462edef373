---------------------------- MODULE MCSubTasks ----------------------------
(* A plan for TLC: a probe, and a change that depends on it.               *)
EXTENDS SubTasks

TwoSteps   == [s \in Plan |-> IF s = 1 THEN {} ELSE {1}]
Probe      == {1}
Unwritable == {2}
=============================================================================
