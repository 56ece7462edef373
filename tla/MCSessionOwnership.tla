----------------------- MODULE MCSessionOwnership -----------------------
(* SessionOwnership instantiated for TLC.  Loops are interchangeable, so the *)
(* safety runs use their symmetry; the liveness run does not.                *)
EXTENDS SessionOwnership, TLC

LoopSymmetry == Permutations(Loops)
=============================================================================
