----------------------------- MODULE MCStorage -----------------------------
(* Storage on small instances.                                              *)
EXTENDS Storage, TLC

(* Both sessions revise the pull request, or one does and bundles would lie *)
(* below the worktrees.                                                     *)
MCSetups == {[revisers |-> Sessions, root |-> "apart"]}
            \cup {[revisers |-> {s}, root |-> "below"] : s \in Sessions}
MCSymmetry == Permutations(Sessions)
=============================================================================
