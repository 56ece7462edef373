---------------------------- MODULE MCContracts ----------------------------
(* Contracts on small instances.                                            *)
EXTENDS Contracts

CONSTANTS a, b, c, d     \* paths

MCPaths == {a, b, c, d}
MCDrift == [p \in MCPaths |-> IF p = a THEN b ELSE p]
MCEvidence == [p \in MCPaths |-> IF p = a THEN {c} ELSE {}]

Binding(of, to, field, new, marked) ==
    [of |-> of, to |-> to, field |-> field, new |-> new, marked |-> marked]

(* One probe, bound into the text and the verifier of its consumer, which   *)
(* is asked to commit.                                                      *)
OneProbe ==
    [n |-> 2, probes |-> {1}, needs |-> <<{}, {1}>>,
     binds |-> {Binding(1, 2, "text", TRUE, TRUE), Binding(1, 2, "verify", TRUE, FALSE)},
     files |-> <<<<>>, <<a>>>>, verify |-> <<{}, {}>>, disk |-> <<{}, {}>>,
     asks |-> <<{}, {"commit"}>>]

(* A probe that adds to the files of its consumer, which is asked to write. *)
FilesProbe ==
    [n |-> 2, probes |-> {1}, needs |-> <<{}, {1}>>,
     binds |-> {Binding(1, 2, "files", FALSE, FALSE)},
     files |-> <<<<>>, <<>>>>, verify |-> <<{}, {}>>, disk |-> <<{}, {}>>,
     asks |-> <<{}, {"write"}>>]

(* Mutations only: the second owes what the first changed, and more.        *)
NoProbe ==
    [n |-> 2, probes |-> {}, needs |-> <<{}, {1}>>, binds |-> {},
     files |-> <<<<c>>, <<b>>>>, verify |-> <<{}, {b, c}>>, disk |-> <<{}, {}>>,
     asks |-> <<{"commit"}, {"made"}>>]

(* One mutation with a probe for the disk, and one for a commit.            *)
DiskProbe ==
    [n |-> 1, probes |-> {}, needs |-> <<{}>>, binds |-> {},
     files |-> <<<<a>>>>, verify |-> <<{a}>>, disk |-> <<{a, b}>>, asks |-> <<{}>>]

MCShapes == {OneProbe, FilesProbe, NoProbe, DiskProbe}
MCTwins == {<<a, d>>}
MCInside == {<<b, d>>}
=============================================================================
