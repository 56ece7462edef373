--------------------------- MODULE MCProviderCalls ---------------------------
(* Finite instances of ProviderCalls.  Calls are taken in any order; flows   *)
(* and sessions are interchangeable, so all three are symmetric.             *)
EXTENDS ProviderCalls, TLC

CallSymmetry == Permutations(Calls) \cup Permutations(Flows) \cup Permutations(Sessions)
=============================================================================
