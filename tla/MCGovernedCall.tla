--------------------------- MODULE MCGovernedCall ---------------------------
(* GovernedCall for TLC: calls are interchangeable. *)
EXTENDS GovernedCall, TLC

Symmetry == Permutations(Calls)

=============================================================================
