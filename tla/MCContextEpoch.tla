--------------------------- MODULE MCContextEpoch ---------------------------
(* Instance of ContextEpoch for TLC: values of the current codec are alike. *)
EXTENDS ContextEpoch, TLC

CONSTANTS a, b

Symmetry == Permutations(Location) \cup Permutations({a, b})
=============================================================================
