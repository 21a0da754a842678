----------------------------- MODULE MCPageFlow -----------------------------
(* Small instances of PageFlow for TLC. *)
EXTENDS PageFlow, TLC

CONSTANTS files, other, a, b

Queries == Permutations({a, b})
=============================================================================
