------------------------------ MODULE MCTokens ------------------------------
(* Small instances of the token service. *)
EXTENDS Tokens, TLC

Symmetry == Permutations(Replicas)
=============================================================================
