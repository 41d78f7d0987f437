--------------------------- MODULE MCUserStorage ---------------------------
(* Small instances of the in-memory backend. *)
EXTENDS UserStorage, TLC

Symmetry == Permutations(UserIds) \cup Permutations(Passwords)
=============================================================================
