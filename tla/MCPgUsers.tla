----------------------------- MODULE MCPgUsers -----------------------------
(* Small instances of the PostgreSQL users table. *)
EXTENDS PgUsers, TLC

Symmetry == Permutations(UserIds) \cup Permutations(Calls)
=============================================================================
