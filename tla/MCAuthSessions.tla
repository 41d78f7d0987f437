--------------------------- MODULE MCAuthSessions ---------------------------
(* Small instances of AuthSessions.  Requests, account ids and passwords are
   interchangeable; usernames are not, one of them is DefaultAdmin. *)
EXTENDS AuthSessions, TLC

Symmetry ==
    Permutations(Requests) \cup Permutations(UserIds) \cup Permutations(Passwords)
=============================================================================
