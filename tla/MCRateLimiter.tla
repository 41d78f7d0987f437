--------------------------- MODULE MCRateLimiter ---------------------------
(* Two keys of different routes: a short window and a long one. *)
EXTENDS RateLimiter, TLC

CONSTANTS short, long

MCKeys == {short, long}
MCLimitOf == short :> 1 @@ long :> 2
MCWindowOf == short :> 1 @@ long :> 3

Symmetry == Permutations(Requests)
=============================================================================
