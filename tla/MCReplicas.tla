----------------------------- MODULE MCReplicas -----------------------------
(* Two replicas and three releases: an old one, a new one with a second
   migration, and one in which the first migration was edited. *)
EXTENDS Replicas

CONSTANTS old, new, edited, first, second, other

SomeFiles == [rel \in {old, new, edited} |->
    CASE rel = old -> <<first>>
      [] rel = new -> <<first, second>>
      [] rel = edited -> <<other>>]
=============================================================================
