------------------------------ MODULE MCLinks ------------------------------
(* Small instances of the links on both backends.  The liveness properties
   rule the use of symmetry out. *)
EXTENDS Links
=============================================================================
