------------------------------ MODULE MCPaging ------------------------------
(* A small instance of the keyset pagination. *)
EXTENDS Paging
=============================================================================
