------------------------------ MODULE MCPaging ------------------------------
(* A small instance of Paging for TLC. *)
EXTENDS Paging
=============================================================================
