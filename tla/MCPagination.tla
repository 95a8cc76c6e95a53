----------------------------- MODULE MCPagination ---------------------------
(* Pagination on small instances for TLC: three rows, pages of one or two. *)
EXTENDS Pagination
=============================================================================
