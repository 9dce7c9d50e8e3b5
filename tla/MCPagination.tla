------------------------------ MODULE MCPagination -----------------------------
EXTENDS Pagination

(* No limit, limits below, at and above the largest page. *)
MCLimits == {NoLimit, 1, 4}
==============================================================================
