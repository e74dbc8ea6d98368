---------------------------- MODULE MCPaginator ----------------------------
(* A list of up to three pages, two rows a page, and one name to search for.  *)
EXTENDS Paginator, TLC

Symmetry == Permutations(Clicks)
=============================================================================
