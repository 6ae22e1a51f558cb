------------------------------ MODULE MCPager ------------------------------
(***************************************************************************)
(* A small instance of the pager, whose client writes empty leaf nodes: the *)
(* first word of such a page is 2 (type 2, no keys, no right sibling) and  *)
(* looks like a link to page 2, should anybody take it for one.            *)
(***************************************************************************)
EXTENDS Pager

LeafWords == {2}

=============================================================================
