------------------------------ MODULE MCPaging ------------------------------
(* A small instance of Paging: pages of at most two items, collections of at *)
(* most five.                                                                *)
EXTENDS Paging

TopValues == {-1, 0, 7}
LimitValues == {-1, 0, 3, 9}

=============================================================================
