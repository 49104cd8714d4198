------------------------------ MODULE MCPaging ------------------------------
(* Model-checking instance of Paging: moments with more than one row, pages *)
(* shorter than such a moment or the table, and page sizes that are taken  *)
(* and refused.                                                            *)
EXTENDS Paging

CONSTANTS noCursor, noRow, acme, nobody

Times == 1..2
Ids == 1..2
Sizes == {0, 1, 3}
Tenants == {acme}

\* A row in the middle and the oldest one are the tenant's.
Owner == [k \in Key |-> IF k \in {<<1, 1>>, <<2, 1>>} THEN acme ELSE nobody]
=============================================================================
