------------------------ MODULE MCLogicalReplication ------------------------
(* Three transactions, of two, one and one row.                            *)
EXTENDS LogicalReplication

MCRows == <<2, 1, 1>>

=============================================================================
