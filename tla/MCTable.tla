------------------------------ MODULE MCTable ------------------------------
(* Instances of Table: the rows that callers store, for tables of one number *)
(* and of a number followed by a VARCHAR column.                             *)
EXTENDS TableRefinement

CONSTANTS v1, v2

\* one number
NumberRows == {<<v1>>, <<v2>>}

\* a number and a VARCHAR
MixedRows == {<<v1, v2>>, <<Null, v1>>, <<v2, Null>>}

\* a number that may be NULL and a VARCHAR
FaultRows == {<<v1, v1>>, <<Null, v1>>}
=============================================================================
