---------------------------- MODULE MCResultSet ----------------------------
(* Instances of ResultSet: result tables of one number or one VARCHAR column. *)
EXTENDS ResultSet

CONSTANTS v1, v2

NumberRows == {<<v1>>, <<v2>>}
=============================================================================
