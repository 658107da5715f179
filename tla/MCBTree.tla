------------------------------ MODULE MCBTree -------------------------------
(* Trees of minimum degree two over the first few numbers.                   *)
EXTENDS BTree

CONSTANT KeyCount

FirstKeys == 1 .. KeyCount
=============================================================================
