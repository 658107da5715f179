----------------------------- MODULE MCCatalog ------------------------------
(* Two names share a bucket at every capacity.                              *)
EXTENDS Catalog, TLC

CONSTANTS t1, t2, t3, s1, s2

NameHash == t1 :> 0 @@ t2 :> 4 @@ t3 :> 1
=============================================================================
