---------------------------- MODULE MCHashTable -----------------------------
(* Keys that collide at every capacity, at some capacities and at none.     *)
EXTENDS HashTable, TLC

CONSTANTS k1, k2, k3, k4, v1, v2

Collisions == (k1 :> 1 @@ k2 :> 5 @@ k3 :> 3 @@ k4 :> 8)
=============================================================================
