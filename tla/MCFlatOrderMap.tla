---------------------------- MODULE MCFlatOrderMap ----------------------------
(* An instance of FlatOrderMap: four slots and keys that collide.          *)
EXTENDS FlatOrderMap, TLC

CONSTANTS k1, k2, k3, k4, o1, o2

\* k1, k2 and k4 share the last slot: their chain wraps round the table.
CollidingHash == k1 :> 3 @@ k2 :> 3 @@ k3 :> 0 @@ k4 :> 3

=============================================================================
