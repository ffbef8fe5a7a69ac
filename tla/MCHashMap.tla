------------------------------ MODULE MCHashMap ------------------------------
(* Four keys: two with one home, one that joins them only in a table of    *)
(* four buckets, and one where the table wraps around.                     *)
EXTENDS HashMap, TLC

CONSTANTS k1, k2, k3, k4

Colliding == (k1 :> 3) @@ (k2 :> 3) @@ (k3 :> 7) @@ (k4 :> 0)
=============================================================================
