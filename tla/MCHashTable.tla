---------------------------- MODULE MCHashTable ----------------------------
(* Five keys for a table of three items in two buckets. *)
EXTENDS HashTable, TLC

CONSTANTS k1, k2, k3, k4, k5

\* Three keys collide in the first bucket and two in the second, all by the
\* remainder and k1 and k2 by their hash as well.
MCKeys == {k1, k2, k3, k4, k5}
MCHash == k1 :> 6 @@ k2 :> 6 @@ k3 :> 2 @@ k4 :> 3 @@ k5 :> 1
=============================================================================
