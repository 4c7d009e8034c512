---------------------------- MODULE MCHashmap ----------------------------
(* Hashmap on three keys: k1 and k2 share a bucket at capacities 1 and 2,  *)
(* and k3 joins them at capacity 1.  At capacity 4 all three are apart.    *)
EXTENDS Hashmap, TLC

CONSTANTS k1, k2, k3

MCHash   == k1 :> 0 @@ k2 :> 2 @@ k3 :> 1
MCDigest == k1 :> 1 @@ k2 :> 2 @@ k3 :> 3
=============================================================================
