------------------------- MODULE MCHashmapWriteOnce -------------------------
(* HashmapWriteOnce on four keys: k1, k2 and k4 share a bucket up to       *)
(* capacity 2, k1 and k4 up to capacity 4.                                 *)
EXTENDS HashmapWriteOnce, TLC

CONSTANTS k1, k2, k3, k4

MCHash   == k1 :> 0 @@ k2 :> 2 @@ k3 :> 1 @@ k4 :> 4
MCDigest == k1 :> 1 @@ k2 :> 2 @@ k3 :> 3 @@ k4 :> 4
=============================================================================
