------------------------------ MODULE MCGuest ------------------------------
(* Guest with three lines, the first two in one bucket up to capacity 2.   *)
EXTENDS Guest, TLC

CONSTANTS l1, l2, l3

MCHash   == l1 :> 0 @@ l2 :> 2 @@ l3 :> 1
MCDigest == l1 :> 1 @@ l2 :> 2 @@ l3 :> 3
MCLines  == <<l1, l2, l3>>
=============================================================================
