----------------------------- MODULE FifoQueue -----------------------------
(***************************************************************************)
(* What a bounded byte queue promises: bytes come out in the order they    *)
(* went in, none is lost, duplicated or overwritten, and a write is        *)
(* refused exactly when it does not fit.                                   *)
(***************************************************************************)
EXTENDS Naturals, Sequences

CONSTANT Data   \* the byte sequences that may be written

VARIABLES
  bound,     \* the most bytes the queue holds
  contents,  \* the bytes in it, oldest first
  wrote,     \* whether the last write was accepted
  out        \* the bytes the last read delivered

queueVars == <<bound, contents, wrote, out>>

QueueInit ==
  /\ bound \in Nat
  /\ contents = << >>
  /\ wrote = FALSE
  /\ out = << >>

Put(data) ==
  /\ Len(contents) + Len(data) <= bound
  /\ contents' = contents \o data
  /\ wrote' = TRUE
  /\ UNCHANGED <<bound, out>>

RefusePut(data) ==
  /\ Len(contents) + Len(data) > bound
  /\ wrote' = FALSE
  /\ UNCHANGED <<bound, contents, out>>

Take(n) ==
  /\ n <= Len(contents)
  /\ out' = SubSeq(contents, 1, n)
  /\ contents' = SubSeq(contents, n + 1, Len(contents))
  /\ UNCHANGED <<bound, wrote>>

QueueNext ==
  \/ \E data \in Data : Put(data) \/ RefusePut(data)
  \/ \E n \in 0..bound : Take(n)

QueueSpec == QueueInit /\ [][QueueNext]_queueVars
=============================================================================
