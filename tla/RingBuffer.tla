----------------------------- MODULE RingBuffer -----------------------------
(***************************************************************************)
(* The byte ring of src/ringbuffer/ringbuffer.c.  rb_write and rb_read are *)
(* one step each: nothing runs between the iterations of their loops.      *)
(* size is a size_t and wraps at SizeMod (2^64 in the code).               *)
(***************************************************************************)
EXTENDS Integers, Sequences, FiniteSetsExt

CONSTANTS
  Bytes,       \* the values of a byte
  Capacities,  \* the capacities rb_new is called with
  SizeMod,     \* the modulus of size_t
  MaxLen       \* bound: the longest read or write of the client

(* A capacity is not 0: head and tail are taken modulo it.                 *)
ASSUME RingAssumption ==
  /\ SizeMod \in Nat
  /\ Capacities \subseteq 1..(SizeMod - 1)
  /\ MaxLen \in 0..(SizeMod - 1)

VARIABLES
  buffer, capacity, size, head, tail,  \* the fields of ring_buffer_t
  wrote,                               \* what the last rb_write returned
  count,                               \* what the last rb_read returned
  out,                                 \* what the last rb_read left in data
  freed                                \* rb_free has been called

vars == <<buffer, capacity, size, head, tail, wrote, count, out, freed>>
-----------------------------------------------------------------------------
(* The n bytes of the ring from position at on.                            *)
BytesFrom(at, n) == [i \in 1..n |-> buffer[(at + i - 1) % capacity]]

(* malloc leaves any bytes in the buffer.                                  *)
rb_new ==
  /\ capacity \in Capacities
  /\ buffer \in [0..(capacity - 1) -> Bytes]
  /\ size = 0
  /\ head = 0
  /\ tail = 0
  /\ wrote = FALSE
  /\ count = 0
  /\ out = << >>
  /\ freed = FALSE

rb_free ==
  /\ ~freed
  /\ freed' = TRUE
  /\ UNCHANGED <<buffer, capacity, size, head, tail, wrote, count, out>>

(* Fault: head and tail run past the end of the buffer.                    *)
advance_unwrapped(at, n) == at + n

Advance(at, n) == (at + n) % capacity

(* Fault: one byte too many is accepted.                                   *)
free_one_more == (capacity - size + 1) % SizeMod

Free == (capacity - size) % SizeMod

(* Fault: the bytes are stored one position late.                          *)
written_one_late(data, p) == {j \in DOMAIN data : (tail + j) % capacity = p}

(* The bytes of data that rb_write stores at position p; the last stays.   *)
Written(data, p) == {j \in DOMAIN data : (tail + j - 1) % capacity = p}

rb_write(data) ==
  /\ ~freed
  /\ \/ /\ Len(data) > Free
        /\ wrote' = FALSE
        /\ UNCHANGED <<buffer, size, tail>>
     \/ /\ Len(data) <= Free
        /\ buffer' = [p \in 0..(capacity - 1) |->
                        IF Written(data, p) = {} THEN buffer[p]
                                                 ELSE data[Max(Written(data, p))]]
        /\ tail' = Advance(tail, Len(data))
        /\ size' = (size + Len(data)) % SizeMod
        /\ wrote' = TRUE
  /\ UNCHANGED <<capacity, head, count, out, freed>>

(* The loop of rb_read stops after the byte that brings head to tail: a    *)
(* whole round after it started if head is already there.                  *)
UntilTail == IF head = tail THEN capacity ELSE (tail - head) % capacity

Copied(len) == IF len < UntilTail THEN len ELSE UntilTail

(* Fault: no read counts its last byte.                                    *)
counted_from_second(len) == IF Copied(len) = 0 THEN 0 ELSE Copied(len) - 1

(* The byte that brings head to tail is copied but not counted.            *)
Counted(len) == IF len < UntilTail THEN len ELSE UntilTail - 1

(* size shrinks by what was asked for.                                     *)
rb_read(len) ==
  /\ ~freed
  /\ out' = BytesFrom(head, Copied(len))
  /\ head' = Advance(head, Copied(len))
  /\ size' = (size - len) % SizeMod
  /\ count' = Counted(len)
  /\ UNCHANGED <<buffer, capacity, tail, wrote, freed>>
-----------------------------------------------------------------------------
Data == UNION {[1..n -> Bytes] : n \in 0..MaxLen}

(* Any client.                                                             *)
Next ==
  \/ \E data \in Data : rb_write(data)
  \/ \E len \in 0..MaxLen : rb_read(len)
  \/ rb_free

Spec == rb_new /\ [][Next]_vars

(* A client that never asks for more than the ring holds.  It counts its   *)
(* own bytes: the result of rb_read does not tell it how many it took.     *)
FittingNext ==
  \/ \E data \in Data : rb_write(data)
  \/ \E len \in 0..MaxLen : len <= size /\ rb_read(len)
  \/ rb_free

FittingSpec == rb_new /\ [][FittingNext]_vars
-----------------------------------------------------------------------------
TypeOK ==
  /\ capacity \in Capacities
  /\ buffer \in [0..(capacity - 1) -> Bytes]
  /\ size \in 0..(SizeMod - 1)
  /\ head \in 0..(capacity - 1)
  /\ tail \in 0..(capacity - 1)
  /\ wrote \in BOOLEAN
  /\ count \in Nat
  /\ out \in Seq(Bytes)
  /\ freed \in BOOLEAN

(* size never exceeds the capacity nor falls below zero, and is what lies  *)
(* between head and tail: full and empty, where head meets tail, are told  *)
(* apart by size alone.                                                    *)
SizeIsDistance ==
  /\ size <= capacity
  /\ tail = (head + size) % capacity

(* The ring implements a FIFO queue for a client that fits its reads.      *)
Fifo == INSTANCE FifoQueue WITH bound <- capacity, contents <- BytesFrom(head, size)

ImplementsFifo == Fifo!QueueSpec

(* A read that fits takes all it asks for, and its result says so, except  *)
(* that the byte that drains the ring is not counted: whoever adds up the  *)
(* results of rb_read loses one byte each time the ring runs empty.        *)
(* "@return The number of bytes read." (ringbuffer.h:49) knows no such     *)
(* exception.                                                              *)
CountShortOnlyWhenDrained ==
  [][\A len \in 0..MaxLen : len <= size /\ rb_read(len) =>
       /\ Len(out') = len
       /\ count' = len - (IF size' = 0 /\ len # 0 THEN 1 ELSE 0)]_vars

(* "@return True if the data was written, false if the data is too large   *)
(* to fit" (ringbuffer.h:40): an accepted write is no longer than the      *)
(* ring.  A rb_read into a buffer longer than the contents makes size      *)
(* wrap, and rb_write then accepts data that overwrites itself.            *)
AcceptedWriteFits ==
  [][\A data \in Data : rb_write(data) /\ wrote' => Len(data) <= capacity]_vars
=============================================================================
