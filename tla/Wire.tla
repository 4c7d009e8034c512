-------------------------------- MODULE Wire --------------------------------
(***************************************************************************)
(* The integer encodings of src/util/wire.c and wire.h.  An integer of w   *)
(* bytes is the function from 0..w-1 to its bytes, the least significant   *)
(* one at 0, which is what masks and shifts by multiples of 8 take it      *)
(* apart into and put it together from.  A buffer is a function from       *)
(* positions to bytes.                                                     *)
(***************************************************************************)
EXTENDS Integers

CONSTANT Byte  \* the values of a byte

Value(w) == [0..(w - 1) -> Byte]

(* Where in its w positions an encoding has the byte of significance i, as *)
(* well as the other way round.                                            *)
Place(order, w, i) == IF order = "LE" THEN i ELSE w - 1 - i

Read(order, w, buffer, p) == [i \in 0..(w - 1) |-> buffer[p + Place(order, w, i)]]

Write(order, w, buffer, p, value) ==
  [k \in DOMAIN buffer |-> IF k \in p..(p + w - 1) THEN value[Place(order, w, k - p)]
                                                   ELSE buffer[k]]

read16le(buffer, p) == Read("LE", 2, buffer, p)
read16be(buffer, p) == Read("BE", 2, buffer, p)
read32le(buffer, p) == Read("LE", 4, buffer, p)
read32be(buffer, p) == Read("BE", 4, buffer, p)
read64le(buffer, p) == Read("LE", 8, buffer, p)
read64be(buffer, p) == Read("BE", 8, buffer, p)

write16le(buffer, p, value) == Write("LE", 2, buffer, p, value)
write16be(buffer, p, value) == Write("BE", 2, buffer, p, value)
write32le(buffer, p, value) == Write("LE", 4, buffer, p, value)
write32be(buffer, p, value) == Write("BE", 4, buffer, p, value)
write64le(buffer, p, value) == Write("LE", 8, buffer, p, value)
write64be(buffer, p, value) == Write("BE", 8, buffer, p, value)
=============================================================================
