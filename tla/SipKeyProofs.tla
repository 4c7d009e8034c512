---------------------------- MODULE SipKeyProofs ----------------------------
(***************************************************************************)
(* Wire and SipKey for every set of bytes: what is written is read back,   *)
(* in each order and width, and the key that wrap_siphash builds           *)
(* determines its seed, for every exclusive or.                            *)
(***************************************************************************)
EXTENDS SipKey, TLAPS

(* Place is its own inverse.                                               *)
LEMMA PlaceInverse ==
  ASSUME NEW order, NEW w \in Nat \ {0}, NEW i \in 0..(w - 1)
  PROVE  Place(order, w, i) \in 0..(w - 1) /\ Place(order, w, Place(order, w, i)) = i
BY DEF Place

(* Integers of every width survive being written and read in one order,    *)
(* at every position of a buffer, and the rest of the buffer is left.      *)
THEOREM WriteThenRead ==
  ASSUME NEW order, NEW w \in Nat \ {0}, NEW p \in Nat, NEW n \in Nat, p + w <= n,
         NEW S, NEW buffer \in [0..(n - 1) -> S], NEW value \in Value(w)
  PROVE  /\ Read(order, w, Write(order, w, buffer, p, value), p) = value
         /\ \A k \in (0..(n - 1)) \ (p..(p + w - 1)) :
               Write(order, w, buffer, p, value)[k] = buffer[k]
<1> DEFINE written == Write(order, w, buffer, p, value)
<1>1. ASSUME NEW i \in 0..(w - 1)
      PROVE  written[p + Place(order, w, i)] = value[i]
  <2> DEFINE j == Place(order, w, i)
             k == p + j
  <2>1. j \in 0..(w - 1) /\ Place(order, w, j) = i
    BY PlaceInverse
  <2>2. k \in 0..(n - 1) /\ k \in p..(p + w - 1) /\ k - p = j
    BY <2>1
  <2> HIDE DEF j, k
  <2>3. written[k] = value[Place(order, w, k - p)]
    BY <2>2 DEF Write
  <2> QED  BY <2>1, <2>2, <2>3 DEF j, k
<1>2. \A k \in (0..(n - 1)) \ (p..(p + w - 1)) : written[k] = buffer[k]
  BY DEF Write
<1> HIDE DEF written
<1>3. Read(order, w, written, p) = [i \in 0..(w - 1) |-> value[i]]
  BY <1>1 DEF Read
<1>4. value = [i \in 0..(w - 1) |-> value[i]]
  BY DEF Value
<1> QED  BY <1>2, <1>3, <1>4 DEF written
-----------------------------------------------------------------------------
(* The first half of the key, while it still is the seed.                  *)
FirstHalf == \A k \in 0..7 : key[k] = seed[7 - k]

(* Its lower four bytes, which are not mixed.                              *)
LowerFour == \A k \in 4..7 : key[k] = seed[7 - k]

SecondIsSeed == \A k \in 0..7 : key[8 + k] = seed[k]

(* v is the mixture of the seed's higher four bytes.                       *)
IsMixed(v) ==
  /\ v[0] = seed[4]
  /\ v[1] = Xor(seed[5], seed[4])
  /\ v[2] = Xor(seed[6], seed[5])
  /\ v[3] = Xor(seed[7], seed[6])

KeyInv ==
  /\ seed \in Value(8)
  /\ DOMAIN key = 0..31
  /\ pc \in {"seed_be", "seed_le", "read", "mix", "write", "hash", "return", "done"}
  /\ pc \in {"seed_le", "read", "mix"} => FirstHalf
  /\ pc \in {"read", "mix", "write", "hash"} => SecondIsSeed
  /\ pc \in {"write", "hash"} => LowerFour
  /\ pc = "mix" => \A i \in 0..3 : val[i] = seed[i + 4]
  /\ pc = "write" => IsMixed(val)
  /\ pc = "hash" => IsMixed(read32be(key, 0))

LEMMA SeedBytes ==
  ASSUME seed \in Value(8)
  PROVE  \A i \in 0..7 : seed[i] \in Byte
BY DEF Value

LEMMA InitKeyInv ==
  ASSUME Init
  PROVE  KeyInv
BY DEF Init, KeyInv

LEMMA StepKeepsKeyInv ==
  ASSUME KeyInv, [Next]_vars
  PROVE  KeyInv'
<1> USE DEF KeyInv, Goes
<1>1. CASE SeedBE
  <2>1. /\ pc = "seed_be" /\ pc' = "seed_le" /\ seed' = seed
        /\ key' = [k \in 0..31 |-> IF k \in 0..7 THEN seed[7 - k] ELSE key[k]]
    <3>1. \A k \in 0..31 : k - 0 = k /\ k \in 0..(0 + 8 - 1) <=> k \in 0..7
      OBVIOUS
    <3>2. key' = [k \in 0..31 |-> IF k \in 0..(0 + 8 - 1) THEN seed[8 - 1 - (k - 0)] ELSE key[k]]
      BY <1>1 DEF SeedBE, write64be, Write, Place
    <3> QED  BY <1>1, <3>2 DEF SeedBE
  <2>2. FirstHalf' /\ DOMAIN key' = 0..31
    BY <2>1 DEF FirstHalf
  <2> QED  BY <2>1, <2>2
<1>2. CASE SeedLE
  <2>1. /\ pc = "seed_le" /\ pc' = "read" /\ seed' = seed
        /\ key' = [k \in 0..31 |-> IF k \in 8..15 THEN seed[k - 8] ELSE key[k]]
    BY <1>2 DEF SeedLE, SecondHalf, write64le, Write, Place
  <2>2. FirstHalf' /\ SecondIsSeed' /\ DOMAIN key' = 0..31
    BY <2>1 DEF FirstHalf, SecondIsSeed
  <2> QED  BY <2>1, <2>2
<1>3. CASE ReadVal
  <2>1. /\ pc = "read" /\ pc' = "mix" /\ UNCHANGED <<seed, key>>
        /\ val' = [i \in 0..3 |-> key[3 - i]]
    BY <1>3 DEF ReadVal, ValPosition, read32be, Read, Place
  <2>2. \A i \in 0..3 : val'[i] = seed[i + 4]
    BY <2>1 DEF FirstHalf
  <2>3. FirstHalf' /\ SecondIsSeed'
    BY <2>1 DEF FirstHalf, SecondIsSeed
  <2> QED  BY <2>1, <2>2, <2>3
<1>4. CASE Mix
  <2>1. /\ pc = "mix" /\ pc' = "write" /\ UNCHANGED <<seed, key>>
        /\ val' = Mixed(val)
    BY <1>4 DEF Mix
  <2>2. /\ Mixed(val)[0] = Xor(val[0], 0) /\ Mixed(val)[1] = Xor(val[1], val[0])
        /\ Mixed(val)[2] = Xor(val[2], val[1]) /\ Mixed(val)[3] = Xor(val[3], val[2])
    BY DEF Mixed, Shifted
  <2>3. val[0] = seed[4] /\ val[1] = seed[5] /\ val[2] = seed[6] /\ val[3] = seed[7]
    <3>1. \A i \in 0..3 : val[i] = seed[i + 4]
      BY <2>1
    <3> QED  BY <3>1
  <2>4. Xor(val[0], 0) = seed[4]
    BY <2>3, SeedBytes, XorAssumption
  <2>5. IsMixed(val)'
    BY <2>1, <2>2, <2>3, <2>4 DEF IsMixed
  <2>6. LowerFour' /\ SecondIsSeed'
    BY <2>1 DEF FirstHalf, LowerFour, SecondIsSeed
  <2> QED  BY <2>1, <2>5, <2>6
<1>5. CASE WriteVal
  <2>1. /\ pc = "write" /\ pc' = "hash" /\ UNCHANGED <<seed, val>>
        /\ key' = [k \in 0..31 |-> IF k \in 0..3 THEN val[3 - k] ELSE key[k]]
    BY <1>5 DEF WriteVal, ValPosition, write32be, Write, Place
  <2>2. LowerFour' /\ SecondIsSeed' /\ DOMAIN key' = 0..31
    BY <2>1 DEF LowerFour, SecondIsSeed
  <2>3. read32be(key', 0) = [i \in 0..3 |-> val[i]]
    <3>1. read32be(key', 0) = [i \in 0..3 |-> key'[3 - i]]
      BY DEF read32be, Read, Place
    <3>2. \A i \in 0..3 : key'[3 - i] = val[i]
      BY <2>1
    <3> QED  BY <3>1, <3>2
  <2>4. IsMixed(read32be(key, 0))'
    BY <2>1, <2>3 DEF IsMixed
  <2> QED  BY <2>1, <2>2, <2>4
<1>6. CASE Hash
  BY <1>6 DEF Hash
<1>7. CASE Return
  BY <1>7 DEF Return
<1>8. CASE UNCHANGED vars
  BY <1>8 DEF vars, FirstHalf, LowerFour, SecondIsSeed, IsMixed, read32be, Read
<1> QED  BY <1>1, <1>2, <1>3, <1>4, <1>5, <1>6, <1>7, <1>8 DEF Next

LEMMA InvMeansKey ==
  ASSUME KeyInv
  PROVE  KeyDeterminesSeed
<1> SUFFICES ASSUME pc = "hash"
             PROVE  /\ KeyOf(key) \in [0..15 -> Byte]
                    /\ read64le(key, 8) = seed
                    /\ \A i \in 0..3 : /\ read64be(key, 0)[i] = seed[i]
                                       /\ Unmixed(read32be(key, 0))[i + 1] = seed[i + 4]
  BY DEF KeyDeterminesSeed
<1> DEFINE v == read32be(key, 0)
<1>1. /\ seed \in Value(8) /\ SecondIsSeed /\ LowerFour
      /\ v[0] = seed[4] /\ v[1] = Xor(seed[5], seed[4])
      /\ v[2] = Xor(seed[6], seed[5]) /\ v[3] = Xor(seed[7], seed[6])
  BY DEF KeyInv, IsMixed
<1>2. v[0] = key[3] /\ v[1] = key[2] /\ v[2] = key[1] /\ v[3] = key[0]
  BY DEF read32be, Read, Place
<1> HIDE DEF v
<1>3. seed[4] \in Byte /\ seed[5] \in Byte /\ seed[6] \in Byte /\ seed[7] \in Byte
  BY <1>1, SeedBytes
<1>4. KeyOf(key) \in [0..15 -> Byte]
  <2>1. key[0] \in Byte /\ key[1] \in Byte /\ key[2] \in Byte /\ key[3] \in Byte
    BY <1>1, <1>2, <1>3, XorAssumption
  <2>2. \A k \in 4..7 : key[k] \in Byte
    BY <1>1, SeedBytes DEF LowerFour
  <2>3. \A k \in 8..15 : key[k] \in Byte
    <3>1. \A k \in 8..15 : key[8 + (k - 8)] = seed[k - 8] /\ k - 8 \in 0..7 /\ 8 + (k - 8) = k
      BY <1>1 DEF SecondIsSeed
    <3> QED  BY <1>1, <3>1, SeedBytes
  <2>4. \A k \in 0..15 : key[k] \in Byte
    BY <2>1, <2>2, <2>3
  <2> QED  BY <2>4 DEF KeyOf
<1>5. read64le(key, 8) = seed
  <2>1. read64le(key, 8) = [i \in 0..7 |-> key[8 + i]]
    BY DEF read64le, Read, Place
  <2>2. seed = [i \in 0..7 |-> seed[i]]
    BY <1>1 DEF Value
  <2> QED  BY <1>1, <2>1, <2>2 DEF SecondIsSeed
<1>6. \A i \in 0..3 : read64be(key, 0)[i] = seed[i]
  <2>1. \A i \in 0..3 : read64be(key, 0)[i] = key[7 - i]
    BY DEF read64be, Read, Place
  <2>2. \A i \in 0..3 : key[7 - i] = seed[i]
    BY <1>1 DEF LowerFour
  <2> QED  BY <2>1, <2>2
<1>7. Xor(v[1], v[0]) = seed[5]
  BY <1>1, <1>3, XorAssumption
<1>8. Xor(v[2], seed[5]) = seed[6]
  BY <1>1, <1>3, XorAssumption
<1>9. Xor(v[3], seed[6]) = seed[7]
  BY <1>1, <1>3, XorAssumption
<1>10. Unmixed(v) = <<seed[4], seed[5], seed[6], seed[7]>>
  BY <1>1, <1>7, <1>8, <1>9 DEF Unmixed
<1>11. \A i \in 0..3 : Unmixed(v)[i + 1] = seed[i + 4]
  BY <1>10
<1> QED  BY <1>4, <1>5, <1>6, <1>11 DEF v

(* For every set of bytes and every exclusive or: siphash's key holds no   *)
(* uninitialised byte and each of its halves determines the seed.          *)
THEOREM KeysDiffer == Spec => []KeyDeterminesSeed
<1>1. Init => KeyInv
  BY InitKeyInv
<1>2. KeyInv /\ [Next]_vars => KeyInv'
  BY StepKeepsKeyInv
<1>3. KeyInv => KeyDeterminesSeed
  BY InvMeansKey
<1> QED  BY <1>1, <1>2, <1>3, PTL DEF Spec

(* Each statement puts bytes where the array and val hold bytes after it:  *)
(* val is read from the half of the array that the seed was written to.    *)
LEMMA StepKeepsSipTypes ==
  ASSUME KeyInv, TypeOK, [Next]_vars
  PROVE  TypeOK'
<1> USE DEF TypeOK, Goes
<1>1. \A i \in 0..7 : seed[i] \in Byte
  BY SeedBytes
<1>2. CASE SeedBE
  <2>1. /\ pc = "seed_be" /\ pc' = "seed_le" /\ UNCHANGED <<seed, val>>
        /\ key' = [k \in 0..31 |-> IF k \in 0..(0 + 8 - 1) THEN seed[8 - 1 - (k - 0)] ELSE key[k]]
    BY <1>2 DEF SeedBE, write64be, Write, Place
  <2>2. \A k \in 0..31 : k \in 0..(0 + 8 - 1) => 8 - 1 - (k - 0) \in 0..7
    OBVIOUS
  <2>3. key' \in [0..31 -> Byte \cup {Uninit}]
    BY <1>1, <2>1, <2>2
  <2> QED BY <2>1, <2>3
<1>3. CASE SeedLE
  <2>1. /\ pc = "seed_le" /\ pc' = "read" /\ UNCHANGED <<seed, val>>
        /\ key' = [k \in 0..31 |-> IF k \in 8..15 THEN seed[k - 8] ELSE key[k]]
    BY <1>3 DEF SeedLE, SecondHalf, write64le, Write, Place
  <2>2. \A k \in 8..15 : k - 8 \in 0..7
    OBVIOUS
  <2>3. key' \in [0..31 -> Byte \cup {Uninit}]
    BY <1>1, <2>1, <2>2
  <2> QED BY <2>1, <2>3
<1>4. CASE ReadVal
  <2>1. /\ pc = "read" /\ pc' = "mix" /\ UNCHANGED <<seed, key>>
        /\ val' = [i \in 0..3 |-> key[3 - i]]
    BY <1>4 DEF ReadVal, ValPosition, read32be, Read, Place
  <2>2. \A i \in 0..3 : key[3 - i] = seed[i + 4] /\ i + 4 \in 0..7
    BY <2>1 DEF KeyInv, FirstHalf
  <2>3. val' \in [0..3 -> Byte]
    BY <1>1, <2>1, <2>2
  <2> QED BY <2>1, <2>3
<1>5. CASE Mix
  <2>1. /\ pc = "mix" /\ pc' = "write" /\ UNCHANGED <<seed, key>>
        /\ val' = Mixed(val) /\ val \in [0..3 -> Byte]
    BY <1>5 DEF Mix
  <2>2. \A i \in 0..3 : Shifted(val)[i] = IF i = 0 THEN 0 ELSE val[i - 1]
    BY DEF Shifted
  <2>3. \A i \in 0..3 : i = 0 \/ i - 1 \in 0..3
    OBVIOUS
  <2>4. \A i \in 0..3 : Xor(val[i], Shifted(val)[i]) \in Byte
    BY <2>1, <2>2, <2>3, XorAssumption
  <2>5. val' \in [0..3 -> Byte]
    BY <2>1, <2>4 DEF Mixed
  <2> QED BY <2>1, <2>5
<1>6. CASE WriteVal
  <2>1. /\ pc = "write" /\ pc' = "hash" /\ UNCHANGED <<seed, val>>
        /\ key' = [k \in 0..31 |-> IF k \in 0..3 THEN val[3 - k] ELSE key[k]]
        /\ val \in [0..3 -> Byte]
    BY <1>6 DEF WriteVal, ValPosition, write32be, Write, Place
  <2>2. \A k \in 0..3 : 3 - k \in 0..3
    OBVIOUS
  <2>3. key' \in [0..31 -> Byte \cup {Uninit}]
    BY <2>1, <2>2
  <2> QED BY <2>1, <2>3
<1>7. CASE Hash
  BY <1>7 DEF Hash
<1>8. CASE Return
  BY <1>8 DEF Return
<1>9. CASE UNCHANGED vars
  BY <1>9 DEF vars
<1> QED BY <1>2, <1>3, <1>4, <1>5, <1>6, <1>7, <1>8, <1>9 DEF Next

(* For every set of bytes: val is never mixed or written before it holds   *)
(* four bytes, and what it is read from was written.                       *)
THEOREM ValHoldsBytes == Spec => []TypeOK
<1>1. Init => KeyInv /\ TypeOK
  BY InitKeyInv DEF Init, TypeOK
<1>2. KeyInv /\ TypeOK /\ [Next]_vars => KeyInv' /\ TypeOK'
  BY StepKeepsKeyInv, StepKeepsSipTypes
<1> QED BY <1>1, <1>2, PTL DEF Spec
=============================================================================
