------------------------------- MODULE SipKey -------------------------------
(***************************************************************************)
(* wrap_siphash of src/util/sip_wrapper.c, the map's default hash          *)
(* function: it makes the 16 bytes of siphash's key of an 8-byte seed, in  *)
(* an array of 32 that it does not initialise.  One step per statement.    *)
(* siphash itself is taken as any function of its key; the hashed data are *)
(* the same throughout.                                                    *)
(***************************************************************************)
EXTENDS Wire

CONSTANTS
  Xor(_, _),   \* exclusive or of two bytes
  siphash(_),  \* the 8 bytes that siphash makes of the 16 of its key
  Uninit       \* what a byte that was never written holds

ASSUME XorAssumption ==
  /\ 0 \in Byte
  /\ \A a, b \in Byte : Xor(a, b) \in Byte /\ Xor(Xor(a, b), b) = a
  /\ \A a \in Byte : Xor(a, 0) = a

ASSUME UninitAssumption == Uninit \notin Byte

VARIABLES
  seed,  \* the parameter
  key,   \* the local array
  val,   \* the local variable
  hash,  \* the local array
  ret,   \* the result
  pc     \* the next statement

vars == <<seed, key, val, hash, ret, pc>>
-----------------------------------------------------------------------------
Init ==
  /\ seed \in Value(8)
  /\ key = [k \in 0..31 |-> Uninit]
  /\ val = [i \in 0..3 |-> Uninit]
  /\ hash = [k \in 0..7 |-> Uninit]
  /\ ret = [i \in 0..7 |-> Uninit]
  /\ pc = "seed_be"

Goes(from, to) == pc = from /\ pc' = to

SeedBE ==
  /\ Goes("seed_be", "seed_le")
  /\ key' = write64be(key, 0, seed)
  /\ UNCHANGED <<seed, val, hash, ret>>

(* Fault: the second half lies behind the first 16 bytes.                  *)
half_at_16 == 16

SecondHalf == 8

SeedLE ==
  /\ Goes("seed_le", "read")
  /\ key' = write64le(key, SecondHalf, seed)
  /\ UNCHANGED <<seed, val, hash, ret>>

(* Fault: the four bytes are taken from behind the key.                    *)
val_behind_key == 16

ValPosition == 0

ReadVal ==
  /\ Goes("read", "mix")
  /\ val' = read32be(key, ValPosition)
  /\ UNCHANGED <<seed, key, hash, ret>>

(* v << 8 of 32 bits.                                                      *)
Shifted(v) == [i \in 0..3 |-> IF i = 0 THEN 0 ELSE v[i - 1]]

Mixed(v) == [i \in 0..3 |-> Xor(v[i], Shifted(v)[i])]

Mix ==
  /\ Goes("mix", "write")
  /\ val' = Mixed(val)
  /\ UNCHANGED <<seed, key, hash, ret>>

WriteVal ==
  /\ Goes("write", "hash")
  /\ key' = write32be(key, ValPosition, val)
  /\ UNCHANGED <<seed, val, hash, ret>>

(* siphash reads 16 bytes of its key (siphash.c:92-93).                    *)
KeyOf(array) == [k \in 0..15 |-> array[k]]

Hash ==
  /\ Goes("hash", "return")
  /\ hash' = siphash(KeyOf(key))
  /\ UNCHANGED <<seed, key, val, ret>>

Return ==
  /\ Goes("return", "done")
  /\ ret' = read64be(hash, 0)
  /\ UNCHANGED <<seed, key, val, hash>>

Next == SeedBE \/ SeedLE \/ ReadVal \/ Mix \/ WriteVal \/ Hash \/ Return

Spec == Init /\ [][Next]_vars
-----------------------------------------------------------------------------
(* The array holds bytes where it was written, and val is not mixed before *)
(* it holds four of them.                                                  *)
TypeOK ==
  /\ seed \in Value(8)
  /\ key \in [0..31 -> Byte \cup {Uninit}]
  /\ val \in [0..3 -> IF pc \in {"seed_be", "seed_le", "read"} THEN {Uninit} ELSE Byte]
  /\ pc \in {"seed_be", "seed_le", "read", "mix", "write", "hash", "return", "done"}

(* The bytes before the mixing of its highest four.                        *)
Unmixed(v) ==
  LET u0 == v[0]
      u1 == Xor(v[1], u0)
      u2 == Xor(v[2], u1)
  IN  <<u0, u1, u2, Xor(v[3], u2)>>

(* What siphash is given holds no byte that was left uninitialised, and    *)
(* none of the seed is lost in it: the key's second half is the seed, and  *)
(* its first half alone determines it as well, so that two maps with       *)
(* different seeds do not hash with keys that share a half.                *)
KeyDeterminesSeed ==
  pc = "hash" =>
    /\ KeyOf(key) \in [0..15 -> Byte]
    /\ read64le(key, 8) = seed
    /\ \A i \in 0..3 : /\ read64be(key, 0)[i] = seed[i]
                       /\ Unmixed(read32be(key, 0))[i + 1] = seed[i + 4]
=============================================================================
