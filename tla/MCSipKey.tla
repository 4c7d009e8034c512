------------------------------ MODULE MCSipKey ------------------------------
(***************************************************************************)
(* SipKey with bytes of two bits.                                          *)
(***************************************************************************)
EXTENDS SipKey

MCXor(a, b) == (((a % 2) + (b % 2)) % 2) + 2 * (((a \div 2) + (b \div 2)) % 2)

MCsiphash(k) == [i \in 0..7 |-> MCXor(k[i], k[15 - i])]
=============================================================================
