------------------------------ MODULE Utf8Check ------------------------------
(***************************************************************************)
(* validate_utf8 of src/containers/buffer.c: a loop over the characters of *)
(* a buffer.  Its index is a size_t, to which it adds the signed result of *)
(* utf8proc_iterate, and whatever len is it offers that function 4 bytes,  *)
(* so that up to 3 bytes beyond the buffer may be read.                    *)
(*                                                                         *)
(* Of a byte only its part in a character is kept: 1 to 4 for the first    *)
(* byte of a character of so many bytes, 0 for a continuation byte, 5 for  *)
(* a byte that starts no character.  A first byte whose second makes the   *)
(* character overlong, a surrogate or too large counts as a 5.             *)
(***************************************************************************)
EXTENDS Integers

CONSTANTS
  SizeMod,  \* the modulus of size_t, 2^64 in the code
  MaxLen    \* bound: the longest buffer

Beyond    == 3   \* the bytes after the buffer that may be read
ErrorCode == 3   \* utf8proc_iterate returns -3 for what is no character

ASSUME Utf8Assumption ==
  /\ SizeMod \in Nat
  /\ MaxLen \in Nat
  /\ MaxLen + Beyond < SizeMod

VARIABLES
  data,   \* the bytes, those after the buffer included
  len,    \* the parameter
  idx,    \* the loop's index
  answer  \* "none" while the loop runs

vars == <<data, len, idx, answer>>

Continuation == 0
-----------------------------------------------------------------------------
(* A whole character starts at i.                                          *)
Character(i) ==
  /\ data[i] \in 1..4
  /\ \A k \in 1..(data[i] - 1) : data[i + k] = Continuation

utf8proc_iterate(i) == IF Character(i) THEN data[i] ELSE -ErrorCode

(* Nothing starts beyond the buffer, but a character may go on there.      *)
Init ==
  /\ len \in 0..MaxLen
  /\ data \in [0..(len + Beyond - 1) -> 0..5]
  /\ \A i \in len..(len + Beyond - 1) : data[i] \in {0, 5}
  /\ idx = 0
  /\ answer = "none"

(* Fault: the sum does not wrap.                                           *)
advanced_unwrapped == idx + utf8proc_iterate(idx)

(* Fault: each byte of a character is looked at by itself.                 *)
advanced_by_byte ==
  (idx + (IF Character(idx) THEN 1 ELSE -ErrorCode)) % SizeMod

(* Fault: what is no character is skipped.                                 *)
advanced_past_error ==
  (idx + (IF Character(idx) THEN data[idx] ELSE 1)) % SizeMod

Advanced == (idx + utf8proc_iterate(idx)) % SizeMod

(* Fault: the test is lost.                                                *)
never_refused(i) == FALSE

(* "<= 0" of an unsigned index.                                            *)
IsRefused(i) == i = 0

validate_utf8 ==
  /\ answer = "none"
  /\ \/ /\ idx < len
        /\ idx' = Advanced
        /\ answer' = IF IsRefused(Advanced) THEN "false" ELSE "none"
     \/ /\ idx >= len
        /\ answer' = "true"
        /\ UNCHANGED idx
  /\ UNCHANGED <<data, len>>

Spec == Init /\ [][validate_utf8]_vars

(* The loop is not interrupted.                                            *)
FairSpec == Spec /\ WF_vars(validate_utf8)
-----------------------------------------------------------------------------
TypeOK ==
  /\ len \in 0..MaxLen
  /\ data \in [0..(len + Beyond - 1) -> 0..5]
  /\ idx \in 0..(SizeMod - 1)
  /\ answer \in {"none", "true", "false"}

(* The starts of a row of characters from 0 that reaches end.              *)
IsWalk(starts, end) ==
  /\ 0 \in starts
  /\ \A i \in starts : i = end \/ (Character(i) /\ i + data[i] \in starts)

(* A row of whole characters goes from 0 to end.                           *)
WalkTo(end) == \E starts \in SUBSET (0..end) : IsWalk(starts, end)

(* The reference: the buffer is a row of whole characters.                 *)
WellFormed == WalkTo(len)

(* The first thing in the buffer that is no character starts at p.         *)
FirstRefused(p) == p < len /\ ~Character(p) /\ WalkTo(p)

(* A well-formed buffer is not refused, and the loop stays in it.  So much *)
(* is promised ("True if the buffer is valid UTF-8, false otherwise",      *)
(* buffer.h:37); but nothing tells it from a buffer cut off in its last    *)
(* character which happens to go on in the bytes behind the buffer.  That  *)
(* one is not refused either, and is accepted with the index beyond it.    *)
CompletedIsAccepted ==
  \A end \in len..(len + Beyond) : WalkTo(end) =>
     answer # "false" /\ idx <= end /\ (answer = "true" => idx = end)

(* What the answer says of a buffer that is not well-formed depends on     *)
(* where its first error is.  At 0, 1 or 2 the index wraps to the end of   *)
(* the loop and the buffer is accepted; only at 3 is the sum the 0 that    *)
(* the test waits for; anywhere else the loop goes 3 bytes back.           *)
AnswerOfFirstError ==
  /\ answer = "false" => \A p \in 0..(ErrorCode - 1) : ~FirstRefused(p)
  /\ answer = "true"  => ~FirstRefused(ErrorCode)

(* Going back from the first error, at p, by threes, the loop meets the    *)
(* start i of a character, which is not the first.                         *)
MeetsCharacterAgain(p, i) ==
  \E starts \in SUBSET (0..p) :
     IsWalk(starts, p) /\ i \in starts \ {0, p} /\ (p - i) % ErrorCode = 0

NeverEnds ==
  \E p \in 0..(len - 1) :
     ~Character(p) /\ \E i \in 0..p : MeetsCharacterAgain(p, i)

(* The check is to return true or false (buffer.h:37).  It returns exactly *)
(* when going back from the first error does not bring it to a character   *)
(* other than the first: from there it comes to the same error again, and  *)
(* the loop goes on for ever.                                              *)
Returns ==
  /\ ~NeverEnds ~> (answer # "none")
  /\ [](NeverEnds => answer = "none")

(* "@return True if the buffer is valid UTF-8, false otherwise."           *)
(* (buffer.h:37)                                                           *)
TrueIsRight == answer = "true" => WellFormed
=============================================================================
