--------------------------- MODULE Utf8CheckProofs ---------------------------
(***************************************************************************)
(* Utf8Check for buffers of every length.  The argument follows the loop   *)
(* along a row of characters from 0: while it is on the row it is at the   *)
(* start of one of them, and leaves the row only at its end.  Where going  *)
(* back from an error leads onto the row again, it goes round for ever.    *)
(***************************************************************************)
EXTENDS Utf8Check, WellFoundedInduction, TLAPS

(* On a row of characters up to the end of the buffer or beyond it.        *)
OnWalk ==
  \A end \in len..(len + Beyond) : \A starts \in SUBSET (0..end) :
     IsWalk(starts, end) =>
       /\ idx \in starts
       /\ answer # "false"
       /\ answer = "true" => idx >= len

(* On a row of characters up to an error at p, and then past it.           *)
AfterError(p) ==
  \/ p < ErrorCode /\ idx >= len /\ answer # "false"
  \/ p = ErrorCode /\ answer = "false"

OnWalkToError ==
  \A p \in 0..ErrorCode : \A starts \in SUBSET (0..p) :
     p < len /\ ~Character(p) /\ IsWalk(starts, p) =>
       (idx \in starts /\ answer = "none") \/ AfterError(p)

(* On a row of characters up to an error at p, or on the way back from     *)
(* there to i, where another of these characters starts.                   *)
GoesRound(p, i, starts) ==
  /\ idx \in starts \/ (i <= idx /\ idx <= p /\ (p - idx) % ErrorCode = 0)
  /\ answer = "none"

RoundAgain ==
  \A p \in 0..(len - 1), i \in 0..(len - 1) : \A starts \in SUBSET (0..p) :
     /\ ~Character(p)
     /\ IsWalk(starts, p)
     /\ i \in starts \ {0, p}
     /\ (p - i) % ErrorCode = 0
     => GoesRound(p, i, starts)

(* No character starts beyond the buffer.                                  *)
NoStartBeyond == \A i \in len..(len + Beyond - 1) : data[i] \in {0, 5}

Utf8Inv == TypeOK /\ NoStartBeyond /\ OnWalk /\ OnWalkToError /\ RoundAgain
-----------------------------------------------------------------------------
LEMMA ModSmall ==
  ASSUME NEW n \in Nat \ {0}, NEW a \in Int, 0 <= a, a < n
  PROVE  a % n = a
OBVIOUS

LEMMA ModBelow ==
  ASSUME NEW n \in Nat \ {0}, NEW a \in Int, -n <= a, a < 0
  PROVE  a % n = a + n
OBVIOUS

LEMMA LeastOf ==
  ASSUME NEW S, S \subseteq Nat, S # {}
  PROVE  \E m \in S : \A k \in S : m <= k
<1>1. PICK x \in S : \A y \in S : ~(<<y, x>> \in OpToRel(<, Nat))
  BY NatLessThanWellFounded, WFMin
<1>2. ASSUME NEW k \in S PROVE x <= k
  <2>1. <<k, x>> \notin OpToRel(<, Nat)
    BY <1>1
  <2>2. k \in Nat /\ x \in Nat
    OBVIOUS
  <2>3. ~(k < x)
    BY <2>1, <2>2 DEF OpToRel
  <2> QED  BY <2>2, <2>3
<1> QED  BY <1>2

LEMMA Numbers ==
  ASSUME TypeOK
  PROVE  /\ len \in Nat /\ len <= MaxLen /\ idx \in Nat
         /\ MaxLen \in Nat /\ SizeMod \in Nat \ {0} /\ MaxLen + 3 < SizeMod
         /\ ErrorCode = 3
BY Utf8Assumption DEF TypeOK, Beyond, ErrorCode

(* A character is passed without wrapping.                                 *)
LEMMA PassCharacter ==
  ASSUME TypeOK, idx < len, Character(idx), idx + data[idx] <= len + 3
  PROVE  Advanced = idx + data[idx] /\ Advanced > 0
<1> DEFINE a == idx + data[idx]
<1>1. a \in Int /\ 0 < a /\ a < SizeMod
  BY Numbers DEF Character
<1>2. Advanced = a % SizeMod
  BY DEF Advanced, utf8proc_iterate
<1> HIDE DEF a
<1>3. a % SizeMod = a
  BY <1>1, Numbers, ModSmall
<1> QED  BY <1>1, <1>2, <1>3 DEF a

(* From anything that is no character the index goes 3 back.               *)
LEMMA StepsBack ==
  ASSUME TypeOK, ~Character(idx), idx < len, 3 < idx
  PROVE  Advanced = idx - 3
<1> DEFINE a == idx - 3
<1>1. Advanced = a % SizeMod
  BY Numbers DEF Advanced, utf8proc_iterate
<1>2. a \in Int /\ 0 <= a /\ a < SizeMod /\ SizeMod \in Nat \ {0}
  BY Numbers
<1> HIDE DEF a
<1>3. Advanced = a
  BY <1>1, <1>2, ModSmall
<1> QED  BY <1>3 DEF a

(* An error at p sends the index 3 back, below 0 when p is less than 3.    *)
LEMMA PassError ==
  ASSUME TypeOK, ~Character(idx), idx <= 3
  PROVE  Advanced = IF idx < 3 THEN idx - 3 + SizeMod ELSE 0
<1> DEFINE a == idx - 3
<1>1. Advanced = a % SizeMod
  BY Numbers DEF Advanced, utf8proc_iterate
<1>2. a \in Int /\ -SizeMod <= a /\ a <= 0 /\ SizeMod \in Nat \ {0} /\ (a < 0 <=> idx < 3)
  BY Numbers
<1> HIDE DEF a
<1>3. CASE a < 0
  BY <1>1, <1>2, <1>3, ModBelow DEF a
<1>4. CASE a = 0
  BY <1>1, <1>2, <1>4, ModSmall
<1> QED  BY <1>2, <1>3, <1>4

LEMMA InitUtf8Inv ==
  ASSUME Init
  PROVE  Utf8Inv
<1>1. TypeOK
  BY Utf8Assumption DEF Init, TypeOK, Beyond
<1>2. NoStartBeyond /\ OnWalk /\ OnWalkToError
  BY DEF Init, NoStartBeyond, OnWalk, OnWalkToError, IsWalk
<1>3. RoundAgain
  BY DEF Init, RoundAgain, GoesRound, IsWalk
<1> QED  BY <1>1, <1>2, <1>3 DEF Utf8Inv

(* The two disjuncts of a step.                                            *)
LEMMA StepIs ==
  ASSUME validate_utf8
  PROVE  /\ UNCHANGED <<data, len>> /\ answer = "none"
         /\ \/ /\ idx < len /\ idx' = Advanced
               /\ answer' = IF Advanced = 0 THEN "false" ELSE "none"
            \/ idx >= len /\ answer' = "true" /\ UNCHANGED idx
BY DEF validate_utf8, IsRefused

LEMMA StepKeepsTypeOK ==
  ASSUME TypeOK, validate_utf8
  PROVE  TypeOK'
<1>1. /\ UNCHANGED <<data, len>>
      /\ \/ idx' = Advanced \/ UNCHANGED idx
      /\ answer' \in {"none", "true", "false"}
  BY StepIs
<1>2. utf8proc_iterate(idx) \in Int
  BY DEF utf8proc_iterate, Character, ErrorCode
<1>3. Advanced \in 0..(SizeMod - 1)
  <2> DEFINE a == idx + utf8proc_iterate(idx)
  <2>1. a \in Int /\ SizeMod \in Nat \ {0}
    BY <1>2, Numbers
  <2>2. Advanced = a % SizeMod
    BY DEF Advanced
  <2> HIDE DEF a
  <2> QED  BY <2>1, <2>2
<1>4. idx' \in 0..(SizeMod - 1)
  BY <1>1, <1>3 DEF TypeOK
<1> QED  BY <1>1, <1>4, Zenon DEF TypeOK

LEMMA StepStaysOnWalk ==
  ASSUME TypeOK, OnWalk, validate_utf8
  PROVE  OnWalk'
<1>1. ASSUME NEW end \in len..(len + 3), NEW starts \in SUBSET (0..end),
             IsWalk(starts, end)
      PROVE  idx' \in starts /\ answer' # "false" /\ (answer' = "true" => idx' >= len)
  <2>1. idx \in starts
    BY <1>1 DEF OnWalk, Beyond
  <2>2. CASE idx >= len
    BY <2>1, <2>2, StepIs, Numbers
  <2>3. CASE idx < len
    <3>1. Character(idx) /\ idx + data[idx] \in starts
      BY <1>1, <2>1, <2>3, Numbers DEF IsWalk
    <3>2. idx + data[idx] <= len + 3
      <4> DEFINE n == idx + data[idx]
      <4>1. n \in 0..end
        BY <1>1, <3>1
      <4> HIDE DEF n
      <4>2. n <= len + 3
        BY <1>1, <4>1, Numbers
      <4> QED  BY <4>2 DEF n
    <3>3. Advanced = idx + data[idx] /\ Advanced > 0
      BY <2>3, <3>1, <3>2, PassCharacter
    <3>4. idx' = Advanced /\ answer' = IF Advanced = 0 THEN "false" ELSE "none"
      BY <2>3, StepIs, Numbers
    <3> QED  BY <3>1, <3>3, <3>4
  <2> QED  BY <2>2, <2>3, Numbers
<1>2. UNCHANGED <<data, len>>
  BY StepIs
<1>3. ASSUME NEW end \in len..(len + 3), NEW starts \in SUBSET (0..end), IsWalk(starts, end)'
      PROVE  IsWalk(starts, end)
  BY <1>2, <1>3 DEF IsWalk, Character
<1> QED  BY <1>1, <1>2, <1>3 DEF OnWalk, Beyond

LEMMA StepStaysOnWalkToError ==
  ASSUME TypeOK, OnWalkToError, validate_utf8
  PROVE  OnWalkToError'
<1>1. ASSUME NEW p \in 0..3, NEW starts \in SUBSET (0..p),
             p < len, ~Character(p), IsWalk(starts, p)
      PROVE  (idx' \in starts /\ answer' = "none") \/ AfterError(p)'
  <2>1. CASE idx \in starts /\ answer = "none"
    <3>0. idx \in Nat /\ idx <= p /\ idx < len
      BY <1>1, <2>1, Numbers
    <3>1. idx' = Advanced /\ answer' = IF Advanced = 0 THEN "false" ELSE "none"
      BY <3>0, StepIs, Numbers
    <3>2. CASE idx = p
      <4>1. Advanced = IF idx < 3 THEN idx - 3 + SizeMod ELSE 0
        BY <1>1, <3>0, <3>2, PassError
      <4>2. CASE p < 3
        <5>1. Advanced >= len /\ Advanced # 0
          BY <3>0, <3>2, <4>1, <4>2, Numbers
        <5> QED  BY <3>1, <4>2, <5>1, StepIs DEF AfterError, ErrorCode
      <4>3. CASE p = 3
        BY <3>1, <3>2, <4>1, <4>3 DEF AfterError, ErrorCode
      <4> QED  BY <1>1, <4>2, <4>3
    <3>3. CASE idx # p
      <4>1. Character(idx) /\ idx + data[idx] \in starts
        BY <1>1, <2>1, <3>3 DEF IsWalk
      <4>2. idx + data[idx] <= len + 3
        <5> DEFINE n == idx + data[idx]
        <5>1. n \in 0..p
          BY <1>1, <4>1
        <5> HIDE DEF n
        <5>2. n <= len + 3
          BY <1>1, <5>1, Numbers
        <5> QED  BY <5>2 DEF n
      <4>3. Advanced = idx + data[idx] /\ Advanced > 0
        BY <3>0, <4>1, <4>2, PassCharacter
      <4> QED  BY <3>1, <4>1, <4>3
    <3> QED  BY <3>2, <3>3
  <2>2. CASE AfterError(p)
    BY <2>2, StepIs, Numbers DEF AfterError
  <2> QED  BY <1>1, <2>1, <2>2 DEF OnWalkToError, ErrorCode
<1>2. UNCHANGED <<data, len>>
  BY StepIs
<1>3. \A p \in 0..3 : Character(p)' <=> Character(p)
  BY <1>2 DEF Character
<1>4. \A p \in 0..3 : \A starts \in SUBSET (0..p) : IsWalk(starts, p)' => IsWalk(starts, p)
  BY <1>2 DEF IsWalk, Character
<1> QED  BY <1>1, <1>2, <1>3, <1>4 DEF OnWalkToError, ErrorCode

(* Between two starts of a row there are only continuation bytes.          *)
LEMMA BetweenStarts ==
  ASSUME NEW p \in Nat, NEW starts \in SUBSET (0..p), IsWalk(starts, p),
         NEW j \in 0..p, j \notin starts
  PROVE  ~Character(j)
<1> DEFINE behind == {k \in Nat : j - k \in starts /\ k # 0}
<1>1. 0 \in starts /\ j # 0 /\ j \in behind
  BY DEF IsWalk
<1>2. PICK k \in behind : \A m \in behind : k <= m
  <2>1. behind \subseteq Nat /\ behind # {}
    BY <1>1
  <2> HIDE DEF behind
  <2> QED  BY <2>1, LeastOf
<1> DEFINE s == j - k
<1>3. s \in starts /\ s \in Nat /\ s < j /\ s # p /\ k \in Nat
  BY <1>2
<1>4. data[s] \in 1..4 /\ s + data[s] \in starts
      /\ \A n \in 1..(data[s] - 1) : data[s + n] = Continuation
  BY <1>3 DEF IsWalk, Character
<1>5. s + data[s] >= j
  <2>1. SUFFICES ASSUME s + data[s] < j PROVE FALSE
    BY <1>3, <1>4
  <2> DEFINE m == j - (s + data[s])
  <2>2. m \in behind /\ m < k
    BY <1>3, <1>4, <2>1
  <2> QED  BY <1>2, <1>3, <2>2
<1>6. s + data[s] # j
  BY <1>4
<1>7. k \in 1..(data[s] - 1) /\ s + k = j
  BY <1>2, <1>3, <1>4, <1>5, <1>6
<1>8. data[j] = 0
  BY <1>4, <1>7 DEF Continuation
<1> QED  BY <1>8 DEF Character

LEMMA ThreeBack ==
  ASSUME NEW p \in Nat, NEW i \in Nat, NEW j \in Nat, i < j, j <= p,
         (p - i) % 3 = 0, (p - j) % 3 = 0
  PROVE  i <= j - 3 /\ (p - (j - 3)) % 3 = 0
OBVIOUS

LEMMA StepGoesRound ==
  ASSUME TypeOK, RoundAgain, validate_utf8
  PROVE  RoundAgain'
<1>1. ASSUME NEW p \in 0..(len - 1), NEW i \in 0..(len - 1), NEW starts \in SUBSET (0..p),
             ~Character(p), IsWalk(starts, p), i \in starts \ {0, p}, (p - i) % 3 = 0
      PROVE  GoesRound(p, i, starts)'
  <2>1. GoesRound(p, i, starts)
    BY <1>1 DEF RoundAgain, ErrorCode
  <2>2. i \in Nat /\ p \in Nat /\ 0 < i /\ i < p /\ p < len
    BY <1>1, Numbers
  <2>3. idx \in Nat /\ idx <= p /\ idx < len
    BY <1>1, <2>1, <2>2, Numbers DEF GoesRound
  <2>4. idx' = Advanced /\ answer' = IF Advanced = 0 THEN "false" ELSE "none"
    BY <2>3, StepIs, Numbers
  <2>5. CASE idx \in starts \ {p}
    <3>1. Character(idx) /\ idx + data[idx] \in starts
      BY <1>1, <2>5 DEF IsWalk
    <3>2. idx + data[idx] <= len + 3
      <4> DEFINE n == idx + data[idx]
      <4>1. n \in 0..p
        BY <1>1, <3>1
      <4> HIDE DEF n
      <4>2. n <= len + 3
        BY <2>2, <4>1, Numbers
      <4> QED  BY <4>2 DEF n
    <3>3. Advanced = idx + data[idx] /\ Advanced > 0
      BY <2>3, <3>1, <3>2, PassCharacter
    <3> QED  BY <2>4, <3>1, <3>3 DEF GoesRound
  <2>6. CASE idx \notin starts \ {p}
    <3>1. ~Character(idx)
      BY <1>1, <2>2, <2>3, <2>6, BetweenStarts
    <3>2. i < idx /\ (p - idx) % 3 = 0
      <4>1. CASE idx = p
        BY <2>2, <4>1
      <4>2. CASE idx \notin starts
        BY <1>1, <2>1, <2>2, <2>3, <4>2 DEF GoesRound, ErrorCode
      <4> QED  BY <2>6, <4>1, <4>2
    <3>3. i <= idx - 3 /\ (p - (idx - 3)) % 3 = 0
      BY <1>1, <2>2, <2>3, <3>2, ThreeBack
    <3>4. Advanced = idx - 3
      BY <2>2, <2>3, <3>1, <3>3, StepsBack
    <3> QED  BY <2>2, <2>3, <2>4, <3>3, <3>4 DEF GoesRound, ErrorCode
  <2> QED  BY <2>5, <2>6
<1>2. UNCHANGED <<data, len>>
  BY StepIs
<1>3. \A p \in 0..(len - 1) : Character(p)' <=> Character(p)
  BY <1>2 DEF Character
<1>4. ASSUME NEW p \in 0..(len - 1), NEW starts \in SUBSET (0..p), IsWalk(starts, p)'
      PROVE  IsWalk(starts, p)
  BY <1>2, <1>4 DEF IsWalk, Character
<1> QED  BY <1>1, <1>2, <1>3, <1>4 DEF RoundAgain, ErrorCode

LEMMA StepKeepsUtf8Inv ==
  ASSUME Utf8Inv, [validate_utf8]_vars
  PROVE  Utf8Inv'
<1>1. CASE validate_utf8
  <2>1. NoStartBeyond'
    BY <1>1, StepIs DEF Utf8Inv, NoStartBeyond
  <2> QED
    BY <1>1, <2>1, StepKeepsTypeOK, StepStaysOnWalk, StepStaysOnWalkToError, StepGoesRound
    DEF Utf8Inv
<1>2. CASE UNCHANGED vars
  BY <1>2 DEF vars, Utf8Inv, TypeOK, NoStartBeyond, OnWalk, OnWalkToError, AfterError,
              RoundAgain, GoesRound, IsWalk, Character
<1> QED  BY <1>1, <1>2

LEMMA InvMeans ==
  ASSUME Utf8Inv
  PROVE  CompletedIsAccepted /\ AnswerOfFirstError /\ (NeverEnds => answer = "none")
<1>1. CompletedIsAccepted
  <2>1. ASSUME NEW end \in len..(len + 3), NEW starts \in SUBSET (0..end), IsWalk(starts, end)
        PROVE  answer # "false" /\ idx <= end /\ (answer = "true" => idx = end)
    <3>1. /\ idx \in starts
          /\ answer # "false"
          /\ answer = "true" => idx >= len
      BY <2>1 DEF Utf8Inv, OnWalk, Beyond
    <3>2. idx \in Nat /\ idx <= end /\ end <= len + 3 /\ len \in Nat
      BY <2>1, <3>1, Numbers DEF Utf8Inv
    <3>3. ASSUME idx >= len, idx # end PROVE FALSE
      <4>1. data[idx] \in {0, 5}
        BY <3>2, <3>3, <2>1 DEF Utf8Inv, NoStartBeyond, Beyond
      <4>2. Character(idx)
        BY <2>1, <3>1, <3>3 DEF IsWalk
      <4> QED  BY <4>1, <4>2 DEF Character
    <3> QED  BY <3>1, <3>2, <3>3
  <2> QED  BY <2>1 DEF CompletedIsAccepted, WalkTo, Beyond
<1>2. AnswerOfFirstError
  <2>1. ASSUME NEW p \in 0..3, FirstRefused(p)
        PROVE  /\ answer = "false" => p = 3
               /\ answer = "true" => p < 3
    BY <2>1 DEF FirstRefused, WalkTo, Utf8Inv, OnWalkToError, AfterError, ErrorCode
  <2> QED  BY <2>1 DEF AnswerOfFirstError, ErrorCode
<1>3. ASSUME NeverEnds PROVE answer = "none"
  <2>1. PICK p \in 0..(len - 1) :
          ~Character(p) /\ \E i \in 0..p : MeetsCharacterAgain(p, i)
    BY <1>3 DEF NeverEnds
  <2>2. PICK i \in 0..p : MeetsCharacterAgain(p, i)
    BY <2>1
  <2>3. PICK starts \in SUBSET (0..p) :
          IsWalk(starts, p) /\ i \in starts \ {0, p} /\ (p - i) % ErrorCode = 0
    BY <2>2 DEF MeetsCharacterAgain
  <2>4. i \in 0..(len - 1)
    BY <2>1, <2>2, Numbers DEF Utf8Inv
  <2> QED  BY <2>1, <2>3, <2>4 DEF Utf8Inv, RoundAgain, GoesRound
<1> QED  BY <1>1, <1>2, <1>3

(* For every length: a well-formed buffer is never refused, and the loop   *)
(* stays in it; one whose last character goes on behind it is accepted.    *)
THEOREM CutOffIsAccepted == Spec => []CompletedIsAccepted
<1>1. Init => Utf8Inv
  BY InitUtf8Inv
<1>2. Utf8Inv /\ [validate_utf8]_vars => Utf8Inv'
  BY StepKeepsUtf8Inv
<1>3. Utf8Inv => CompletedIsAccepted
  BY InvMeans
<1> QED  BY <1>1, <1>2, <1>3, PTL DEF Spec

(* For every length: where going back from the first error brings the loop *)
(* to a character other than the first, it never answers.                  *)
THEOREM NoAnswerForSome == Spec => [](NeverEnds => answer = "none")
<1>1. Init => Utf8Inv
  BY InitUtf8Inv
<1>2. Utf8Inv /\ [validate_utf8]_vars => Utf8Inv'
  BY StepKeepsUtf8Inv
<1>3. Utf8Inv => (NeverEnds => answer = "none")
  BY InvMeans
<1> QED  BY <1>1, <1>2, <1>3, PTL DEF Spec

(* For every length: an error at index 0, 1 or 2 is never answered with    *)
(* false, and one at index 3 never with true.                              *)
THEOREM EarlyErrorsPass == Spec => []AnswerOfFirstError
<1>1. Init => Utf8Inv
  BY InitUtf8Inv
<1>2. Utf8Inv /\ [validate_utf8]_vars => Utf8Inv'
  BY StepKeepsUtf8Inv
<1>3. Utf8Inv => AnswerOfFirstError
  BY InvMeans
<1> QED  BY <1>1, <1>2, <1>3, PTL DEF Spec

(* For every length: the index stays a size_t and within its wrap.         *)
THEOREM IndexIsTyped == Spec => []TypeOK
<1>1. Init => Utf8Inv
  BY InitUtf8Inv
<1>2. Utf8Inv /\ [validate_utf8]_vars => Utf8Inv'
  BY StepKeepsUtf8Inv
<1>3. Utf8Inv => TypeOK
  BY DEF Utf8Inv
<1> QED  BY <1>1, <1>2, <1>3, PTL DEF Spec
=============================================================================
