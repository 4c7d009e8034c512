--------------------------- MODULE HashmapProofs ---------------------------
(***************************************************************************)
(* Invariants and action properties of Hashmap, proved for every set of    *)
(* keys, every hash function and every capacity.                           *)
(*                                                                         *)
(* None of the invariants is inductive alone.  What a swap installs is the *)
(* table under construction, so IInv says of new_buckets what the          *)
(* invariants say of buckets, and counts its entries against those         *)
(* hmap_rehash has passed; TypeOK needs that count, for "hmap->set--" not  *)
(* to wrap; and LockedOnlyAfterError needs to know how a call that is      *)
(* still running came to hold the lock.                                    *)
(*                                                                         *)
(* First come the operators Hashmap is built from: what each of them makes *)
(* of a bucket, and what replacing one bucket does to a table.             *)
(***************************************************************************)
EXTENDS Hashmap, SequenceTheorems, FiniteSetTheorems, TLAPS

USE DEF linked_last, GrownCapacity, Unhealthy, NewIndex, RehashFailed,
        LockedAfterCall, SetAfterCall

Vals == Values \cup {NULL, ListPtr}

(* A simple bucket holds at most one entry and never a freed one; a list   *)
(* has two nodes or more, or one if the second was lost when it was made.  *)
WellShaped(b, least) ==
  IF b.complex THEN Len(b.chain) >= least
               ELSE Len(b.chain) <= 1 /\ \A n \in DOMAIN b.chain : b.chain[n].live

Least == IF lost THEN 1 ELSE 2

BucketShape == \A i \in DOMAIN buckets : WellShaped(buckets[i], Least)

(* b2 is b with at most one more entry, whose key is k.                    *)
Grows(b, b2, k) ==
  /\ Len(b2.chain) <= Len(b.chain) + 1
  /\ \A n \in DOMAIN b2.chain :
        \/ b2.chain[n].key = k
        \/ \E m \in DOMAIN b.chain : b2.chain[n].key = b.chain[m].key

(* b2 is b, possibly with fewer entries.                                   *)
Shrinks(b, b2) ==
  /\ Len(b2.chain) <= Len(b.chain)
  /\ \A n \in DOMAIN b2.chain :
        \E m \in DOMAIN b.chain : b2.chain[n].key = b.chain[m].key

(* A key's index is one of the table's buckets.                            *)
LEMMA IndexInRange ==
  ASSUME NEW k \in Keys, NEW cap \in Nat \ {0}
  PROVE  Index(k, cap) \in 0..(cap - 1)
BY ConstantsAssumption DEF Index

LEMMA BucketChain ==
  ASSUME NEW b \in Bucket
  PROVE  /\ b.chain \in Seq(Entry)
         /\ b.complex \in BOOLEAN
         /\ Len(b.chain) \in Nat
         /\ DOMAIN b.chain = 1..Len(b.chain)
         /\ \A n \in 1..Len(b.chain) : b.chain[n] \in Entry
         /\ b.chain # << >> => Len(b.chain) >= 1
BY LenProperties, ElementOfSeq, EmptySeq DEF Bucket

LEMMA NewEntryType ==
  ASSUME NEW k \in Keys, NEW v \in Vals
  PROVE  NewEntry(k, v) \in Entry
BY DEF NewEntry, Entry, Vals

(* A bucket with one more entry at its end.                                *)
LEMMA AppendedBucket ==
  ASSUME NEW b \in Bucket, NEW k \in Keys, NEW v \in Vals
  PROVE  LET b2 == [complex |-> TRUE, chain |-> Append(b.chain, NewEntry(k, v))]
         IN  /\ b2 \in Bucket
             /\ Grows(b, b2, k)
             /\ b.chain # << >> => WellShaped(b2, 2)
<1> DEFINE e  == NewEntry(k, v)
           b2 == [complex |-> TRUE, chain |-> Append(b.chain, e)]
<1>1. e \in Entry /\ e.key = k
  BY NewEntryType DEF NewEntry
<1>2. b.chain \in Seq(Entry) /\ Len(b.chain) \in Nat /\ DOMAIN b.chain = 1..Len(b.chain)
  BY BucketChain
<1>3. /\ b2.chain \in Seq(Entry)
      /\ Len(b2.chain) = Len(b.chain) + 1
      /\ \A i \in 1..Len(b.chain) : b2.chain[i] = b.chain[i]
      /\ b2.chain[Len(b.chain) + 1] = e
  <2> HIDE DEF e
  <2> QED  BY <1>1, <1>2, AppendProperties
<1>4. DOMAIN b2.chain = 1..(Len(b.chain) + 1)
  BY <1>3, LenProperties
<1>5. b2 \in Bucket
  BY <1>3 DEF Bucket
<1>6. Grows(b, b2, k)
  <2>1. ASSUME NEW n \in DOMAIN b2.chain
        PROVE  \/ b2.chain[n].key = k
               \/ \E m \in DOMAIN b.chain : b2.chain[n].key = b.chain[m].key
    <3> HIDE DEF e
    <3>1. CASE n = Len(b.chain) + 1
      BY <3>1, <1>1, <1>3
    <3>2. CASE n \in 1..Len(b.chain)
      BY <3>2, <1>2, <1>3
    <3> QED  BY <3>1, <3>2, <1>2, <1>4
  <2> HIDE DEF b2
  <2> QED  BY <2>1, <1>2, <1>3 DEF Grows
<1>7. ASSUME b.chain # << >>
      PROVE  WellShaped(b2, 2)
  BY <1>7, <1>2, <1>3, BucketChain DEF WellShaped
<1> HIDE DEF b2, e
<1> QED  BY <1>5, <1>6, <1>7 DEF b2, e

(* A bucket whose first entry has another value.                           *)
LEMMA RevaluedBucket ==
  ASSUME NEW b \in Bucket, NEW v \in Vals, NEW least
  PROVE  LET b2 == [b EXCEPT !.chain[1].val = v]
         IN  /\ b2 \in Bucket
             /\ Shrinks(b, b2)
             /\ WellShaped(b, least) => WellShaped(b2, least)
<1> DEFINE c2 == [b.chain EXCEPT ![1].val = v]
           b2 == [b EXCEPT !.chain[1].val = v]
<1>1. b.chain \in Seq(Entry) /\ Len(b.chain) \in Nat /\ DOMAIN b.chain = 1..Len(b.chain)
  BY BucketChain
<1>2. b2 = [b EXCEPT !.chain = c2] /\ b2.chain = c2 /\ b2.complex = b.complex
  BY DEF Bucket
<1>3. c2 \in Seq(Entry) /\ Len(c2) = Len(b.chain) /\ DOMAIN c2 = DOMAIN b.chain
      /\ \A n \in DOMAIN b.chain : c2[n].key = b.chain[n].key /\ c2[n].live = b.chain[n].live
  <2>1. CASE 1 \in DOMAIN b.chain
    <3> DEFINE e2 == [b.chain[1] EXCEPT !.val = v]
    <3>1. b.chain[1] \in Entry
      BY <2>1, BucketChain
    <3>2. e2 \in Entry /\ e2.key = b.chain[1].key /\ e2.live = b.chain[1].live
      BY <3>1 DEF Entry, Vals
    <3>3. c2 = [b.chain EXCEPT ![1] = e2]
      OBVIOUS
    <3> HIDE DEF e2, c2
    <3>4. c2 \in Seq(Entry) /\ Len(c2) = Len(b.chain)
          /\ \A j \in 1..Len(b.chain) : c2[j] = IF j = 1 THEN e2 ELSE b.chain[j]
      BY <3>2, <3>3, <2>1, <1>1, ExceptSeq
    <3> QED  BY <3>2, <3>4, <1>1, LenProperties
  <2>2. CASE 1 \notin DOMAIN b.chain
    <3>1. c2 = b.chain
      BY <2>2, <1>1
    <3> QED  BY <3>1, <1>1
  <2> QED  BY <2>1, <2>2
<1> HIDE DEF c2, b2
<1>4. b2 \in Bucket
  BY <1>2, <1>3 DEF Bucket
<1>5. Shrinks(b, b2)
  BY <1>1, <1>2, <1>3 DEF Shrinks
<1>6. WellShaped(b, least) => WellShaped(b2, least)
  BY <1>1, <1>2, <1>3 DEF WellShaped
<1> QED  BY <1>4, <1>5, <1>6 DEF b2
LEMMA SimpleBucket ==
  ASSUME NEW e \in Entry, NEW b \in Bucket, NEW least
  PROVE  /\ Simple(e) \in Bucket
         /\ Grows(b, Simple(e), e.key)
         /\ e.live => WellShaped(Simple(e), least)
<1>1. <<e>> \in Seq(Entry) /\ Len(<<e>>) = 1 /\ <<e>>[1] = e /\ DOMAIN <<e>> = 1..1
  OBVIOUS
<1>2. Len(b.chain) \in Nat
  BY BucketChain
<1> QED  BY <1>1, <1>2 DEF Simple, Bucket, Grows, WellShaped

LEMMA EmptyBucketFacts ==
  /\ EmptyBucket \in Bucket
  /\ \A least : WellShaped(EmptyBucket, least)
  /\ EmptyBucket.chain = << >>
  /\ DOMAIN EmptyBucket.chain = {}
BY EmptySeq DEF EmptyBucket, Bucket, WellShaped

(* A bucket that needs fewer nodes has them.                               *)
LEMMA FewerSuffice ==
  ASSUME NEW b \in Bucket, NEW m \in {1, 2}, NEW n \in {1, 2}, n <= m,
         WellShaped(b, m)
  PROVE  WellShaped(b, n)
<1>1. Len(b.chain) \in Nat
  BY BucketChain
<1> QED  BY <1>1 DEF WellShaped

(* A bucket made a list without its second node.                           *)
LEMMA LoneListBucket ==
  ASSUME NEW b \in Bucket, NEW k \in Keys
  PROVE  LET b2 == [complex |-> TRUE, chain |-> b.chain]
         IN  /\ b2 \in Bucket
             /\ Grows(b, b2, k)
             /\ b.chain # << >> => WellShaped(b2, 1)
<1> DEFINE b2 == [complex |-> TRUE, chain |-> b.chain]
<1>1. b2 \in Bucket
  BY BucketChain DEF Bucket
<1>2. Grows(b, b2, k)
  BY BucketChain DEF Grows
<1>3. b.chain # << >> => WellShaped(b2, 1)
  BY BucketChain DEF WellShaped
<1> QED  BY <1>1, <1>2, <1>3

(* What hmap_complex_key_set_value leaves, whether or not a malloc failed: *)
(* the bucket, with the new entry or without it.                           *)
LEMMA SetValueBucket ==
  ASSUME NEW b \in Bucket, NEW k \in Keys, NEW v \in Vals, NEW least \in {1, 2},
         NEW o \in hmap_complex_key_set_value(b, k, v)
  PROVE  /\ o.bucket \in Bucket
         /\ o.failed \in BOOLEAN
         /\ o.gone \in BOOLEAN
         /\ Grows(b, o.bucket, k)
         /\ WellShaped(b, least) /\ b.chain # << >>
              => WellShaped(o.bucket, IF o.gone THEN 1 ELSE least)
<1> DEFINE b1 == [complex |-> TRUE, chain |-> Append(b.chain, NewEntry(k, v))]
           b2 == [complex |-> TRUE, chain |-> b.chain]
           b3 == Halfway(b)
<1>1. \/ o = [bucket |-> b1, failed |-> FALSE, gone |-> FALSE]
      \/ o = [bucket |-> b,  failed |-> TRUE,  gone |-> FALSE]
      \/ o = [bucket |-> b2, failed |-> FALSE, gone |-> TRUE]
      \/ o = [bucket |-> b3, failed |-> TRUE,  gone |-> FALSE]
  BY DEF hmap_complex_key_set_value
<1>2. b1 \in Bucket /\ Grows(b, b1, k)
      /\ (b.chain # << >> => WellShaped(b1, least))
  <2>1. b1 \in Bucket /\ Grows(b, b1, k) /\ (b.chain # << >> => WellShaped(b1, 2))
    BY AppendedBucket
  <2> HIDE DEF b1
  <2> QED  BY <2>1, FewerSuffice
<1>3. Grows(b, b, k)
  BY BucketChain DEF Grows
<1>4. b2 \in Bucket /\ Grows(b, b2, k) /\ (b.chain # << >> => WellShaped(b2, 1))
  BY LoneListBucket
<1>5. b3 \in Bucket /\ Grows(b, b3, k) /\ (WellShaped(b, least) => WellShaped(b3, least))
  <2>1. b3 \in Bucket /\ Shrinks(b, b3) /\ (WellShaped(b, least) => WellShaped(b3, least))
    BY RevaluedBucket DEF Vals, Halfway
  <2> HIDE DEF b3
  <2>2. Grows(b, b3, k)
    BY <2>1, BucketChain DEF Grows, Shrinks
  <2> QED  BY <2>1, <2>2
<1> HIDE DEF b1, b2, b3
<1>6. CASE o = [bucket |-> b1, failed |-> FALSE, gone |-> FALSE]
  BY <1>2, <1>6
<1>7. CASE o = [bucket |-> b, failed |-> TRUE, gone |-> FALSE]
  BY <1>3, <1>7
<1>8. CASE o = [bucket |-> b2, failed |-> FALSE, gone |-> TRUE]
  BY <1>4, <1>8
<1>9. CASE o = [bucket |-> b3, failed |-> TRUE, gone |-> FALSE]
  BY <1>5, <1>9
<1> QED  BY <1>1, <1>6, <1>7, <1>8, <1>9

(* A list without the node before node n.                                  *)
LEMMA UnlinkedBefore ==
  ASSUME NEW c \in Seq(Entry), NEW n \in 3..Len(c)
  PROVE  LET c2 == RemoveAt(c, n - 1)
         IN  /\ c2 \in Seq(Entry)
             /\ Len(c2) = Len(c) - 1
             /\ DOMAIN c2 = 1..(Len(c) - 1)
             /\ \A j \in 1..(Len(c) - 1) : c2[j] = IF j <= n - 2 THEN c[j] ELSE c[j + 1]
<1> DEFINE s1 == SubSeq(c, 1, n - 2)
           s2 == SubSeq(c, n, Len(c))
           c2 == RemoveAt(c, n - 1)
<1>0. Len(c) \in Nat /\ n \in Int /\ n >= 3 /\ n <= Len(c)
  BY LenProperties
<1>1. c2 = s1 \o s2
  BY n - 1 - 1 = n - 2, n - 1 + 1 = n DEF RemoveAt
<1>2. \A i \in 1..Len(c) : c[i] \in Entry
  BY ElementOfSeq
<1>3. s1 \in Seq(Entry) /\ Len(s1) = n - 2 /\ \A i \in 1..(n - 2) : s1[i] = c[i]
  <2>1. \A i \in 1..(n - 2) : c[i] \in Entry
    BY <1>0, <1>2
  <2> QED  BY <2>1, <1>0, SubSeqProperties
<1>4. s2 \in Seq(Entry) /\ Len(s2) = Len(c) - n + 1
      /\ \A i \in 1..(Len(c) - n + 1) : s2[i] = c[n + i - 1]
  <2>1. \A i \in n..Len(c) : c[i] \in Entry
    BY <1>0, <1>2
  <2>2. /\ n \in Int /\ n <= Len(c) /\ Len(c) \in Int
        /\ Len(c) - n + 1 = (IF n <= Len(c) THEN Len(c) - n + 1 ELSE 0)
    BY <1>0
  <2> QED  BY <2>1, <2>2, SubSeqProperties
<1> HIDE DEF s1, s2, c2
<1>5. c2 \in Seq(Entry) /\ Len(c2) = Len(s1) + Len(s2)
      /\ \A i \in 1..Len(s1) + Len(s2) :
             c2[i] = IF i <= Len(s1) THEN s1[i] ELSE s2[i - Len(s1)]
  BY <1>1, <1>3, <1>4, ConcatProperties
<1>6. Len(c2) = Len(c) - 1
  BY <1>0, <1>3, <1>4, <1>5
<1>7. DOMAIN c2 = 1..(Len(c) - 1)
  BY <1>5, <1>6, LenProperties
<1>8. ASSUME NEW j \in 1..(Len(c) - 1)
      PROVE  c2[j] = IF j <= n - 2 THEN c[j] ELSE c[j + 1]
  <2>1. CASE j <= n - 2
    <3>1. j \in 1..Len(s1) + Len(s2) /\ j <= Len(s1) /\ j \in 1..(n - 2)
      BY <1>0, <2>1, <1>3, <1>4
    <3>2. c2[j] = s1[j] /\ s1[j] = c[j]
      BY <3>1, <1>3, <1>5
    <3> QED  BY <2>1, <3>2
  <2>2. CASE j > n - 2
    <3>1. j - (n - 2) \in 1..(Len(c) - n + 1)
      BY <1>0, <2>2
    <3>2. j \in 1..Len(s1) + Len(s2) /\ ~(j <= Len(s1))
      BY <1>0, <2>2, <1>3, <1>4
    <3>3. c2[j] = s2[j - (n - 2)]
      BY <3>2, <1>3, <1>5
    <3>4. n + (j - (n - 2)) - 1 = j + 1 /\ j \in Int
      BY <1>0
    <3>5. s2[j - (n - 2)] = c[n + (j - (n - 2)) - 1]
      BY <3>1, <1>4
    <3>6. ~(j <= n - 2)
      BY <1>0, <2>2, <3>4
    <3> QED  BY <3>3, <3>4, <3>5, <3>6
  <2> QED  BY <1>0, <2>1, <2>2
<1> QED  BY <1>5, <1>6, <1>7, <1>8 DEF c2

(* What hmap_complex_key_unset_value leaves of a list: a part of it, which *)
(* is still a list of two nodes or more.                                   *)
LEMMA UnsetBucket ==
  ASSUME NEW b \in Bucket, NEW n \in DOMAIN b.chain, NEW least \in {1, 2}
  PROVE  LET b2 == [b EXCEPT !.chain = hmap_complex_key_unset_value(b.chain, n)]
         IN  /\ b2 \in Bucket
             /\ Shrinks(b, b2)
             /\ WellShaped(b, least) /\ b.complex => WellShaped(b2, least)
<1> DEFINE c  == [b.chain EXCEPT ![n].live = FALSE]
           c2 == hmap_complex_key_unset_value(b.chain, n)
           b2 == [b EXCEPT !.chain = c2]
           e  == [b.chain[n] EXCEPT !.live = FALSE]
<1>1. b.chain \in Seq(Entry) /\ Len(b.chain) \in Nat /\ DOMAIN b.chain = 1..Len(b.chain)
      /\ b.chain[n] \in Entry /\ n \in 1..Len(b.chain)
  BY BucketChain
<1>2. e \in Entry /\ e.key = b.chain[n].key
  BY <1>1 DEF Entry
<1>3. c = [b.chain EXCEPT ![n] = e]
  OBVIOUS
<1> HIDE DEF c, e
<1>4. c \in Seq(Entry) /\ Len(c) = Len(b.chain)
      /\ \A j \in 1..Len(b.chain) : c[j] = IF j = n THEN e ELSE b.chain[j]
  BY <1>1, <1>2, <1>3, ExceptSeq
<1>5. \A j \in 1..Len(b.chain) : c[j].key = b.chain[j].key
  BY <1>1, <1>2, <1>4
<1>6. /\ c2 \in Seq(Entry)
      /\ Len(c2) <= Len(c)
      /\ \A j \in 1..Len(c2) : \E m \in 1..Len(c) : c2[j] = c[m]
      /\ Len(c) >= 2 => Len(c2) >= 2
      /\ Len(c) >= 1 => Len(c2) >= 1
  <2>1. c2 = ll_remove_node(c, n - 1)
    BY DEF hmap_complex_key_unset_value, c
  <2>2. CASE n - 1 >= 2
    <3>1. c2 = RemoveAt(c, n - 1)
      BY <2>1, <2>2 DEF ll_remove_node
    <3>2. n \in 3..Len(c) /\ Len(c) \in Nat
      BY <1>1, <1>4, <2>2
    <3> HIDE DEF c2
    <3>3. /\ c2 \in Seq(Entry) /\ Len(c2) = Len(c) - 1
          /\ \A j \in 1..(Len(c) - 1) : c2[j] = IF j <= n - 2 THEN c[j] ELSE c[j + 1]
      BY <1>4, <3>1, <3>2, UnlinkedBefore
    <3> QED  BY <3>2, <3>3
  <2>3. CASE ~(n - 1 >= 2)
    <3>1. c2 = c
      BY <2>1, <2>3 DEF ll_remove_node
    <3> QED  BY <3>1, <1>4, <1>1
  <2> QED  BY <2>2, <2>3
<1> HIDE DEF c2
<1>7. b2.chain = c2 /\ b2.complex = b.complex /\ b2 \in Bucket
  BY <1>6 DEF Bucket
<1> HIDE DEF b2
<1>8. DOMAIN c2 = 1..Len(c2) /\ Len(c2) \in Nat
  BY <1>6, LenProperties
<1>9. Shrinks(b, b2)
  <2>1. Len(c2) <= Len(b.chain)
    BY <1>4, <1>6
  <2>2. ASSUME NEW j \in DOMAIN c2
        PROVE  \E m \in DOMAIN b.chain : c2[j].key = b.chain[m].key
    BY <1>1, <1>4, <1>5, <1>6, <1>8
  <2> QED  BY <1>7, <2>1, <2>2 DEF Shrinks
<1>10. WellShaped(b, least) /\ b.complex => WellShaped(b2, least)
  BY <1>4, <1>6, <1>7 DEF WellShaped
<1> QED  BY <1>7, <1>9, <1>10 DEF b2, c2
-----------------------------------------------------------------------------
(* Tables: what replacing the bucket of one key keeps.                     *)
LEMMA ReplacedPlaced ==
  ASSUME NEW cap \in Nat \ {0}, NEW table \in [0..(cap - 1) -> Bucket],
         Placed(table, cap),
         NEW k \in Keys, NEW b2 \in Bucket,
         \/ Grows(table[Index(k, cap)], b2, k)
         \/ Shrinks(table[Index(k, cap)], b2)
  PROVE  /\ [table EXCEPT ![Index(k, cap)] = b2] \in [0..(cap - 1) -> Bucket]
         /\ Placed([table EXCEPT ![Index(k, cap)] = b2], cap)
<1> DEFINE i  == Index(k, cap)
           t2 == [table EXCEPT ![i] = b2]
<1>1. i \in 0..(cap - 1)
  BY IndexInRange
<1>2. t2 \in [0..(cap - 1) -> Bucket]
  OBVIOUS
<1>3. ASSUME NEW j \in DOMAIN t2, NEW n \in DOMAIN t2[j].chain
      PROVE  Index(t2[j].chain[n].key, cap) = j
  <2>1. CASE j = i
    <3>1. t2[j] = b2
      BY <1>1, <2>1
    <3>2. \/ b2.chain[n].key = k
          \/ \E m \in DOMAIN table[i].chain : b2.chain[n].key = table[i].chain[m].key
      BY <1>3, <3>1 DEF Grows, Shrinks
    <3>3. \A m \in DOMAIN table[i].chain : Index(table[i].chain[m].key, cap) = i
      BY <1>1 DEF Placed
    <3> QED  BY <2>1, <3>1, <3>2, <3>3
  <2>2. CASE j # i
    <3>1. t2[j] = table[j] /\ j \in DOMAIN table
      BY <2>2
    <3> QED  BY <1>3, <3>1 DEF Placed
  <2> QED  BY <2>1, <2>2
<1> HIDE DEF t2
<1>4. Placed(t2, cap)
  BY <1>3 DEF Placed
<1> QED  BY <1>2, <1>4 DEF t2

LEMMA SlotsFinite ==
  ASSUME NEW cap \in Nat, NEW table \in [0..(cap - 1) -> Bucket]
  PROVE  /\ IsFiniteSet(Slots(table))
         /\ Entries(table) \in Nat
<1> DEFINE S == 0..(cap - 1)
           P == S \X Nat
<1>1. IsFiniteSet(S)
  BY FS_Interval
<1> DEFINE row(i) == {i} \X DOMAIN table[i].chain
<1>2. ASSUME NEW i \in S
      PROVE  IsFiniteSet(row(i))
  <2>1. table[i] \in Bucket
    OBVIOUS
  <2>2. Len(table[i].chain) \in Nat /\ DOMAIN table[i].chain = 1..Len(table[i].chain)
    BY <2>1, BucketChain
  <2>3. IsFiniteSet(DOMAIN table[i].chain)
    <3> DEFINE l == Len(table[i].chain)
    <3>1. DOMAIN table[i].chain = 1..l /\ 1 \in Int /\ l \in Int
      BY <2>2
    <3> HIDE DEF l
    <3> QED  BY <3>1, FS_Interval
  <2> QED  BY <2>3, FS_Singleton, FS_Product
<1>3. IsFiniteSet({row(i) : i \in S})
  <2> DEFINE T == {row(i) : i \in S}
             f == [i \in S |-> row(i)]
  <2>1. f \in Surjection(S, T)
    BY DEF Surjection
  <2> HIDE DEF row, S, f, T
  <2>2. IsFiniteSet(T)
    BY <1>1, <2>1, FS_Surjection
  <2> QED  BY <2>2 DEF T
<1>4. \A T \in {row(i) : i \in S} : IsFiniteSet(T)
  BY <1>2
<1>5. Slots(table) = UNION {row(i) : i \in S}
  BY DEF Slots
<1>6. IsFiniteSet(Slots(table))
  <2> HIDE DEF row, S
  <2> QED  BY <1>3, <1>4, <1>5, FS_UNION
<1> QED  BY <1>6, FS_CardinalityType DEF Entries

LEMMA SlotOf ==
  ASSUME NEW cap \in Nat, NEW table \in [0..(cap - 1) -> Bucket], NEW i, NEW n
  PROVE  <<i, n>> \in Slots(table) <=> i \in 0..(cap - 1) /\ n \in DOMAIN table[i].chain
BY DEF Slots

LEMMA SlotIsPair ==
  ASSUME NEW cap \in Nat, NEW table \in [0..(cap - 1) -> Bucket], NEW s \in Slots(table)
  PROVE  /\ s = <<s[1], s[2]>>
         /\ s[1] \in 0..(cap - 1)
         /\ s[2] \in 1..Len(table[s[1]].chain)
         /\ s[2] \in Nat
<1>1. PICK i \in DOMAIN table : s \in {i} \X DOMAIN table[i].chain
  BY DEF Slots
<1>2. table[i] \in Bucket
  OBVIOUS
<1>3. DOMAIN table[i].chain = 1..Len(table[i].chain) /\ Len(table[i].chain) \in Nat
  BY <1>2, BucketChain
<1> QED  BY <1>1, <1>3

(* Counting: the slots of the replaced bucket are the first few.           *)
LEMMA ReplacedCount ==
  ASSUME NEW cap \in Nat, NEW table \in [0..(cap - 1) -> Bucket],
         NEW i \in 0..(cap - 1), NEW b2 \in Bucket
  PROVE  LET t2 == [table EXCEPT ![i] = b2]
         IN  /\ Entries(t2) \in Nat
             /\ Len(b2.chain) <= Len(table[i].chain) + 1 => Entries(t2) <= Entries(table) + 1
             /\ Len(b2.chain) <= Len(table[i].chain) => Entries(t2) <= Entries(table)
             /\ Len(b2.chain) < Len(table[i].chain) => Entries(t2) <= Entries(table) - 1
<1> DEFINE t2 == [table EXCEPT ![i] = b2]
           l  == Len(table[i].chain)
           l2 == Len(b2.chain)
<1>1. t2 \in [0..(cap - 1) -> Bucket] /\ t2[i] = b2
      /\ \A j \in 0..(cap - 1) : j # i => t2[j] = table[j]
  OBVIOUS
<1>2. table[i] \in Bucket
  OBVIOUS
<1>3. /\ DOMAIN table[i].chain = 1..l /\ l \in Nat
      /\ DOMAIN b2.chain = 1..l2 /\ l2 \in Nat
  BY <1>2, BucketChain
<1> HIDE DEF t2
<1>4. IsFiniteSet(Slots(t2)) /\ Entries(t2) \in Nat
  BY <1>1, SlotsFinite
<1>5. IsFiniteSet(Slots(table)) /\ Entries(table) \in Nat
  BY SlotsFinite
<1>6. \A s \in Slots(t2) : s \in Slots(table) \/ (s[1] = i /\ s[2] > l /\ s[2] <= l2 /\ s = <<i, s[2]>>)
  <2> TAKE s \in Slots(t2)
  <2>1. s = <<s[1], s[2]>> /\ s[1] \in 0..(cap - 1) /\ s[2] \in DOMAIN t2[s[1]].chain
    BY <1>1, SlotIsPair, SlotOf
  <2>2. CASE s[1] # i
    <3>1. s[2] \in DOMAIN table[s[1]].chain
      BY <2>1, <2>2, <1>1
    <3>2. <<s[1], s[2]>> \in Slots(table)
      BY <2>1, <3>1, SlotOf
    <3> QED  BY <2>1, <3>2
  <2>3. CASE s[1] = i /\ s[2] <= l
    <3>1. s[2] \in 1..l
      BY <2>1, <2>3, <1>1, <1>3
    <3>2. <<s[1], s[2]>> \in Slots(table)
      BY <3>1, <2>3, <1>3, SlotOf
    <3> QED  BY <2>1, <3>2
  <2>4. CASE s[1] = i /\ ~(s[2] <= l)
    BY <2>1, <2>4, <1>1, <1>3
  <2> QED  BY <2>2, <2>3, <2>4
<1>7. ASSUME l2 <= l + 1
      PROVE  Entries(t2) <= Entries(table) + 1
  <2>1. Slots(t2) \subseteq Slots(table) \cup {<<i, l + 1>>}
    <3> SUFFICES ASSUME NEW s \in Slots(t2), s \notin Slots(table)
                 PROVE  s = <<i, l + 1>>
      OBVIOUS
    <3>1. s[1] = i /\ s[2] > l /\ s[2] <= l2 /\ s = <<i, s[2]>> /\ s[2] \in Nat
      BY <1>6, <1>1, SlotIsPair
    <3>2. s[2] = l + 1
      BY <3>1, <1>7, <1>3
    <3> QED  BY <3>1, <3>2
  <2>2. /\ IsFiniteSet(Slots(table) \cup {<<i, l + 1>>})
        /\ Cardinality(Slots(table) \cup {<<i, l + 1>>}) <= Entries(table) + 1
    <3> DEFINE x == <<i, l + 1>>
    <3> HIDE DEF x
    <3>1. /\ IsFiniteSet(Slots(table) \cup {x})
          /\ Cardinality(Slots(table) \cup {x}) \in {Entries(table), Entries(table) + 1}
      BY <1>5, FS_AddElement DEF Entries
    <3> QED  BY <3>1, <1>5 DEF x
  <2>3. Cardinality(Slots(t2)) <= Cardinality(Slots(table) \cup {<<i, l + 1>>})
    BY <2>1, <2>2, FS_Subset
  <2>4. Cardinality(Slots(table) \cup {<<i, l + 1>>}) \in Nat
    BY <2>2, FS_CardinalityType
  <2> QED  BY <2>2, <2>3, <2>4, <1>4, <1>5 DEF Entries
<1>8. ASSUME l2 <= l
      PROVE  Slots(t2) \subseteq Slots(table) /\ Entries(t2) <= Entries(table)
  <2>1. Slots(t2) \subseteq Slots(table)
    BY <1>1, <1>3, <1>6, <1>8, SlotIsPair
  <2> QED  BY <2>1, <1>5, FS_Subset DEF Entries
<1>9. ASSUME l2 < l
      PROVE  Entries(t2) <= Entries(table) - 1
  <2> DEFINE x == <<i, l>>
  <2>1. x \in Slots(table)
    BY <1>3, <1>9, SlotOf
  <2>2. x \notin Slots(t2)
    BY <1>1, <1>3, <1>9, SlotOf
  <2>3. Slots(t2) \subseteq Slots(table) \ {x}
    BY <1>8, <1>9, <1>3, <2>2
  <2> HIDE DEF x
  <2>4. IsFiniteSet(Slots(table) \ {x}) /\ Cardinality(Slots(table) \ {x}) = Entries(table) - 1
    BY <1>5, <2>1, FS_RemoveElement DEF Entries
  <2>5. Cardinality(Slots(t2)) <= Cardinality(Slots(table) \ {x})
    BY <2>3, <2>4, FS_Subset
  <2> QED  BY <2>4, <2>5 DEF Entries
<1> QED  BY <1>4, <1>7, <1>8, <1>9 DEF t2

LEMMA EmptyTableFacts ==
  ASSUME NEW cap \in Nat, NEW least
  PROVE  /\ EmptyTable(cap) \in [0..(cap - 1) -> Bucket]
         /\ Entries(EmptyTable(cap)) = 0
         /\ Placed(EmptyTable(cap), cap)
         /\ \A i \in 0..(cap - 1) : WellShaped(EmptyTable(cap)[i], least)
<1>1. EmptyTable(cap) \in [0..(cap - 1) -> Bucket]
      /\ \A i \in 0..(cap - 1) : EmptyTable(cap)[i] = EmptyBucket
  BY EmptyBucketFacts DEF EmptyTable
<1>2. Slots(EmptyTable(cap)) = {}
  <2> SUFFICES ASSUME NEW s \in Slots(EmptyTable(cap))  PROVE FALSE
    OBVIOUS
  <2>1. s = <<s[1], s[2]>> /\ s[1] \in 0..(cap - 1)
    BY <1>1, SlotIsPair
  <2>2. s[2] \in DOMAIN EmptyTable(cap)[s[1]].chain
    BY <1>1, <2>1, SlotOf
  <2> QED  BY <1>1, <2>1, <2>2, EmptyBucketFacts
<1> QED  BY <1>1, <1>2, EmptyBucketFacts, FS_EmptySet DEF Entries, Placed
-----------------------------------------------------------------------------
(* The invariant.                                                          *)
USE DEF Least

(* The entries hmap_rehash has passed when it stands at node an of bucket  *)
(* ab.                                                                     *)
Passed(table, ab, an) ==
  {s \in Slots(table) : s[1] < ab \/ (s[1] = ab /\ s[2] < an)}

NewTableOK ==
  pc = "rehash" =>
    /\ locked
    /\ Placed(new_buckets, new_cap)
    /\ \A i \in DOMAIN new_buckets : WellShaped(new_buckets[i], Least)
    /\ Entries(new_buckets) <= Cardinality(Passed(buckets, at_bucket, at_node))

LockOK ==
  /\ pc = "idle" => ~swapped /\ pending = 0
  /\ pc = "return" /\ locked /\ ~swapped => last_error_code # HMAP_ERROR_CODE_OK
  /\ LockedOnlyAfterError

IInv ==
  /\ TypeOK
  /\ HashPlacement
  /\ BucketShape
  /\ SetBoundsEntries
  /\ NewTableOK
  /\ LockOK

(* What update_load_factor and hmap_resize leave when they return or start *)
(* moving entries, err being the error code they were entered with.        *)
FrameTypes ==
  /\ locked \in BOOLEAN
  /\ last_error_code \in ErrorCodes
  /\ collisions \in Nat
  /\ new_cap \in Nat
  /\ new_buckets \in [0..(new_cap - 1) -> Bucket]
  /\ at_bucket \in Nat
  /\ at_node \in Nat \ {0}
  /\ pc \in {"rehash", "return"}

FrameStarts ==
  pc = "rehash" =>
    /\ locked
    /\ new_cap # 0
    /\ at_bucket = 0
    /\ Placed(new_buckets, new_cap)
    /\ \A i \in 0..(new_cap - 1) : WellShaped(new_buckets[i], Least)
    /\ Entries(new_buckets) = 0

FrameReturns(err) ==
  pc' = "return" => \/ locked' = locked /\ last_error_code' = err
                    \/ last_error_code' # HMAP_ERROR_CODE_OK

Frame(err) == FrameTypes' /\ FrameStarts' /\ FrameReturns(err)

(* The table and its counters, and what a running call keeps beside them.  *)
TableOK ==
  /\ capacity \in Nat \ {0}
  /\ set \in Nat
  /\ load_factor \in Nat
  /\ buckets \in [0..(capacity - 1) -> Bucket]
  /\ swapped \in BOOLEAN
  /\ pending \in {0, 1}
  /\ ret \in Values \cup {NULL, ListPtr} \cup BOOLEAN
  /\ lost \in BOOLEAN
  /\ HashPlacement
  /\ BucketShape
  /\ SetBoundsEntries

(* If the lock is held now and no resize of the call has swapped yet, then *)
(* the error that will keep it held is on record.                          *)
LockAccounted(err) == locked /\ ~swapped' => err # HMAP_ERROR_CODE_OK
-----------------------------------------------------------------------------
LEMMA Codes ==
  /\ HMAP_ERROR_CODE_OK \in ErrorCodes
  /\ {HMAP_ERROR_CODE_MALLOC_FAILED, HMAP_ERROR_CODE_KEY_MISMATCH, HMAP_ERR_TOO_LARGE,
      HMAP_ERROR_CODE_REHASH_FAILED, HMAP_ERROR_CODE_LOCKED}
        \subseteq ErrorCodes \ {HMAP_ERROR_CODE_OK}
BY DEF ErrorCodes, HMAP_ERROR_CODE_OK, HMAP_ERROR_CODE_MALLOC_FAILED,
       HMAP_ERROR_CODE_KEY_MISMATCH, HMAP_ERR_TOO_LARGE,
       HMAP_ERROR_CODE_REHASH_FAILED, HMAP_ERROR_CODE_LOCKED

LEMMA PassedFinite ==
  ASSUME NEW cap \in Nat, NEW table \in [0..(cap - 1) -> Bucket], NEW ab, NEW an
  PROVE  /\ IsFiniteSet(Passed(table, ab, an))
         /\ Cardinality(Passed(table, ab, an)) \in Nat
         /\ Cardinality(Passed(table, ab, an)) <= Entries(table)
<1>1. Passed(table, ab, an) \subseteq Slots(table)
  BY DEF Passed
<1>2. IsFiniteSet(Slots(table))
  BY SlotsFinite
<1> QED  BY <1>1, <1>2, FS_Subset, FS_CardinalityType DEF Entries

(* Going on to the next node passes one entry more.                        *)
LEMMA PassNode ==
  ASSUME NEW cap \in Nat, NEW table \in [0..(cap - 1) -> Bucket],
         NEW ab \in 0..(cap - 1), NEW an \in DOMAIN table[ab].chain
  PROVE  Cardinality(Passed(table, ab, an + 1)) = Cardinality(Passed(table, ab, an)) + 1
<1> DEFINE x == <<ab, an>>
           P == Passed(table, ab, an)
           Q == Passed(table, ab, an + 1)
<1>0. table[ab] \in Bucket
  OBVIOUS
<1>1. x \in Slots(table) /\ an \in Nat
  BY <1>0, SlotOf, BucketChain
<1>2. x \notin P
  BY <1>1 DEF Passed
<1>3. Q = P \cup {x}
  <2>1. x \in Q
    BY <1>1 DEF Passed
  <2>2. P \subseteq Q
    BY <1>1, SlotIsPair DEF Passed
  <2>3. ASSUME NEW s \in Q, s \notin P
        PROVE  s = x
    <3>1. s = <<s[1], s[2]>> /\ s[2] \in Nat /\ s[1] \in Nat /\ s \in Slots(table)
      BY SlotIsPair DEF Passed
    <3>2. s[1] = ab /\ s[2] < an + 1 /\ ~(s[2] < an)
      BY <2>3, <3>1 DEF Passed
    <3>3. s[2] = an
      BY <3>1, <3>2, <1>1
    <3> QED  BY <3>1, <3>2, <3>3
  <2> QED  BY <2>1, <2>2, <2>3
<1>4. IsFiniteSet(P) /\ Cardinality(P) \in Nat
  BY PassedFinite
<1> HIDE DEF x, P, Q
<1>5. Cardinality(Q) = Cardinality(P) + 1
  BY <1>2, <1>3, <1>4, FS_AddElement
<1> QED  BY <1>5 DEF P, Q

(* Going on to the next bucket loses none.                                 *)
LEMMA PassBucket ==
  ASSUME NEW cap \in Nat, NEW table \in [0..(cap - 1) -> Bucket],
         NEW ab \in 0..(cap - 1), NEW an
  PROVE  Cardinality(Passed(table, ab, an)) <= Cardinality(Passed(table, ab + 1, 1))
<1>1. Passed(table, ab, an) \subseteq Passed(table, ab + 1, 1)
  <2> SUFFICES ASSUME NEW s \in Slots(table), s[1] < ab \/ s[1] = ab
               PROVE  s[1] < ab + 1
    BY DEF Passed
  <2>1. s[1] \in Nat
    BY SlotIsPair
  <2> QED  BY <2>1
<1> QED  BY <1>1, PassedFinite, FS_Subset

LEMMA LoadFactorType ==
  ASSUME NEW n \in Nat, NEW cap \in Nat \ {0}
  PROVE  LoadFactor(n, cap) \in Nat
<1>1. n * 100 \in Nat
  OBVIOUS
<1> DEFINE m == n * 100
<1> HIDE DEF m
<1>2. m \in Nat => m \div cap \in Nat
  OBVIOUS
<1> QED  BY <1>1, <1>2 DEF LoadFactor, m
-----------------------------------------------------------------------------
LEMMA BeginResizeFrame ==
  ASSUME TypeOK,
         NEW cap \in Nat \ {0}, NEW err \in ErrorCodes, NEW coll \in Nat,
         BeginResize(cap, err, coll)
  PROVE  Frame(err)
<1>1. CASE /\ last_error_code' = IF resize_bound > 0 /\ cap > resize_bound
                                 THEN HMAP_ERR_TOO_LARGE ELSE err
           /\ collisions'  = 0
           /\ new_buckets' = EmptyTable(cap)
           /\ new_cap'     = cap
           /\ at_bucket'   = 0
           /\ at_node'     = 1
           /\ pc'          = "rehash"
  <2>1. locked' = TRUE
    BY DEF BeginResize
  <2>2. last_error_code' \in ErrorCodes
    BY <1>1, Codes
  <2>3. FrameTypes'
    BY <1>1, <2>1, <2>2, EmptyTableFacts DEF FrameTypes
  <2>4. FrameStarts'
    BY <1>1, <2>1, EmptyTableFacts DEF FrameStarts
  <2>5. FrameReturns(err)
    BY <1>1 DEF FrameReturns
  <2> QED  BY <2>3, <2>4, <2>5 DEF Frame
<1>2. CASE /\ last_error_code' = HMAP_ERROR_CODE_MALLOC_FAILED
           /\ collisions' = coll
           /\ pc' = "return"
           /\ UNCHANGED rehash
  <2>1. FrameTypes'
    BY <1>2, Codes DEF BeginResize, FrameTypes, TypeOK, rehash
  <2> QED  BY <1>2, <2>1, Codes DEF Frame, FrameStarts, FrameReturns
<1> QED  BY <1>1, <1>2 DEF BeginResize

LEMMA UpdateLoadFrame ==
  ASSUME TypeOK,
         NEW n \in Nat, NEW cap \in Nat \ {0}, NEW err \in ErrorCodes, NEW coll \in Nat,
         update_load_factor(n, cap, err, coll)
  PROVE  Frame(err) /\ load_factor' \in Nat
<1>1. load_factor' \in Nat
  BY LoadFactorType DEF update_load_factor
<1>2. CASE /\ last_error_code' = err
           /\ collisions' = coll
           /\ pc' = "return"
           /\ UNCHANGED <<locked, rehash>>
  <2>1. FrameTypes'
    BY <1>2 DEF FrameTypes, TypeOK, rehash
  <2> QED  BY <1>1, <1>2, <2>1 DEF Frame, FrameStarts, FrameReturns
<1>3. CASE BeginResize(2 * cap,
                       IF unhealthy_callback = "default" /\ locked
                       THEN HMAP_ERROR_CODE_LOCKED ELSE err,
                       coll)
  <2>1. CASE unhealthy_callback = "default" /\ locked
    <3>1. BeginResize(2 * cap, HMAP_ERROR_CODE_LOCKED, coll)
      BY <1>3, <2>1
    <3>2. Frame(HMAP_ERROR_CODE_LOCKED)
      BY <3>1, BeginResizeFrame, Codes, 2 * cap \in Nat \ {0}
    <3> QED  BY <1>1, <3>2, Codes DEF Frame, FrameReturns
  <2>2. CASE ~(unhealthy_callback = "default" /\ locked)
    <3>1. BeginResize(2 * cap, err, coll)
      BY <1>3, <2>2
    <3> QED  BY <1>1, <3>1, BeginResizeFrame, 2 * cap \in Nat \ {0}
  <2> QED  BY <2>1, <2>2
<1> QED
  <2> DEFINE Rests == /\ last_error_code' = err
                      /\ collisions' = coll
                      /\ pc' = "return"
                      /\ UNCHANGED <<locked, rehash>>
             Grows2 == BeginResize(2 * cap,
                                   IF unhealthy_callback = "default" /\ locked
                                   THEN HMAP_ERROR_CODE_LOCKED ELSE err,
                                   coll)
  <2>1. Rests \/ Grows2
    <3> DEFINE load == LoadFactor(n, cap)
               A == ~Unhealthy(load) \/ unhealthy_callback = "defer"
               B == Unhealthy(load) /\ unhealthy_callback # "defer"
    <3>1. (A /\ Rests) \/ (B /\ Grows2)
      BY DEF update_load_factor
    <3> HIDE DEF A, B, Rests, Grows2
    <3> QED  BY <3>1
  <2> HIDE DEF Rests, Grows2
  <2>2. Rests => Frame(err)
    BY <1>2 DEF Rests
  <2>3. Grows2 => Frame(err)
    BY <1>3 DEF Grows2
  <2> QED  BY <1>1, <2>1, <2>2, <2>3

(* A step that leaves Frame and a table that is in order keeps IInv.       *)
LEMMA FrameKeepsIInv ==
  ASSUME TypeOK, NEW err, Frame(err), TableOK', UNCHANGED config,
         LockAccounted(err)
  PROVE  IInv'
<1> USE DEF Frame
<1>1. TypeOK'
  <2>1. /\ resize_bound' \in Nat
        /\ unhealthy_callback' \in {"default", "guest", "defer"}
    BY DEF TypeOK, config
  <2>2. pc' \in TableStates
    BY DEF FrameTypes, TableStates
  <2>3. pc' = "rehash" => new_cap' # 0 /\ at_bucket' <= capacity'
    BY DEF FrameStarts, TableOK
  <2> QED  BY <2>1, <2>2, <2>3 DEF TypeOK, FrameTypes, TableOK
<1>2. NewTableOK'
  <2>1. Cardinality(Passed(buckets', at_bucket', at_node')) \in Nat
    BY PassedFinite DEF TableOK
  <2>2. DOMAIN new_buckets' = 0..(new_cap' - 1)
    BY DEF FrameTypes
  <2> QED  BY <2>1, <2>2 DEF FrameStarts, NewTableOK
<1>3. LockOK'
  <2>1. pc' # "idle"
    BY DEF FrameTypes
  <2>2. pc' = "return" /\ locked' /\ ~swapped' => last_error_code' # HMAP_ERROR_CODE_OK
    BY DEF FrameReturns, LockAccounted
  <2> QED  BY <2>1, <2>2 DEF LockOK, LockedOnlyAfterError
<1>4. HashPlacement' /\ BucketShape' /\ SetBoundsEntries'
  BY DEF TableOK
<1> QED  BY <1>1, <1>2, <1>3, <1>4 DEF IInv
-----------------------------------------------------------------------------
(* The calls.                                                              *)
LEMMA ReturnKeepsIInv ==
  ASSUME IInv, pc = "idle", NEW r, NEW err \in ErrorCodes,
         r \in Values \cup {NULL, ListPtr} \cup BOOLEAN,
         locked => err # HMAP_ERROR_CODE_OK,
         Return(r, err)
  PROVE  IInv'
<1>1. /\ UNCHANGED <<capacity, set, load_factor, collisions, buckets, resize_bound,
                     unhealthy_callback, locked, pc, new_buckets, new_cap, at_bucket,
                     at_node, swapped, pending, lost>>
      /\ ret' = r
      /\ last_error_code' = err
  BY DEF Return, config, rehash
<1>2. TypeOK'
  BY <1>1 DEF IInv, TypeOK
<1>3. HashPlacement' /\ BucketShape' /\ SetBoundsEntries'
  BY <1>1 DEF IInv, HashPlacement, BucketShape, SetBoundsEntries
<1>4. NewTableOK' /\ LockOK'
  BY <1>1 DEF IInv, NewTableOK, LockOK, LockedOnlyAfterError
<1> QED  BY <1>2, <1>3, <1>4 DEF IInv

LEMMA UndefinedKeepsIInv ==
  ASSUME IInv, Undefined
  PROVE  IInv'
<1>1. /\ UNCHANGED <<capacity, set, load_factor, collisions, buckets, resize_bound,
                     unhealthy_callback, locked, last_error_code, new_buckets, new_cap,
                     at_bucket, at_node, swapped, pending, ret, lost>>
      /\ pc' = "undefined"
  BY DEF Undefined, config, rehash, status
<1>2. TypeOK'
  BY <1>1 DEF IInv, TypeOK, TableStates
<1>3. HashPlacement' /\ BucketShape' /\ SetBoundsEntries'
  BY <1>1 DEF IInv, HashPlacement, BucketShape, SetBoundsEntries
<1>4. NewTableOK' /\ LockOK'
  BY <1>1 DEF NewTableOK, LockOK, LockedOnlyAfterError
<1> QED  BY <1>2, <1>3, <1>4 DEF IInv

(* A refused call records an error.                                        *)
LEMMA RefusedKeepsIInv ==
  ASSUME IInv, pc = "idle", NEW r \in {FALSE, NULL}, Refused(r)
  PROVE  IInv'
<1>1. r \in Values \cup {NULL, ListPtr} \cup BOOLEAN
  OBVIOUS
<1>2. Return(r, HMAP_ERROR_CODE_LOCKED)
  BY DEF Refused
<1> QED  BY <1>1, <1>2, Codes, ReturnKeepsIInv

(* What was well shaped stays so when an entry may have been lost.         *)
LEMMA LostWeakens ==
  ASSUME lost \in BOOLEAN, NEW gone \in BOOLEAN, lost' = (lost \/ gone),
         NEW b \in Bucket
  PROVE  /\ WellShaped(b, Least) => WellShaped(b, Least')
         /\ WellShaped(b, IF gone THEN 1 ELSE Least) => WellShaped(b, Least')
<1>1. WellShaped(b, 2) => WellShaped(b, 1)
  BY FewerSuffice
<1> QED  BY <1>1

(* Storing b in the bucket of k.                                           *)
LEMMA StoredKeepsIInv ==
  ASSUME IInv, pc = "idle", ~locked,
         NEW k \in Keys, NEW b \in Bucket, NEW err \in ErrorCodes, NEW coll \in Nat,
         NEW gone \in BOOLEAN,
         \/ Grows(buckets[Index(k, capacity)], b, k)
         \/ Shrinks(buckets[Index(k, capacity)], b),
         WellShaped(b, IF gone THEN 1 ELSE Least),
         Stored(Index(k, capacity), b, err, coll, gone)
  PROVE  IInv'
<1> DEFINE i == Index(k, capacity)
<1>1. TypeOK /\ i \in 0..(capacity - 1) /\ capacity \in Nat \ {0}
      /\ set \in Nat /\ buckets \in [0..(capacity - 1) -> Bucket]
      /\ swapped \in BOOLEAN /\ lost \in BOOLEAN
  BY IndexInRange DEF IInv, TypeOK
<1>2. /\ buckets' = [buckets EXCEPT ![i] = b]
      /\ set' = set + 1
      /\ ret' = TRUE
      /\ lost' = (lost \/ gone)
      /\ UNCHANGED <<capacity, config, swapped, pending>>
      /\ update_load_factor(set + 1, capacity, err, coll)
  BY DEF Stored
<1>3. pending = 0 /\ ~swapped
  BY DEF IInv, LockOK
<1>4. Frame(err) /\ load_factor' \in Nat
  BY <1>1, <1>2, UpdateLoadFrame, set + 1 \in Nat
<1>5. /\ buckets' \in [0..(capacity' - 1) -> Bucket]
      /\ HashPlacement'
  <2>1. Placed(buckets, capacity)
    BY DEF IInv, HashPlacement
  <2> QED  BY <1>1, <1>2, <2>1, ReplacedPlaced DEF HashPlacement
<1>6. BucketShape'
  <2>1. DOMAIN buckets' = 0..(capacity - 1)
        /\ buckets'[i] = b /\ \A j \in 0..(capacity - 1) : j # i => buckets'[j] = buckets[j]
    BY <1>1, <1>2
  <2>2. \A j \in 0..(capacity - 1) : WellShaped(buckets[j], Least')
    <3>1. \A j \in 0..(capacity - 1) : WellShaped(buckets[j], Least)
      BY <1>1 DEF IInv, BucketShape
    <3> QED  BY <1>1, <1>2, <3>1, LostWeakens
  <2>3. WellShaped(b, Least')
    BY <1>1, <1>2, LostWeakens
  <2> QED  BY <2>1, <2>2, <2>3 DEF BucketShape
<1>7. SetBoundsEntries'
  <2> DEFINE t2 == [buckets EXCEPT ![i] = b]
  <2>1. buckets[i] \in Bucket
    BY <1>1
  <2>2. Len(b.chain) <= Len(buckets[i].chain) + 1
    BY <2>1, BucketChain DEF Grows, Shrinks
  <2>3. Entries(t2) \in Nat /\ Entries(t2) <= Entries(buckets) + 1
    <3>1. capacity \in Nat
      BY <1>1
    <3> QED  BY <1>1, <2>2, <3>1, ReplacedCount
  <2>4. Entries(buckets) \in Nat /\ Entries(buckets) + pending <= set
    BY <1>1, SlotsFinite DEF IInv, SetBoundsEntries
  <2> HIDE DEF t2
  <2>5. Entries(t2) <= set + 1
    BY <2>3, <2>4, <1>1, <1>3
  <2>6. Entries(buckets') + pending' <= set'
    BY <2>5, <1>2, <1>3, <2>3 DEF t2
  <2> QED  BY <2>6 DEF SetBoundsEntries
<1>8. TableOK'
  <2>1. swapped' \in BOOLEAN /\ pending' \in {0, 1} /\ lost' \in BOOLEAN
    BY <1>1, <1>2, <1>3
  <2> QED  BY <1>1, <1>2, <1>4, <1>5, <1>6, <1>7, <2>1 DEF TableOK
<1>9. LockAccounted(err)
  BY DEF LockAccounted
<1>10. UNCHANGED config
  BY <1>2
<1> QED  BY <1>1, <1>4, <1>8, <1>9, <1>10, FrameKeepsIInv

LEMMA SetKeepsIInv ==
  ASSUME IInv, NEW k \in Keys, NEW v \in Values, NEW allow \in BOOLEAN,
         hmap_set(k, v, allow)
  PROVE  IInv'
<1> DEFINE i == Index(k, capacity)
           b == buckets[i]
           match == b.chain # << >> /\ SameKey(b.chain[1].key, k)
<1>1. /\ pc = "idle"
      /\ \/ Refused(FALSE)
         \/ /\ ~locked
            /\ b.complex
            /\ StoreColliding(i, k, v)
         \/ /\ ~locked /\ ~b.complex
            /\ match /\ allow
            /\ Stored(i, [b EXCEPT !.chain[1].val = v], last_error_code, collisions, FALSE)
         \/ /\ ~locked /\ ~b.complex
            /\ match /\ ~allow
            /\ Return(FALSE, HMAP_ERROR_CODE_KEY_MISMATCH)
         \/ /\ ~locked /\ ~b.complex
            /\ b.chain # << >> /\ ~match
            /\ StoreColliding(i, k, v)
         \/ /\ ~locked /\ ~b.complex
            /\ b.chain = << >>
            /\ Stored(i, Simple(NewEntry(k, v)), last_error_code, collisions, FALSE)
  BY DEF hmap_set
<1>2. /\ i \in 0..(capacity - 1) /\ b \in Bucket /\ v \in Vals
      /\ last_error_code \in ErrorCodes /\ collisions \in Nat
      /\ WellShaped(b, Least) /\ Least \in {1, 2}
  BY IndexInRange DEF IInv, TypeOK, BucketShape, Vals
<1> HIDE DEF i, b
<1>3. CASE Refused(FALSE)
  BY <1>1, <1>3, RefusedKeepsIInv
<1>4. ASSUME ~locked, b.chain # << >>, StoreColliding(i, k, v)
      PROVE  IInv'
  <2>1. PICK o \in hmap_complex_key_set_value(b, k, v) :
           Stored(i, o.bucket,
                  IF o.failed THEN HMAP_ERROR_CODE_MALLOC_FAILED ELSE last_error_code,
                  IF o.failed THEN collisions ELSE collisions + 1,
                  o.gone)
    BY <1>4 DEF StoreColliding, b
  <2>2. /\ o.bucket \in Bucket /\ Grows(b, o.bucket, k) /\ o.gone \in BOOLEAN
        /\ WellShaped(o.bucket, IF o.gone THEN 1 ELSE Least)
    BY <1>2, <1>4, SetValueBucket
  <2> DEFINE err  == IF o.failed THEN HMAP_ERROR_CODE_MALLOC_FAILED ELSE last_error_code
             coll == IF o.failed THEN collisions ELSE collisions + 1
  <2>3. err \in ErrorCodes /\ coll \in Nat
    BY <1>2, Codes
  <2> HIDE DEF err, coll
  <2>4. Stored(i, o.bucket, err, coll, o.gone)
    BY <2>1 DEF err, coll
  <2> QED  BY <1>1, <1>4, <2>2, <2>3, <2>4, StoredKeepsIInv DEF i, b
<1>5. ASSUME ~locked, Stored(i, [b EXCEPT !.chain[1].val = v], last_error_code, collisions, FALSE)
      PROVE  IInv'
  <2> DEFINE b2 == [b EXCEPT !.chain[1].val = v]
  <2>1. b2 \in Bucket /\ Shrinks(b, b2) /\ WellShaped(b2, Least)
    BY <1>2, RevaluedBucket
  <2>2. Stored(i, b2, last_error_code, collisions, FALSE)
    BY <1>5
  <2> HIDE DEF b2
  <2> QED  BY <1>1, <1>2, <1>5, <2>1, <2>2, StoredKeepsIInv DEF i, b
<1>6. ASSUME ~locked, Return(FALSE, HMAP_ERROR_CODE_KEY_MISMATCH)
      PROVE  IInv'
  BY <1>1, <1>6, Codes, ReturnKeepsIInv
<1>7. ASSUME ~locked, Stored(i, Simple(NewEntry(k, v)), last_error_code, collisions, FALSE)
      PROVE  IInv'
  <2>1. /\ NewEntry(k, v) \in Entry
        /\ NewEntry(k, v).key = k
        /\ NewEntry(k, v).live
    BY <1>2, NewEntryType DEF NewEntry
  <2>2. /\ Simple(NewEntry(k, v)) \in Bucket
        /\ Grows(b, Simple(NewEntry(k, v)), k)
        /\ WellShaped(Simple(NewEntry(k, v)), Least)
    BY <1>2, <2>1, SimpleBucket
  <2> QED  BY <1>1, <1>2, <1>7, <2>2, StoredKeepsIInv DEF i, b
<1>8. b.complex => b.chain # << >>
  BY <1>2, BucketChain, EmptySeq DEF WellShaped
<1> QED  BY <1>1, <1>3, <1>4, <1>5, <1>6, <1>7, <1>8

LEMMA GetKeepsIInv ==
  ASSUME IInv, NEW k \in Keys, hmap_get(k)
  PROVE  IInv'
<1> DEFINE b == buckets[Index(k, capacity)]
<1>1. b \in Bucket /\ last_error_code \in ErrorCodes /\ pc = "idle"
  BY IndexInRange DEF IInv, TypeOK, hmap_get
<1>2. CASE Refused(NULL)
  BY <1>1, <1>2, RefusedKeepsIInv
<1>3. ASSUME ~locked,
             Return(NULL, IF b.complex THEN last_error_code ELSE HMAP_ERROR_CODE_KEY_MISMATCH)
      PROVE  IInv'
  BY <1>1, <1>3, Codes, ReturnKeepsIInv
<1>4. ASSUME ~locked, NEW n \in DOMAIN b.chain, Return(b.chain[n].val, last_error_code)
      PROVE  IInv'
  <2>1. b.chain[n].val \in Values \cup {NULL, ListPtr}
    BY <1>1, BucketChain DEF Entry
  <2> QED  BY <1>1, <1>4, <2>1, ReturnKeepsIInv
<1>5. CASE Undefined
  BY <1>5, UndefinedKeepsIInv
<1> QED  BY <1>2, <1>3, <1>4, <1>5 DEF hmap_get

LEMMA UnsetKeepsIInv ==
  ASSUME IInv, NEW k \in Keys, hashmap_unset(k)
  PROVE  IInv'
<1> DEFINE i == Index(k, capacity)
           b == buckets[i]
<1>1. /\ pc = "idle"
      /\ \/ Refused(NULL)
         \/ /\ ~locked
            /\ b.complex
            /\ Misses(b.chain, k)
            /\ Return(NULL, last_error_code)
         \/ /\ ~locked
            /\ b.complex
            /\ \E n \in DOMAIN b.chain :
                  /\ StopsAt(b.chain, k, n)
                  /\ b.chain[n].live
                  /\ buckets' = [buckets EXCEPT ![i].chain =
                                   hmap_complex_key_unset_value(b.chain, n)]
                  /\ ret' = b.chain[n].val
                  /\ UNCHANGED <<capacity, set, load_factor, collisions, config,
                                 status, pc, rehash, swapped, pending, lost>>
         \/ /\ ~locked
            /\ b.complex
            /\ \E n \in DOMAIN b.chain :
                  StopsAt(b.chain, k, n) /\ ~b.chain[n].live /\ Undefined
         \/ /\ ~locked
            /\ ~b.complex
            /\ b.chain # << >>
            /\ buckets' = [buckets EXCEPT ![i] = EmptyBucket]
            /\ ret' = b.chain[1].val
            /\ pending' = 1
            /\ update_load_factor(set, capacity, last_error_code, collisions)
            /\ UNCHANGED <<capacity, set, config, swapped, lost>>
         \/ /\ ~locked
            /\ ~b.complex
            /\ b.chain = << >>
            /\ Return(NULL, HMAP_ERROR_CODE_KEY_MISMATCH)
  BY DEF hashmap_unset
<1>2. /\ i \in 0..(capacity - 1) /\ b \in Bucket /\ capacity \in Nat \ {0}
      /\ buckets \in [0..(capacity - 1) -> Bucket]
      /\ set \in Nat /\ last_error_code \in ErrorCodes /\ collisions \in Nat
      /\ WellShaped(b, Least) /\ Least \in {1, 2} /\ pending = 0 /\ ~swapped /\ swapped \in BOOLEAN /\ TypeOK
      /\ Placed(buckets, capacity)
      /\ \A j \in 0..(capacity - 1) : WellShaped(buckets[j], Least)
  BY <1>1, IndexInRange DEF IInv, TypeOK, BucketShape, LockOK, HashPlacement
<1>3. Entries(buckets) \in Nat /\ Entries(buckets) <= set
  BY <1>2, SlotsFinite DEF IInv, SetBoundsEntries
<1>4. /\ DOMAIN b.chain = 1..Len(b.chain) /\ Len(b.chain) \in Nat
      /\ \A n \in DOMAIN b.chain : b.chain[n].val \in Values \cup {NULL, ListPtr}
      /\ b.chain # << >> => Len(b.chain) >= 1
  BY <1>2, BucketChain DEF Entry
<1>5. CASE Refused(NULL)
  BY <1>1, <1>5, RefusedKeepsIInv
<1>6. ASSUME ~locked, Return(NULL, last_error_code)
      PROVE  IInv'
  BY <1>1, <1>2, <1>6, ReturnKeepsIInv
<1>7. ASSUME ~locked, Return(NULL, HMAP_ERROR_CODE_KEY_MISMATCH)
      PROVE  IInv'
  BY <1>1, <1>2, <1>7, Codes, ReturnKeepsIInv
<1>8. CASE Undefined
  BY <1>8, UndefinedKeepsIInv
<1>9. ASSUME ~locked, b.complex, NEW n \in DOMAIN b.chain,
             buckets' = [buckets EXCEPT ![i].chain =
                           hmap_complex_key_unset_value(b.chain, n)],
             ret' = b.chain[n].val,
             UNCHANGED <<capacity, set, load_factor, collisions, config,
                         status, pc, rehash, swapped, pending, lost>>
      PROVE  IInv'
  <2> DEFINE b2 == [b EXCEPT !.chain = hmap_complex_key_unset_value(b.chain, n)]
  <2>1. b2 \in Bucket /\ Shrinks(b, b2) /\ WellShaped(b2, Least)
    BY <1>2, <1>9, UnsetBucket
  <2>2. buckets' = [buckets EXCEPT ![i] = b2]
    BY <1>9
  <2> HIDE DEF b2
  <2>3. /\ UNCHANGED <<capacity, set, load_factor, collisions, resize_bound,
                       unhealthy_callback, locked, last_error_code, pc, new_buckets,
                       new_cap, at_bucket, at_node, swapped, pending, lost>>
        /\ ret' \in Values \cup {NULL, ListPtr}
    BY <1>4, <1>9 DEF config, status, rehash
  <2>4. buckets' \in [0..(capacity' - 1) -> Bucket] /\ HashPlacement'
    BY <1>2, <2>1, <2>2, <2>3, ReplacedPlaced DEF HashPlacement
  <2>5. BucketShape'
    BY <1>2, <2>1, <2>2, <2>3 DEF BucketShape
  <2>6. Entries(buckets') \in Nat /\ Entries(buckets') <= Entries(buckets)
    <3>1. capacity \in Nat /\ Len(b2.chain) <= Len(b.chain)
      BY <1>2, <2>1 DEF Shrinks
    <3> QED  BY <1>2, <2>1, <2>2, <3>1, ReplacedCount
  <2>7. SetBoundsEntries'
    BY <1>2, <1>3, <2>3, <2>6 DEF SetBoundsEntries
  <2>8. TypeOK'
    BY <2>3, <2>4 DEF IInv, TypeOK
  <2>9. NewTableOK' /\ LockOK'
    BY <1>1, <2>3 DEF IInv, NewTableOK, LockOK, LockedOnlyAfterError
  <2> QED  BY <2>4, <2>5, <2>7, <2>8, <2>9 DEF IInv
<1>10. ASSUME ~locked, ~b.complex, b.chain # << >>,
              buckets' = [buckets EXCEPT ![i] = EmptyBucket],
              ret' = b.chain[1].val,
              pending' = 1,
              update_load_factor(set, capacity, last_error_code, collisions),
              UNCHANGED <<capacity, set, config, swapped, lost>>
       PROVE  IInv'
  <2>1. Len(EmptyBucket.chain) = 0 /\ EmptyBucket \in Bucket /\ WellShaped(EmptyBucket, Least)
        /\ Shrinks(b, EmptyBucket)
    BY <1>4, EmptyBucketFacts, EmptySeq DEF Shrinks
  <2>2. Frame(last_error_code) /\ load_factor' \in Nat
    BY <1>2, <1>10, UpdateLoadFrame
  <2>3. buckets' \in [0..(capacity' - 1) -> Bucket] /\ HashPlacement'
    BY <1>2, <1>10, <2>1, ReplacedPlaced DEF HashPlacement
  <2>4. BucketShape'
    BY <1>2, <1>10, <2>1 DEF BucketShape
  <2>5. Entries(buckets') \in Nat /\ Entries(buckets') <= Entries(buckets) - 1
    <3>1. capacity \in Nat /\ Len(EmptyBucket.chain) < Len(b.chain)
      BY <1>2, <1>4, <1>10, <2>1
    <3> QED  BY <1>2, <1>10, <2>1, <3>1, ReplacedCount
  <2>6. SetBoundsEntries'
    BY <1>2, <1>3, <1>10, <2>5 DEF SetBoundsEntries
  <2>7. TableOK'
    <3>1. ret' \in Values \cup {NULL, ListPtr} \cup BOOLEAN
      BY <1>4, <1>10
    <3>2. /\ capacity' \in Nat \ {0} /\ set' \in Nat /\ swapped' \in BOOLEAN
          /\ pending' \in {0, 1} /\ lost' \in BOOLEAN
      BY <1>2, <1>10 DEF IInv, TypeOK
    <3> QED  BY <2>2, <2>3, <2>4, <2>6, <3>1, <3>2 DEF TableOK
  <2>8. LockAccounted(last_error_code)
    BY <1>10 DEF LockAccounted
  <2> QED  BY <1>2, <1>10, <2>2, <2>7, <2>8, FrameKeepsIInv
<1> HIDE DEF b, i
<1> QED  BY <1>1, <1>5, <1>6, <1>7, <1>8, <1>9, <1>10

LEMMA ResizeKeepsIInv ==
  ASSUME IInv, NEW cap \in ResizeCaps, hmap_resize(cap)
  PROVE  IInv'
<1>1. /\ pc = "idle"
      /\ BeginResize(cap, last_error_code, collisions)
      /\ UNCHANGED <<capacity, set, load_factor, buckets, config, swapped, pending, ret, lost>>
  BY DEF hmap_resize
<1>2. cap \in Nat \ {0} /\ last_error_code \in ErrorCodes /\ collisions \in Nat /\ TypeOK
  BY ConstantsAssumption DEF IInv, TypeOK
<1>3. Frame(last_error_code)
  BY <1>1, <1>2, BeginResizeFrame
<1>4. TableOK'
  <2>1. HashPlacement' /\ BucketShape' /\ SetBoundsEntries'
    BY <1>1 DEF IInv, HashPlacement, BucketShape, SetBoundsEntries
  <2> QED  BY <1>1, <2>1 DEF IInv, TypeOK, TableOK
<1>5. LockAccounted(last_error_code)
  BY <1>1 DEF IInv, LockOK, LockedOnlyAfterError, LockAccounted
<1> QED  BY <1>1, <1>2, <1>3, <1>4, <1>5, FrameKeepsIInv
-----------------------------------------------------------------------------
(* The steps of a running resize.                                          *)

(* Putting b into the new bucket of the entry hmap_rehash stands at.       *)
LEMMA RehashPutKeepsIInv ==
  ASSUME IInv, pc = "rehash", at_bucket < capacity,
         at_node <= Len(buckets[at_bucket].chain),
         NEW k \in Keys, NEW b \in Bucket, NEW err \in ErrorCodes, NEW coll \in Nat,
         NEW gone \in BOOLEAN,
         Grows(new_buckets[Index(k, new_cap)], b, k),
         WellShaped(b, IF gone THEN 1 ELSE Least),
         RehashPut(Index(k, new_cap), b, err, coll, gone)
  PROVE  IInv'
<1> DEFINE j == Index(k, new_cap)
<1>1. /\ new_cap \in Nat \ {0} /\ new_buckets \in [0..(new_cap - 1) -> Bucket]
      /\ at_bucket \in 0..(capacity - 1) /\ at_node \in Nat \ {0}
      /\ capacity \in Nat /\ buckets \in [0..(capacity - 1) -> Bucket]
      /\ j \in 0..(new_cap - 1)
  BY IndexInRange DEF IInv, TypeOK
<1>2. /\ locked
      /\ Placed(new_buckets, new_cap)
      /\ \A i \in DOMAIN new_buckets : WellShaped(new_buckets[i], Least)
      /\ Entries(new_buckets) <= Cardinality(Passed(buckets, at_bucket, at_node))
  BY DEF IInv, NewTableOK
<1>3. /\ new_buckets' = [new_buckets EXCEPT ![j] = b]
      /\ at_node' = at_node + 1
      /\ last_error_code' = err
      /\ collisions' = coll
      /\ lost' = (lost \/ gone)
      /\ UNCHANGED <<capacity, set, load_factor, buckets, resize_bound, unhealthy_callback,
                     locked, pc, new_cap, at_bucket, swapped, pending, ret>>
  BY DEF RehashPut, config
<1>4. new_buckets' \in [0..(new_cap' - 1) -> Bucket] /\ Placed(new_buckets', new_cap')
  BY <1>1, <1>2, <1>3, ReplacedPlaced
<1>5. \A i \in DOMAIN new_buckets' : WellShaped(new_buckets'[i], Least')
  <2>1. lost \in BOOLEAN
    BY DEF IInv, TypeOK
  <2>2. \A i \in 0..(new_cap - 1) : WellShaped(new_buckets[i], Least')
    BY <1>1, <1>2, <1>3, <2>1, LostWeakens
  <2>3. WellShaped(b, Least')
    BY <1>3, <2>1, LostWeakens
  <2> QED  BY <1>1, <1>3, <2>2, <2>3
<1>6. Entries(new_buckets')
        <= Cardinality(Passed(buckets', at_bucket', at_node'))
  <2>1. at_node \in DOMAIN buckets[at_bucket].chain
    <3>1. buckets[at_bucket] \in Bucket
      BY <1>1
    <3>2. /\ Len(buckets[at_bucket].chain) \in Nat
          /\ DOMAIN buckets[at_bucket].chain = 1..Len(buckets[at_bucket].chain)
      BY <3>1, BucketChain
    <3> QED  BY <1>1, <3>2
  <2>2. Cardinality(Passed(buckets, at_bucket, at_node + 1))
          = Cardinality(Passed(buckets, at_bucket, at_node)) + 1
    BY <1>1, <2>1, PassNode
  <2>3. Entries(new_buckets') \in Nat /\ Entries(new_buckets') <= Entries(new_buckets) + 1
    <3>1. new_cap \in Nat /\ Len(b.chain) <= Len(new_buckets[j].chain) + 1
      BY <1>1 DEF Grows
    <3> QED  BY <1>1, <1>3, <3>1, ReplacedCount
  <2>4. Entries(new_buckets) \in Nat
    <3>1. new_cap \in Nat
      BY <1>1
    <3> QED  BY <1>1, <3>1, SlotsFinite
  <2>5. Cardinality(Passed(buckets, at_bucket, at_node)) \in Nat
    BY <1>1, PassedFinite
  <2> QED  BY <1>2, <1>3, <2>2, <2>3, <2>4, <2>5
<1>7. TypeOK'
  BY <1>1, <1>3, <1>4 DEF IInv, TypeOK
<1>8. HashPlacement' /\ BucketShape' /\ SetBoundsEntries'
  <2>1. BucketShape'
    <3>1. /\ lost \in BOOLEAN /\ buckets' = buckets
          /\ \A i \in 0..(capacity - 1) : WellShaped(buckets[i], Least)
      BY <1>1, <1>3 DEF IInv, TypeOK, BucketShape
    <3>2. \A i \in 0..(capacity - 1) : WellShaped(buckets[i], Least')
      BY <1>1, <1>3, <3>1, LostWeakens
    <3> QED  BY <1>1, <3>1, <3>2 DEF BucketShape
  <2> QED  BY <1>3, <2>1 DEF IInv, HashPlacement, SetBoundsEntries
<1>9. NewTableOK'
  BY <1>2, <1>3, <1>4, <1>5, <1>6 DEF NewTableOK
<1>10. LockOK'
  BY <1>3 DEF LockOK, LockedOnlyAfterError
<1> QED  BY <1>7, <1>8, <1>9, <1>10 DEF IInv

LEMMA RehashEntryKeepsIInv ==
  ASSUME IInv, RehashEntry
  PROVE  IInv'
<1> DEFINE old == buckets[at_bucket]
           e   == old.chain[at_node]
           j   == Index(e.key, new_cap)
           nb  == new_buckets[j]
<1>1. /\ pc = "rehash"
      /\ at_bucket < capacity
      /\ at_node <= Len(old.chain)
      /\ \/ ~e.live /\ Undefined
         \/ e.live /\ old.complex  /\ hmap_rehash_complex(j, e)
         \/ e.live /\ ~old.complex /\ hmap_rehash_simple(j, e)
  BY DEF RehashEntry
<1>2. old \in Bucket /\ at_node \in Nat \ {0}
  BY <1>1 DEF IInv, TypeOK
<1>3. e \in Entry
  BY <1>1, <1>2, BucketChain
<1>4. e.key \in Keys /\ e.val \in Vals
  BY <1>3 DEF Entry, Vals
<1>5. /\ new_cap \in Nat \ {0} /\ new_buckets \in [0..(new_cap - 1) -> Bucket]
      /\ last_error_code \in ErrorCodes /\ collisions \in Nat
  BY <1>1 DEF IInv, TypeOK
<1>6. j \in 0..(new_cap - 1) /\ nb \in Bucket
  BY <1>4, <1>5, IndexInRange
<1>7. WellShaped(nb, Least) /\ Least \in {1, 2}
  BY <1>1, <1>5, <1>6 DEF IInv, NewTableOK
<1> HIDE DEF old, e, nb
<1>8. ASSUME RehashPut(j, Simple(e), last_error_code, collisions, FALSE), e.live
      PROVE  IInv'
  <2>1. Simple(e) \in Bucket /\ Grows(nb, Simple(e), e.key) /\ WellShaped(Simple(e), Least)
    BY <1>3, <1>6, <1>8, SimpleBucket
  <2> QED  BY <1>1, <1>4, <1>5, <1>8, <2>1, RehashPutKeepsIInv DEF nb, old
<1>9. ASSUME RehashPut(j, nb, last_error_code, collisions, FALSE)
      PROVE  IInv'
  <2>1. Grows(nb, nb, e.key)
    BY <1>6, BucketChain DEF Grows
  <2> QED  BY <1>1, <1>4, <1>5, <1>6, <1>7, <1>9, <2>1, RehashPutKeepsIInv DEF nb, old
<1>10. ASSUME RehashColliding(j, e), nb.chain # << >>
       PROVE  IInv'
  <2>1. PICK o \in hmap_complex_key_set_value(nb, e.key, e.val) :
           RehashPut(j, o.bucket,
               IF o.failed THEN HMAP_ERROR_CODE_MALLOC_FAILED ELSE last_error_code,
               IF o.failed THEN collisions ELSE collisions + 1,
               o.gone)
    BY <1>10 DEF RehashColliding, nb
  <2>2. /\ o.bucket \in Bucket /\ Grows(nb, o.bucket, e.key) /\ o.gone \in BOOLEAN
        /\ WellShaped(o.bucket, IF o.gone THEN 1 ELSE Least)
    BY <1>4, <1>6, <1>7, <1>10, SetValueBucket
  <2> DEFINE err  == IF o.failed THEN HMAP_ERROR_CODE_MALLOC_FAILED ELSE last_error_code
             coll == IF o.failed THEN collisions ELSE collisions + 1
  <2>3. err \in ErrorCodes /\ coll \in Nat
    BY <1>5, Codes
  <2> HIDE DEF err, coll
  <2>4. RehashPut(j, o.bucket, err, coll, o.gone)
    BY <2>1 DEF err, coll
  <2> QED  BY <1>1, <1>4, <2>2, <2>3, <2>4, RehashPutKeepsIInv DEF nb, old
<1>11. nb.complex => nb.chain # << >>
  BY <1>6, <1>7, BucketChain, EmptySeq DEF WellShaped
<1>12. CASE ~e.live /\ Undefined
  BY <1>12, UndefinedKeepsIInv
<1>13. ASSUME e.live, hmap_rehash_complex(j, e)
       PROVE  IInv'
  <2>1. \/ RehashColliding(j, e) /\ nb.chain # << >>
        \/ RehashPut(j, nb, last_error_code, collisions, FALSE)
        \/ RehashPut(j, Simple(e), last_error_code, collisions, FALSE)
    BY <1>11, <1>13 DEF hmap_rehash_complex, nb
  <2> QED  BY <1>8, <1>9, <1>10, <1>13, <2>1
<1>14. ASSUME e.live, hmap_rehash_simple(j, e)
       PROVE  IInv'
  <2>1. \/ RehashPut(j, Simple(e), last_error_code, collisions, FALSE)
        \/ RehashColliding(j, e) /\ nb.chain # << >>
    BY <1>14 DEF hmap_rehash_simple, nb
  <2> QED  BY <1>8, <1>10, <1>14, <2>1
<1> QED  BY <1>1, <1>12, <1>13, <1>14

LEMMA RehashNextBucketKeepsIInv ==
  ASSUME IInv, RehashNextBucket
  PROVE  IInv'
<1>1. /\ pc = "rehash" /\ at_bucket < capacity
      /\ at_bucket' = at_bucket + 1 /\ at_node' = 1
      /\ UNCHANGED <<capacity, set, load_factor, collisions, buckets, resize_bound,
                     unhealthy_callback, locked, last_error_code,
                     pc, new_buckets, new_cap, swapped, pending, ret, lost>>
  BY DEF RehashNextBucket, config, status
<1>2. /\ capacity \in Nat /\ buckets \in [0..(capacity - 1) -> Bucket]
      /\ new_cap \in Nat /\ new_buckets \in [0..(new_cap - 1) -> Bucket]
      /\ at_bucket \in 0..(capacity - 1)
  BY <1>1 DEF IInv, TypeOK
<1>3. Entries(new_buckets) \in Nat
  BY <1>2, SlotsFinite
<1>4. /\ Cardinality(Passed(buckets, at_bucket, at_node)) \in Nat
      /\ Cardinality(Passed(buckets, at_bucket + 1, 1)) \in Nat
      /\ Cardinality(Passed(buckets, at_bucket, at_node))
           <= Cardinality(Passed(buckets, at_bucket + 1, 1))
  BY <1>2, PassedFinite, PassBucket
<1>5. TypeOK'
  BY <1>1, <1>2 DEF IInv, TypeOK
<1>6. HashPlacement' /\ BucketShape' /\ SetBoundsEntries'
  BY <1>1 DEF IInv, HashPlacement, BucketShape, SetBoundsEntries
<1>7. NewTableOK'
  BY <1>1, <1>3, <1>4 DEF IInv, NewTableOK
<1>8. LockOK'
  BY <1>1 DEF LockOK, LockedOnlyAfterError
<1> QED  BY <1>5, <1>6, <1>7, <1>8 DEF IInv

LEMMA ResizeBackOffKeepsIInv ==
  ASSUME IInv, ResizeBackOff
  PROVE  IInv'
<1>1. /\ pc = "rehash"
      /\ last_error_code' = HMAP_ERROR_CODE_REHASH_FAILED
      /\ pc' = "return"
      /\ UNCHANGED <<capacity, set, load_factor, collisions, buckets, resize_bound,
                     unhealthy_callback, locked, new_buckets, new_cap, at_bucket, at_node,
                     swapped, pending, ret, lost>>
  BY DEF ResizeBackOff, config, rehash
<1>2. TypeOK'
  BY <1>1, Codes DEF IInv, TypeOK, TableStates
<1>3. HashPlacement' /\ BucketShape' /\ SetBoundsEntries'
  BY <1>1 DEF IInv, HashPlacement, BucketShape, SetBoundsEntries
<1>4. NewTableOK' /\ LockOK'
  BY <1>1, Codes DEF NewTableOK, LockOK, LockedOnlyAfterError
<1> QED  BY <1>2, <1>3, <1>4 DEF IInv

LEMMA ResizeSwapKeepsIInv ==
  ASSUME IInv, ResizeSwap
  PROVE  IInv'
<1>1. /\ pc = "rehash"
      /\ buckets' = new_buckets
      /\ capacity' = new_cap
      /\ swapped' = TRUE
      /\ update_load_factor(set, new_cap, last_error_code, collisions)
      /\ UNCHANGED <<set, config, pending, ret, lost>>
  BY DEF ResizeSwap
<1>2. /\ TypeOK
      /\ set \in Nat /\ pending \in {0, 1}
      /\ new_cap \in Nat \ {0} /\ new_buckets \in [0..(new_cap - 1) -> Bucket]
      /\ capacity \in Nat /\ buckets \in [0..(capacity - 1) -> Bucket]
      /\ last_error_code \in ErrorCodes /\ collisions \in Nat
      /\ ret \in Values \cup {NULL, ListPtr} \cup BOOLEAN /\ lost \in BOOLEAN
  BY <1>1 DEF IInv, TypeOK
<1>3. Frame(last_error_code) /\ load_factor' \in Nat
  BY <1>1, <1>2, UpdateLoadFrame
<1>4. HashPlacement' /\ BucketShape'
  BY <1>1 DEF IInv, NewTableOK, HashPlacement, BucketShape
<1>5. SetBoundsEntries'
  <2>1. Entries(new_buckets) <= Cardinality(Passed(buckets, at_bucket, at_node))
    BY <1>1 DEF IInv, NewTableOK
  <2>2. /\ Cardinality(Passed(buckets, at_bucket, at_node)) \in Nat
        /\ Cardinality(Passed(buckets, at_bucket, at_node)) <= Entries(buckets)
    BY <1>2, PassedFinite
  <2>3. Entries(buckets) \in Nat /\ Entries(buckets) + pending <= set
    BY <1>2, SlotsFinite DEF IInv, SetBoundsEntries
  <2>4. Entries(new_buckets) \in Nat
    <3>1. new_cap \in Nat
      BY <1>2
    <3> QED  BY <1>2, <3>1, SlotsFinite
  <2>5. Entries(new_buckets) + pending <= set
    BY <1>2, <2>1, <2>2, <2>3, <2>4
  <2> QED  BY <1>1, <2>5 DEF SetBoundsEntries
<1>6. TableOK'
  BY <1>1, <1>2, <1>3, <1>4, <1>5 DEF TableOK
<1>7. LockAccounted(last_error_code)
  BY <1>1 DEF LockAccounted
<1> QED  BY <1>1, <1>2, <1>3, <1>6, <1>7, FrameKeepsIInv

LEMMA CollisionsType ==
  ASSUME NEW cap \in Nat, NEW table \in [0..(cap - 1) -> Bucket]
  PROVE  count_collisions(table) \in Nat
<1> DEFINE C == {i \in DOMAIN table : table[i].complex}
<1>1. IsFiniteSet(0..(cap - 1)) /\ C \subseteq 0..(cap - 1)
  BY FS_Interval
<1>2. IsFiniteSet(C)
  BY <1>1, FS_Subset
<1> QED  BY <1>2, FS_CardinalityType DEF count_collisions

LEMMA FinishCallKeepsIInv ==
  ASSUME IInv, FinishCall
  PROVE  IInv'
<1>1. /\ pc = "return"
      /\ collisions' = IF swapped THEN count_collisions(buckets) ELSE collisions
      /\ locked' = (locked /\ ~swapped)
      /\ set' = set - pending
      /\ swapped' = FALSE /\ pending' = 0 /\ pc' = "idle"
      /\ new_buckets' = EmptyTable(0) /\ new_cap' = 0
      /\ at_bucket' = 0 /\ at_node' = 1
      /\ UNCHANGED <<capacity, load_factor, buckets, resize_bound, unhealthy_callback,
                     last_error_code, ret, lost>>
  BY DEF FinishCall, config
<1>2. /\ capacity \in Nat /\ buckets \in [0..(capacity - 1) -> Bucket]
      /\ collisions \in Nat /\ set \in Nat /\ pending \in {0, 1}
      /\ locked \in BOOLEAN /\ swapped \in BOOLEAN /\ lost \in BOOLEAN
  BY DEF IInv, TypeOK
<1>3. Entries(buckets) \in Nat /\ Entries(buckets) + pending <= set
  BY <1>2, SlotsFinite DEF IInv, SetBoundsEntries
<1>4. set' \in Nat /\ Entries(buckets) <= set'
  BY <1>1, <1>2, <1>3
<1>5. collisions' \in Nat
  BY <1>1, <1>2, CollisionsType
<1>6. locked' \in BOOLEAN /\ swapped' \in BOOLEAN /\ lost' \in BOOLEAN
  BY <1>1, <1>2
<1>7. new_buckets' \in [0..(new_cap' - 1) -> Bucket]
  BY <1>1, EmptyTableFacts
<1>8. TypeOK'
  BY <1>1, <1>4, <1>5, <1>6, <1>7 DEF IInv, TypeOK, TableStates
<1>9. HashPlacement' /\ BucketShape'
  BY <1>1 DEF IInv, HashPlacement, BucketShape
<1>10. SetBoundsEntries'
  BY <1>1, <1>3, <1>4 DEF SetBoundsEntries
<1>11. NewTableOK'
  BY <1>1 DEF NewTableOK
<1>12. LockOK'
  BY <1>1 DEF IInv, LockOK, LockedOnlyAfterError
<1> QED  BY <1>8, <1>9, <1>10, <1>11, <1>12 DEF IInv
-----------------------------------------------------------------------------
(* The calls that leave the table alone.                                   *)
LEMMA FreeKeepsIInv ==
  ASSUME IInv, hmap_free
  PROVE  IInv'
<1>1. /\ UNCHANGED <<capacity, set, load_factor, collisions, buckets, resize_bound,
                     unhealthy_callback, locked, last_error_code, new_buckets, new_cap,
                     at_bucket, at_node, swapped, pending, ret, lost>>
      /\ pc' \in {"freed", "undefined"}
  BY DEF hmap_free, config, rehash, status
<1>2. TypeOK'
  BY <1>1 DEF IInv, TypeOK, TableStates
<1>3. HashPlacement' /\ BucketShape' /\ SetBoundsEntries'
  BY <1>1 DEF IInv, HashPlacement, BucketShape, SetBoundsEntries
<1>4. NewTableOK' /\ LockOK'
  BY <1>1 DEF NewTableOK, LockOK, LockedOnlyAfterError
<1> QED  BY <1>2, <1>3, <1>4 DEF IInv

LEMMA ConfigureKeepsIInv ==
  ASSUME IInv,
         \/ \E cb \in Callbacks : hmap_set_unhealthy_callback(cb)
         \/ \E n \in MaxBuckets : hmap_set_max_buckets(n)
         \/ UNCHANGED vars
  PROVE  IInv'
<1>1. /\ UNCHANGED <<capacity, set, load_factor, collisions, buckets, locked,
                     last_error_code, pc, new_buckets, new_cap, at_bucket, at_node,
                     swapped, pending, ret, lost>>
      /\ unhealthy_callback' \in {"default", "guest", "defer"}
      /\ resize_bound' \in Nat
  BY ConstantsAssumption
     DEF hmap_set_unhealthy_callback, hmap_set_max_buckets, vars, config, rehash, status,
         IInv, TypeOK
<1>2. TypeOK'
  BY <1>1 DEF IInv, TypeOK
<1>3. HashPlacement' /\ BucketShape' /\ SetBoundsEntries'
  BY <1>1 DEF IInv, HashPlacement, BucketShape, SetBoundsEntries
<1>4. NewTableOK' /\ LockOK'
  BY <1>1 DEF IInv, NewTableOK, LockOK, LockedOnlyAfterError
<1> QED  BY <1>2, <1>3, <1>4 DEF IInv
-----------------------------------------------------------------------------
LEMMA InitIInv ==
  ASSUME Init
  PROVE  IInv
<1>1. /\ capacity \in Nat \ {0}
      /\ set = 0 /\ load_factor = 0 /\ collisions = 0
      /\ buckets = EmptyTable(capacity)
      /\ resize_bound = 0 /\ unhealthy_callback = "default"
      /\ locked = FALSE /\ last_error_code = HMAP_ERROR_CODE_OK
      /\ pc = "idle"
      /\ new_buckets = EmptyTable(0) /\ new_cap = 0 /\ at_bucket = 0 /\ at_node = 1
      /\ swapped = FALSE /\ pending = 0 /\ ret = NULL /\ lost = FALSE
  BY ConstantsAssumption DEF Init
<1>2. /\ buckets \in [0..(capacity - 1) -> Bucket]
      /\ Entries(buckets) = 0
      /\ Placed(buckets, capacity)
      /\ \A i \in 0..(capacity - 1) : WellShaped(buckets[i], Least)
  BY <1>1, EmptyTableFacts
<1>3. new_buckets \in [0..(new_cap - 1) -> Bucket]
  BY <1>1, EmptyTableFacts
<1>4. TypeOK
  <2>1. locked \in BOOLEAN /\ swapped \in BOOLEAN /\ lost \in BOOLEAN
    BY <1>1
  <2>2. ret \in Values \cup {NULL, ListPtr} \cup BOOLEAN
    BY <1>1
  <2> QED  BY <1>1, <1>2, <1>3, <2>1, <2>2, Codes DEF TypeOK, TableStates
<1>5. HashPlacement /\ BucketShape /\ SetBoundsEntries
  BY <1>1, <1>2 DEF HashPlacement, BucketShape, SetBoundsEntries
<1>6. NewTableOK /\ LockOK
  BY <1>1 DEF NewTableOK, LockOK, LockedOnlyAfterError
<1> QED  BY <1>4, <1>5, <1>6 DEF IInv

LEMMA NextKeepsIInv ==
  ASSUME IInv, [Next]_vars
  PROVE  IInv'
<1>1. ASSUME NEW k \in Keys, NEW v \in Values, NEW allow \in BOOLEAN,
             hmap_set(k, v, allow)
      PROVE  IInv'
  BY <1>1, SetKeepsIInv
<1>2. ASSUME NEW k \in Keys, hmap_get(k)
      PROVE  IInv'
  BY <1>2, GetKeepsIInv
<1>3. ASSUME NEW k \in Keys, hashmap_unset(k)
      PROVE  IInv'
  BY <1>3, UnsetKeepsIInv
<1>4. ASSUME NEW cap \in ResizeCaps, hmap_resize(cap)
      PROVE  IInv'
  BY <1>4, ResizeKeepsIInv
<1>5. CASE \/ \E cb \in Callbacks : hmap_set_unhealthy_callback(cb)
           \/ \E n \in MaxBuckets : hmap_set_max_buckets(n)
           \/ UNCHANGED vars
  BY <1>5, ConfigureKeepsIInv
<1>6. CASE hmap_free
  BY <1>6, FreeKeepsIInv
<1>7. CASE RehashEntry
  BY <1>7, RehashEntryKeepsIInv
<1>8. CASE RehashNextBucket
  BY <1>8, RehashNextBucketKeepsIInv
<1>9. CASE ResizeBackOff
  BY <1>9, ResizeBackOffKeepsIInv
<1>10. CASE ResizeSwap
  BY <1>10, ResizeSwapKeepsIInv
<1>11. CASE FinishCall
  BY <1>11, FinishCallKeepsIInv
<1> QED  BY <1>1, <1>2, <1>3, <1>4, <1>5, <1>6, <1>7, <1>8, <1>9, <1>10, <1>11
         DEF Next, Running, Call
-----------------------------------------------------------------------------
(* What an error on record does to the steps that follow.                  *)

LEMMA BeginResizeKeepsError ==
  ASSUME NEW cap, NEW err, NEW coll, err # HMAP_ERROR_CODE_OK,
         BeginResize(cap, err, coll)
  PROVE  last_error_code' # HMAP_ERROR_CODE_OK
BY Codes DEF BeginResize

LEMMA UpdateLoadKeepsError ==
  ASSUME NEW n, NEW cap, NEW err, NEW coll, err # HMAP_ERROR_CODE_OK,
         update_load_factor(n, cap, err, coll)
  PROVE  last_error_code' # HMAP_ERROR_CODE_OK
<1>1. CASE last_error_code' = err
  BY <1>1
<1>2. CASE BeginResize(2 * cap,
                       IF unhealthy_callback = "default" /\ locked
                       THEN HMAP_ERROR_CODE_LOCKED ELSE err,
                       coll)
  <2>1. (IF unhealthy_callback = "default" /\ locked
         THEN HMAP_ERROR_CODE_LOCKED ELSE err) # HMAP_ERROR_CODE_OK
    BY Codes
  <2> QED  BY <1>2, <2>1, BeginResizeKeepsError
<1> QED
  <2> DEFINE Grow == BeginResize(2 * cap,
                       IF unhealthy_callback = "default" /\ locked
                       THEN HMAP_ERROR_CODE_LOCKED ELSE err,
                       coll)
  <2>1. last_error_code' = err \/ Grow
    BY DEF update_load_factor
  <2> HIDE DEF Grow
  <2>2. Grow => last_error_code' # HMAP_ERROR_CODE_OK
    BY <1>2 DEF Grow
  <2> QED  BY <1>1, <2>1, <2>2

LEMMA StoredKeepsError ==
  ASSUME NEW i, NEW b, NEW err, NEW coll, NEW gone, err # HMAP_ERROR_CODE_OK,
         Stored(i, b, err, coll, gone)
  PROVE  last_error_code' # HMAP_ERROR_CODE_OK /\ capacity' = capacity
BY UpdateLoadKeepsError DEF Stored

LEMMA RehashEntryKeepsError ==
  ASSUME last_error_code # HMAP_ERROR_CODE_OK, RehashEntry
  PROVE  /\ last_error_code' # HMAP_ERROR_CODE_OK
         /\ UNCHANGED <<capacity, buckets, locked, swapped>>
<1> DEFINE e == buckets[at_bucket].chain[at_node]
           j == Index(e.key, new_cap)
<1>1. Undefined \/ hmap_rehash_complex(j, e) \/ hmap_rehash_simple(j, e)
  BY DEF RehashEntry
<1> HIDE DEF e, j
<1>2. CASE Undefined
  BY <1>2 DEF Undefined, status
<1>3. ASSUME NEW b, NEW err, NEW coll, NEW gone, err # HMAP_ERROR_CODE_OK,
             RehashPut(j, b, err, coll, gone)
      PROVE  /\ last_error_code' # HMAP_ERROR_CODE_OK
             /\ UNCHANGED <<capacity, buckets, locked, swapped>>
  BY <1>3 DEF RehashPut
<1>4. CASE RehashColliding(j, e)
  <2>1. PICK o \in hmap_complex_key_set_value(new_buckets[j], e.key, e.val) :
           RehashPut(j, o.bucket,
               IF o.failed THEN HMAP_ERROR_CODE_MALLOC_FAILED ELSE last_error_code,
               IF o.failed THEN collisions ELSE collisions + 1,
               o.gone)
    BY <1>4 DEF RehashColliding
  <2>2. (IF o.failed THEN HMAP_ERROR_CODE_MALLOC_FAILED ELSE last_error_code)
           # HMAP_ERROR_CODE_OK
    BY Codes
  <2> QED  BY <2>1, <2>2, <1>3
<1>5. \/ Undefined
      \/ RehashColliding(j, e)
      \/ RehashPut(j, new_buckets[j], last_error_code, collisions, FALSE)
      \/ RehashPut(j, Simple(e), last_error_code, collisions, FALSE)
  BY <1>1 DEF hmap_rehash_complex, hmap_rehash_simple
<1> QED  BY <1>2, <1>3, <1>4, <1>5

LEMMA SetKeepsError ==
  ASSUME NEW k, NEW v, NEW allow, last_error_code # HMAP_ERROR_CODE_OK,
         hmap_set(k, v, allow)
  PROVE  /\ last_error_code' # HMAP_ERROR_CODE_OK
         /\ capacity' = capacity
         /\ locked => UNCHANGED <<buckets, locked, swapped>>
<1> DEFINE i == Index(k, capacity)
           b == buckets[i]
<1>1. CASE Refused(FALSE)
  BY <1>1, Codes DEF Refused, Return
<1>2. CASE ~locked /\ StoreColliding(i, k, v)
  <2>1. PICK o \in hmap_complex_key_set_value(b, k, v) :
           Stored(i, o.bucket,
               IF o.failed THEN HMAP_ERROR_CODE_MALLOC_FAILED ELSE last_error_code,
               IF o.failed THEN collisions ELSE collisions + 1,
               o.gone)
    BY <1>2 DEF StoreColliding
  <2>2. (IF o.failed THEN HMAP_ERROR_CODE_MALLOC_FAILED ELSE last_error_code)
           # HMAP_ERROR_CODE_OK
    BY Codes
  <2> QED  BY <1>2, <2>1, <2>2, StoredKeepsError
<1>3. CASE ~locked /\ \/ Stored(i, [b EXCEPT !.chain[1].val = v], last_error_code, collisions, FALSE)
                      \/ Stored(i, Simple(NewEntry(k, v)), last_error_code, collisions, FALSE)
  BY <1>3, StoredKeepsError
<1>4. CASE ~locked /\ Return(FALSE, HMAP_ERROR_CODE_KEY_MISMATCH)
  BY <1>4, Codes DEF Return
<1>5. \/ Refused(FALSE)
      \/ ~locked /\ StoreColliding(i, k, v)
      \/ ~locked /\ \/ Stored(i, [b EXCEPT !.chain[1].val = v], last_error_code, collisions, FALSE)
                    \/ Stored(i, Simple(NewEntry(k, v)), last_error_code, collisions, FALSE)
      \/ ~locked /\ Return(FALSE, HMAP_ERROR_CODE_KEY_MISMATCH)
  BY DEF hmap_set
<1> HIDE DEF i, b
<1> QED  BY <1>1, <1>2, <1>3, <1>4, <1>5

LEMMA GetKeepsError ==
  ASSUME NEW k, last_error_code # HMAP_ERROR_CODE_OK, hmap_get(k)
  PROVE  /\ last_error_code' # HMAP_ERROR_CODE_OK
         /\ UNCHANGED <<capacity, buckets, locked, swapped>>
<1>1. \/ Undefined
      \/ \E r : \/ Return(r, last_error_code)
               \/ Return(r, HMAP_ERROR_CODE_KEY_MISMATCH)
               \/ Return(r, HMAP_ERROR_CODE_LOCKED)
  BY DEF hmap_get, Refused
<1> QED  BY <1>1, Codes DEF Undefined, Return, status

LEMMA UnsetKeepsError ==
  ASSUME NEW k, last_error_code # HMAP_ERROR_CODE_OK, hashmap_unset(k)
  PROVE  /\ last_error_code' # HMAP_ERROR_CODE_OK
         /\ capacity' = capacity
         /\ locked => UNCHANGED <<buckets, locked, swapped>>
<1>1. \/ Undefined
      \/ \E r : \/ Return(r, last_error_code)
               \/ Return(r, HMAP_ERROR_CODE_KEY_MISMATCH)
               \/ Return(r, HMAP_ERROR_CODE_LOCKED)
      \/ ~locked /\ UNCHANGED <<capacity, status>>
      \/ ~locked /\ UNCHANGED capacity
                 /\ update_load_factor(set, capacity, last_error_code, collisions)
  BY DEF hashmap_unset, Refused
<1>2. CASE update_load_factor(set, capacity, last_error_code, collisions) /\ ~locked
           /\ UNCHANGED capacity
  BY <1>2, UpdateLoadKeepsError
<1> QED  BY <1>1, <1>2, Codes DEF Undefined, Return, status

(* One step of the program with an error on record.                        *)
LEMMA NextKeepsError ==
  ASSUME last_error_code # HMAP_ERROR_CODE_OK, [Next]_vars
  PROVE  /\ last_error_code' # HMAP_ERROR_CODE_OK
         /\ capacity' = capacity
         /\ locked /\ ~swapped => locked' /\ ~swapped' /\ buckets' = buckets
<1>1. ASSUME NEW k \in Keys, NEW v \in Values, NEW allow \in BOOLEAN,
             hmap_set(k, v, allow)
      PROVE  /\ last_error_code' # HMAP_ERROR_CODE_OK
             /\ capacity' = capacity
             /\ locked /\ ~swapped => locked' /\ ~swapped' /\ buckets' = buckets
  BY <1>1, SetKeepsError
<1>2. ASSUME NEW k \in Keys, hmap_get(k) \/ hashmap_unset(k)
      PROVE  /\ last_error_code' # HMAP_ERROR_CODE_OK
             /\ capacity' = capacity
             /\ locked /\ ~swapped => locked' /\ ~swapped' /\ buckets' = buckets
  BY <1>2, GetKeepsError, UnsetKeepsError
<1>3. ASSUME NEW cap \in ResizeCaps, hmap_resize(cap)
      PROVE  /\ last_error_code' # HMAP_ERROR_CODE_OK
             /\ UNCHANGED <<capacity, buckets, swapped>>
             /\ locked'
  BY <1>3, BeginResizeKeepsError DEF hmap_resize, BeginResize
<1>4. CASE \/ \E cb \in Callbacks : hmap_set_unhealthy_callback(cb)
           \/ \E n \in MaxBuckets : hmap_set_max_buckets(n)
           \/ hmap_free
           \/ RehashNextBucket
           \/ UNCHANGED vars
  BY <1>4 DEF hmap_set_unhealthy_callback, hmap_set_max_buckets, hmap_free,
              RehashNextBucket, vars, status
<1>5. CASE RehashEntry
  BY <1>5, RehashEntryKeepsError
<1>6. CASE ResizeBackOff
  BY <1>6, Codes DEF ResizeBackOff
<1>7. CASE ResizeSwap
  BY <1>7 DEF ResizeSwap
<1>8. CASE FinishCall
  BY <1>8 DEF FinishCall
<1> QED  BY <1>1, <1>2, <1>3, <1>4, <1>5, <1>6, <1>7, <1>8 DEF Next, Running, Call
-----------------------------------------------------------------------------
(* What becomes of the entries whose memory hashmap_unset freed.           *)

(* b2 still has every freed entry of b.                                    *)
KeepsFreed(b, b2) ==
  \A n \in DOMAIN b.chain : ~b.chain[n].live =>
     \E m \in DOMAIN b2.chain : b2.chain[m].key = b.chain[n].key /\ ~b2.chain[m].live

(* hmap_rehash went past living entries only: it reads every one.          *)
PassedLive ==
  pc = "rehash" =>
    \A i \in DOMAIN buckets : \A n \in DOMAIN buckets[i].chain :
       i < at_bucket \/ (i = at_bucket /\ n < at_node) => buckets[i].chain[n].live

(* A simple bucket has no freed entry.                                     *)
LEMMA SimpleKeepsFreed ==
  ASSUME NEW b, NEW least, NEW b2, WellShaped(b, least), ~b.complex
  PROVE  KeepsFreed(b, b2)
BY DEF WellShaped, KeepsFreed

LEMMA AppendKeepsFreed ==
  ASSUME NEW b \in Bucket, NEW k \in Keys, NEW v \in Vals
  PROVE  KeepsFreed(b, [complex |-> TRUE, chain |-> Append(b.chain, NewEntry(k, v))])
<1> DEFINE e  == NewEntry(k, v)
           c2 == Append(b.chain, e)
<1>1. e \in Entry
  BY NewEntryType
<1>2. b.chain \in Seq(Entry) /\ Len(b.chain) \in Nat /\ DOMAIN b.chain = 1..Len(b.chain)
  BY BucketChain
<1>3. /\ c2 \in Seq(Entry)
      /\ Len(c2) = Len(b.chain) + 1
      /\ \A i \in 1..Len(b.chain) : c2[i] = b.chain[i]
  <2> HIDE DEF e
  <2> QED  BY <1>1, <1>2, AppendProperties
<1>4. DOMAIN c2 = 1..(Len(b.chain) + 1)
  BY <1>3, LenProperties
<1> HIDE DEF c2
<1> QED  BY <1>2, <1>3, <1>4 DEF KeepsFreed, c2

LEMMA SetValueKeepsFreed ==
  ASSUME NEW b \in Bucket, NEW k \in Keys, NEW v \in Vals, NEW least,
         WellShaped(b, least),
         NEW o \in hmap_complex_key_set_value(b, k, v)
  PROVE  KeepsFreed(b, o.bucket)
<1>1. CASE ~b.complex
  BY <1>1, SimpleKeepsFreed
<1>2. CASE b.complex
  <2>1. \/ o.bucket = [complex |-> TRUE, chain |-> Append(b.chain, NewEntry(k, v))]
        \/ o.bucket = b
        \/ o.bucket = [complex |-> TRUE, chain |-> b.chain]
    <3> DEFINE b1 == [complex |-> TRUE, chain |-> Append(b.chain, NewEntry(k, v))]
               b3 == [complex |-> TRUE, chain |-> b.chain]
    <3>1. \/ o = [bucket |-> b1, failed |-> FALSE, gone |-> FALSE]
          \/ o = [bucket |-> b,  failed |-> TRUE,  gone |-> FALSE]
          \/ o = [bucket |-> b3, failed |-> FALSE, gone |-> TRUE]
      BY <1>2 DEF hmap_complex_key_set_value
    <3> HIDE DEF b1, b3
    <3>2. o.bucket \in {b1, b, b3}
      BY <3>1
    <3> QED  BY <3>2 DEF b1, b3
  <2>2. KeepsFreed(b, b) /\ KeepsFreed(b, [complex |-> TRUE, chain |-> b.chain])
    BY DEF KeepsFreed
  <2> QED  BY <2>1, <2>2, AppendKeepsFreed
<1> QED  BY <1>1, <1>2

(* The entry that is freed stays, and what is unlinked, if anything, is    *)
(* the living entry before it.                                             *)
LEMMA UnsetKeepsFreed ==
  ASSUME NEW b \in Bucket, NEW k, NEW n \in DOMAIN b.chain, StopsAt(b.chain, k, n)
  PROVE  LET c2 == hmap_complex_key_unset_value(b.chain, n)
         IN  /\ KeepsFreed(b, [b EXCEPT !.chain = c2])
             /\ \E m \in DOMAIN c2 : c2[m].key = b.chain[n].key /\ ~c2[m].live
<1> DEFINE c  == [b.chain EXCEPT ![n].live = FALSE]
           c2 == hmap_complex_key_unset_value(b.chain, n)
           b2 == [b EXCEPT !.chain = c2]
           e  == [b.chain[n] EXCEPT !.live = FALSE]
<1>1. /\ b.chain \in Seq(Entry) /\ Len(b.chain) \in Nat /\ DOMAIN b.chain = 1..Len(b.chain)
      /\ b.chain[n] \in Entry /\ n \in 1..Len(b.chain)
  BY BucketChain
<1>2. e \in Entry /\ e.key = b.chain[n].key /\ ~e.live
  BY <1>1 DEF Entry
<1>3. c = [b.chain EXCEPT ![n] = e]
  OBVIOUS
<1> HIDE DEF c, e
<1>4. c \in Seq(Entry) /\ Len(c) = Len(b.chain)
      /\ \A j \in 1..Len(b.chain) : c[j] = IF j = n THEN e ELSE b.chain[j]
  BY <1>1, <1>2, <1>3, ExceptSeq
<1>5. DOMAIN c = 1..Len(b.chain)
  BY <1>4, LenProperties
<1>6. \A m \in 1..(n - 1) : b.chain[m].live
  BY DEF StopsAt, Stops
<1>7. b2.chain = c2
  BY DEF Bucket
<1> HIDE DEF b2, c2
<1> DEFINE Goal == /\ KeepsFreed(b, b2)
                   /\ \E m \in DOMAIN c2 : c2[m].key = b.chain[n].key /\ ~c2[m].live
<1>8. ASSUME n - 1 >= 2
      PROVE  Goal
  <2>1. c2 = RemoveAt(c, n - 1)
    BY <1>8 DEF hmap_complex_key_unset_value, ll_remove_node, c, c2
  <2>2. /\ DOMAIN c2 = 1..(Len(b.chain) - 1)
        /\ \A j \in 1..(Len(b.chain) - 1) : c2[j] = IF j <= n - 2 THEN c[j] ELSE c[j + 1]
    <3>1. n \in 3..Len(c)
      BY <1>1, <1>4, <1>8
    <3> QED  BY <1>4, <2>1, <3>1, UnlinkedBefore
  <2>3. n - 1 \in DOMAIN c2 /\ c2[n - 1] = e
    BY <1>1, <1>4, <1>8, <2>2
  <2>4. ASSUME NEW j \in DOMAIN b.chain, ~b.chain[j].live
        PROVE  \E m \in DOMAIN c2 : c2[m].key = b.chain[j].key /\ ~c2[m].live
    <3>1. j \in Int /\ n \in Int /\ j >= n /\ j <= Len(b.chain)
      BY <1>1, <1>6, <2>4
    <3>2. CASE j = n
      BY <3>2, <1>2, <2>3
    <3>3. CASE j > n
      <4>1. j - 1 \in 1..(Len(b.chain) - 1) /\ ~(j - 1 <= n - 2) /\ j - 1 + 1 = j
        BY <1>1, <1>8, <3>1, <3>3
      <4>2. c2[j - 1] = c[j] /\ c[j] = b.chain[j]
        BY <1>1, <1>4, <2>2, <3>3, <4>1
      <4> QED  BY <2>2, <2>4, <4>1, <4>2
    <3> QED  BY <3>1, <3>2, <3>3
  <2> QED  BY <1>2, <1>7, <2>3, <2>4 DEF KeepsFreed
<1>9. ASSUME ~(n - 1 >= 2)
      PROVE  Goal
  <2>1. c2 = c
    BY <1>9 DEF hmap_complex_key_unset_value, ll_remove_node, c, c2
  <2> QED  BY <1>1, <1>2, <1>4, <1>5, <1>7, <2>1 DEF KeepsFreed
<1>10. Goal
  BY <1>8, <1>9
<1> QED  BY <1>10 DEF b2, c2

(* The freed entries of the whole table.                                   *)
LEMMA ReplacedKeepsFreed ==
  ASSUME TypeOK, NEW i \in 0..(capacity - 1), NEW b,
         buckets' = [buckets EXCEPT ![i] = b],
         KeepsFreed(buckets[i], b)
  PROVE  FreedKeys \subseteq FreedKeys'
<1>1. DOMAIN buckets = 0..(capacity - 1) /\ DOMAIN buckets' = 0..(capacity - 1)
  BY DEF TypeOK
<1>2. \A j \in 0..(capacity - 1) : buckets'[j] = IF j = i THEN b ELSE buckets[j]
  BY <1>1
<1>3. ASSUME NEW k \in Keys, NEW j \in DOMAIN buckets, NEW n \in DOMAIN buckets[j].chain,
             buckets[j].chain[n].key = k, ~buckets[j].chain[n].live
      PROVE  \E m \in DOMAIN buckets'[j].chain :
                buckets'[j].chain[m].key = k /\ ~buckets'[j].chain[m].live
  BY <1>1, <1>2, <1>3 DEF KeepsFreed
<1> QED  BY <1>1, <1>3 DEF FreedKeys

LEMMA BeginResizeAtFirst ==
  ASSUME NEW cap, NEW err, NEW coll, BeginResize(cap, err, coll)
  PROVE  pc' \in {"rehash", "return"} /\ (pc' = "rehash" => at_bucket' = 0 /\ at_node' = 1)
BY DEF BeginResize

LEMMA UpdateLoadAtFirst ==
  ASSUME NEW n, NEW cap, NEW err, NEW coll, update_load_factor(n, cap, err, coll)
  PROVE  pc' \in {"rehash", "return"} /\ (pc' = "rehash" => at_bucket' = 0 /\ at_node' = 1)
BY BeginResizeAtFirst DEF update_load_factor

(* A resize that begins has passed no entry yet.                           *)
LEMMA AtFirstPassedLive ==
  ASSUME TypeOK', pc' = "rehash" => at_bucket' = 0 /\ at_node' = 1
  PROVE  PassedLive'
<1>1. ASSUME pc' = "rehash", NEW i \in DOMAIN buckets', NEW n \in DOMAIN buckets'[i].chain
      PROVE  ~(i < at_bucket' \/ (i = at_bucket' /\ n < at_node'))
  <2>1. i \in 0..(capacity' - 1) /\ buckets'[i] \in Bucket /\ capacity' \in Nat
    BY DEF TypeOK
  <2>2. n \in Nat \ {0}
    BY <2>1, BucketChain
  <2> QED  BY <1>1, <2>1, <2>2
<1> QED  BY <1>1 DEF PassedLive

LEMMA RehashEntryPassedLive ==
  ASSUME TypeOK, PassedLive, RehashEntry
  PROVE  PassedLive'
<1> DEFINE e == buckets[at_bucket].chain[at_node]
           j == Index(e.key, new_cap)
<1>1. \/ Undefined
      \/ e.live /\ (hmap_rehash_complex(j, e) \/ hmap_rehash_simple(j, e))
  BY DEF RehashEntry
<1>2. pc = "rehash" /\ at_node \in Nat
  BY DEF RehashEntry, TypeOK
<1> HIDE DEF j
<1>3. CASE Undefined
  BY <1>3 DEF Undefined, PassedLive
<1>4. ASSUME e.live, NEW b, NEW err, NEW coll, NEW gone, RehashPut(j, b, err, coll, gone)
      PROVE  PassedLive'
  <2>1. at_node' = at_node + 1 /\ UNCHANGED <<buckets, at_bucket, pc>>
    BY <1>4 DEF RehashPut
  <2>2. ASSUME NEW i \in DOMAIN buckets, NEW n \in DOMAIN buckets[i].chain,
               i < at_bucket \/ (i = at_bucket /\ n < at_node + 1)
        PROVE  buckets[i].chain[n].live
    <3>1. buckets[i] \in Bucket
      BY DEF TypeOK
    <3>2. n \in Nat
      BY <3>1, BucketChain
    <3>3. i < at_bucket \/ (i = at_bucket /\ n < at_node) \/ (i = at_bucket /\ n = at_node)
      BY <1>2, <2>2, <3>2
    <3> QED  BY <1>2, <1>4, <3>3 DEF PassedLive
  <2> QED  BY <2>1, <2>2 DEF PassedLive
<1>5. CASE RehashColliding(j, e) /\ e.live
  <2>1. PICK o \in hmap_complex_key_set_value(new_buckets[j], e.key, e.val) :
           RehashPut(j, o.bucket,
               IF o.failed THEN HMAP_ERROR_CODE_MALLOC_FAILED ELSE last_error_code,
               IF o.failed THEN collisions ELSE collisions + 1,
               o.gone)
    BY <1>5 DEF RehashColliding
  <2> QED  BY <1>4, <1>5, <2>1
<1>6. e.live /\ (hmap_rehash_complex(j, e) \/ hmap_rehash_simple(j, e)) =>
      \/ RehashColliding(j, e)
      \/ RehashPut(j, new_buckets[j], last_error_code, collisions, FALSE)
      \/ RehashPut(j, Simple(e), last_error_code, collisions, FALSE)
  BY DEF hmap_rehash_complex, hmap_rehash_simple
<1> HIDE DEF e
<1> QED  BY <1>1, <1>3, <1>4, <1>5, <1>6

LEMMA NextBucketPassedLive ==
  ASSUME TypeOK, PassedLive, RehashNextBucket
  PROVE  PassedLive'
<1>1. /\ pc = "rehash" /\ at_bucket < capacity
      /\ at_node > Len(buckets[at_bucket].chain)
      /\ at_bucket' = at_bucket + 1 /\ at_node' = 1 /\ UNCHANGED <<buckets, pc>>
  BY DEF RehashNextBucket
<1>2. /\ buckets \in [0..(capacity - 1) -> Bucket] /\ at_bucket \in Nat /\ at_node \in Nat
      /\ capacity \in Nat
  BY DEF TypeOK
<1>3. ASSUME NEW i \in DOMAIN buckets, NEW n \in DOMAIN buckets[i].chain,
             i < at_bucket + 1 \/ (i = at_bucket + 1 /\ n < 1)
      PROVE  buckets[i].chain[n].live
  <2>1. buckets[i] \in Bucket /\ i \in Int
    BY <1>2
  <2>2. n \in 1..Len(buckets[i].chain) /\ Len(buckets[i].chain) \in Nat
    BY <2>1, BucketChain
  <2>3. i < at_bucket \/ (i = at_bucket /\ n < at_node)
    BY <1>1, <1>2, <1>3, <2>1, <2>2
  <2> QED  BY <1>1, <2>3 DEF PassedLive
<1> QED  BY <1>1, <1>3 DEF PassedLive

LEMMA NextPassedLive ==
  ASSUME IInv, IInv', PassedLive, [Next]_vars
  PROVE  PassedLive'
<1>0. TypeOK /\ TypeOK'
  BY DEF IInv
<1>1. CASE pc' # "rehash"
  BY <1>1 DEF PassedLive
<1>2. ASSUME NEW k \in Keys, NEW v \in Values, NEW allow \in BOOLEAN,
             hmap_set(k, v, allow), pc' = "rehash"
      PROVE  PassedLive'
  <2>1. PICK i, b, err, coll, gone : Stored(i, b, err, coll, gone)
    BY <1>2 DEF hmap_set, Refused, Return, StoreColliding
  <2> QED  BY <1>0, <2>1, UpdateLoadAtFirst, AtFirstPassedLive DEF Stored
<1>3. ASSUME NEW k \in Keys, hashmap_unset(k), pc' = "rehash"
      PROVE  PassedLive'
  <2>1. update_load_factor(set, capacity, last_error_code, collisions)
    BY <1>3 DEF hashmap_unset, Refused, Return, Undefined
  <2> QED  BY <1>0, <2>1, UpdateLoadAtFirst, AtFirstPassedLive
<1>4. ASSUME NEW cap \in ResizeCaps, hmap_resize(cap)
      PROVE  PassedLive'
  <2>1. BeginResize(cap, last_error_code, collisions)
    BY <1>4 DEF hmap_resize
  <2> QED  BY <1>0, <2>1, BeginResizeAtFirst, AtFirstPassedLive
<1>5. CASE RehashEntry
  BY <1>0, <1>5, RehashEntryPassedLive
<1>6. CASE RehashNextBucket
  BY <1>0, <1>6, NextBucketPassedLive
<1>7. CASE ResizeSwap
  <2>1. update_load_factor(set, new_cap, last_error_code, collisions)
    BY <1>7 DEF ResizeSwap
  <2> QED  BY <1>0, <2>1, UpdateLoadAtFirst, AtFirstPassedLive
<1>8. ASSUME \/ \E k \in Keys : hmap_get(k)
             \/ \E cb \in Callbacks : hmap_set_unhealthy_callback(cb)
             \/ \E n \in MaxBuckets : hmap_set_max_buckets(n)
             \/ hmap_free \/ ResizeBackOff \/ FinishCall
      PROVE  pc' # "rehash"
  BY <1>8 DEF hmap_get, hmap_set_unhealthy_callback, hmap_set_max_buckets, hmap_free,
              ResizeBackOff, FinishCall, Refused, Return, Undefined
<1>9. CASE UNCHANGED vars
  BY <1>9 DEF vars, rehash, PassedLive
<1> QED  BY <1>1, <1>2, <1>3, <1>4, <1>5, <1>6, <1>7, <1>8, <1>9 DEF Next, Running, Call

(* One call, or one step of a call, of a map that has a freed entry.       *)
LEMMA SetKeepsFreed ==
  ASSUME IInv, NEW k \in Keys, NEW v \in Values, NEW allow, hmap_set(k, v, allow)
  PROVE  FreedKeys \subseteq FreedKeys' /\ capacity' = capacity /\ pc' # "freed"
<1> DEFINE i == Index(k, capacity)
           b == buckets[i]
<1>1. TypeOK /\ i \in 0..(capacity - 1) /\ b \in Bucket /\ v \in Vals /\ WellShaped(b, Least)
  BY IndexInRange DEF IInv, TypeOK, BucketShape, Vals
<1>2. ASSUME NEW b2, NEW err, NEW coll, NEW gone, KeepsFreed(b, b2),
             Stored(i, b2, err, coll, gone)
      PROVE  FreedKeys \subseteq FreedKeys' /\ capacity' = capacity /\ pc' # "freed"
  <2>1. /\ buckets' = [buckets EXCEPT ![i] = b2]
        /\ capacity' = capacity
        /\ update_load_factor(set + 1, capacity, err, coll)
    BY <1>2 DEF Stored
  <2> HIDE DEF i
  <2>2. FreedKeys \subseteq FreedKeys'
    BY <1>1, <1>2, <2>1, ReplacedKeepsFreed
  <2> QED  BY <2>1, <2>2, UpdateLoadAtFirst
<1>3. CASE StoreColliding(i, k, v)
  <2>1. PICK o \in hmap_complex_key_set_value(b, k, v) :
           Stored(i, o.bucket,
                  IF o.failed THEN HMAP_ERROR_CODE_MALLOC_FAILED ELSE last_error_code,
                  IF o.failed THEN collisions ELSE collisions + 1,
                  o.gone)
    BY <1>3 DEF StoreColliding
  <2> HIDE DEF i, b
  <2> QED  BY <1>1, <1>2, <2>1, SetValueKeepsFreed
<1>4. CASE /\ ~b.complex
           /\ \/ Stored(i, [b EXCEPT !.chain[1].val = v], last_error_code, collisions, FALSE)
              \/ Stored(i, Simple(NewEntry(k, v)), last_error_code, collisions, FALSE)
  <2> HIDE DEF i, b
  <2> QED  BY <1>1, <1>2, <1>4, SimpleKeepsFreed
<1>5. CASE \E err : Return(FALSE, err) /\ pc = "idle"
  BY <1>5 DEF Return, FreedKeys
<1>6. \/ StoreColliding(i, k, v)
      \/ /\ ~b.complex
         /\ \/ Stored(i, [b EXCEPT !.chain[1].val = v], last_error_code, collisions, FALSE)
            \/ Stored(i, Simple(NewEntry(k, v)), last_error_code, collisions, FALSE)
      \/ \E err : Return(FALSE, err) /\ pc = "idle"
  BY DEF hmap_set, Refused
<1> HIDE DEF i, b
<1> QED  BY <1>3, <1>4, <1>5, <1>6

LEMMA UnsetKeepsFreedKeys ==
  ASSUME IInv, NEW k \in Keys, hashmap_unset(k)
  PROVE  /\ FreedKeys \subseteq FreedKeys' /\ capacity' = capacity /\ pc' # "freed"
         /\ buckets[Index(k, capacity)].complex /\ buckets' # buckets
              => \E j \in FreedKeys' : SameKey(j, k)
<1> DEFINE i == Index(k, capacity)
           b == buckets[i]
<1>1. TypeOK /\ i \in 0..(capacity - 1) /\ b \in Bucket /\ WellShaped(b, Least)
  BY IndexInRange DEF IInv, TypeOK, BucketShape
<1>2. ASSUME NEW n \in DOMAIN b.chain, StopsAt(b.chain, k, n), b.chain[n].live, pc = "idle",
             buckets' = [buckets EXCEPT ![i].chain = hmap_complex_key_unset_value(b.chain, n)],
             UNCHANGED <<capacity, pc>>
      PROVE  FreedKeys \subseteq FreedKeys' /\ \E j \in FreedKeys' : SameKey(j, k)
  <2> DEFINE c2 == hmap_complex_key_unset_value(b.chain, n)
             b2 == [b EXCEPT !.chain = c2]
  <2>1. KeepsFreed(b, b2) /\ \E m \in DOMAIN c2 : c2[m].key = b.chain[n].key /\ ~c2[m].live
    <3> HIDE DEF b
    <3> QED  BY <1>1, <1>2, UnsetKeepsFreed
  <2>2. buckets' = [buckets EXCEPT ![i] = b2] /\ b2.chain = c2
    BY <1>1, <1>2 DEF Bucket
  <2>3. b.chain[n].key \in Keys /\ SameKey(b.chain[n].key, k)
    BY <1>1, <1>2, BucketChain DEF StopsAt, Stops, Entry
  <2> HIDE DEF i, c2, b2
  <2>4. FreedKeys \subseteq FreedKeys'
    BY <1>1, <2>1, <2>2, ReplacedKeepsFreed
  <2>5. i \in DOMAIN buckets' /\ buckets'[i].chain = c2
    BY <1>1, <2>2 DEF TypeOK
  <2>6. b.chain[n].key \in FreedKeys'
    BY <2>1, <2>3, <2>5 DEF FreedKeys
  <2> QED  BY <2>3, <2>4, <2>6
<1>3. ASSUME ~b.complex, buckets' = [buckets EXCEPT ![i] = EmptyBucket], capacity' = capacity,
             update_load_factor(set, capacity, last_error_code, collisions)
      PROVE  FreedKeys \subseteq FreedKeys' /\ pc' # "freed"
  <2> HIDE DEF i
  <2>1. KeepsFreed(b, EmptyBucket)
    BY <1>1, <1>3, SimpleKeepsFreed
  <2> QED  BY <1>1, <1>3, <2>1, ReplacedKeepsFreed, UpdateLoadAtFirst
<1>4. ASSUME \/ Undefined
             \/ \E r, err : Return(r, err) /\ pc = "idle"
      PROVE  /\ FreedKeys \subseteq FreedKeys' /\ capacity' = capacity /\ pc' # "freed"
             /\ buckets' = buckets
  BY <1>4 DEF Undefined, Return, FreedKeys
<1>5. \/ Undefined
      \/ \E r, err : Return(r, err) /\ pc = "idle"
      \/ \E n \in DOMAIN b.chain :
           /\ pc = "idle" /\ StopsAt(b.chain, k, n) /\ b.chain[n].live
           /\ buckets' = [buckets EXCEPT ![i].chain = hmap_complex_key_unset_value(b.chain, n)]
           /\ UNCHANGED <<capacity, pc>>
      \/ /\ ~b.complex /\ buckets' = [buckets EXCEPT ![i] = EmptyBucket]
         /\ capacity' = capacity
         /\ update_load_factor(set, capacity, last_error_code, collisions)
  BY DEF hashmap_unset, Refused
<1> HIDE DEF i
<1>6. CASE \E n \in DOMAIN b.chain :
             /\ pc = "idle" /\ StopsAt(b.chain, k, n) /\ b.chain[n].live
             /\ buckets' = [buckets EXCEPT ![i].chain = hmap_complex_key_unset_value(b.chain, n)]
             /\ UNCHANGED <<capacity, pc>>
  <2> HIDE DEF b
  <2> QED  BY <1>2, <1>6
<1>7. ~b.complex => ~buckets[Index(k, capacity)].complex
  BY DEF i
<1> HIDE DEF b
<1> QED  BY <1>3, <1>4, <1>5, <1>6, <1>7

LEMMA NextKeepsFreed ==
  ASSUME IInv, PassedLive, Next, FreedKeys # {}
  PROVE  FreedKeys \subseteq FreedKeys' /\ capacity' = capacity /\ pc' # "freed"
<1>1. ASSUME NEW k \in Keys, NEW v \in Values, NEW allow \in BOOLEAN,
             hmap_set(k, v, allow)
      PROVE  FreedKeys \subseteq FreedKeys' /\ capacity' = capacity /\ pc' # "freed"
  BY <1>1, SetKeepsFreed
<1>2. ASSUME NEW k \in Keys, hashmap_unset(k)
      PROVE  FreedKeys \subseteq FreedKeys' /\ capacity' = capacity /\ pc' # "freed"
  BY <1>2, UnsetKeepsFreedKeys
<1>3. ASSUME NEW k \in Keys, hmap_get(k)
      PROVE  UNCHANGED <<buckets, capacity>> /\ pc' # "freed"
  BY <1>3 DEF hmap_get, Refused, Return, Undefined
<1>4. ASSUME NEW cap \in ResizeCaps, hmap_resize(cap)
      PROVE  UNCHANGED <<buckets, capacity>> /\ pc' # "freed"
  BY <1>4, BeginResizeAtFirst DEF hmap_resize
<1>5. CASE \/ \E cb \in Callbacks : hmap_set_unhealthy_callback(cb)
           \/ \E n \in MaxBuckets : hmap_set_max_buckets(n)
           \/ RehashNextBucket
           \/ ResizeBackOff
           \/ FinishCall
  <2>1. UNCHANGED <<buckets, capacity>> /\ pc' # "freed"
    BY <1>5 DEF hmap_set_unhealthy_callback, hmap_set_max_buckets, RehashNextBucket,
                ResizeBackOff, FinishCall, status
  <2> QED  BY <2>1 DEF FreedKeys
<1>6. CASE RehashEntry
  <2> DEFINE e == buckets[at_bucket].chain[at_node]
             j == Index(e.key, new_cap)
  <2> HIDE DEF e, j
  <2>1. \/ Undefined
        \/ RehashColliding(j, e)
        \/ RehashPut(j, new_buckets[j], last_error_code, collisions, FALSE)
        \/ RehashPut(j, Simple(e), last_error_code, collisions, FALSE)
    BY <1>6 DEF RehashEntry, hmap_rehash_complex, hmap_rehash_simple, e, j
  <2>2. pc = "rehash"
    BY <1>6 DEF RehashEntry
  <2>3. UNCHANGED <<buckets, capacity>> /\ pc' # "freed"
    BY <2>1, <2>2 DEF Undefined, RehashColliding, RehashPut
  <2> QED  BY <2>3 DEF FreedKeys
<1>7. CASE ResizeSwap
  <2>1. pc = "rehash" /\ at_bucket = capacity
    BY <1>7 DEF ResizeSwap
  <2>2. \A i \in DOMAIN buckets : i < at_bucket
    BY <2>1 DEF IInv, TypeOK
  <2>3. FreedKeys = {}
    BY <2>1, <2>2 DEF PassedLive, FreedKeys
  <2> QED  BY <2>3
<1>8. CASE hmap_free
  <2>1. UNCHANGED <<buckets, capacity>> /\ pc' = "undefined"
    BY <1>8 DEF hmap_free, FreedKeys
  <2> QED  BY <2>1 DEF FreedKeys
<1>9. UNCHANGED buckets => FreedKeys' = FreedKeys
  BY DEF FreedKeys
<1> QED  BY <1>1, <1>2, <1>3, <1>4, <1>5, <1>6, <1>7, <1>8, <1>9 DEF Next, Running, Call
-----------------------------------------------------------------------------
(* The inductive invariant holds in every state of every map, whatever the *)
(* keys, the hash function, the capacities and the client.                 *)
THEOREM Invariant == Spec => []IInv
<1>1. Init => IInv
  BY InitIInv
<1>2. IInv /\ [Next]_vars => IInv'
  BY NextKeepsIInv
<1> QED  BY <1>1, <1>2, PTL DEF Spec

(* Every field keeps its type.  With set \in Nat this says that the       *)
(* decrement at the end of hashmap_unset never wraps.                      *)
THEOREM TypeCorrect == Spec => []TypeOK
<1>1. IInv => TypeOK
  BY DEF IInv
<1> QED  BY <1>1, Invariant, PTL

(* Every entry stays in the bucket its key hashes to, through every        *)
(* hmap_set, every hashmap_unset and every swap of tables.                 *)
THEOREM EntriesStayPlaced == Spec => []HashPlacement
<1>1. IInv => HashPlacement
  BY DEF IInv
<1> QED  BY <1>1, Invariant, PTL

(* set bounds the number of entries of the table from above.               *)
THEOREM SetNeverUndercounts == Spec => []SetBoundsEntries
<1>1. IInv => SetBoundsEntries
  BY DEF IInv
<1> QED  BY <1>1, Invariant, PTL

(* No call leaves the map locked without an error on record.               *)
THEOREM LockMeansError == Spec => []LockedOnlyAfterError
<1>1. IInv => LockedOnlyAfterError
  BY DEF IInv, LockOK
<1> QED  BY <1>1, Invariant, PTL

(* A locked map with an error on record and no swap behind it stays so     *)
(* for good: no call of the interface unlocks it or changes its table.     *)
THEOREM NoWayOutOfTheLock == Spec => WedgedForever
<1>1. [Next]_vars => [Wedged => Wedged' /\ UNCHANGED <<capacity, buckets>>]_vars
  BY NextKeepsError DEF Wedged
<1> QED  BY <1>1, PTL DEF Spec, WedgedForever

(* An error on record is never cleared, and the capacity never changes     *)
(* again.                                                                  *)
THEOREM NoGrowthAfterError == Spec => ErrorEndsGrowth
<1>1. [Next]_vars => [last_error_code # HMAP_ERROR_CODE_OK =>
                        /\ last_error_code' # HMAP_ERROR_CODE_OK
                        /\ capacity' = capacity]_vars
  BY NextKeepsError
<1> QED  BY <1>1, PTL DEF Spec, ErrorEndsGrowth

(* The entry of a key that is removed from a list stays in it, freed, for  *)
(* good: no later call unlinks it, no resize gets past it, and hmap_free   *)
(* frees it again.                                                         *)
THEOREM FreedEntriesRemain == Spec => FreedEntriesStay
<1>1. Init => PassedLive
  BY DEF Init, PassedLive
<1>2. IInv /\ IInv' /\ PassedLive /\ [Next]_vars => PassedLive'
  BY NextPassedLive
<1> DEFINE Stay ==
      /\ FreedKeys # {} =>
           FreedKeys \subseteq FreedKeys' /\ capacity' = capacity /\ pc' # "freed"
      /\ \A k \in Keys :
           /\ hashmap_unset(k)
           /\ buckets[Index(k, capacity)].complex
           /\ buckets' # buckets
           => \E j \in FreedKeys' : SameKey(j, k)
<1>3. IInv /\ PassedLive /\ Next => Stay
  BY NextKeepsFreed, UnsetKeepsFreedKeys
<1> HIDE DEF Stay
<1>4. IInv /\ PassedLive /\ [Next]_vars => [Stay]_vars
  BY <1>3
<1>5. Spec => [][Stay]_vars
  BY <1>1, <1>2, <1>4, Invariant, PTL DEF Spec
<1> QED  BY <1>5 DEF FreedEntriesStay, Stay
=============================================================================
