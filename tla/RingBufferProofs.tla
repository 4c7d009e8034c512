-------------------------- MODULE RingBufferProofs --------------------------
(***************************************************************************)
(* RingBuffer for every capacity below the modulus of size_t: size is the  *)
(* distance from head to tail, and the ring is a FIFO queue.               *)
(*                                                                         *)
(* Neither TypeOK nor SizeIsDistance is inductive alone: that size does    *)
(* not wrap needs it to be at most the capacity, and that a read of size   *)
(* bytes ends at the tail, and not a round later, needs the distance.      *)
(***************************************************************************)
EXTENDS RingBuffer, SequenceTheorems, TLAPS

RInv == TypeOK /\ SizeIsDistance
-----------------------------------------------------------------------------
(* Remainders of what is at most one round, or two, too large.             *)
LEMMA ModType ==
  ASSUME NEW a \in Int, NEW n \in Nat \ {0}
  PROVE  a % n \in 0..(n - 1)
OBVIOUS

LEMMA ModSmall ==
  ASSUME NEW n \in Nat \ {0}, NEW a \in Int, 0 <= a, a < n
  PROVE  a % n = a
OBVIOUS

LEMMA ModNothing ==
  ASSUME NEW n \in Nat \ {0}, NEW a \in 0..(n - 1)
  PROVE  (a + 0) % n = a
BY ModSmall

LEMMA ModRound ==
  ASSUME NEW n \in Nat \ {0}, NEW a \in Int, n <= a, a < 2 * n
  PROVE  a % n = a - n
OBVIOUS

LEMMA ModTwoRounds ==
  ASSUME NEW n \in Nat \ {0}, NEW a \in Int, 2 * n <= a, a < 3 * n
  PROVE  a % n = a - 2 * n
OBVIOUS

LEMMA ModBelow ==
  ASSUME NEW n \in Nat \ {0}, NEW a \in Int, -n <= a, a < 0
  PROVE  a % n = a + n
OBVIOUS

LEMMA ModAdd ==
  ASSUME NEW n \in Nat \ {0}, NEW a \in 0..(2 * n - 1), NEW b \in 0..n
  PROVE  ((a % n) + b) % n = (a + b) % n
<1>1. CASE a < n
  <2>1. a % n = a
    BY <1>1, ModSmall
  <2> QED  BY <2>1
<1>2. CASE ~(a < n)
  <2> DEFINE s == a + b
             t == a - n + b
  <2>0. a \in Int /\ n <= a /\ a < 2 * n
    BY <1>2
  <2>1. a % n = a - n
    BY <2>0, ModRound
  <2>2. s \in Int /\ t \in Int /\ s = t + n /\ n <= s /\ 0 <= t /\ t < 2 * n /\ s < 3 * n
    BY <1>2
  <2> HIDE DEF s, t
  <2>3. CASE t < n
    <3>1. t % n = t
      BY <2>2, <2>3, ModSmall
    <3>2. s % n = s - n
      BY <2>2, <2>3, ModRound
    <3> QED  BY <2>1, <2>2, <3>1, <3>2 DEF s, t
  <2>4. CASE ~(t < n)
    <3>1. t % n = t - n
      BY <2>2, <2>4, ModRound
    <3>2. s % n = s - 2 * n
      BY <2>2, <2>4, ModTwoRounds
    <3>3. t % n = s % n
      BY <2>2, <3>1, <3>2
    <3> QED  BY <2>1, <3>3 DEF s, t
  <2> QED  BY <2>3, <2>4
<1> QED  BY <1>1, <1>2

(* Positions less than a round apart differ.                               *)
LEMMA RoundOf ==
  ASSUME NEW n \in Nat \ {0}, NEW a \in Int, 0 <= a, a < 2 * n
  PROVE  a % n = IF a < n THEN a ELSE a - n
<1>1. CASE a < n
  BY <1>1, ModSmall
<1>2. CASE ~(a < n)
  <2>1. n <= a
    BY <1>2
  <2> QED  BY <1>2, <2>1, ModRound
<1> QED  BY <1>1, <1>2

LEMMA OffsetsDiffer ==
  ASSUME NEW n \in Nat \ {0}, NEW h \in 0..(n - 1),
         NEW i \in 1..n, NEW j \in 1..n, (h + i - 1) % n = (h + j - 1) % n
  PROVE  i = j
<1> DEFINE s == h + i - 1
           t == h + j - 1
<1>1. s \in Int /\ 0 <= s /\ s < 2 * n /\ t \in Int /\ 0 <= t /\ t < 2 * n /\ s - t = i - j
      /\ s - t < n /\ t - s < n
  OBVIOUS
<1>2. s % n = t % n
  OBVIOUS
<1> HIDE DEF s, t
<1>3. s % n = (IF s < n THEN s ELSE s - n)
  BY <1>1, RoundOf
<1>4. t % n = (IF t < n THEN t ELSE t - n)
  BY <1>1, RoundOf
<1>5. s = t
  BY <1>1, <1>2, <1>3, <1>4
<1> QED  BY <1>1, <1>5
-----------------------------------------------------------------------------
LEMMA DataIsSeq ==
  ASSUME NEW data \in Data
  PROVE  /\ data \in Seq(Bytes)
         /\ Len(data) \in Nat
         /\ DOMAIN data = 1..Len(data)
<1>1. PICK n \in 0..MaxLen : data \in [1..n -> Bytes]
  BY DEF Data
<1>2. n \in Nat
  BY <1>1, RingAssumption
<1>3. data \in Seq(Bytes)
  BY <1>1, <1>2, SeqDef
<1> QED  BY <1>3, LenProperties

(* s holds the n bytes of buf that start at position at, in order.         *)
IsCopy(s, buf, cap, at, n) ==
  /\ s \in Seq(Bytes)
  /\ Len(s) = n
  /\ \A i \in 1..n : s[i] = buf[(at + i - 1) % cap]

(* n bytes of a buffer, from position at on.                               *)
Bytewise(buf, cap, at, n) == [i \in 1..n |-> buf[(at + i - 1) % cap]]

LEMMA BytewiseSeq ==
  ASSUME NEW cap \in Nat \ {0}, NEW buf \in [0..(cap - 1) -> Bytes],
         NEW at \in Nat, NEW n \in Nat
  PROVE  IsCopy(Bytewise(buf, cap, at, n), buf, cap, at, n)
<1>1. \A i \in 1..n : (at + i - 1) % cap \in 0..(cap - 1)
  BY ModType
<1>2. \A i \in 1..n : buf[(at + i - 1) % cap] \in Bytes
  BY <1>1
<1>3. Bytewise(buf, cap, at, n) \in [1..n -> Bytes]
  BY <1>2 DEF Bytewise
<1>4. Bytewise(buf, cap, at, n) \in Seq(Bytes)
  BY <1>3, SeqDef
<1>5. Len(Bytewise(buf, cap, at, n)) = n
  BY <1>3, <1>4, LenProperties
<1> QED  BY <1>4, <1>5 DEF IsCopy, Bytewise

(* While size does not wrap, the arithmetic of size_t is exact.            *)
LEMMA Fields ==
  ASSUME RInv
  PROVE  /\ capacity \in Nat \ {0} /\ capacity < SizeMod /\ SizeMod \in Nat \ {0}
         /\ size \in 0..capacity
         /\ head \in 0..(capacity - 1) /\ tail \in 0..(capacity - 1)
         /\ tail = (head + size) % capacity
         /\ Free = capacity - size
<1>1. /\ capacity \in Nat \ {0} /\ capacity < SizeMod /\ SizeMod \in Nat \ {0}
      /\ size \in 0..capacity
      /\ head \in 0..(capacity - 1) /\ tail \in 0..(capacity - 1)
      /\ tail = (head + size) % capacity
  BY RingAssumption DEF RInv, TypeOK, SizeIsDistance
<1>2. capacity - size \in Int /\ 0 <= capacity - size /\ capacity - size < SizeMod
  BY <1>1
<1>3. (capacity - size) % SizeMod = capacity - size
  BY <1>1, <1>2, ModSmall
<1> QED  BY <1>1, <1>3 DEF Free

(* How far the loop of rb_read may run.                                    *)
LEMMA UntilTailIsSize ==
  ASSUME RInv
  PROVE  UntilTail = IF size = 0 THEN capacity ELSE size
<1>1. /\ capacity \in Nat \ {0} /\ size \in 0..capacity
      /\ head \in 0..(capacity - 1) /\ tail \in 0..(capacity - 1)
      /\ tail = (head + size) % capacity
  BY Fields
<1> DEFINE e == head + size
<1>2. e \in Int /\ 0 <= e /\ e < 2 * capacity /\ tail = e % capacity /\ e = head + size
  BY <1>1
<1> HIDE DEF e
<1>3. tail = IF e < capacity THEN e ELSE e - capacity
  BY <1>1, <1>2, RoundOf
<1>4. CASE head = tail
  BY <1>1, <1>2, <1>3, <1>4 DEF UntilTail
<1>5. CASE head # tail
  <2> DEFINE d == tail - head
  <2>1. d \in Int /\ (d = size \/ d = size - capacity) /\ d # 0 /\ size # 0 /\ size < capacity
    BY <1>1, <1>2, <1>3, <1>5
  <2>2. UntilTail = d % capacity
    BY <1>5 DEF UntilTail
  <2> HIDE DEF d
  <2>3. CASE d = size
    <3>1. d % capacity = d
      BY <1>1, <2>1, <2>3, ModSmall
    <3> QED  BY <1>1, <2>1, <2>2, <2>3, <3>1
  <2>4. CASE d = size - capacity
    <3>1. d % capacity = d + capacity
      BY <1>1, <2>1, <2>4, ModBelow
    <3> QED  BY <1>1, <2>1, <2>2, <2>4, <3>1
  <2> QED  BY <2>1, <2>3, <2>4
<1> QED  BY <1>4, <1>5
-----------------------------------------------------------------------------
(* The accepted write, on constants: h the head, n what the ring holds, t  *)
(* the tail, buf2 the buffer it leaves.                                    *)
LEMMA TailPosition ==
  ASSUME NEW cap \in Nat \ {0}, NEW h \in 0..(cap - 1), NEW n \in 0..cap,
         NEW j \in 1..cap
  PROVE  (((h + n) % cap) + j - 1) % cap = (h + (n + j) - 1) % cap
<1> DEFINE b == j - 1
           a == h + n
<1>1. b \in 0..cap /\ a \in 0..(2 * cap - 1)
  OBVIOUS
<1>2. (((h + n) % cap) + j) - 1 = (a % cap) + b /\ (h + (n + j)) - 1 = a + b
  <2>1. (h + n) % cap \in 0..(cap - 1)
    BY ModType
  <2> QED  BY <2>1
<1> HIDE DEF a, b
<1> QED  BY <1>1, <1>2, ModAdd

LEMMA WrittenIsOne ==
  ASSUME RInv, NEW data \in Data, Len(data) <= capacity, NEW j \in DOMAIN data
  PROVE  /\ Written(data, (tail + j - 1) % capacity) # {}
         /\ Max(Written(data, (tail + j - 1) % capacity)) = j
<1> DEFINE W == Written(data, (tail + j - 1) % capacity)
<1>1. capacity \in Nat \ {0} /\ tail \in 0..(capacity - 1)
  BY Fields
<1>2. Len(data) \in Nat /\ DOMAIN data = 1..Len(data)
  BY DataIsSeq
<1>3. \A i \in DOMAIN data : (tail + i - 1) % capacity = (tail + j - 1) % capacity => i = j
  <2>1. DOMAIN data \subseteq 1..capacity
    BY <1>1, <1>2
  <2> QED  BY <1>1, <2>1, OffsetsDiffer
<1>4. W = {j}
  BY <1>3 DEF Written
<1> HIDE DEF W
<1>5. j \in Int
  BY <1>2
<1>6. Max({j}) = j
  BY <1>5 DEF Max
<1> QED  BY <1>4, <1>6 DEF W

LEMMA AcceptedWrite ==
  ASSUME RInv, NEW data \in Data, Len(data) <= Free,
         rb_write(data)
  PROVE  /\ RInv'
         /\ Len(data) <= capacity - size
         /\ wrote' = TRUE /\ UNCHANGED <<capacity, head, count, out, freed>>
         /\ size' = size + Len(data)
         /\ \A i \in 1..size : buffer'[(head + i - 1) % capacity]
                                  = buffer[(head + i - 1) % capacity]
         /\ \A j \in DOMAIN data : buffer'[(head + (size + j) - 1) % capacity] = data[j]
<1> DEFINE len == Len(data)
<1>1. /\ capacity \in Nat \ {0} /\ capacity < SizeMod /\ SizeMod \in Nat \ {0}
      /\ size \in 0..capacity
      /\ head \in 0..(capacity - 1) /\ tail \in 0..(capacity - 1)
      /\ tail = (head + size) % capacity
      /\ Free = capacity - size
  BY Fields
<1>2. len \in Nat /\ DOMAIN data = 1..len /\ data \in Seq(Bytes)
  BY DataIsSeq
<1>3. len <= capacity - size /\ len \in 0..capacity /\ len <= capacity
  BY <1>1, <1>2
<1>4. /\ buffer' = [p \in 0..(capacity - 1) |->
                      IF Written(data, p) = {} THEN buffer[p]
                                               ELSE data[Max(Written(data, p))]]
      /\ tail' = (tail + len) % capacity
      /\ size' = (size + len) % SizeMod
      /\ wrote' = TRUE
      /\ UNCHANGED <<capacity, head, count, out, freed>>
  <2>1. ~(len > Free)
    BY <1>1, <1>2, <1>3
  <2> QED  BY <2>1 DEF rb_write, Advance
<1> HIDE DEF len
<1>5. size' = size + len
  <2> DEFINE s == size + len
  <2>1. s \in Int /\ 0 <= s /\ s < SizeMod
    BY <1>1, <1>2, <1>3
  <2> HIDE DEF s
  <2>2. s % SizeMod = s
    BY <1>1, <2>1, ModSmall
  <2> QED  BY <1>4, <2>2 DEF s
<1>6. tail' = (head + (size + len)) % capacity
  <2> DEFINE a == head + size
  <2>1. a \in 0..(2 * capacity - 1) /\ a + len = head + (size + len)
    BY <1>1, <1>2
  <2>2. tail' = ((a % capacity) + len) % capacity
    BY <1>1, <1>4
  <2> HIDE DEF a
  <2> QED  BY <1>1, <1>3, <2>1, <2>2, ModAdd
<1>7. ASSUME NEW i \in 1..size
      PROVE  buffer'[(head + i - 1) % capacity] = buffer[(head + i - 1) % capacity]
  <2> DEFINE p == (head + i - 1) % capacity
  <2>0. head + i - 1 \in Int
    BY <1>1
  <2>1. p \in 0..(capacity - 1)
    BY <1>1, <2>0, ModType
  <2>2. ASSUME NEW j \in DOMAIN data, (tail + j - 1) % capacity = p
        PROVE  FALSE
    <3>1. j \in 1..capacity /\ size + j \in 1..capacity /\ i \in 1..capacity
      BY <1>1, <1>2, <1>3
    <3>2. (tail + j - 1) % capacity = (head + (size + j) - 1) % capacity
      BY <1>1, <3>1, TailPosition
    <3>3. i = size + j
      BY <1>1, <2>2, <3>1, <3>2, OffsetsDiffer
    <3> QED  BY <1>1, <1>2, <3>3
  <2>3. Written(data, p) = {}
    BY <2>2 DEF Written
  <2> HIDE DEF p
  <2> QED  BY <1>4, <2>1, <2>3 DEF p
<1>8. ASSUME NEW j \in DOMAIN data
      PROVE  buffer'[(head + (size + j) - 1) % capacity] = data[j]
  <2> DEFINE p == (tail + j - 1) % capacity
  <2>0. tail + j - 1 \in Int
    BY <1>1, <1>2
  <2>1. p \in 0..(capacity - 1)
    BY <1>1, <2>0, ModType
  <2>2. j \in 1..capacity
    BY <1>1, <1>2, <1>3
  <2>3. p = (head + (size + j) - 1) % capacity
    BY <1>1, <2>2, TailPosition
  <2>4. Written(data, p) # {} /\ Max(Written(data, p)) = j
    BY <1>3, WrittenIsOne DEF len
  <2> HIDE DEF p
  <2> QED  BY <1>4, <2>1, <2>3, <2>4
<1>9. buffer' \in [0..(capacity - 1) -> Bytes]
  <2>1. ASSUME NEW p \in 0..(capacity - 1)
        PROVE  (IF Written(data, p) = {} THEN buffer[p]
                ELSE data[Max(Written(data, p))]) \in Bytes
    <3>1. CASE Written(data, p) = {}
      BY <3>1 DEF RInv, TypeOK
    <3>2. CASE Written(data, p) # {}
      <4>1. PICK j \in DOMAIN data : (tail + j - 1) % capacity = p
        BY <3>2 DEF Written
      <4>2. Max(Written(data, p)) = j
        BY <1>3, <4>1, WrittenIsOne DEF len
      <4>3. data[j] \in Bytes
        BY <1>2, ElementOfSeq DEF len
      <4> QED  BY <3>2, <4>2, <4>3
    <3> QED  BY <3>1, <3>2
  <2> QED  BY <1>4, <2>1
<1>10. tail' \in 0..(capacity - 1) /\ size' \in 0..(SizeMod - 1) /\ size' <= capacity
  <2>1. size' \in Nat /\ size' <= capacity /\ size' < SizeMod
    BY <1>1, <1>2, <1>3, <1>5
  <2>2. head + (size + len) \in Int
    BY <1>1, <1>2
  <2>3. tail' \in 0..(capacity - 1)
    BY <1>1, <1>6, <2>2, ModType
  <2> QED  BY <1>1, <2>1, <2>3
<1>11. TypeOK'
  BY <1>4, <1>9, <1>10 DEF RInv, TypeOK
<1>12. SizeIsDistance'
  BY <1>4, <1>5, <1>6, <1>10 DEF SizeIsDistance
<1> QED  BY <1>3, <1>4, <1>5, <1>7, <1>8, <1>11, <1>12 DEF RInv, len

(* The accepted write appends to what the ring holds.                      *)
LEMMA WriteAppends ==
  ASSUME RInv, NEW data \in Data, Len(data) <= Free,
         rb_write(data)
  PROVE  BytesFrom(head, size)' = BytesFrom(head, size) \o data
<1> DEFINE old == Bytewise(buffer, capacity, head, size)
           new == Bytewise(buffer', capacity, head, size + Len(data))
<1>1. capacity \in Nat \ {0} /\ size \in Nat /\ head \in Nat
      /\ buffer \in [0..(capacity - 1) -> Bytes]
  BY Fields DEF RInv, TypeOK
<1>2. data \in Seq(Bytes) /\ Len(data) \in Nat /\ DOMAIN data = 1..Len(data)
  BY DataIsSeq
<1>3. /\ RInv'
      /\ UNCHANGED <<capacity, head>>
      /\ size' = size + Len(data)
      /\ \A i \in 1..size : buffer'[(head + i - 1) % capacity]
                               = buffer[(head + i - 1) % capacity]
      /\ \A j \in DOMAIN data : buffer'[(head + (size + j) - 1) % capacity] = data[j]
  BY AcceptedWrite
<1>4. buffer' \in [0..(capacity - 1) -> Bytes]
  BY <1>3 DEF RInv, TypeOK
<1>5. /\ old \in Seq(Bytes) /\ Len(old) = size
      /\ \A i \in 1..size : old[i] = buffer[(head + i - 1) % capacity]
  <2>1. IsCopy(Bytewise(buffer, capacity, head, size), buffer, capacity, head, size)
    BY <1>1, BytewiseSeq
  <2> QED  BY <2>1 DEF IsCopy
<1>6. /\ new \in Seq(Bytes) /\ Len(new) = size + Len(data)
      /\ \A i \in 1..(size + Len(data)) : new[i] = buffer'[(head + i - 1) % capacity]
  <2> DEFINE n == size + Len(data)
  <2>1. n \in Nat
    BY <1>1, <1>2
  <2> HIDE DEF n
  <2>2. IsCopy(Bytewise(buffer', capacity, head, n), buffer', capacity, head, n)
    BY <1>1, <1>4, <2>1, BytewiseSeq
  <2> QED  BY <2>2 DEF n, IsCopy
<1>7. BytesFrom(head, size) = old /\ BytesFrom(head, size)' = new
  BY <1>3 DEF BytesFrom, Bytewise
<1> HIDE DEF old, new
<1>8. /\ old \o data \in Seq(Bytes)
      /\ Len(old \o data) = size + Len(data)
      /\ \A i \in 1..(size + Len(data)) :
            (old \o data)[i] = IF i <= size THEN old[i] ELSE data[i - size]
  BY <1>2, <1>5, ConcatProperties
<1>9. ASSUME NEW i \in 1..(size + Len(data))
      PROVE  new[i] = (old \o data)[i]
  <2>1. CASE i <= size
    <3>1. i \in 1..size
      BY <1>1, <2>1
    <3> QED  BY <2>1, <3>1, <1>3, <1>5, <1>6, <1>8
  <2>2. CASE ~(i <= size)
    <3> DEFINE j == i - size
    <3>1. j \in DOMAIN data /\ size + j = i
      BY <1>1, <1>2, <2>2
    <3>2. buffer'[(head + (size + j) - 1) % capacity] = data[j]
      BY <3>1, <1>3
    <3> QED  BY <2>2, <3>1, <3>2, <1>6, <1>8
  <2> QED  BY <2>1, <2>2
<1>10. new = old \o data
  BY <1>6, <1>8, <1>9, SeqEqual
<1> QED  BY <1>7, <1>10

(* The read that fits takes what it asks for from the front.               *)
LEMMA FittingRead ==
  ASSUME RInv, NEW len \in 0..size, rb_read(len)
  PROVE  /\ RInv'
         /\ UNCHANGED <<buffer, capacity, tail, wrote, freed>>
         /\ size' = size - len
         /\ head' = (head + len) % capacity
         /\ out' = BytesFrom(head, len)
         /\ count' = IF len = size /\ len # 0 THEN len - 1 ELSE len
<1>1. /\ capacity \in Nat \ {0} /\ capacity < SizeMod /\ SizeMod \in Nat \ {0}
      /\ size \in 0..capacity
      /\ head \in 0..(capacity - 1) /\ tail \in 0..(capacity - 1)
      /\ tail = (head + size) % capacity
  BY Fields
<1> DEFINE copied == IF len < UntilTail THEN len ELSE UntilTail
<1>2. UntilTail = IF size = 0 THEN capacity ELSE size
  BY UntilTailIsSize
<1>3. copied = len
  BY <1>1, <1>2
<1>4. /\ out' = BytesFrom(head, copied)
      /\ head' = (head + copied) % capacity
      /\ size' = (size - len) % SizeMod
      /\ count' = IF len < UntilTail THEN len ELSE UntilTail - 1
      /\ UNCHANGED <<buffer, capacity, tail, wrote, freed>>
  BY DEF rb_read, Advance, Copied, Counted
<1> HIDE DEF copied
<1>5. size' = size - len /\ size - len \in 0..capacity
  <2> DEFINE s == size - len
  <2>1. s \in Int /\ 0 <= s /\ s < SizeMod /\ s \in 0..capacity
    BY <1>1
  <2> HIDE DEF s
  <2>2. s % SizeMod = s
    BY <1>1, <2>1, ModSmall
  <2> QED  BY <1>4, <2>1, <2>2 DEF s
<1>6. tail = (((head + len) % capacity) + (size - len)) % capacity
  <2> DEFINE a == head + len
             b == size - len
  <2>1. a \in 0..(2 * capacity - 1) /\ b \in 0..capacity /\ a + b = head + size
    BY <1>1
  <2> HIDE DEF a, b
  <2>2. ((a % capacity) + b) % capacity = (a + b) % capacity
    BY <1>1, <2>1, ModAdd
  <2> QED  BY <1>1, <2>1, <2>2 DEF a, b
<1>7. out' \in Seq(Bytes)
  <2>1. out' = Bytewise(buffer, capacity, head, len)
    BY <1>3, <1>4 DEF BytesFrom, Bytewise
  <2>2. IsCopy(Bytewise(buffer, capacity, head, len), buffer, capacity, head, len)
    BY <1>1, BytewiseSeq DEF RInv, TypeOK
  <2> QED  BY <2>1, <2>2 DEF IsCopy
<1>8. count' \in Nat
  BY <1>1, <1>2, <1>4
<1>9. head' \in 0..(capacity - 1)
  <2>1. head + len \in Int
    BY <1>1
  <2> QED  BY <1>1, <1>3, <1>4, <2>1, ModType
<1>10. TypeOK'
  BY <1>1, <1>4, <1>5, <1>7, <1>8, <1>9 DEF RInv, TypeOK
<1>11. SizeIsDistance'
  BY <1>1, <1>3, <1>4, <1>5, <1>6 DEF SizeIsDistance
<1>12. count' = IF len = size /\ len # 0 THEN len - 1 ELSE len
  BY <1>1, <1>2, <1>4
<1> QED  BY <1>1, <1>3, <1>4, <1>5, <1>10, <1>11, <1>12 DEF RInv

LEMMA ReadTakes ==
  ASSUME RInv, NEW len \in 0..size, rb_read(len)
  PROVE  /\ out' = SubSeq(BytesFrom(head, size), 1, len)
         /\ BytesFrom(head, size)' = SubSeq(BytesFrom(head, size), len + 1, size)
         /\ Len(BytesFrom(head, size)) = size
<1> DEFINE old == Bytewise(buffer, capacity, head, size)
           got == Bytewise(buffer, capacity, head, len)
           at  == (head + len) % capacity
           new == Bytewise(buffer, capacity, at, size - len)
<1>1. capacity \in Nat \ {0} /\ size \in 0..capacity /\ head \in 0..(capacity - 1)
      /\ buffer \in [0..(capacity - 1) -> Bytes] /\ len \in Nat /\ size - len \in Nat
  BY Fields DEF RInv, TypeOK
<1>2. at \in 0..(capacity - 1)
  <2>1. head + len \in Int
    BY <1>1
  <2> QED  BY <1>1, <2>1, ModType
<1>3. /\ UNCHANGED <<buffer, capacity>> /\ size' = size - len /\ head' = at
      /\ out' = BytesFrom(head, len)
  BY FittingRead
<1>0. /\ capacity \in Nat \ {0} /\ buffer \in [0..(capacity - 1) -> Bytes]
      /\ size \in Nat /\ head \in Nat /\ len \in Nat
  BY <1>1
<1>4. ASSUME NEW n \in Nat
      PROVE  IsCopy(Bytewise(buffer, capacity, head, n), buffer, capacity, head, n)
  BY <1>0, BytewiseSeq
<1>5. /\ old \in Seq(Bytes) /\ Len(old) = size
      /\ \A i \in 1..size : old[i] = buffer[(head + i - 1) % capacity]
      /\ got \in Seq(Bytes) /\ Len(got) = len
      /\ \A i \in 1..len : got[i] = buffer[(head + i - 1) % capacity]
  <2>1. /\ IsCopy(old, buffer, capacity, head, size)
        /\ IsCopy(got, buffer, capacity, head, len)
    BY <1>0, <1>4
  <2> HIDE DEF old, got
  <2> QED  BY <2>1 DEF IsCopy
<1>6. /\ new \in Seq(Bytes) /\ Len(new) = size - len
      /\ \A i \in 1..(size - len) : new[i] = buffer[(at + i - 1) % capacity]
  <2> DEFINE n == size - len
  <2>1. at \in Nat /\ n \in Nat
    BY <1>1, <1>2
  <2> HIDE DEF at, n
  <2>2. IsCopy(Bytewise(buffer, capacity, at, n), buffer, capacity, at, n)
    BY <1>1, <2>1, BytewiseSeq
  <2> QED  BY <2>2 DEF n, IsCopy
<1>7. BytesFrom(head, size) = old /\ BytesFrom(head, size)' = new /\ out' = got
  BY <1>3 DEF BytesFrom, Bytewise
<1>8. \A i \in 1..(size - len) : (at + i - 1) % capacity = (head + (len + i) - 1) % capacity
  <2> TAKE i \in 1..(size - len)
  <2>1. len \in 0..capacity /\ i \in 1..capacity
    BY <1>1
  <2> QED  BY <1>1, <2>1, TailPosition
<1> HIDE DEF old, got, at, new
<1>9. \A i \in 1..size : old[i] \in Bytes
  BY <1>5, ElementOfSeq
<1>10. got = SubSeq(old, 1, len)
  <2>1. /\ SubSeq(old, 1, len) \in Seq(Bytes)
        /\ Len(SubSeq(old, 1, len)) = len
        /\ \A i \in 1..len : SubSeq(old, 1, len)[i] = old[i]
    <3>1. \A i \in 1..len : old[i] \in Bytes
      BY <1>1, <1>9
    <3>2. SubSeq(old, 1, len) = [i \in 1..len |-> old[i]]
      BY <1>1, <1>5
    <3>3. SubSeq(old, 1, len) \in [1..len -> Bytes]
      BY <3>1, <3>2
    <3>4. SubSeq(old, 1, len) \in Seq(Bytes)
      BY <1>1, <3>3, SeqDef
    <3>5. Len(SubSeq(old, 1, len)) = len
      BY <1>1, <3>3, <3>4, LenProperties
    <3> QED  BY <3>2, <3>4, <3>5
  <2>2. \A i \in 1..len : got[i] = SubSeq(old, 1, len)[i]
    BY <1>1, <1>5, <2>1
  <2> QED  BY <1>5, <2>1, <2>2, SeqEqual
<1>11. new = SubSeq(old, len + 1, size)
  <2> DEFINE rest == SubSeq(old, len + 1, size)
  <2>1. rest = [i \in 1..(size - len) |-> old[len + i]]
    BY <1>1, <1>5
  <2>2. rest \in [1..(size - len) -> Bytes]
    <3>1. \A i \in 1..(size - len) : len + i \in 1..size
      BY <1>1
    <3>2. \A i \in 1..(size - len) : old[len + i] \in Bytes
      BY <1>9, <3>1
    <3> HIDE DEF rest
    <3> QED  BY <2>1, <3>2
  <2>3. rest \in Seq(Bytes) /\ Len(rest) = size - len
    <3>1. rest \in Seq(Bytes)
      BY <1>1, <2>2, SeqDef
    <3> QED  BY <1>1, <2>2, <3>1, LenProperties
  <2>4. \A i \in 1..(size - len) : new[i] = rest[i]
    <3> HIDE DEF rest
    <3> TAKE i \in 1..(size - len)
    <3>1. len + i \in 1..size
      BY <1>1
    <3>2. new[i] = buffer[(at + i - 1) % capacity]
      BY <1>6
    <3>3. (at + i - 1) % capacity = (head + (len + i) - 1) % capacity
      BY <1>8
    <3>4. old[len + i] = buffer[(head + (len + i) - 1) % capacity]
      BY <1>5, <3>1
    <3>5. rest[i] = old[len + i]
      BY <2>1
    <3> QED  BY <3>2, <3>3, <3>4, <3>5
  <2> HIDE DEF rest
  <2>5. new = rest
    BY <1>6, <2>3, <2>4, SeqEqual
  <2> QED  BY <2>5 DEF rest
<1> QED  BY <1>5, <1>7, <1>10, <1>11
-----------------------------------------------------------------------------
LEMMA InitRInv ==
  ASSUME rb_new
  PROVE  RInv
<1>1. /\ capacity \in Capacities /\ capacity \in Nat \ {0} /\ SizeMod \in Nat \ {0}
      /\ buffer \in [0..(capacity - 1) -> Bytes]
      /\ size = 0 /\ head = 0 /\ tail = 0 /\ wrote = FALSE /\ count = 0 /\ out = << >> /\ freed = FALSE
  BY RingAssumption DEF rb_new
<1>2. 0 % capacity = 0
  BY <1>1, ModSmall
<1>3. SizeIsDistance
  <2>1. head + size = 0 /\ size <= capacity
    BY <1>1
  <2> QED  BY <1>1, <1>2, <2>1 DEF SizeIsDistance
<1>4. out \in Seq(Bytes)
  BY <1>1, EmptySeq
<1>5. TypeOK
  BY <1>1, <1>4 DEF TypeOK
<1> QED  BY <1>3, <1>5 DEF RInv

(* A refused write changes nothing but its result.                         *)
LEMMA RefusedWrite ==
  ASSUME NEW data \in Data, ~(Len(data) <= Free), rb_write(data)
  PROVE  wrote' = FALSE /\ UNCHANGED <<buffer, capacity, size, head, tail, count, out, freed>>
BY DEF rb_write

LEMMA FreeStep ==
  ASSUME rb_free
  PROVE  /\ freed' = TRUE
         /\ UNCHANGED <<buffer, capacity, size, head, tail, wrote, count, out>>
BY DEF rb_free

LEMMA StepKeepsRInv ==
  ASSUME RInv, [FittingNext]_vars
  PROVE  RInv'
<1>1. ASSUME NEW data \in Data, rb_write(data)
      PROVE  RInv'
  <2>1. CASE Len(data) <= Free
    BY <1>1, <2>1, AcceptedWrite
  <2>2. CASE ~(Len(data) <= Free)
    <3>1. wrote' = FALSE /\ UNCHANGED <<buffer, capacity, size, head, tail, count, out, freed>>
      BY <1>1, <2>2, RefusedWrite
    <3> QED  BY <3>1 DEF RInv, TypeOK, SizeIsDistance
  <2> QED  BY <2>1, <2>2
<1>2. ASSUME NEW len \in 0..MaxLen, len <= size, rb_read(len)
      PROVE  RInv'
  <2>1. len \in 0..size
    BY <1>2, RingAssumption DEF RInv, TypeOK
  <2> QED  BY <1>2, <2>1, FittingRead
<1>3. CASE rb_free
  <2>1. freed' = TRUE /\ UNCHANGED <<buffer, capacity, size, head, tail, wrote, count, out>>
    BY <1>3, FreeStep
  <2> QED  BY <2>1 DEF RInv, TypeOK, SizeIsDistance
<1>4. CASE UNCHANGED vars
  BY <1>4 DEF vars, RInv, TypeOK, SizeIsDistance
<1> QED  BY <1>1, <1>2, <1>3, <1>4 DEF FittingNext

(* Each step of the ring is a step of the queue.                           *)
LEMMA StepIsQueueStep ==
  ASSUME RInv, [FittingNext]_vars
  PROVE  [Fifo!QueueNext]_(Fifo!queueVars)
<1>1. /\ capacity \in Nat \ {0} /\ capacity < SizeMod
      /\ size \in 0..capacity
      /\ Free = capacity - size
  BY Fields
<1>2. Len(BytesFrom(head, size)) = size
  <2>1. capacity \in Nat \ {0} /\ buffer \in [0..(capacity - 1) -> Bytes]
        /\ head \in Nat /\ size \in Nat
    BY Fields DEF RInv, TypeOK
  <2>2. Len(Bytewise(buffer, capacity, head, size)) = size
    BY <2>1, BytewiseSeq DEF IsCopy
  <2> QED  BY <2>2 DEF BytesFrom, Bytewise
<1>3. ASSUME NEW data \in Data, rb_write(data)
      PROVE  Fifo!Put(data) \/ Fifo!RefusePut(data)
  <2>1. Len(data) \in Nat
    BY DataIsSeq
  <2>2. CASE Len(data) <= Free
    <3>1. /\ Len(data) <= capacity - size
          /\ wrote' = TRUE /\ UNCHANGED <<capacity, out>>
      BY <1>3, <2>2, AcceptedWrite
    <3>2. BytesFrom(head, size)' = BytesFrom(head, size) \o data
      BY <1>3, <2>2, WriteAppends
    <3>3. Len(BytesFrom(head, size)) + Len(data) <= capacity
      BY <1>1, <1>2, <2>1, <3>1
    <3> QED  BY <3>1, <3>2, <3>3 DEF Fifo!Put
  <2>3. CASE ~(Len(data) <= Free)
    <3>1. wrote' = FALSE /\ UNCHANGED <<buffer, capacity, size, head, tail, count, out, freed>>
      BY <1>3, <2>3, RefusedWrite
    <3>2. UNCHANGED BytesFrom(head, size)
      BY <3>1 DEF BytesFrom
    <3>3. Len(BytesFrom(head, size)) + Len(data) > capacity
      BY <1>1, <1>2, <2>1, <2>3
    <3> QED  BY <3>1, <3>2, <3>3 DEF Fifo!RefusePut
  <2> QED  BY <2>2, <2>3
<1>4. ASSUME NEW len \in 0..MaxLen, len <= size, rb_read(len)
      PROVE  len \in 0..capacity /\ Fifo!Take(len)
  <2>1. len \in 0..size /\ len \in 0..capacity
    BY <1>1, <1>4, RingAssumption
  <2>2. /\ out' = SubSeq(BytesFrom(head, size), 1, len)
        /\ BytesFrom(head, size)' = SubSeq(BytesFrom(head, size), len + 1, size)
    BY <1>4, <2>1, ReadTakes
  <2>3. UNCHANGED <<capacity, wrote>>
    BY <1>4, <2>1, FittingRead
  <2>4. len <= Len(BytesFrom(head, size))
    BY <1>2, <1>4
  <2> QED  BY <1>2, <2>1, <2>2, <2>3, <2>4 DEF Fifo!Take
<1>5. CASE UNCHANGED vars
  <2>1. UNCHANGED BytesFrom(head, size)
    BY <1>5 DEF vars, BytesFrom
  <2> QED  BY <1>5, <2>1 DEF vars, Fifo!queueVars
<1>6. CASE rb_free
  <2>1. UNCHANGED <<buffer, capacity, size, head, wrote, out>>
    BY <1>6, FreeStep
  <2>2. UNCHANGED BytesFrom(head, size)
    BY <2>1 DEF BytesFrom
  <2> QED  BY <2>1, <2>2 DEF Fifo!queueVars
<1> QED  BY <1>3, <1>4, <1>5, <1>6 DEF FittingNext, Fifo!QueueNext
-----------------------------------------------------------------------------
(* Every field keeps its type and size is the distance from head to tail,  *)
(* for every capacity: size_t never wraps under a client that fits its     *)
(* reads to what the ring holds.                                           *)
THEOREM RingInvariant == FittingSpec => [](TypeOK /\ SizeIsDistance)
<1>1. rb_new => RInv
  BY InitRInv
<1>2. RInv /\ [FittingNext]_vars => RInv'
  BY StepKeepsRInv
<1>3. RInv => TypeOK /\ SizeIsDistance
  BY DEF RInv
<1> QED  BY <1>1, <1>2, <1>3, PTL DEF FittingSpec

(* head and tail stay positions of the buffer and size a size_t.           *)
THEOREM RingTypes == FittingSpec => []TypeOK
BY RingInvariant, PTL

(* The ring implements the FIFO queue for every capacity: what is read is  *)
(* what was written, in order, and a write is refused only if it does not  *)
(* fit.                                                                    *)
THEOREM RingIsFifo == FittingSpec => ImplementsFifo
<1>1. rb_new => Fifo!QueueInit
  <2>1. ASSUME rb_new
        PROVE  Fifo!QueueInit
    <3>1. BytesFrom(head, size) = << >>
      BY <2>1 DEF rb_new, BytesFrom
    <3>2. capacity \in Nat
      BY <2>1, RingAssumption DEF rb_new
    <3> QED  BY <2>1, <3>1, <3>2 DEF rb_new, Fifo!QueueInit
  <2> QED  BY <2>1
<1>2. rb_new => RInv
  BY InitRInv
<1>3. RInv /\ [FittingNext]_vars => RInv'
  BY StepKeepsRInv
<1>4. RInv /\ [FittingNext]_vars => [Fifo!QueueNext]_(Fifo!queueVars)
  BY StepIsQueueStep
<1> QED  BY <1>1, <1>2, <1>3, <1>4, PTL DEF FittingSpec, ImplementsFifo, Fifo!QueueSpec

(* A read that fits takes all it asks for and reports one byte less        *)
(* exactly when it drains the ring, whatever the capacity.                 *)
THEOREM CountShortOnDrain == FittingSpec => CountShortOnlyWhenDrained
<1>1. RInv /\ [FittingNext]_vars =>
        [\A len \in 0..MaxLen : len <= size /\ rb_read(len) =>
           /\ Len(out') = len
           /\ count' = len - (IF size' = 0 /\ len # 0 THEN 1 ELSE 0)]_vars
  <2>1. ASSUME RInv, NEW len \in 0..MaxLen, len <= size, rb_read(len)
        PROVE  /\ Len(out') = len
               /\ count' = len - (IF size' = 0 /\ len # 0 THEN 1 ELSE 0)
    <3>1. len \in 0..size /\ size \in Nat
      BY <2>1, RingAssumption DEF RInv, TypeOK
    <3>2. /\ size' = size - len /\ out' = BytesFrom(head, len)
          /\ count' = IF len = size /\ len # 0 THEN len - 1 ELSE len
      BY <2>1, <3>1, FittingRead
    <3>3. Len(out') = len
      <4>1. /\ capacity \in Nat \ {0} /\ buffer \in [0..(capacity - 1) -> Bytes]
            /\ head \in Nat /\ len \in Nat
        BY <2>1, <3>1, Fields DEF RInv, TypeOK
      <4>2. Len(Bytewise(buffer, capacity, head, len)) = len
        BY <4>1, BytewiseSeq DEF IsCopy
      <4> QED  BY <3>2, <4>2 DEF BytesFrom, Bytewise
    <3>4. size' = 0 <=> len = size
      BY <3>1, <3>2
    <3>5. count' = len - (IF size' = 0 /\ len # 0 THEN 1 ELSE 0)
      BY <3>1, <3>2, <3>4
    <3> QED  BY <3>3, <3>5
  <2> QED  BY <2>1
<1>2. rb_new => RInv
  BY InitRInv
<1>3. RInv /\ [FittingNext]_vars => RInv'
  BY StepKeepsRInv
<1> QED  BY <1>1, <1>2, <1>3, PTL DEF FittingSpec, CountShortOnlyWhenDrained
=============================================================================
