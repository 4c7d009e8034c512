------------------------ MODULE ManagedBufferProofs ------------------------
(***************************************************************************)
(* ManagedBuffer for every width of the counter, and any numbers of        *)
(* readers and attempts whose sum is below its modulus: ref_ct may wrap,   *)
(* but remains the difference of the two, so it is 0 only when they are    *)
(* equal.                                                                  *)
(***************************************************************************)
EXTENDS ManagedBuffer, TLAPS

(* Until somebody has had a write lease, a cached answer is true.          *)
CacheTrueUntilWritten ==
  ~lock /\ is_utf8 # 0 => ((is_utf8 = 1) <=> accepted)

LeaseInv ==
  /\ TypeOK
  /\ CountIsLeases
  /\ WriterIsAlone
  /\ CacheTrueUntilWritten
  /\ writer => lock
-----------------------------------------------------------------------------
LEMMA ModSmall ==
  ASSUME NEW n \in Nat \ {0}, NEW a \in Int, 0 <= a, a < n
  PROVE  a % n = a
OBVIOUS

LEMMA ModBelow ==
  ASSUME NEW n \in Nat \ {0}, NEW a \in Int, -n < a, a < 0
  PROVE  a % n = a + n
OBVIOUS

LEMMA ModRound ==
  ASSUME NEW n \in Nat \ {0}, NEW a \in Int, n <= a, a < 2 * n
  PROVE  a % n = a - n
OBVIOUS

(* Taking k off a difference taken modulo m.                               *)
LEMMA ModStep ==
  ASSUME NEW m \in Nat \ {0}, NEW d \in Int, -m < d, d < m,
         NEW k \in Int, -m < d - k, d - k < m
  PROVE  ((d % m) - k) % m = (d - k) % m
<1> DEFINE e == d - k
<1>1. e \in Int /\ -m < e /\ e < m
  OBVIOUS
<1>2. CASE 0 <= d
  BY <1>2, ModSmall
<1>3. CASE d < 0
  <2>1. (d % m) - k = e + m
    BY <1>3, ModBelow
  <2> HIDE DEF e
  <2>2. (e + m) % m = e % m
    <3>1. CASE 0 <= e
      <4> DEFINE f == e + m
      <4>1. f \in Int /\ m <= f /\ f < 2 * m /\ f = e + m
        BY <1>1, <3>1
      <4> HIDE DEF f
      <4>2. f % m = f - m
        BY <4>1, ModRound
      <4>3. e % m = e
        BY <1>1, <3>1, ModSmall
      <4>4. f - m = e
        BY <1>1, <4>1
      <4> QED  BY <4>2, <4>3, <4>4 DEF f
    <3>2. CASE e < 0
      <4> DEFINE f == e + m
      <4>1. f \in Int /\ 0 <= f /\ f < m
        BY <1>1, <3>2
      <4>2. e % m = f
        BY <1>1, <3>2, ModBelow
      <4> HIDE DEF f
      <4>3. f % m = f
        BY <4>1, ModSmall
      <4> QED  BY <4>2, <4>3 DEF f
    <3> QED  BY <1>1, <3>1, <3>2
  <2> QED  BY <2>1, <2>2 DEF e
<1> QED  BY <1>2, <1>3

LEMMA Bounds ==
  /\ RefMod \in Nat \ {0} /\ MaxReaders \in Nat /\ MaxUnmatched \in Nat
  /\ 0 \in 0..(RefMod - 1)
  /\ \A r \in 0..MaxReaders, u \in 0..MaxUnmatched :
        r - u \in Int /\ -RefMod < r - u /\ r - u < RefMod
BY BufferAssumption

(* The count is 0 only when readers and attempts balance.                  *)
LEMMA ZeroCount ==
  ASSUME NEW r \in 0..MaxReaders, NEW u \in 0..MaxUnmatched
  PROVE  /\ (r - u) % RefMod \in 0..(RefMod - 1)
         /\ (r - u) % RefMod = 0 <=> r = u
<1> DEFINE d == r - u
<1>1. RefMod \in Nat \ {0} /\ d \in Int /\ -RefMod < d /\ d < RefMod
  BY Bounds
<1>2. d = 0 <=> r = u
  BY Bounds
<1> HIDE DEF d
<1>3. CASE 0 <= d
  <2>1. d % RefMod = d
    BY <1>1, <1>3, ModSmall
  <2>2. d \in 0..(RefMod - 1)
    BY <1>1, <1>3
  <2> QED  BY <1>2, <2>1, <2>2 DEF d
<1>4. CASE d < 0
  <2>1. d % RefMod = d + RefMod
    BY <1>1, <1>4, ModBelow
  <2>2. d + RefMod \in 0..(RefMod - 1) /\ d + RefMod # 0 /\ d # 0
    BY <1>1, <1>4
  <2> QED  BY <1>2, <2>1, <2>2 DEF d
<1> QED  BY <1>1, <1>3, <1>4

(* What the fields of an allocated buffer are.                             *)
LEMMA Counted ==
  ASSUME LeaseInv, allocated
  PROVE  /\ readers \in 0..MaxReaders /\ unmatched \in 0..MaxUnmatched
         /\ ref_ct = (readers - unmatched) % RefMod
         /\ ref_ct \in 0..(RefMod - 1)
         /\ Unleased => ~lock /\ readers = unmatched
         /\ ~lock /\ readers = unmatched => Unleased
<1>1. /\ readers \in 0..MaxReaders /\ unmatched \in 0..MaxUnmatched
      /\ ref_ct = (readers - unmatched) % RefMod
      /\ ref_ct \in 0..(RefMod - 1)
  BY DEF LeaseInv, TypeOK, CountIsLeases
<1>2. ref_ct = 0 <=> readers = unmatched
  BY <1>1, ZeroCount
<1> QED  BY <1>1, <1>2 DEF Unleased

(* k is taken off the count, and off the difference it counts.             *)
LEMMA CountMoves ==
  ASSUME LeaseInv, allocated, NEW k \in Int,
         NEW r \in 0..MaxReaders, NEW u \in 0..MaxUnmatched,
         r - u = (readers - unmatched) - k
  PROVE  /\ (ref_ct - k) % RefMod = (r - u) % RefMod
         /\ (ref_ct - k) % RefMod \in 0..(RefMod - 1)
<1> DEFINE d == readers - unmatched
<1>1. ref_ct = d % RefMod /\ RefMod \in Nat \ {0} /\ d \in Int /\ -RefMod < d /\ d < RefMod
  BY Counted, Bounds
<1>2. -RefMod < d - k /\ d - k < RefMod /\ d - k = r - u
  BY Bounds
<1> HIDE DEF d
<1>3. ((d % RefMod) - k) % RefMod = (d - k) % RefMod
  BY <1>1, <1>2, ModStep
<1>4. (r - u) % RefMod \in 0..(RefMod - 1)
  BY ZeroCount
<1> QED  BY <1>1, <1>2, <1>3, <1>4
-----------------------------------------------------------------------------
LEMMA InitLeaseInv ==
  ASSUME buff_new
  PROVE  LeaseInv
<1>1. TypeOK
  <2>1. 0 \in 0..(RefMod - 1) /\ 0 \in 0..MaxReaders /\ 0 \in 0..MaxUnmatched /\ 0 \in 0..2
    BY Bounds
  <2> QED  BY <2>1, Zenon DEF buff_new, TypeOK
<1>2. CountIsLeases
  <2>1. 0 \in 0..MaxReaders /\ 0 \in 0..MaxUnmatched
    BY Bounds
  <2>2. (0 - 0) % RefMod = 0
    BY <2>1, ZeroCount
  <2> QED  BY <2>2 DEF buff_new, CountIsLeases
<1>3. WriterIsAlone /\ CacheTrueUntilWritten /\ (writer => lock)
  BY DEF buff_new, WriterIsAlone, CacheTrueUntilWritten
<1> QED  BY <1>1, <1>2, <1>3 DEF LeaseInv

(* A call that moves only the count and the leases keeps the invariant if  *)
(* it moves them together, and if no reader comes while the buffer is      *)
(* locked.                                                                 *)
LEMMA LeaseStep ==
  ASSUME LeaseInv, allocated, NEW k \in Int,
         ref_ct' = (ref_ct - k) % RefMod,
         readers' \in 0..MaxReaders, unmatched' \in 0..MaxUnmatched,
         readers' - unmatched' = (readers - unmatched) - k,
         lock => readers' <= unmatched',
         ret' \in {"data", "NULL", "true", "false", "0", "count"},
         writer' \in BOOLEAN, writer' => writer,
         UNCHANGED <<lock, needs_sync, is_utf8, allocated, accepted>>
  PROVE  LeaseInv'
<1>1. ref_ct' = (readers' - unmatched') % RefMod /\ ref_ct' \in 0..(RefMod - 1)
  BY CountMoves
<1>2. TypeOK'
  BY <1>1, Zenon DEF LeaseInv, TypeOK
<1>3. CountIsLeases'
  BY <1>1 DEF CountIsLeases
<1>4. WriterIsAlone'
  BY DEF WriterIsAlone
<1>5. CacheTrueUntilWritten' /\ (writer => lock)'
  BY Zenon DEF LeaseInv, CacheTrueUntilWritten
<1> QED  BY <1>2, <1>3, <1>4, <1>5 DEF LeaseInv

(* A call that leaves the count and the leases alone.                      *)
LEMMA QuietStep ==
  ASSUME LeaseInv,
         UNCHANGED <<ref_ct, readers, unmatched>>,
         allocated' => allocated, allocated' \in BOOLEAN,
         lock' \in BOOLEAN, lock' => lock \/ readers = unmatched, lock => lock',
         writer' \in BOOLEAN, writer' => lock',
         needs_sync' \in BOOLEAN, is_utf8' \in 0..2, accepted' \in BOOLEAN,
         CacheTrueUntilWritten',
         ret' \in {"data", "NULL", "true", "false", "0", "count"}
  PROVE  LeaseInv'
<1>1. TypeOK'
  BY Zenon DEF LeaseInv, TypeOK
<1>2. CountIsLeases'
  BY Zenon DEF LeaseInv, CountIsLeases
<1>3. WriterIsAlone'
  <2>1. readers \in Int /\ unmatched \in Int
    BY Bounds DEF LeaseInv, TypeOK
  <2>2. CASE lock
    BY <2>2 DEF LeaseInv, WriterIsAlone
  <2>3. CASE ~lock
    BY <2>1, <2>3 DEF LeaseInv, WriterIsAlone
  <2> QED  BY <2>2, <2>3
<1> QED  BY <1>1, <1>2, <1>3 DEF LeaseInv

LEMMA StepKeepsLeaseInv ==
  ASSUME LeaseInv, [Next]_vars
  PROVE  LeaseInv'
<1> USE DEF leases
<1>0. /\ readers \in 0..MaxReaders /\ unmatched \in 0..MaxUnmatched
      /\ MaxReaders \in Nat /\ MaxUnmatched \in Nat
      /\ lock \in BOOLEAN /\ writer \in BOOLEAN /\ needs_sync \in BOOLEAN
      /\ is_utf8 \in 0..2 /\ accepted \in BOOLEAN /\ allocated \in BOOLEAN
      /\ ret \in {"data", "NULL", "true", "false", "0", "count"}
      /\ lock => readers <= unmatched
      /\ writer => lock
  BY Bounds DEF LeaseInv, TypeOK, WriterIsAlone
<1>1. CASE buff_borrow
  <2>1. /\ allocated /\ readers < MaxReaders
        /\ UNCHANGED <<lock, needs_sync, is_utf8, allocated, writer, unmatched, accepted>>
    BY <1>1 DEF buff_borrow
  <2>2. CASE ~lock
    <3>1. ref_ct' = (ref_ct + 1) % RefMod /\ readers' = readers + 1 /\ ret' = "data"
      BY <1>1, <2>2 DEF buff_borrow
    <3>2. ref_ct' = (ref_ct - (-1)) % RefMod
      <4>1. ref_ct \in Int
        BY <2>1, Counted, Bounds
      <4> QED  BY <3>1, <4>1
    <3>3. readers' - unmatched' = (readers - unmatched) - (-1) /\ readers' \in 0..MaxReaders
      BY <1>0, <2>1, <3>1
    <3> QED  BY <1>0, <2>1, <2>2, <3>1, <3>2, <3>3, LeaseStep
  <2>3. CASE lock
    <3>1. UNCHANGED <<ref_ct, readers>> /\ ret' = "NULL"
      BY <1>1, <2>3 DEF buff_borrow
    <3>2. CacheTrueUntilWritten'
      BY <2>1, <2>3 DEF CacheTrueUntilWritten
    <3> QED  BY <1>0, <2>1, <3>1, <3>2, QuietStep
  <2> QED  BY <2>2, <2>3
<1>2. CASE buff_borrow_writable
  <2>1. /\ allocated
        /\ UNCHANGED <<ref_ct, is_utf8, allocated, readers, unmatched, accepted>>
        /\ ret' \in {"data", "NULL"}
    BY <1>2 DEF buff_borrow_writable
  <2>2. CASE Unleased
    <3>1. lock' = TRUE /\ needs_sync' = TRUE /\ writer' = TRUE
      BY <1>2, <2>2 DEF buff_borrow_writable
    <3>2. readers = unmatched
      BY <2>1, <2>2, Counted
    <3>3. CacheTrueUntilWritten'
      BY <3>1 DEF CacheTrueUntilWritten
    <3> QED  BY <1>0, <2>1, <3>1, <3>2, <3>3, QuietStep
  <2>3. CASE ~Unleased
    <3>1. UNCHANGED <<lock, needs_sync, writer>>
      BY <1>2, <2>3 DEF buff_borrow_writable
    <3>2. CacheTrueUntilWritten'
      BY <2>1, <3>1 DEF LeaseInv, CacheTrueUntilWritten
    <3> QED  BY <1>0, <2>1, <3>1, <3>2, QuietStep
  <2> QED  BY <2>2, <2>3
<1>3. ASSUME NEW mine \in {0, 1}, mine = 0 => unmatched < MaxUnmatched, buff_return(mine)
      PROVE  LeaseInv'
  <2>1. /\ allocated /\ (mine = 1 => readers > 0) /\ (mine = 0 => writer)
        /\ ref_ct' = (ref_ct - 1) % RefMod
        /\ readers' = readers - mine /\ unmatched' = unmatched + 1 - mine
        /\ writer' = (writer /\ mine = 1)
        /\ UNCHANGED <<lock, needs_sync, is_utf8, allocated, accepted, ret>>
    BY <1>3 DEF buff_return, LockAfterReturn
  <2>2. /\ readers' \in 0..MaxReaders /\ unmatched' \in 0..MaxUnmatched
        /\ readers' - unmatched' = (readers - unmatched) - 1
        /\ lock => readers' <= unmatched'
    BY <1>0, <1>3, <2>1
  <2>3. writer' \in BOOLEAN /\ (writer' => writer)
    BY <2>1
  <2> QED  BY <1>0, <2>1, <2>2, <2>3, LeaseStep
<1>4. ASSUME NEW n \in 1..MaxReaders, buff_return_n(n)
      PROVE  LeaseInv'
  <2>1. /\ allocated /\ n <= readers /\ ret' \in {"true", "false"}
        /\ UNCHANGED <<lock, needs_sync, is_utf8, allocated, writer, unmatched, accepted>>
    BY <1>4 DEF buff_return_n
  <2>2. CASE CountWithout(n) = 0
    <3>1. UNCHANGED <<ref_ct, readers>>
      BY <1>4, <2>2 DEF buff_return_n
    <3>2. CacheTrueUntilWritten'
      BY <2>1 DEF LeaseInv, CacheTrueUntilWritten
    <3> QED  BY <1>0, <2>1, <3>1, <3>2, QuietStep
  <2>3. CASE CountWithout(n) # 0
    <3>1. ref_ct' = (ref_ct - n) % RefMod /\ readers' = readers - n
      BY <1>4, <2>3 DEF buff_return_n, CountWithout
    <3>2. /\ readers' \in 0..MaxReaders
          /\ readers' - unmatched' = (readers - unmatched) - n
          /\ lock => readers' <= unmatched'
          /\ n \in Int
      BY <1>0, <2>1, <3>1
    <3> QED  BY <1>0, <2>1, <3>1, <3>2, LeaseStep
  <2> QED  BY <2>2, <2>3
<1>5. ASSUME NEW mine \in {0, 1}, mine = 0 => unmatched < MaxUnmatched, buff_free(mine)
      PROVE  LeaseInv'
  <2>1. /\ allocated /\ mine <= readers /\ ret' \in {"0", "count"}
        /\ UNCHANGED <<lock, needs_sync, is_utf8, writer, accepted>>
    BY <1>5 DEF buff_free
  <2>2. CASE Unleased
    <3>1. allocated' = FALSE /\ UNCHANGED <<ref_ct, readers, unmatched>>
      BY <1>5, <2>2 DEF buff_free
    <3>2. CacheTrueUntilWritten'
      BY <2>1 DEF LeaseInv, CacheTrueUntilWritten
    <3> QED  BY <1>0, <2>1, <3>1, <3>2, QuietStep
  <2>3. CASE ~Unleased
    <3>1. /\ ref_ct' = (ref_ct - 1) % RefMod
          /\ readers' = readers - mine /\ unmatched' = unmatched + 1 - mine
          /\ UNCHANGED allocated
      BY <1>5, <2>3 DEF buff_free, CountAfterAttempt
    <3>2. /\ readers' \in 0..MaxReaders /\ unmatched' \in 0..MaxUnmatched
          /\ readers' - unmatched' = (readers - unmatched) - 1
          /\ lock => readers' <= unmatched'
      BY <1>0, <1>5, <2>1, <3>1
    <3> QED  BY <1>0, <2>1, <3>1, <3>2, LeaseStep
  <2> QED  BY <2>2, <2>3
<1>6. CASE buff_force_free
  <2>1. /\ allocated' = FALSE /\ ref_ct' = 0 /\ ret' = "0"
        /\ UNCHANGED <<lock, needs_sync, is_utf8, readers, writer, unmatched, accepted>>
    BY <1>6 DEF buff_force_free
  <2>2. TypeOK'
    <3>1. 0 \in 0..(RefMod - 1)
      BY Bounds
    <3> QED  BY <2>1, <3>1, Zenon DEF LeaseInv, TypeOK
  <2>3. CountIsLeases' /\ WriterIsAlone' /\ CacheTrueUntilWritten' /\ (writer => lock)'
    BY <2>1 DEF LeaseInv, CountIsLeases, WriterIsAlone, CacheTrueUntilWritten
  <2> QED  BY <2>2, <2>3 DEF LeaseInv
<1>7. CASE buff_validate_utf8
  <2>1. /\ is_utf8' = (IF is_utf8 # 0 THEN is_utf8 ELSE IF accepted THEN 1 ELSE 2)
        /\ ret' \in {"true", "false"}
        /\ UNCHANGED <<ref_ct, lock, needs_sync, allocated, readers, writer, unmatched, accepted>>
    BY <1>7 DEF buff_validate_utf8, Checked
  <2>2. is_utf8' \in 0..2
    BY <1>0, <2>1
  <2>3. CacheTrueUntilWritten'
    BY <1>0, <2>1 DEF LeaseInv, CacheTrueUntilWritten
  <2> QED  BY <1>0, <2>1, <2>2, <2>3, QuietStep
<1>8. CASE WriteBytes
  <2>1. /\ writer /\ accepted' \in BOOLEAN
        /\ UNCHANGED <<ref_ct, lock, needs_sync, is_utf8, allocated, readers, writer, unmatched, ret>>
    BY <1>8 DEF WriteBytes
  <2>2. CacheTrueUntilWritten'
    BY <1>0, <2>1 DEF CacheTrueUntilWritten
  <2> QED  BY <1>0, <2>1, <2>2, QuietStep
<1>9. CASE UNCHANGED vars
  BY <1>9 DEF vars, LeaseInv, TypeOK, CountIsLeases, WriterIsAlone, CacheTrueUntilWritten
<1> QED  BY <1>1, <1>2, <1>3, <1>4, <1>5, <1>6, <1>7, <1>8, <1>9 DEF Next

(* For every counter width: the counter is the number of read leases less  *)
(* the counts taken off without one, a write lease is beside no reader but *)
(* those, and the cached UTF-8 answer is true until a write lease is given.*)
THEOREM LeasesAreCounted ==
  Spec => [](TypeOK /\ CountIsLeases /\ WriterIsAlone /\ CacheTrueUntilWritten)
<1>1. buff_new => LeaseInv
  BY InitLeaseInv
<1>2. LeaseInv /\ [Next]_vars => LeaseInv'
  BY StepKeepsLeaseInv
<1>3. LeaseInv => TypeOK /\ CountIsLeases /\ WriterIsAlone /\ CacheTrueUntilWritten
  BY DEF LeaseInv
<1> QED  BY <1>1, <1>2, <1>3, PTL DEF Spec

(* The counter and the history of leases stay within their bounds.         *)
THEOREM LeaseTypesHold == Spec => []TypeOK
BY LeasesAreCounted, PTL

(* Whoever holds the write lease is alone, but for attempts at freeing     *)
(* that were counted as leases.                                            *)
THEOREM WriterStaysAlone == Spec => []WriterIsAlone
BY LeasesAreCounted, PTL

(* Only a write under the write lease makes the cached answer differ from  *)
(* what a check would find, no call renews it, and meanwhile               *)
(* buff_validate_utf8 answers wrongly.                                     *)
THEOREM CacheOutlivesWrites == Spec => StaleByWritesOnly
<1> DEFINE Quiet == /\ allocated' /\ ~(Stale' <=> Stale) => WriteBytes /\ lock
                    /\ buff_validate_utf8 => ((ret' = "true") <=> (accepted <=> ~Stale))
<1>1. buff_new => ~Stale
  BY DEF buff_new, Stale
<1>2. ASSUME LeaseInv, Next PROVE Quiet
  <2>1. CASE buff_validate_utf8
    <3>1. /\ is_utf8' = (IF is_utf8 # 0 THEN is_utf8 ELSE IF accepted THEN 1 ELSE 2)
          /\ ret' = (IF is_utf8' = 1 THEN "true" ELSE "false")
          /\ allocated /\ UNCHANGED <<allocated, accepted>>
      BY <2>1 DEF buff_validate_utf8, Checked
    <3>2. Stale' <=> Stale
      BY <3>1 DEF Stale
    <3>3. (ret' = "true") <=> is_utf8' = 1
      BY <3>1
    <3>4. (is_utf8' = 1) <=> (accepted <=> ~Stale)
      BY <3>1 DEF Stale
    <3> QED  BY <3>2, <3>3, <3>4
  <2>2. CASE ~buff_validate_utf8
    <3>1. CASE WriteBytes
      BY <1>2, <2>2, <3>1 DEF LeaseInv, WriteBytes
    <3>2. CASE ~WriteBytes
      <4>1. UNCHANGED <<is_utf8, accepted>> /\ allocated
        BY <1>2, <2>2, <3>2
        DEF Next, buff_borrow, buff_borrow_writable, buff_return, buff_return_n,
            buff_free, buff_force_free
      <4>2. allocated' => (Stale' <=> Stale)
        BY <4>1 DEF Stale
      <4> QED  BY <2>2, <4>2
    <3> QED  BY <3>1, <3>2
  <2> QED  BY <2>1, <2>2
<1>3. LeaseInv /\ [Next]_vars => [Quiet]_vars
  BY <1>2
<1>4. buff_new => LeaseInv
  BY InitLeaseInv
<1>5. LeaseInv /\ [Next]_vars => LeaseInv'
  BY StepKeepsLeaseInv
<1> QED  BY <1>1, <1>3, <1>4, <1>5, PTL DEF Spec, StaleByWritesOnly

(* What buff_free answers, in terms of what the clients did: it            *)
(* deallocates when readers and attempts balance and answers 0 then, and   *)
(* answers 0 as well with one lease more, when the buffer stays.           *)
THEOREM FreeTellsTooLittle == Spec => FreeAnswer
<1>1. ASSUME LeaseInv, NEW mine \in {0, 1}, buff_free(mine), ~lock
      PROVE  /\ (ret' = "0") <=> (readers - unmatched \in {0, 1})
             /\ ~allocated' <=> (readers = unmatched)
  <2>1. /\ allocated /\ readers \in 0..MaxReaders /\ unmatched \in 0..MaxUnmatched
        /\ Unleased <=> readers = unmatched
    BY <1>1, Counted DEF buff_free
  <2>2. CASE Unleased
    <3>1. ~allocated' /\ ret' = "0"
      BY <1>1, <2>2 DEF buff_free
    <3>2. readers - unmatched = 0
      BY <2>1, <2>2, Bounds
    <3> QED  BY <2>1, <2>2, <3>1, <3>2
  <2>3. CASE ~Unleased
    <3>1. /\ allocated' /\ ref_ct' = (ref_ct - 1) % RefMod
          /\ ret' = IF ref_ct' = 0 THEN "0" ELSE "count"
      BY <1>1, <2>1, <2>3 DEF buff_free, CountAfterAttempt
    <3> DEFINE d == readers - unmatched
    <3>2. /\ ref_ct = d % RefMod /\ RefMod \in Nat \ {0}
          /\ d \in Int /\ -RefMod < d /\ d < RefMod /\ d # 0
      BY <1>1, <2>1, <2>3, Counted, Bounds
    <3>3. -RefMod < d - 1 \/ d = 1 - RefMod
      BY <3>2
    <3> HIDE DEF d
    <3>4. ref_ct' = 0 <=> d = 1
      <4>1. CASE 0 < d
        <5>1. ref_ct = d /\ d - 1 \in Int /\ 0 <= d - 1 /\ d - 1 < RefMod
          BY <3>2, <4>1, ModSmall
        <5>2. (d - 1) % RefMod = d - 1
          BY <3>2, <5>1, ModSmall
        <5> QED  BY <3>1, <3>2, <5>1, <5>2
      <4>2. CASE d < 0
        <5>1. ref_ct = d + RefMod
          BY <3>2, <4>2, ModBelow
        <5> DEFINE f == d + RefMod - 1
        <5>2. f \in Int /\ 0 <= f /\ f < RefMod /\ f = ref_ct - 1
          BY <3>2, <4>2, <5>1
        <5>3. f = 0 <=> d = 1 - RefMod
          BY <3>2
        <5> HIDE DEF f
        <5>4. f % RefMod = f
          BY <3>2, <5>2, ModSmall
        <5>5. d # 1 - RefMod
          <6>1. MaxReaders + MaxUnmatched < RefMod /\ MaxReaders \in Nat \ {0} /\ MaxUnmatched \in Nat
            BY BufferAssumption
          <6> QED  BY <2>1, <3>2, <6>1 DEF d
        <5> QED  BY <3>1, <3>2, <4>2, <5>2, <5>3, <5>4, <5>5
      <4> QED  BY <3>2, <4>1, <4>2
    <3>5. d \in {0, 1} <=> d = 1
      BY <3>2
    <3> QED  BY <2>1, <2>3, <3>1, <3>4, <3>5 DEF d
  <2> QED  BY <2>2, <2>3
<1>2. LeaseInv /\ [Next]_vars =>
        [\A mine \in {0, 1} : buff_free(mine) /\ ~lock =>
           /\ (ret' = "0") <=> (readers - unmatched \in {0, 1})
           /\ ~allocated' <=> (readers = unmatched)]_vars
  BY <1>1
<1>3. buff_new => LeaseInv
  BY InitLeaseInv
<1>4. LeaseInv /\ [Next]_vars => LeaseInv'
  BY StepKeepsLeaseInv
<1> QED  BY <1>2, <1>3, <1>4, PTL DEF Spec, FreeAnswer

(* No call but buff_force_free ends the lock of a write lease.             *)
THEOREM LockIsForGood == Spec => LockedForGood
<1>1. ASSUME [Next]_vars, lock, allocated
      PROVE  \/ UNCHANGED vars
             \/ /\ lock'
                /\ ~allocated' => buff_force_free
                /\ buff_borrow \/ buff_borrow_writable => ret' = "NULL"
  <2> USE DEF Unleased
  <2>1. CASE Next
    <3>1. lock'
      BY <1>1, <2>1 DEF Next, buff_borrow, buff_borrow_writable, buff_return, LockAfterReturn,
            buff_return_n, buff_free, buff_force_free, buff_validate_utf8, WriteBytes
    <3>2. ~allocated' => buff_force_free
      BY <1>1, <2>1 DEF Next, buff_borrow, buff_borrow_writable, buff_return,
            buff_return_n, buff_free, buff_validate_utf8, WriteBytes
    <3>3. buff_borrow \/ buff_borrow_writable => ret' = "NULL"
      BY <1>1 DEF buff_borrow, buff_borrow_writable
    <3> QED  BY <3>1, <3>2, <3>3
  <2> QED  BY <1>1, <2>1
<1>2. [Next]_vars =>
        [lock /\ allocated =>
           /\ lock'
           /\ ~allocated' => buff_force_free
           /\ buff_borrow \/ buff_borrow_writable => ret' = "NULL"]_vars
  BY <1>1
<1> QED  BY <1>2, PTL DEF Spec, LockedForGood
=============================================================================
