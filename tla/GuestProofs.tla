---------------------------- MODULE GuestProofs ----------------------------
(***************************************************************************)
(* Proofs about Guest, for any lines, nodes, hash functions, capacities    *)
(* and failing allocations: what main leaves, and that its look-ups find.  *)
(*                                                                         *)
(* The invariant has three parts.  The list is a row c of nodes, one per   *)
(* appended line.  The walk is at place q of that row, and the count of    *)
(* the followed buffer says whether it has been passed.  The map holds     *)
(* the lines stored so far and no other, and, as long as no error is on    *)
(* record and nothing was lost, finds each of them.                        *)
(***************************************************************************)
EXTENDS Guest, HashmapAnswerProofs

USE DEF linked_last, GrownCapacity, Unhealthy, NewIndex, RehashFailed,
        LockedAfterCall, SetAfterCall, Least
-----------------------------------------------------------------------------
(* The map: an entry that is none of those in S, was freed, or holds NULL  *)
(* is bad.                                                                 *)
GoodEntry(e, S)     == e.live /\ e.val # NULL /\ e.key \in S
GoodChain(chain, S) == \A n \in DOMAIN chain : GoodEntry(chain[n], S)
GoodTable(table, S) == \A b \in DOMAIN table : GoodChain(table[b].chain, S)

(* The lines stored before line n.                                         *)
Before(n) == {Lines[m] : m \in 1..(n - 1)}

Answers ==
  last_error_code = HMAP_ERROR_CODE_OK /\ ~lost =>
    \A m \in 1..(i - 1) : Found(Lines[m]) = {<<Lines[m], TRUE>>}

MapInv ==
  /\ GoodTable(buckets, Before(i))
  /\ pc = "rehash" => GoodTable(new_buckets, Before(i))
  /\ Answers
-----------------------------------------------------------------------------
(* The list: c names the nodes of the p appended lines in order.  The      *)
(* first is linked to itself until a second one comes.                     *)
IsRow(c, p, f, l, nxt, dat, A, app) ==
  /\ \A k \in 0..(p - 1) : c[k] \in A /\ dat[c[k]] = app[k + 1]
  /\ \A a \in A : \E k \in 0..(p - 1) : a = c[k]
  /\ \A j, k \in 0..(p - 1) : c[j] = c[k] => j = k
  /\ \A k \in 0..(p - 2) : nxt[c[k]] = c[k + 1]
  /\ IF p = 0 THEN f = NULL /\ l = NULL
     ELSE /\ f = c[0]
          /\ l = c[p - 1]
          /\ nxt[c[p - 1]] = IF p = 1 THEN f ELSE NULL

(* The lines of the list are some of the first t lines, each once.         *)
IsHistory(app, t) ==
  /\ app \in Seq(Keys)
  /\ Len(app) <= t
  /\ \A m \in DOMAIN app : \E x \in 1..t : app[m] = Lines[x]
  /\ \A m, n \in DOMAIN app : app[m] = app[n] => m = n

Tried == IF at = "set" THEN i ELSE i - 1

(* What the calls on the node the walk is at have added to the count of    *)
(* its buffer.                                                             *)
Visit(a) == IF a = "look" THEN 1 ELSE IF a = "return" THEN 2 ELSE 0

WalkedBy(app, q, line) == \E m \in 1..q : app[m] = line

(* The walk is at place q of the row; a row of one node it never leaves.   *)
IsWalk(c, p, q, nd, dat, app, line, visit, count) ==
  /\ nd = IF p = 1 THEN c[0] ELSE IF q < p THEN c[q] ELSE NULL
  /\ visit # 0 => nd # NULL
  /\ count = (IF WalkedBy(app, q, line) THEN 2 ELSE 0)
             + (IF nd # NULL /\ dat[nd] = line THEN visit ELSE 0)

Storing == {"configure", "append", "set"}
Walking == {"print", "look", "return"}

ListInv ==
  /\ List!TypeOK
  /\ IsHistory(appended, Tried)
  /\ len = IF appended = << >> THEN 0 ELSE Len(appended) + 1
  /\ IF list_freed THEN alloc = {}
     ELSE \E c \in [0..(Len(appended) - 1) -> Nodes] :
            /\ IsRow(c, Len(appended), first, last, next, data, alloc, appended)
            /\ at \in Walking => \E q \in 0..Len(appended) :
                 IsWalk(c, Len(appended), q, node, data, appended, followed, Visit(at), ref_ct)

BufferInv ==
  /\ Buffer!TypeOK
  /\ ~lock /\ allocated /\ unmatched = 0 /\ readers = ref_ct
  /\ at \in Storing => ref_ct = 0
  /\ list_freed => ref_ct = IF followed \in ToSet(appended) THEN 2 ELSE 0

MainInv ==
  /\ at \in Storing \cup Walking \cup {"free", "done"}
  /\ i \in 1..(Len(Lines) + 1)
  /\ at \in Storing <=> i <= Len(Lines)
  /\ list_freed <=> at \in {"free", "done"}
  /\ at \notin Walking => node = NULL
  /\ at = "look" => pc = "idle"
  /\ at = "done" => pc = "freed"

GInv == IInv /\ AnswersInv /\ MapInv /\ ListInv /\ BufferInv /\ MainInv
-----------------------------------------------------------------------------
LEMMA LineFacts ==
  /\ DOMAIN Lines = 1..Len(Lines) /\ Len(Lines) \in Nat
  /\ \A m \in 1..Len(Lines) : Lines[m] \in Keys /\ Lines[m] \in Values /\ Lines[m] # NULL
  /\ \A k \in Keys : \E m \in 1..Len(Lines) : k = Lines[m]
<1>1. DOMAIN Lines = 1..Len(Lines) /\ Len(Lines) \in Nat
  BY GuestAssumption, LenProperties
<1>2. \A m \in 1..Len(Lines) : Lines[m] \in Keys
  BY GuestAssumption, ElementOfSeq
<1> QED BY <1>1, <1>2, GuestAssumption DEF ToSet

(* main's keys are its lines, so those it compares equal are the same.     *)
LEMMA LinesAreTold ==
  /\ \A m, n \in 1..Len(Lines) : SameKey(Lines[m], Lines[n]) => m = n
  /\ DigestsTellHashes
<1>1. \A m, n \in 1..Len(Lines) : SameKey(Lines[m], Lines[n]) => m = n
  BY LineFacts, GuestAssumption
<1>2. ASSUME NEW j \in Keys, NEW k \in Keys, SameKey(j, k)
      PROVE  Hash[j] = Hash[k]
  <2>1. PICK m \in 1..Len(Lines) : j = Lines[m]
    BY LineFacts
  <2>2. PICK n \in 1..Len(Lines) : k = Lines[n]
    BY LineFacts
  <2> QED BY <1>1, <1>2, <2>1, <2>2
<1> QED BY <1>1, <1>2 DEF DigestsTellHashes

LEMMA BeforeGrows ==
  ASSUME NEW n \in 1..Len(Lines)
  PROVE  /\ Before(n) \subseteq Before(n + 1)
         /\ Lines[n] \in Before(n + 1)
         /\ \A k \in Before(n) : ~SameKey(k, Lines[n])
<1>1. n \in Nat /\ n \in 1..((n + 1) - 1) /\ \A m \in 1..(n - 1) : m \in 1..((n + 1) - 1)
  BY LineFacts
<1>2. ASSUME NEW m \in 1..(n - 1)
      PROVE  ~SameKey(Lines[m], Lines[n])
  <2>1. m \in 1..Len(Lines) /\ m # n
    BY LineFacts
  <2> QED BY <2>1, LinesAreTold
<1> QED BY <1>1, <1>2 DEF Before

LEMMA GoodGrows ==
  ASSUME NEW S, NEW T, S \subseteq T, NEW table, GoodTable(table, S)
  PROVE  GoodTable(table, T)
BY DEF GoodTable, GoodChain, GoodEntry

LEMMA GoodAppended ==
  ASSUME NEW S, NEW chain \in Seq(Entry), GoodChain(chain, S), NEW e \in Entry, GoodEntry(e, S)
  PROVE  GoodChain(Append(chain, e), S)
<1> DEFINE c == Append(chain, e)
           n == Len(chain)
<1>1. c \in Seq(Entry) /\ Len(c) = n + 1 /\ (\A x \in 1..n : c[x] = chain[x]) /\ c[n + 1] = e
  BY AppendProperties
<1>2. n \in Nat /\ DOMAIN chain = 1..n /\ DOMAIN c = 1..(n + 1)
  BY <1>1, LenProperties
<1> HIDE DEF c, n
<1>3. \A x \in 1..(n + 1) : x \in 1..n \/ x = n + 1
  BY <1>2
<1>4. \A x \in DOMAIN c : GoodEntry(c[x], S)
  BY <1>1, <1>2, <1>3 DEF GoodChain
<1> QED BY <1>4 DEF GoodChain, c

LEMMA GoodHalfway ==
  ASSUME NEW S, NEW b \in Bucket, GoodChain(b.chain, S), b.chain # << >>
  PROVE  GoodChain(Halfway(b).chain, S)
<1>1. b.chain \in Seq(Entry) /\ 1 \in DOMAIN b.chain /\ b.chain[1] \in Entry
  BY BucketChain
<1>2. Halfway(b).chain = [b.chain EXCEPT ![1].val = ListPtr]
  BY DEF Halfway, Bucket
<1>3. ListPtr # NULL
  BY ConstantsAssumption
<1> DEFINE e == [b.chain[1] EXCEPT !.val = ListPtr]
<1>4. e.live = b.chain[1].live /\ e.val = ListPtr /\ e.key = b.chain[1].key
  BY <1>1 DEF Entry
<1> HIDE DEF e
<1>5. [b.chain EXCEPT ![1].val = ListPtr] = [b.chain EXCEPT ![1] = e]
  BY <1>1 DEF e
<1>6. GoodChain([b.chain EXCEPT ![1] = e], S)
  BY <1>1, <1>3, <1>4 DEF GoodChain, GoodEntry
<1> QED BY <1>2, <1>5, <1>6

LEMMA NewEntryGood ==
  ASSUME NEW S, NEW k \in S, k \in Keys, NEW v \in Vals, v # NULL
  PROVE  NewEntry(k, v) \in Entry /\ GoodEntry(NewEntry(k, v), S)
<1>1. NewEntry(k, v).live = TRUE /\ NewEntry(k, v).val = v /\ NewEntry(k, v).key = k
  BY DEF NewEntry
<1> QED BY <1>1, NewEntryType DEF GoodEntry

LEMMA GoodOutcome ==
  ASSUME NEW S, NEW b \in Bucket, GoodChain(b.chain, S), b.complex \/ b.chain # << >>,
         NEW k \in S, k \in Keys, NEW v \in Vals, v # NULL,
         NEW o \in hmap_complex_key_set_value(b, k, v)
  PROVE  GoodChain(o.bucket.chain, S)
<1>1. b.chain \in Seq(Entry)
  BY BucketChain
<1>2. CASE o.bucket.chain = Append(b.chain, NewEntry(k, v))
  BY <1>1, <1>2, NewEntryGood, GoodAppended
<1>3. CASE o.bucket = Halfway(b) /\ ~b.complex
  BY <1>3, GoodHalfway
<1> QED BY <1>2, <1>3, SetValueChains

LEMMA GoodReplaced ==
  ASSUME NEW S, NEW table, GoodTable(table, S), NEW j, NEW b, GoodChain(b.chain, S)
  PROVE  GoodTable([table EXCEPT ![j] = b], S)
BY DEF GoodTable
-----------------------------------------------------------------------------
(* What a store that updates nothing leaves: a table of good entries, and, *)
(* unless something went wrong, its entry at the end of its chain.         *)
LEMMA StoreOutcome ==
  ASSUME TypeOK, NEW S, NEW T, S \subseteq T, GoodTable(buckets, S),
         NEW k \in T, k \in Keys, NEW v \in Values, v # NULL, hmap_set(k, v, FALSE)
  PROVE  /\ capacity' = capacity
         /\ GoodTable(buckets', T)
         /\ last_error_code' = HMAP_ERROR_CODE_OK /\ ~lost' =>
              /\ last_error_code = HMAP_ERROR_CODE_OK /\ ~lost
              /\ \E b2 : /\ b2.chain = Append(ChainOf(k), NewEntry(k, v))
                         /\ buckets' = [buckets EXCEPT ![Index(k, capacity)] = b2]
<1> DEFINE j == Index(k, capacity)
           b == buckets[j]
           e == NewEntry(k, v)
<1>1. /\ j \in DOMAIN buckets /\ b \in Bucket /\ b.chain \in Seq(Entry) /\ ChainOf(k) = b.chain
      /\ v \in Vals
  <2>1. j \in DOMAIN buckets /\ b \in Bucket
    BY IndexInRange DEF TypeOK
  <2> QED BY <2>1, BucketChain DEF ChainOf, Vals
<1>2. GoodTable(buckets, T) /\ GoodChain(b.chain, T)
  BY <1>1, GoodGrows DEF GoodTable
<1>3. ASSUME NEW r, NEW err, err # HMAP_ERROR_CODE_OK, Return(r, err)
      PROVE  buckets' = buckets /\ capacity' = capacity /\ last_error_code' # HMAP_ERROR_CODE_OK
  BY <1>3 DEF Return
<1>4. CASE StoreColliding(j, k, v) /\ (b.complex \/ b.chain # << >>)
  <2> HIDE DEF j, b
  <2>1. PICK o \in hmap_complex_key_set_value(buckets[j], k, v) :
          Stored(j, o.bucket,
                 IF o.failed THEN HMAP_ERROR_CODE_MALLOC_FAILED ELSE last_error_code,
                 IF o.failed THEN collisions ELSE collisions + 1, o.gone)
    BY <1>4 DEF StoreColliding
  <2>2. buckets' = [buckets EXCEPT ![j] = o.bucket] /\ capacity' = capacity /\ lost' = (lost \/ o.gone)
    BY <2>1 DEF Stored
  <2>3. GoodChain(o.bucket.chain, T)
    BY <1>1, <1>2, <1>4, <2>1, GoodOutcome DEF b
  <2>4. GoodTable(buckets', T)
    BY <1>2, <2>2, <2>3, GoodReplaced
  <2>5. ASSUME last_error_code' = HMAP_ERROR_CODE_OK, ~lost'
        PROVE  /\ last_error_code = HMAP_ERROR_CODE_OK /\ ~lost /\ ~o.failed /\ ~o.gone
    BY <2>1, <2>2, <2>5, Codes, StoredKeepsError
  <2>6. last_error_code' = HMAP_ERROR_CODE_OK /\ ~lost' => o.bucket.chain = Append(b.chain, e)
    BY <2>5, SetValueChains DEF b
  <2> QED BY <1>1, <2>2, <2>4, <2>5, <2>6 DEF j, b
<1>5. CASE b.chain = << >> /\ Stored(j, Simple(e), last_error_code, collisions, FALSE)
  <2>1. buckets' = [buckets EXCEPT ![j] = Simple(e)] /\ capacity' = capacity /\ (~lost' => ~lost)
    BY <1>5 DEF Stored
  <2>2. Simple(e).chain = Append(b.chain, e)
    BY <1>5 DEF Simple
  <2>3. GoodChain(Simple(e).chain, T)
    BY <1>1, <1>2, <2>2, NewEntryGood, GoodAppended
  <2>4. GoodTable(buckets', T)
    BY <1>2, <2>1, <2>3, GoodReplaced
  <2>5. last_error_code' = HMAP_ERROR_CODE_OK => last_error_code = HMAP_ERROR_CODE_OK
    BY <1>5, StoredKeepsError
  <2> QED BY <1>1, <2>1, <2>2, <2>4, <2>5
<1>6. \/ StoreColliding(j, k, v) /\ (b.complex \/ b.chain # << >>)
      \/ b.chain = << >> /\ Stored(j, Simple(e), last_error_code, collisions, FALSE)
      \/ Return(FALSE, HMAP_ERROR_CODE_LOCKED)
      \/ Return(FALSE, HMAP_ERROR_CODE_KEY_MISMATCH)
  BY DEF hmap_set, Refused
<1>7. HMAP_ERROR_CODE_LOCKED # HMAP_ERROR_CODE_OK /\ HMAP_ERROR_CODE_KEY_MISMATCH # HMAP_ERROR_CODE_OK
  BY Codes
<1> HIDE DEF j, b, e
<1>8. \/ StoreColliding(j, k, v) /\ (b.complex \/ b.chain # << >>)
      \/ b.chain = << >> /\ Stored(j, Simple(e), last_error_code, collisions, FALSE)
      \/ buckets' = buckets /\ capacity' = capacity /\ last_error_code' # HMAP_ERROR_CODE_OK
  BY <1>3, <1>6, <1>7
<1> QED BY <1>2, <1>4, <1>5, <1>8 DEF j, b, e

(* An entry that a rehash meets is good, and so is what it makes of it.    *)
LEMMA RehashKeepsGood ==
  ASSUME TypeOK, NEW S, GoodTable(buckets, S), GoodTable(new_buckets, S), RehashEntry
  PROVE  GoodTable(new_buckets', S)
<1> DEFINE old == buckets[at_bucket]
           e   == old.chain[at_node]
           j   == Index(e.key, new_cap)
           nb  == new_buckets[j]
<1>1. /\ pc = "rehash" /\ at_bucket < capacity /\ at_node <= Len(old.chain)
      /\ Undefined \/ hmap_rehash_complex(j, e) \/ hmap_rehash_simple(j, e)
  BY DEF RehashEntry
<1>2. /\ capacity \in Nat \ {0} /\ new_cap \in Nat \ {0}
      /\ buckets \in [0..(capacity - 1) -> Bucket]
      /\ new_buckets \in [0..(new_cap - 1) -> Bucket]
      /\ at_bucket \in 0..(capacity - 1)
      /\ at_node \in Nat \ {0}
  BY <1>1 DEF TypeOK
<1>3. e \in Entry /\ GoodEntry(e, S)
  <2>1. old \in Bucket /\ GoodChain(old.chain, S)
    BY <1>2 DEF GoodTable
  <2> HIDE DEF old
  <2>2. /\ Len(old.chain) \in Nat /\ DOMAIN old.chain = 1..Len(old.chain)
        /\ \A n \in 1..Len(old.chain) : old.chain[n] \in Entry
    BY <2>1, BucketChain
  <2>3. at_node \in 1..Len(old.chain)
    BY <1>1, <1>2, <2>2
  <2> QED BY <2>1, <2>2, <2>3 DEF GoodChain
<1>4. e.key \in Keys /\ e.key \in S /\ e.val \in Vals /\ e.val # NULL
  <2> HIDE DEF e
  <2> QED BY <1>3 DEF Entry, Vals, GoodEntry
<1>5. nb \in Bucket /\ j \in DOMAIN new_buckets /\ GoodChain(nb.chain, S)
  <2>1. nb \in Bucket /\ j \in DOMAIN new_buckets
    BY <1>2, <1>4, IndexInRange
  <2> QED BY <2>1 DEF GoodTable
<1> HIDE DEF e, j, nb
<1>6. CASE RehashColliding(j, e) /\ (nb.complex \/ nb.chain # << >>)
  <2>1. PICK o \in hmap_complex_key_set_value(nb, e.key, e.val) :
          new_buckets' = [new_buckets EXCEPT ![j] = o.bucket]
    BY <1>6 DEF RehashColliding, RehashPut, nb
  <2>2. GoodChain(o.bucket.chain, S)
    BY <1>4, <1>5, <1>6, GoodOutcome
  <2> QED BY <2>1, <2>2, GoodReplaced
<1>7. CASE new_buckets' = [new_buckets EXCEPT ![j] = Simple(e)]
  <2>1. GoodChain(Simple(e).chain, S)
    BY <1>3 DEF Simple, GoodChain
  <2> QED BY <1>7, <2>1, GoodReplaced
<1>8. CASE new_buckets' = [new_buckets EXCEPT ![j] = nb]
  BY <1>5, <1>8, GoodReplaced
<1>9. CASE Undefined
  BY <1>9 DEF Undefined, rehash
<1> QED BY <1>1, <1>6, <1>7, <1>8, <1>9
        DEF hmap_rehash_complex, hmap_rehash_simple, RehashPut, nb
-----------------------------------------------------------------------------
LEMMA GoodMisses ==
  ASSUME TypeOK, NEW S, GoodTable(buckets, S), NEW k \in Keys, \A j \in S : ~SameKey(j, k)
  PROVE  Misses(ChainOf(k), k) /\ Found(k) = {}
<1>1. Index(k, capacity) \in DOMAIN buckets
  BY IndexInRange DEF TypeOK
<1>2. Misses(ChainOf(k), k)
  BY <1>1 DEF ChainOf, GoodTable, GoodChain, GoodEntry, Misses, Stops
<1> QED BY <1>2, FoundIsFoundIn, FoundNowhere

(* The line at hand is not in the map before it is stored.                 *)
LEMMA LineIsNew ==
  ASSUME TypeOK, MapInv, i \in 1..Len(Lines)
  PROVE  Misses(ChainOf(Line), Line) /\ Found(Line) = {}
<1>1. Line \in Keys /\ \A j \in Before(i) : ~SameKey(j, Line)
  BY LineFacts, BeforeGrows DEF Line
<1> QED BY <1>1, GoodMisses DEF MapInv

LEMMA StartIsGood ==
  ASSUME NEW S, StartsEmpty'
  PROVE  pc' = "rehash" => GoodTable(new_buckets', S)
BY DEF StartsEmpty, EmptyTable, EmptyBucket, GoodTable, GoodChain

LEMMA StoreAnswers ==
  ASSUME TypeOK, i \in 1..Len(Lines), MapInv, capacity' = capacity,
         last_error_code = HMAP_ERROR_CODE_OK, ~lost,
         NEW b2, b2.chain = Append(ChainOf(Line), NewEntry(Line, Line)),
         buckets' = [buckets EXCEPT ![Index(Line, capacity)] = b2],
         NEW m \in 1..i
  PROVE  Found(Lines[m])' = {<<Lines[m], TRUE>>}
<1> DEFINE j     == Index(Line, capacity)
           chain == ChainOf(Line)
           e     == NewEntry(Line, Line)
           k     == Lines[m]
<1>1. /\ Line \in Keys /\ Line \in Vals /\ k \in Keys
      /\ j \in 0..(capacity - 1) /\ buckets \in [0..(capacity - 1) -> Bucket]
  <2>1. Line \in Keys /\ Line \in Vals
    BY LineFacts DEF Line, Vals
  <2>2. m \in 1..Len(Lines)
    BY LineFacts
  <2> QED BY <2>1, <2>2, LineFacts, IndexInRange DEF TypeOK
<1>2. chain \in Seq(Entry) /\ e \in Entry /\ chain = buckets[j].chain
  BY <1>1, BucketChain, NewEntryType DEF ChainOf
<1>3. e.val = Line /\ e.live = TRUE /\ e.key = Line
  BY DEF NewEntry
<1>4. CASE m = i
  <2>1. Misses(chain, Line)
    BY LineIsNew
  <2>2. Stops(e, Line)
    BY <1>3 DEF Stops, SameKey
  <2>3. k = Line
    BY <1>4 DEF Line
  <2> HIDE DEF e, chain, k
  <2>4. FoundIn(Append(chain, e), k) = {<<k, TRUE>>}
    <3>1. FoundIn(Append(chain, e), k) =
            IF Misses(chain, k) THEN IF Stops(e, k) THEN {<<e.val, e.live>>} ELSE {}
                                ELSE FoundIn(chain, k)
      BY <1>2, FoundAppended
    <3>2. FoundIn(Append(chain, e), k) = {<<e.val, e.live>>}
      BY <2>1, <2>2, <2>3, <3>1
    <3>3. e.val = k /\ e.live = TRUE
      BY <1>3, <2>3
    <3> QED BY <3>2, <3>3
  <2>5. buckets'[Index(k, capacity')].chain = Append(chain, e)
    BY <1>1, <2>3 DEF chain, e
  <2>6. Found(k)' = FoundIn(buckets'[Index(k, capacity')].chain, k)
    BY FoundIsFoundIn
  <2> QED BY <2>4, <2>5, <2>6 DEF k
<1>5. CASE m # i
  <2>0. m \in 1..(i - 1)
    BY <1>5, LineFacts
  <2>1. Found(k) = {<<k, TRUE>>}
    BY <2>0 DEF MapInv, Answers
  <2>2. SUFFICES ASSUME Found(k)' # Found(k) PROVE FALSE
    BY <2>1
  <2> HIDE DEF e, chain, k, j
  <2>3. Found(k) = FoundIn(chain, k) /\ Found(k)' = FoundIn(Append(chain, e), k)
    BY <1>1, <1>2, <2>2, OneBucketChanges DEF j, chain, e
  <2>4. FoundIn(chain, k) = {}
    BY <1>1, <1>2, <2>2, <2>3, StoreAppended DEF e
  <2> QED BY <2>1, <2>3, <2>4
<1> QED BY <1>4, <1>5

LEMMA SetKeepsMap ==
  ASSUME IInv, MapInv, i \in 1..Len(Lines), hmap_set(Line, Line, FALSE), i' = i + 1
  PROVE  MapInv'
<1>1. /\ TypeOK
      /\ Before(i) \subseteq Before(i') /\ Line \in Before(i')
      /\ Line \in Keys /\ Line \in Values /\ Line # NULL
      /\ GoodTable(buckets, Before(i))
  BY LineFacts, BeforeGrows DEF Line, IInv, MapInv
<1>2. /\ capacity' = capacity
      /\ GoodTable(buckets', Before(i'))
      /\ last_error_code' = HMAP_ERROR_CODE_OK /\ ~lost' =>
           /\ last_error_code = HMAP_ERROR_CODE_OK /\ ~lost
           /\ \E b2 : /\ b2.chain = Append(ChainOf(Line), NewEntry(Line, Line))
                      /\ buckets' = [buckets EXCEPT ![Index(Line, capacity)] = b2]
  <2> DEFINE S == Before(i)
             T == Before(i')
  <2>1. TypeOK /\ S \subseteq T /\ GoodTable(buckets, S) /\ Line \in T /\ Line \in Keys
    BY <1>1
  <2>2. Line \in Values /\ Line # NULL
    BY <1>1
  <2> HIDE DEF S, T
  <2>3. /\ capacity' = capacity
        /\ GoodTable(buckets', T)
        /\ last_error_code' = HMAP_ERROR_CODE_OK /\ ~lost' =>
             /\ last_error_code = HMAP_ERROR_CODE_OK /\ ~lost
             /\ \E b2 : /\ b2.chain = Append(ChainOf(Line), NewEntry(Line, Line))
                        /\ buckets' = [buckets EXCEPT ![Index(Line, capacity)] = b2]
    BY <2>1, <2>2, StoreOutcome
  <2> QED BY <2>3 DEF T
<1>3. pc' = "rehash" => GoodTable(new_buckets', Before(i'))
  <2>1. pc = "idle" /\ Next
    BY <1>1 DEF hmap_set, Next, Call
  <2>2. StartsEmpty' \/ UNCHANGED vars
    BY <2>1, OtherStepsStart DEF RehashEntry, RehashNextBucket
  <2>3. UNCHANGED vars => pc' # "rehash"
    BY <2>1 DEF vars
  <2> QED BY <2>2, <2>3, StartIsGood
<1>4. ASSUME last_error_code' = HMAP_ERROR_CODE_OK, ~lost', NEW m \in 1..(i' - 1)
      PROVE  Found(Lines[m])' = {<<Lines[m], TRUE>>}
  <2>1. m \in 1..i
    BY LineFacts
  <2>2. /\ last_error_code = HMAP_ERROR_CODE_OK /\ ~lost /\ capacity' = capacity
        /\ \E b2 : /\ b2.chain = Append(ChainOf(Line), NewEntry(Line, Line))
                   /\ buckets' = [buckets EXCEPT ![Index(Line, capacity)] = b2]
    BY <1>2, <1>4
  <2>3. TypeOK
    BY <1>1
  <2> QED BY <2>1, <2>2, <2>3, StoreAnswers
<1>5. Answers'
  BY <1>4 DEF Answers
<1> QED BY <1>2, <1>3, <1>5 DEF MapInv

(* What leaves the table and the lines as they are.                        *)
LEMMA QuietKeepsMap ==
  ASSUME MapInv, UNCHANGED <<buckets, capacity, i>>,
         last_error_code' = HMAP_ERROR_CODE_OK => last_error_code = HMAP_ERROR_CODE_OK,
         ~lost' => ~lost,
         pc' = "rehash" => GoodTable(new_buckets', Before(i))
  PROVE  MapInv'
<1>1. \A m : Found(Lines[m])' = Found(Lines[m])
  <2>1. ASSUME NEW k PROVE Found(k)' = Found(k)
    BY SameTableSameAnswers
  <2> QED BY <2>1
<1>2. Answers'
  BY <1>1 DEF MapInv, Answers
<1> QED BY <1>2 DEF MapInv

LEMMA RunningKeepsMap ==
  ASSUME IInv, AnswersInv, MapInv, i \in 1..(Len(Lines) + 1), Running, i' = i
  PROVE  MapInv'
<1> DEFINE S == Before(i)
<1>1. /\ TypeOK /\ [Next]_vars
      /\ GoodTable(buckets, S)
      /\ pc = "rehash" => GoodTable(new_buckets, S)
  BY DEF IInv, MapInv, Next
<1>2. NoNull
  BY <1>1 DEF NoNull, GoodTable, GoodChain, GoodEntry
<1>3. last_error_code' = HMAP_ERROR_CODE_OK => last_error_code = HMAP_ERROR_CODE_OK
  BY <1>1, NextKeepsError
<1>4. CASE RehashEntry
  <2>1. /\ UNCHANGED <<buckets, capacity>> /\ (~lost' => ~lost)
    <3>1. ASSUME NEW j, NEW b, NEW err, NEW coll, NEW gone, RehashPut(j, b, err, coll, gone)
          PROVE  UNCHANGED <<buckets, capacity>> /\ (~lost' => ~lost)
      BY <3>1 DEF RehashPut
    <3>2. Undefined => UNCHANGED <<buckets, capacity>> /\ (~lost' => ~lost)
      BY DEF Undefined
    <3> QED BY <1>4, <3>1, <3>2 DEF RehashEntry, hmap_rehash_complex, hmap_rehash_simple,
                                    RehashColliding
  <2>2. pc = "rehash"
    BY <1>4 DEF RehashEntry
  <2>3. GoodTable(new_buckets', S)
    BY <1>1, <1>4, <2>2, RehashKeepsGood
  <2> QED BY <1>3, <2>1, <2>3, QuietKeepsMap
<1>5. CASE RehashNextBucket \/ ResizeBackOff \/ FinishCall
  <2>1. /\ UNCHANGED <<buckets, capacity, lost>>
        /\ pc' = "rehash" => pc = "rehash" /\ UNCHANGED new_buckets
    BY <1>5 DEF RehashNextBucket, ResizeBackOff, FinishCall
  <2> QED BY <1>1, <1>3, <2>1, QuietKeepsMap
<1>6. CASE ResizeSwap
  <2>1. pc = "rehash" /\ buckets' = new_buckets /\ lost' = lost
    BY <1>6 DEF ResizeSwap
  <2>2. pc' = "rehash" => GoodTable(new_buckets', S)
    <3>1. StartsEmpty'
      BY <1>6, UpdateLoadStarts DEF ResizeSwap
    <3> QED BY <3>1, StartIsGood
  <2>3. ASSUME NEW k \in Keys, ~lost PROVE Found(k)' = Found(k)
    BY <1>1, <1>2, <2>1, <2>3, ResizeStepKeepsAnswers
  <2>4. \A m \in 1..(i - 1) : Lines[m] \in Keys
    BY LineFacts
  <2>5. Answers'
    BY <1>3, <2>1, <2>3, <2>4 DEF Answers, MapInv
  <2> QED BY <1>1, <2>1, <2>2, <2>5 DEF MapInv
<1> QED BY <1>4, <1>5, <1>6 DEF Running

LEMMA GetKeepsMap ==
  ASSUME MapInv, NEW k \in Keys, hmap_get(k), i' = i
  PROVE  MapInv'
<1>1. UNCHANGED <<buckets, capacity, lost>> /\ pc' # "rehash"
  BY DEF hmap_get, Refused, Return, Undefined
<1>2. last_error_code' = HMAP_ERROR_CODE_OK => last_error_code = HMAP_ERROR_CODE_OK
  BY GetKeepsError
<1> QED BY <1>1, <1>2, QuietKeepsMap

(* A look-up of a line that was stored.                                    *)
LEMMA GetFinds ==
  ASSUME IInv, MapInv, last_error_code = HMAP_ERROR_CODE_OK, ~lost,
         NEW m \in 1..(i - 1), hmap_get(Lines[m])
  PROVE  ret' = Lines[m] /\ pc' = "idle"
<1> DEFINE k == Lines[m]
           chain == buckets[Index(k, capacity)].chain
<1>1. pc = "idle" /\ ~locked
  BY DEF hmap_get, IInv, LockOK, LockedOnlyAfterError
<1>2. FoundIn(chain, k) = {<<k, TRUE>>}
  BY FoundIsFoundIn DEF MapInv, Answers, ChainOf
<1> HIDE DEF k
<1>3. ~Misses(chain, k)
  BY <1>2, FoundNowhere
<1>4. PICK n \in DOMAIN chain :
        /\ StopsAt(chain, k, n)
        /\ IF chain[n].live THEN Return(chain[n].val, last_error_code) ELSE Undefined
  BY <1>1, <1>3 DEF hmap_get, Refused, k
<1>5. <<chain[n].val, chain[n].live>> \in FoundIn(chain, k)
  BY <1>4 DEF FoundIn
<1>6. <<chain[n].val, chain[n].live>> = <<k, TRUE>>
  BY <1>2, <1>5
<1>7. chain[n].val = k /\ chain[n].live = TRUE
  BY <1>6
<1> QED BY <1>1, <1>4, <1>7 DEF Return, k

LEMMA FreeFinds ==
  ASSUME TypeOK, MapInv, hmap_free
  PROVE  pc' = "freed"
BY DEF MapInv, GoodTable, GoodChain, GoodEntry, hmap_free
-----------------------------------------------------------------------------
LEMMA LeastOf ==
  ASSUME NEW S, S \subseteq Nat, S # {}
  PROVE  \E m \in S : \A k \in S : m <= k
<1>1. PICK x \in S : \A y \in S : ~(<<y, x>> \in OpToRel(<, Nat))
  BY NatLessThanWellFounded, WFMin
<1>2. ASSUME NEW k \in S PROVE x <= k
  <2>1. <<k, x>> \notin OpToRel(<, Nat)
    BY <1>1
  <2>2. k \in Nat /\ x \in Nat
    OBVIOUS
  <2>3. ~(k < x)
    BY <2>1, <2>2 DEF OpToRel
  <2> QED BY <2>2, <2>3
<1> QED BY <1>2

LEMMA NodesCount ==
  /\ Cardinality(Nodes) \in Nat /\ Len(Lines) <= Cardinality(Nodes)
  /\ List!Cardinality(Nodes) = Cardinality(Nodes)
<1>1. List!Cardinality(Nodes) = Cardinality(Nodes)
  BY Zenon DEF List!Cardinality, Cardinality
<1> QED BY <1>1, GuestAssumption, FS_CardinalityType

(* The equation that defines List!Nth, which is a function that satisfies  *)
(* it if there is one.                                                     *)
FollowsLinks(w, n, f, nxt) ==
  w = [k \in 0..n |-> IF k = 0 THEN f ELSE IF w[k - 1] = NULL THEN NULL ELSE nxt[w[k - 1]]]

LEMMA NthFollowsLinks ==
  ASSUME NEW f, NEW nxt, NEW w, FollowsLinks(w, List!Cardinality(Nodes), f, nxt)
  PROVE  FollowsLinks(List!Nth(f, nxt), List!Cardinality(Nodes), f, nxt)
BY Zenon DEF FollowsLinks, List!Nth

(* The walk of the nodes goes along the row.                               *)
GoesAlong(w, c, p, f) ==
  /\ \A k \in 0..(p - 1) : w[k] = c[k]
  /\ w[p] = IF p = 1 THEN f ELSE NULL
  /\ DOMAIN w = 0..Cardinality(Nodes)

LEMMA NthAlongRow ==
  ASSUME NEW p \in 1..Cardinality(Nodes), NEW c, NEW f, NEW l, NEW nxt, NEW dat,
         NEW A, A \subseteq Nodes, NEW app, IsRow(c, p, f, l, nxt, dat, A, app)
  PROVE  GoesAlong(List!Nth(f, nxt), c, p, f)
<1> DEFINE N == Cardinality(Nodes)
           w == List!Nth(f, nxt)
           D == {k \in 0..(p - 1) : w[k] # c[k]}
<1>1. w = [k \in 0..N |-> IF k = 0 THEN f ELSE IF w[k - 1] = NULL THEN NULL ELSE nxt[w[k - 1]]]
  <2> DEFINE g == [k \in 0..N |-> IF p = 1 THEN f ELSE IF k < p THEN c[k] ELSE NULL]
  <2>1. FollowsLinks(g, N, f, nxt)
    <3> HIDE DEF N
    <3>1. N \in Nat /\ p \in Nat /\ p >= 1
      BY NodesCount DEF N
    <3>2. f = c[0] /\ f # NULL /\ (p = 1 => nxt[f] = f)
      BY <3>1, GuestAssumption DEF IsRow
    <3>3. ASSUME NEW k \in 0..N
          PROVE  g[k] = IF k = 0 THEN f ELSE IF g[k - 1] = NULL THEN NULL ELSE nxt[g[k - 1]]
      <4>1. CASE k = 0 \/ p = 1
        <5>1. k # 0 => k - 1 \in 0..N
          BY <3>1
        <5> QED BY <3>1, <3>2, <4>1, <5>1
      <4>2. CASE k # 0 /\ p # 1
        <5>1. k - 1 \in 0..N /\ (k - 1) + 1 = k
          BY <3>1, <4>2
        <5>2. /\ g[k] = IF k < p THEN c[k] ELSE NULL
              /\ g[k - 1] = IF k - 1 < p THEN c[k - 1] ELSE NULL
          BY <4>2, <5>1
        <5>3. k - 1 < p => c[k - 1] # NULL
          <6>1. k - 1 < p => k - 1 \in 0..(p - 1)
            BY <3>1, <5>1
          <6> QED BY <6>1, GuestAssumption DEF IsRow
        <5>4. k < p => nxt[c[k - 1]] = c[k]
          <6>1. k < p => k - 1 \in 0..(p - 2)
            BY <3>1, <5>1
          <6> QED BY <5>1, <6>1 DEF IsRow
        <5>5. k = p => nxt[c[k - 1]] = NULL
          BY <3>1, <4>2 DEF IsRow
        <5>6. k < p \/ k = p \/ ~(k - 1 < p)
          BY <3>1
        <5>7. k < p => k - 1 < p
          BY <3>1
        <5>8. k = p => k - 1 < p /\ ~(k < p)
          BY <3>1
        <5>9. ~(k - 1 < p) => ~(k < p)
          BY <3>1
        <5> HIDE DEF g
        <5> QED BY <4>2, <5>2, <5>3, <5>4, <5>5, <5>6, <5>7, <5>8, <5>9
      <4> QED BY <4>1, <4>2
    <3> QED BY <3>3 DEF FollowsLinks
  <2> HIDE DEF g
  <2>2. FollowsLinks(w, N, f, nxt)
    BY <2>1, NodesCount, NthFollowsLinks
  <2> HIDE DEF w, N
  <2> QED BY <2>2 DEF FollowsLinks
<1>2. N \in Nat /\ p \in Nat /\ p >= 1 /\ p <= N
  BY NodesCount
<1> HIDE DEF N, w
<1>3. /\ w[0] = f
      /\ \A k \in 1..N : w[k] = IF w[k - 1] = NULL THEN NULL ELSE nxt[w[k - 1]]
  <2>1. \A k \in 1..N : k \in 0..N /\ k # 0
    BY <1>2
  <2>2. 0 \in 0..N
    BY <1>2
  <2> QED BY <1>1, <2>1, <2>2
<1>4. \A k \in 0..(p - 1) : c[k] # NULL
  BY GuestAssumption DEF IsRow
<1>5. D = {}
  <2>1. SUFFICES ASSUME D # {} PROVE FALSE
    OBVIOUS
  <2>2. PICK m \in D : \A k \in D : m <= k
    <3>1. D \subseteq Nat
      BY <1>2
    <3> QED BY <2>1, <3>1, LeastOf
  <2>3. m # 0
    BY <1>2, <1>3 DEF IsRow
  <2>4. m - 1 \in 0..(p - 2) /\ m - 1 \in 0..(p - 1) /\ m \in 1..N /\ (m - 1) + 1 = m
    BY <1>2, <2>3
  <2>5. w[m - 1] = c[m - 1]
    <3>1. ~(m <= m - 1)
      BY <2>4
    <3> QED BY <2>2, <2>4, <3>1
  <2>6. nxt[c[m - 1]] = c[m]
    BY <2>4 DEF IsRow
  <2> QED BY <1>3, <1>4, <2>4, <2>5, <2>6
<1>6. w[p] = IF p = 1 THEN f ELSE NULL
  <2>1. p - 1 \in 0..(p - 1) /\ p \in 1..N
    BY <1>2
  <2>2. w[p - 1] = c[p - 1]
    BY <1>5, <2>1
  <2> QED BY <1>2, <1>3, <1>4, <2>1, <2>2 DEF IsRow
<1>7. DOMAIN w = 0..N
  BY <1>1
<1> HIDE DEF D
<1>8. \A k \in 0..(p - 1) : w[k] = c[k]
  BY <1>5 DEF D
<1>9. GoesAlong(w, c, p, f)
  BY <1>6, <1>7, <1>8 DEF GoesAlong, N
<1> QED BY <1>9 DEF w

RowWith(c, p, n) == [k \in 0..p |-> IF k < p THEN c[k] ELSE n]

FirstOf(p, f, n) == IF p = 0 THEN n ELSE f

(* An append puts its node at the end of the row, and links it from the    *)
(* one before it, from itself if it is the first.                          *)
LEMMA RowAppended ==
  ASSUME NEW p \in Nat, NEW app \in Seq(Keys), Len(app) = p,
         NEW c, NEW f, NEW l, NEW A, A \subseteq Nodes,
         NEW nxt \in [Nodes -> Nodes \cup {NULL}], NEW dat \in [Nodes -> Keys],
         IsRow(c, p, f, l, nxt, dat, A, app),
         NEW n \in Nodes \ A, NEW d \in Keys
  PROVE  /\ RowWith(c, p, n) \in [0..p -> Nodes]
         /\ IsRow(RowWith(c, p, n), p + 1, FirstOf(p, f, n), n,
                  [[nxt EXCEPT ![n] = NULL] EXCEPT ![FirstOf(p, l, n)] = n],
                  [dat EXCEPT ![n] = d], A \cup {n}, Append(app, d))
<1> DEFINE c2   == RowWith(c, p, n)
           f2   == FirstOf(p, f, n)
           prev == FirstOf(p, l, n)
           nxt2 == [[nxt EXCEPT ![n] = NULL] EXCEPT ![prev] = n]
           dat2 == [dat EXCEPT ![n] = d]
           app2 == Append(app, d)
<1>1. /\ \A k \in 0..(p - 1) : c2[k] = c[k] /\ c[k] \in A /\ c[k] \in Nodes /\ c[k] # n
      /\ c2[p] = n
      /\ \A k \in 0..p : k = p \/ k \in 0..(p - 1)
      /\ DOMAIN c2 = 0..p
  BY DEF IsRow, RowWith
<1>0. f2 = (IF p = 0 THEN n ELSE f) /\ prev = (IF p = 0 THEN n ELSE l)
  BY DEF FirstOf
<1> HIDE DEF c2, f2, prev
<1>2. c2 \in [0..p -> Nodes]
  BY <1>1
<1>3. /\ \A k \in 0..(p - 1) : app2[k + 1] = app[k + 1]
      /\ app2[p + 1] = d
  <2>1. \A k \in 0..(p - 1) : k + 1 \in 1..p
    OBVIOUS
  <2> QED BY <2>1, AppendProperties
<1>4. prev \in Nodes /\ (p # 0 => prev = c[p - 1] /\ p - 1 \in 0..(p - 1))
  <2>1. p # 0 => p - 1 \in 0..(p - 1)
    OBVIOUS
  <2>2. p # 0 => prev = c[p - 1]
    BY <1>0 DEF IsRow
  <2>3. p # 0 => prev \in Nodes
    BY <1>1, <2>1, <2>2
  <2> QED BY <1>0, <2>1, <2>2, <2>3
<1>5. /\ nxt2[prev] = n
      /\ \A m \in Nodes : m # prev => nxt2[m] = IF m = n THEN NULL ELSE nxt[m]
      /\ dat2[n] = d
      /\ \A m \in Nodes : m # n => dat2[m] = dat[m]
  BY <1>4
<1> HIDE DEF nxt2, dat2, app2
<1>6. \A k \in 0..p : c2[k] \in A \cup {n} /\ dat2[c2[k]] = app2[k + 1]
  <2>1. \A k \in 0..(p - 1) : dat[c[k]] = app[k + 1]
    BY DEF IsRow
  <2> QED BY <1>1, <1>3, <1>5, <2>1
<1>7. \A a \in A \cup {n} : \E k \in 0..p : a = c2[k]
  <2>1. \A a \in A : \E k \in 0..(p - 1) : a = c[k]
    BY DEF IsRow
  <2>2. \A k \in 0..(p - 1) : k \in 0..p
    OBVIOUS
  <2>3. p \in 0..p
    OBVIOUS
  <2> QED BY <1>1, <2>1, <2>2, <2>3
<1>8. \A j, k \in 0..p : c2[j] = c2[k] => j = k
  <2>1. \A j, k \in 0..(p - 1) : c[j] = c[k] => j = k
    BY DEF IsRow
  <2>2. ASSUME NEW j \in 0..p, NEW k \in 0..p, c2[j] = c2[k], j # k PROVE FALSE
    <3>1. CASE j = p
      BY <1>1, <2>2, <3>1
    <3>2. CASE k = p
      BY <1>1, <2>2, <3>2
    <3>3. CASE j \in 0..(p - 1) /\ k \in 0..(p - 1)
      BY <1>1, <2>1, <2>2, <3>3
    <3> QED BY <1>1, <3>1, <3>2, <3>3
  <2> QED BY <2>2
<1>9. \A k \in 0..(p - 1) : nxt2[c2[k]] = c2[k + 1]
  <2>1. ASSUME NEW k \in 0..(p - 1) PROVE nxt2[c2[k]] = c2[k + 1]
    <3>1. CASE k = p - 1
      BY <1>1, <1>4, <1>5, <3>1
    <3>2. CASE k # p - 1
      <4>1. k \in 0..(p - 2) /\ k + 1 \in 0..(p - 1) /\ p # 0
        BY <3>2
      <4>2. nxt[c[k]] = c[k + 1] /\ c[k] # c[p - 1]
        BY <1>4, <3>2, <4>1 DEF IsRow
      <4> QED BY <1>1, <1>4, <1>5, <4>1, <4>2
    <3> QED BY <3>1, <3>2
  <2> QED BY <2>1
<1>10. f2 = c2[0]
  <2>1. p # 0 => 0 \in 0..(p - 1) /\ f = c[0]
    BY DEF IsRow
  <2> QED BY <1>0, <1>1, <2>1
<1>11. nxt2[c2[p]] = IF p + 1 = 1 THEN f2 ELSE NULL
  <2>1. p # 0 => prev # n
    BY <1>1, <1>4
  <2> QED BY <1>0, <1>1, <1>4, <1>5, <2>1
<1>12. (p + 1) - 1 = p /\ (p + 1) - 2 = p - 1 /\ p + 1 # 0
  OBVIOUS
<1> QED BY <1>1, <1>2, <1>6, <1>7, <1>8, <1>9, <1>10, <1>11, <1>12
        DEF IsRow, c2, f2, prev, nxt2, dat2, app2

(* A line that is not in the list yet joins it.                            *)
LEMMA HistoryAppended ==
  ASSUME NEW n \in 1..Len(Lines), NEW app, IsHistory(app, n - 1)
  PROVE  IsHistory(Append(app, Lines[n]), n) /\ IsHistory(app, n)
<1> DEFINE d == Lines[n]
           p == Len(app)
           app2 == Append(app, d)
<1>1. /\ n \in Nat /\ d \in Keys
      /\ \A x \in 1..(n - 1) : x \in 1..n /\ Lines[x] # d
  <2>1. ASSUME NEW x \in 1..(n - 1) PROVE x \in 1..n /\ x \in 1..Len(Lines) /\ x # n
    BY LineFacts
  <2>2. ASSUME NEW x \in 1..(n - 1) PROVE Lines[x] # d
    BY <2>1, LinesAreTold DEF SameKey
  <2> QED BY <2>1, <2>2, LineFacts
<1>2. /\ app \in Seq(Keys) /\ p \in Nat /\ DOMAIN app = 1..p /\ p <= n - 1
      /\ \A m \in 1..p : \E x \in 1..(n - 1) : app[m] = Lines[x]
      /\ \A k, m \in 1..p : app[k] = app[m] => k = m
  <2>1. app \in Seq(Keys) /\ p <= n - 1
    BY DEF IsHistory
  <2>2. p \in Nat /\ DOMAIN app = 1..p
    BY <2>1, LenProperties
  <2> HIDE DEF p
  <2> QED BY <2>1, <2>2 DEF IsHistory
<1>3. /\ app2 \in Seq(Keys) /\ Len(app2) = p + 1 /\ DOMAIN app2 = 1..(p + 1)
      /\ \A m \in 1..p : app2[m] = app[m]
      /\ app2[p + 1] = d
  BY <1>1, <1>2, AppendProperties, LenProperties
<1> HIDE DEF app2, p
<1>4. \A m \in 1..(p + 1) : m \in 1..p \/ m = p + 1
  BY <1>2
<1>5. n \in 1..n
  BY <1>1
<1>6. \A m \in 1..(p + 1) : \E x \in 1..n : app2[m] = Lines[x]
  <2>1. ASSUME NEW m \in 1..p PROVE \E x \in 1..n : app2[m] = Lines[x]
    <3>1. PICK x \in 1..(n - 1) : app[m] = Lines[x]
      BY <1>2
    <3> QED BY <1>1, <1>3, <3>1
  <2> QED BY <1>3, <1>4, <1>5, <2>1 DEF d
<1>7. \A k, m \in 1..(p + 1) : app2[k] = app2[m] => k = m
  <2>1. \A m \in 1..p : app2[m] # d
    BY <1>1, <1>2, <1>3
  <2> QED BY <1>2, <1>3, <1>4, <2>1
<1>8. p + 1 <= n /\ p <= n
  BY <1>1, <1>2
<1> QED BY <1>1, <1>2, <1>3, <1>6, <1>7, <1>8 DEF IsHistory, app2, p, d

LEMMA AppendKeepsList ==
  ASSUME GInv, AppendLine
  PROVE  ListInv'
<1> DEFINE p == Len(appended)
<1>1. /\ at = "append" /\ at' = "set" /\ i' = i
      /\ i \in 1..Len(Lines) /\ i \in Nat /\ Tried = i - 1 /\ Tried' = i
      /\ ~list_freed /\ ListInv /\ List!TypeOK
      /\ IsHistory(appended, i - 1)
  BY LineFacts DEF AppendLine, GInv, MainInv, ListInv, Tried, Storing
<1>2. /\ appended \in Seq(Keys) /\ p \in Nat /\ (appended = << >> <=> p = 0)
  BY <1>1, LenProperties, EmptySeq DEF IsHistory
<1>3. PICK c \in [0..(p - 1) -> Nodes] :
        IsRow(c, p, first, last, next, data, alloc, appended)
  BY <1>1 DEF ListInv
<1>4. /\ next \in [Nodes -> Nodes \cup {NULL}] /\ data \in [Nodes -> Keys] /\ alloc \subseteq Nodes
      /\ len = IF p = 0 THEN 0 ELSE p + 1
  BY <1>1, <1>2 DEF ListInv, List!TypeOK
<1>5. CASE List!AddFails /\ UNCHANGED appended
  <2>1. UNCHANGED <<next, data, alloc, first, last, len, list_freed, strayed>> /\ list_ret' = -1
    BY <1>5 DEF List!AddFails, List!list
  <2>2. List!TypeOK'
    BY <1>1, <2>1 DEF List!TypeOK
  <2>3. IsHistory(appended, i)
    BY <1>1, HistoryAppended
  <2> QED BY <1>1, <1>3, <1>4, <1>5, <2>1, <2>2, <2>3 DEF ListInv, Walking
<1>6. ASSUME NEW n \in Nodes, List!ll_append_node(n, Lines[i]), appended' = Append(appended, Lines[i])
      PROVE  ListInv'
  <2> DEFINE d    == Lines[i]
             f2   == FirstOf(p, first, n)
             prev == FirstOf(p, last, n)
             c2   == RowWith(c, p, n)
  <2>1. List!Initialised(n) = [first |-> f2, last |-> prev, len |-> IF p = 0 THEN 1 ELSE len]
    <3>1. p # 0 => first = c[0] /\ last = c[p - 1] /\ c[0] \in alloc /\ c[p - 1] \in alloc
      <4>1. p # 0 => 0 \in 0..(p - 1) /\ p - 1 \in 0..(p - 1)
        BY <1>2
      <4> QED BY <1>3, <4>1 DEF IsRow
    <3>2. p # 0 => first # NULL /\ last # NULL /\ len > 0
      BY <1>2, <1>4, <3>1, GuestAssumption
    <3>3. p = 0 => len = 0
      BY <1>4
    <3> QED BY <3>2, <3>3 DEF List!Initialised, FirstOf
  <2> HIDE DEF f2, prev
  <2>2. /\ n \in Nodes \ alloc
        /\ next' = [[next EXCEPT ![n] = NULL] EXCEPT ![prev] = n]
        /\ data' = [data EXCEPT ![n] = d]
        /\ alloc' = alloc \cup {n}
        /\ first' = f2 /\ last' = n
        /\ len' = (IF p = 0 THEN 1 ELSE len) + 1
        /\ list_ret' = (IF p = 0 THEN 1 ELSE len) + 1
        /\ UNCHANGED <<list_freed, strayed>>
    BY <1>6, <2>1 DEF List!ll_append_node, List!new_ll_node, List!Added, List!Fresh, List!AppendedLast
  <2>3. d \in Keys
    BY <1>1, LineFacts
  <2>4. /\ c2 \in [0..p -> Nodes]
        /\ IsRow(c2, p + 1, first', last', next', data', alloc', appended')
    <3>1. n \in Nodes \ alloc /\ p \in Nat /\ Len(appended) = p
      BY <1>2, <2>2
    <3> HIDE DEF p, d
    <3>4. /\ c2 \in [0..p -> Nodes]
          /\ IsRow(c2, p + 1, f2, n, [[next EXCEPT ![n] = NULL] EXCEPT ![prev] = n],
                   [data EXCEPT ![n] = d], alloc \cup {n}, Append(appended, d))
      BY <1>2, <1>3, <1>4, <2>3, <3>1, RowAppended DEF f2, prev
    <3> QED BY <1>6, <2>2, <3>4 DEF d
  <2>5. Len(appended') = p + 1 /\ appended' # << >>
    BY <1>2, <1>6, <2>3, AppendProperties, EmptySeq
  <2>6. len' = Len(appended') + 1 /\ len' \in Nat
    BY <1>2, <1>4, <2>2, <2>5
  <2>7. List!TypeOK'
    <3>1. /\ next' \in [Nodes -> Nodes \cup {NULL}] /\ data' \in [Nodes -> Keys]
          /\ alloc' \subseteq Nodes /\ first' \in Nodes \cup {NULL} /\ last' \in Nodes
      BY <1>1, <1>4, <2>2, <2>3 DEF f2, FirstOf, List!TypeOK
    <3>2. list_ret' \in Int /\ list_freed' \in BOOLEAN /\ strayed' \in BOOLEAN
      BY <1>1, <1>2, <1>4, <2>2 DEF List!TypeOK
    <3> QED BY <2>6, <3>1, <3>2 DEF List!TypeOK
  <2>8. IsHistory(appended', i)
    BY <1>1, <1>6, HistoryAppended
  <2>9. (p + 1) - 1 = p
    BY <1>2
  <2> HIDE DEF c2
  <2> QED BY <1>1, <2>2, <2>4, <2>5, <2>6, <2>7, <2>8, <2>9 DEF ListInv, Walking
<1> QED BY <1>5, <1>6 DEF AppendLine
-----------------------------------------------------------------------------
LEMMA CountOnly ==
  ASSUME NEW n \in 0..RefMod, n # RefMod
  PROVE  n % RefMod = n
BY GuestAssumption

(* The two calls on the followed buffer.                                   *)
LEMMA BorrowCounts ==
  ASSUME BufferInv, Buffer!buff_borrow
  PROVE  /\ ref_ct' = ref_ct + 1 /\ readers' = ref_ct'
         /\ Buffer!TypeOK' /\ ~lock' /\ allocated' /\ unmatched' = 0
<1>1. /\ readers \in 0..4 /\ readers < 4 /\ ref_ct = readers /\ ~lock /\ Buffer!TypeOK
  BY DEF BufferInv, Buffer!TypeOK, Buffer!buff_borrow
<1>2. /\ ref_ct' = (ref_ct + 1) % RefMod /\ readers' = readers + 1 /\ lease' = "data"
      /\ UNCHANGED <<lock, needs_sync, is_utf8, allocated, writer, unmatched, accepted>>
  BY <1>1 DEF Buffer!buff_borrow
<1>3. ref_ct + 1 \in 0..4 /\ ref_ct' = ref_ct + 1
  <2>1. ref_ct + 1 \in 0..RefMod /\ ref_ct + 1 # RefMod
    BY <1>1, GuestAssumption
  <2> QED BY <1>1, <1>2, <2>1, CountOnly
<1>4. ref_ct' \in 0..(RefMod - 1) /\ readers' \in 0..4 /\ readers' = ref_ct'
  BY <1>1, <1>2, <1>3, GuestAssumption
<1>5. Buffer!TypeOK'
  BY <1>1, <1>2, <1>4 DEF Buffer!TypeOK
<1> QED BY <1>1, <1>2, <1>3, <1>4, <1>5 DEF BufferInv

LEMMA ReturnCounts ==
  ASSUME BufferInv, Buffer!buff_return_n(2)
  PROVE  /\ ref_ct' = (IF ref_ct = 2 THEN 2 ELSE ref_ct - 2) /\ readers' = ref_ct'
         /\ Buffer!TypeOK' /\ ~lock' /\ allocated' /\ unmatched' = 0
<1>1. /\ readers \in 2..4 /\ ref_ct = readers /\ ~lock /\ Buffer!TypeOK
  BY DEF BufferInv, Buffer!TypeOK, Buffer!buff_return_n
<1>2. Buffer!CountWithout(2) = ref_ct - 2
  <2>1. ref_ct - 2 \in 0..RefMod /\ ref_ct - 2 # RefMod
    BY <1>1, GuestAssumption
  <2> QED BY <2>1, CountOnly DEF Buffer!CountWithout
<1>3. /\ \/ ref_ct - 2 = 0 /\ lease' = "false" /\ UNCHANGED <<ref_ct, readers>>
         \/ ref_ct - 2 # 0 /\ lease' = "true" /\ ref_ct' = ref_ct - 2 /\ readers' = readers - 2
      /\ UNCHANGED <<lock, needs_sync, is_utf8, allocated, writer, unmatched, accepted>>
  BY <1>2 DEF Buffer!buff_return_n
<1>4. ref_ct' = (IF ref_ct = 2 THEN 2 ELSE ref_ct - 2) /\ readers' = ref_ct'
  BY <1>1, <1>3
<1>5. ref_ct' \in 0..(RefMod - 1) /\ readers' \in 0..4
  BY <1>1, <1>3, GuestAssumption
<1>6. Buffer!TypeOK'
  BY <1>1, <1>3, <1>5 DEF Buffer!TypeOK
<1> QED BY <1>1, <1>3, <1>4, <1>6 DEF BufferInv

(* A call on the node's buffer that adds a lease.                          *)
LEMMA WalkVisits ==
  ASSUME NEW c, NEW p, NEW q, NEW nd, nd # NULL, NEW dat, NEW app, NEW line,
         NEW visit \in {0, 1}, NEW count \in Nat,
         IsWalk(c, p, q, nd, dat, app, line, visit, count)
  PROVE  IsWalk(c, p, q, nd, dat, app, line, visit + 1,
                IF dat[nd] = line THEN count + 1 ELSE count)
BY DEF IsWalk

LEMMA WalkIsOnRow ==
  ASSUME NEW p \in Nat, NEW c, NEW f, NEW l, NEW nxt, NEW dat, NEW A, NEW app,
         IsRow(c, p, f, l, nxt, dat, A, app),
         NEW q \in 0..p, NEW nd, NEW line, NEW visit, NEW count,
         IsWalk(c, p, q, nd, dat, app, line, visit, count), nd # NULL
  PROVE  nd \in A /\ \E m \in 1..p : dat[nd] = app[m]
<1> DEFINE k == IF p = 1 THEN 0 ELSE q
<1>1. k \in 0..(p - 1) /\ nd = c[k] /\ k + 1 \in 1..p
  BY DEF IsWalk
<1> QED BY <1>1 DEF IsRow

(* From a node to the next: its buffer, if it is the followed one, is left *)
(* with two leases.                                                        *)
LEMMA WalkGoesOn ==
  ASSUME NEW p \in Nat, NEW c, NEW f, NEW l, NEW nxt, NEW dat, NEW A, NEW app,
         IsRow(c, p, f, l, nxt, dat, A, app),
         \A m, n \in 1..p : app[m] = app[n] => m = n,
         NEW q \in 0..p, NEW nd, NEW line, NEW count \in Nat,
         IsWalk(c, p, q, nd, dat, app, line, 2, count)
  PROVE  \E r \in 0..p :
           IsWalk(c, p, r, nxt[nd], dat, app, line, 0,
                  IF dat[nd] = line THEN IF count = 2 THEN 2 ELSE count - 2 ELSE count)
<1> DEFINE k == IF p = 1 THEN 0 ELSE q
           count2 == IF dat[nd] = line THEN IF count = 2 THEN 2 ELSE count - 2 ELSE count
<1>1. /\ nd # NULL
      /\ nd = IF p = 1 THEN c[0] ELSE IF q < p THEN c[q] ELSE NULL
      /\ count = (IF WalkedBy(app, q, line) THEN 2 ELSE 0) + (IF dat[nd] = line THEN 2 ELSE 0)
  BY DEF IsWalk
<1>2. k \in 0..(p - 1) /\ nd = c[k] /\ k + 1 \in 1..p /\ k \in Nat
  BY <1>1
<1>3. dat[nd] = app[k + 1]
  BY <1>2 DEF IsRow
<1>4. CASE p = 1
  <2>1. k = 0 /\ f = c[0] /\ nxt[c[0]] = f /\ (q = 0 \/ q = 1)
    BY <1>4 DEF IsRow
  <2>2. WalkedBy(app, 1, line) <=> dat[nd] = line
    BY <1>3, <2>1 DEF WalkedBy
  <2>3. WalkedBy(app, 0, line) <=> FALSE
    BY DEF WalkedBy
  <2>4. count2 = IF WalkedBy(app, 1, line) THEN 2 ELSE 0
    BY <1>1, <2>1, <2>2, <2>3
  <2> HIDE DEF count2
  <2>5. IsWalk(c, p, 1, nxt[nd], dat, app, line, 0, count2)
    BY <1>2, <1>4, <2>1, <2>4 DEF IsWalk
  <2> QED BY <1>4, <2>5 DEF count2
<1>5. CASE p # 1
  <2>1. k = q /\ q \in 0..(p - 1) /\ q + 1 \in 0..p /\ q + 1 \in 1..p
    BY <1>2, <1>5
  <2>2. nxt[nd] = IF q + 1 < p THEN c[q + 1] ELSE NULL
    <3>1. CASE q + 1 < p
      <4>1. q \in 0..(p - 2)
        BY <2>1, <3>1
      <4> QED BY <1>2, <2>1, <3>1, <4>1 DEF IsRow
    <3>2. CASE ~(q + 1 < p)
      <4>1. q = p - 1 /\ p # 0
        BY <2>1, <3>2
      <4> QED BY <1>2, <1>5, <2>1, <3>2, <4>1 DEF IsRow
    <3> QED BY <3>1, <3>2
  <2>3. dat[nd] = line => ~WalkedBy(app, q, line)
    <3>1. \A m \in 1..q : m \in 1..p /\ m # q + 1
      BY <2>1
    <3> QED BY <1>3, <2>1, <3>1 DEF WalkedBy
  <2>4. WalkedBy(app, q + 1, line) <=> WalkedBy(app, q, line) \/ dat[nd] = line
    <3>1. \A m \in 1..(q + 1) : m \in 1..q \/ m = q + 1
      BY <2>1
    <3>2. \A m \in 1..q : m \in 1..(q + 1)
      BY <2>1
    <3>3. q + 1 \in 1..(q + 1)
      BY <2>1
    <3> QED BY <1>3, <2>1, <3>1, <3>2, <3>3 DEF WalkedBy
  <2>5. count2 = IF WalkedBy(app, q + 1, line) THEN 2 ELSE 0
    BY <1>1, <2>3, <2>4
  <2> HIDE DEF count2
  <2>6. IsWalk(c, p, q + 1, nxt[nd], dat, app, line, 0, count2)
    BY <1>5, <2>2, <2>5 DEF IsWalk
  <2> QED BY <2>1, <2>6 DEF count2
<1> QED BY <1>4, <1>5

(* The row and the place of a walk, whatever main does next.               *)
LEMMA RowOfList ==
  ASSUME GInv, ~list_freed
  PROVE  \E c \in [0..(Len(appended) - 1) -> Nodes] :
           /\ IsRow(c, Len(appended), first, last, next, data, alloc, appended)
           /\ at \in Walking => \E q \in 0..Len(appended) :
                IsWalk(c, Len(appended), q, node, data, appended, followed, Visit(at), ref_ct)
BY DEF GInv, ListInv

LEMMA GuestTypes ==
  ASSUME GInv
  PROVE  /\ i \in 1..(Len(Lines) + 1) /\ i \in Nat /\ Len(appended) \in Nat
         /\ appended \in Seq(Keys) /\ DOMAIN appended = 1..Len(appended)
         /\ IsHistory(appended, Tried) /\ List!TypeOK /\ Buffer!TypeOK /\ TypeOK
         /\ ref_ct \in Nat
         /\ at \in {"configure", "append", "set"} <=> i <= Len(Lines)
         /\ list_freed <=> at \in {"free", "done"}
<1>1. /\ IsHistory(appended, Tried) /\ List!TypeOK /\ Buffer!TypeOK /\ TypeOK
      /\ i \in 1..(Len(Lines) + 1)
      /\ at \in {"configure", "append", "set"} <=> i <= Len(Lines)
      /\ list_freed <=> at \in {"free", "done"}
  BY DEF GInv, ListInv, BufferInv, MainInv, IInv, Storing
<1>2. appended \in Seq(Keys)
  BY <1>1 DEF IsHistory
<1>3. i \in Nat
  BY <1>1, LineFacts
<1>4. ref_ct \in Nat
  BY <1>1, GuestAssumption DEF Buffer!TypeOK
<1> QED BY <1>1, <1>2, <1>3, <1>4, LenProperties

(* The node the walk is at is allocated and holds a line that was stored.  *)
LEMMA NodeHoldsLine ==
  ASSUME GInv, at \in Walking, node # NULL
  PROVE  node \in alloc /\ node \in Nodes /\ \E m \in 1..(i - 1) : data[node] = Lines[m]
<1> DEFINE p == Len(appended)
<1>1. ~list_freed /\ Tried = i - 1 /\ p \in Nat /\ IsHistory(appended, i - 1) /\ DOMAIN appended = 1..p
  BY GuestTypes DEF Walking, Tried
<1>2. PICK c \in [0..(p - 1) -> Nodes], q \in 0..p :
        /\ IsRow(c, p, first, last, next, data, alloc, appended)
        /\ IsWalk(c, p, q, node, data, appended, followed, Visit(at), ref_ct)
  BY <1>1, RowOfList
<1> HIDE DEF p
<1>3. node \in alloc /\ \E m \in 1..p : data[node] = appended[m]
  BY <1>1, <1>2, WalkIsOnRow
<1>4. alloc \subseteq Nodes
  BY GuestTypes DEF List!TypeOK
<1> QED BY <1>1, <1>3, <1>4 DEF IsHistory

(* What main does is what HashmapWriteOnce's client may do, and hmap_free. *)
LEMMA StepStoresOnce ==
  ASSUME GInv, [GuestNext]_gvars
  PROVE  [WriteOnceNext \/ hmap_free]_vars
<1>1. CASE Configure
  BY <1>1, GuestAssumption DEF Configure, WriteOnceNext
<1>2. CASE SetLine
  <2>1. i \in 1..Len(Lines)
    BY <1>2, GuestTypes, LineFacts DEF SetLine
  <2>2. Line \in Keys /\ Line \in Values /\ Found(Line) = {}
    BY <2>1, LineFacts, LineIsNew DEF GInv, IInv, Line
  <2>3. StoreOnce(Line, Line, FALSE)
    BY <1>2, <2>2 DEF SetLine, StoreOnce
  <2> QED BY <2>2, <2>3 DEF WriteOnceNext
<1>3. CASE LookUpLine
  <2>1. at = "look" /\ hmap_get(data[node])
    BY <1>3 DEF LookUpLine
  <2>2. node # NULL
    <3>1. ~list_freed
      BY <2>1, GuestTypes
    <3> QED BY <2>1, <3>1, RowOfList DEF Walking, IsWalk, Visit
  <2>3. data[node] \in Keys
    <3>1. node \in Nodes
      BY <2>1, <2>2, NodeHoldsLine DEF Walking
    <3> QED BY <3>1, GuestTypes DEF List!TypeOK
  <2> QED BY <2>1, <2>3 DEF WriteOnceNext
<1>4. CASE AppendLine \/ PrintLine \/ ReturnLeases \/ FreeList
  BY <1>4 DEF AppendLine, PrintLine, ReturnLeases, FreeList
<1>5. CASE FreeMap
  BY <1>5 DEF FreeMap
<1>6. CASE Running
  BY <1>6 DEF WriteOnceNext
<1>7. CASE UNCHANGED gvars
  BY <1>7 DEF gvars
<1> QED BY <1>1, <1>2, <1>3, <1>4, <1>5, <1>6, <1>7 DEF GuestNext
-----------------------------------------------------------------------------
(* The steps of main.                                                      *)
Steady == MapInv' /\ ListInv' /\ BufferInv' /\ MainInv'

(* A call that is not ll_append_node or ll_free.                           *)
LEMMA ListStays ==
  ASSUME GInv, UNCHANGED <<list, appended>>, Tried' = Tried,
         list_freed \/ \E c \in [0..(Len(appended) - 1) -> Nodes] :
           /\ IsRow(c, Len(appended), first, last, next, data, alloc, appended)
           /\ at' \in Walking => \E q \in 0..Len(appended) :
                IsWalk(c, Len(appended), q, node', data, appended, followed', Visit(at'), ref_ct')
  PROVE  ListInv'
<1>1. /\ UNCHANGED <<next, data, alloc, first, last, len, list_freed, list_ret, strayed, appended>>
      /\ ListInv
  BY DEF list, GInv
<1>2. List!TypeOK'
  BY <1>1 DEF ListInv, List!TypeOK
<1> QED BY <1>1, <1>2 DEF ListInv

LEMMA MapStays ==
  ASSUME GInv, UNCHANGED <<vars, i>>
  PROVE  MapInv'
<1>1. /\ UNCHANGED <<buckets, capacity, last_error_code, lost, pc, new_buckets, i>> /\ MapInv
  BY DEF vars, status, rehash, GInv
<1>2. pc' = "rehash" => GoodTable(new_buckets', Before(i))
  BY <1>1 DEF MapInv
<1> QED BY <1>1, <1>2, QuietKeepsMap

LEMMA BufferStays ==
  ASSUME BufferInv, UNCHANGED <<buffer, appended, followed>>,
         at' \in Storing => at \in Storing,
         list_freed' => list_freed
  PROVE  BufferInv'
<1>1. /\ UNCHANGED <<ref_ct, lock, needs_sync, is_utf8, allocated, readers, writer,
                     unmatched, accepted, lease, followed, appended>>
  BY DEF buffer
<1>2. Buffer!TypeOK'
  BY <1>1 DEF BufferInv, Buffer!TypeOK
<1> QED BY <1>1, <1>2 DEF BufferInv

LEMMA ConfigureSteady ==
  ASSUME GInv, Configure
  PROVE  Steady
<1>1. /\ at = "configure" /\ at' = "append" /\ pc = "idle"
      /\ UNCHANGED <<list, buffer, i, node, followed, appended>>
  BY DEF Configure, hmap_set_unhealthy_callback
<1>2. ~list_freed /\ list_freed' = list_freed
  BY <1>1, GuestTypes DEF list
<1>3. MapInv'
  <2>1. UNCHANGED <<buckets, capacity, last_error_code, lost, pc>>
    BY DEF Configure, hmap_set_unhealthy_callback, status
  <2> QED BY <1>1, <2>1, QuietKeepsMap DEF GInv
<1>4. ListInv'
  <2>1. Tried' = Tried /\ at' \notin Walking
    BY <1>1 DEF Tried, Walking
  <2> QED BY <1>1, <1>2, <2>1, RowOfList, ListStays
<1>5. BufferInv'
  BY <1>1, <1>2, BufferStays DEF GInv, Storing
<1>6. MainInv'
  BY <1>1, <1>2 DEF GInv, MainInv, Storing, Walking
<1> QED BY <1>3, <1>4, <1>5, <1>6 DEF Steady

LEMMA AppendSteady ==
  ASSUME GInv, AppendLine
  PROVE  Steady
<1>1. /\ at = "append" /\ at' = "set" /\ pc = "idle"
      /\ UNCHANGED <<vars, buffer, i, node, followed>>
  BY DEF AppendLine
<1>2. ~list_freed /\ list_freed' = list_freed
  BY GuestTypes, <1>1 DEF AppendLine, List!AddFails, List!ll_append_node, List!Added
<1>3. BufferInv'
  <2>1. UNCHANGED <<ref_ct, lock, needs_sync, is_utf8, allocated, readers, writer,
                    unmatched, accepted, lease>>
    BY <1>1 DEF buffer
  <2>2. BufferInv /\ Buffer!TypeOK'
    BY <2>1 DEF GInv, BufferInv, Buffer!TypeOK
  <2> QED BY <1>1, <1>2, <2>1, <2>2 DEF BufferInv, Storing
<1>4. MainInv'
  <2>1. UNCHANGED pc
    BY <1>1 DEF vars
  <2> QED BY <1>1, <1>2, <2>1 DEF GInv, MainInv, Storing, Walking
<1> QED BY <1>1, <1>3, <1>4, MapStays, AppendKeepsList DEF Steady

(* The walk begins with the last store.                                    *)
LEMMA SetSteady ==
  ASSUME GInv, SetLine
  PROVE  Steady
<1> DEFINE p == Len(appended)
<1>1. /\ at = "set" /\ i' = i + 1 /\ hmap_set(Line, Line, FALSE)
      /\ \/ i < Len(Lines) /\ at' = "append" /\ node' = node
         \/ i = Len(Lines) /\ at' = "print" /\ node' = first
      /\ UNCHANGED <<list, buffer, followed, appended>>
  BY DEF SetLine
<1>2. /\ i \in 1..Len(Lines) /\ i \in Nat /\ Len(Lines) \in Nat /\ p \in Nat
      /\ ~list_freed /\ list_freed' = list_freed
  BY <1>1, GuestTypes, LineFacts DEF list
<1>3. MapInv'
  BY <1>1, <1>2, SetKeepsMap DEF GInv
<1>4. ref_ct' = 0
  BY <1>1 DEF GInv, BufferInv, Storing, buffer
<1>5. ListInv'
  <2>1. Tried' = Tried
    BY <1>1, <1>2 DEF Tried
  <2>2. PICK c \in [0..(p - 1) -> Nodes] :
          IsRow(c, p, first, last, next, data, alloc, appended)
    BY <1>2, RowOfList
  <2>3. at' \in Walking => IsWalk(c, p, 0, node', data, appended, followed', Visit(at'), ref_ct')
    <3>1. SUFFICES ASSUME at' = "print", node' = first
                   PROVE  IsWalk(c, p, 0, node', data, appended, followed', 0, 0)
      BY <1>1, <1>4 DEF Walking, Visit
    <3>2. first = IF p = 1 THEN c[0] ELSE IF 0 < p THEN c[0] ELSE NULL
      <4> HIDE DEF p
      <4> QED BY <1>2, <2>2 DEF IsRow
    <3>3. ~WalkedBy(appended, 0, followed')
      BY DEF WalkedBy
    <3> QED BY <3>1, <3>2, <3>3 DEF IsWalk
  <2>4. 0 \in 0..p
    BY <1>2
  <2> QED BY <1>1, <2>1, <2>2, <2>3, <2>4, ListStays
<1>6. BufferInv'
  BY <1>1, <1>2, BufferStays DEF GInv, Storing
<1>7. MainInv'
  <2>1. at' = "append" <=> i + 1 <= Len(Lines)
    BY <1>1, <1>2
  <2>2. i + 1 \in 1..(Len(Lines) + 1)
    BY <1>2
  <2> QED BY <1>1, <1>2, <2>1, <2>2 DEF GInv, MainInv, Storing, Walking
<1> QED BY <1>3, <1>5, <1>6, <1>7 DEF Steady

LEMMA RunningSteady ==
  ASSUME GInv, Running, UNCHANGED <<list, buffer, at, i, node, followed, appended>>
  PROVE  Steady
<1>1. pc \in {"rehash", "return"}
  BY DEF Running, RehashEntry, RehashNextBucket, ResizeBackOff, ResizeSwap, FinishCall
<1>2. list_freed' = list_freed /\ ref_ct' = ref_ct
  BY DEF list, buffer
<1>3. MapInv'
  BY GuestTypes, RunningKeepsMap DEF GInv
<1>4. ListInv'
  <2>1. Tried' = Tried
    BY DEF Tried
  <2> QED BY <1>2, <2>1, RowOfList, ListStays
<1>5. BufferInv'
  BY <1>2, BufferStays DEF GInv
<1>6. MainInv'
  BY <1>1, <1>2 DEF GInv, MainInv
<1> QED BY <1>3, <1>4, <1>5, <1>6 DEF Steady

(* What a call on the node's buffer does to the count of the followed one. *)
LEMMA OnBufferCounts ==
  ASSUME GInv, at \in Walking, at' \in Walking, UNCHANGED <<list, followed, appended>>, NEW call, NEW count,
         OnBuffer(call),
         call => /\ ref_ct' = count /\ readers' = ref_ct'
                 /\ Buffer!TypeOK' /\ ~lock' /\ allocated' /\ unmatched' = 0
  PROVE  /\ ref_ct' = IF data[node] = followed THEN count ELSE ref_ct
         /\ BufferInv'
<1>1. ~list_freed /\ list_freed' = list_freed /\ at' \notin Storing
  BY GuestTypes DEF list, Walking, Storing
<1>2. CASE data[node] = followed
  BY <1>1, <1>2 DEF OnBuffer, BufferInv
<1>3. CASE data[node] # followed
  <2>1. UNCHANGED buffer
    BY <1>3 DEF OnBuffer
  <2>2. BufferInv'
    BY <1>1, <2>1, BufferStays DEF GInv
  <2> QED BY <1>3, <2>1, <2>2 DEF buffer
<1> QED BY <1>2, <1>3

(* The walk stays at its node and one more call has been made on it.       *)
LEMMA VisitKeepsList ==
  ASSUME GInv, at \in {"print", "look"}, at' \in Walking, Visit(at') = Visit(at) + 1,
         UNCHANGED <<list, i, node, followed, appended>>, node # NULL,
         ref_ct' = IF data[node] = followed THEN ref_ct + 1 ELSE ref_ct
  PROVE  ListInv'
<1> DEFINE p == Len(appended)
<1>1. ~list_freed /\ Tried' = Tried /\ Visit(at) \in {0, 1} /\ ref_ct \in Nat
  BY GuestTypes DEF Tried, Walking, Visit
<1>2. PICK c \in [0..(p - 1) -> Nodes], q \in 0..p :
        /\ IsRow(c, p, first, last, next, data, alloc, appended)
        /\ IsWalk(c, p, q, node, data, appended, followed, Visit(at), ref_ct)
  BY <1>1, RowOfList DEF Walking
<1>3. IsWalk(c, p, q, node, data, appended, followed, Visit(at) + 1,
             IF data[node] = followed THEN ref_ct + 1 ELSE ref_ct)
  BY <1>1, <1>2, WalkVisits
<1>4. IsWalk(c, p, q, node', data, appended, followed', Visit(at'), ref_ct')
  BY <1>3
<1> QED BY <1>1, <1>2, <1>4, ListStays

LEMMA PrintSteady ==
  ASSUME GInv, PrintLine
  PROVE  Steady
<1>1. /\ at = "print" /\ at' = "look" /\ pc = "idle" /\ node # NULL
      /\ OnBuffer(Buffer!buff_borrow)
      /\ UNCHANGED <<vars, list, i, node, followed, appended>>
  BY DEF PrintLine, WalkEnded
<1>2. /\ at \in Walking /\ at' \in Walking /\ Visit(at') = Visit(at) + 1
      /\ list_freed' = list_freed /\ pc' = pc
  BY <1>1 DEF Walking, Visit, list, vars
<1>3. /\ ref_ct' = IF data[node] = followed THEN ref_ct + 1 ELSE ref_ct
      /\ BufferInv'
  BY <1>1, <1>2, OnBufferCounts, BorrowCounts DEF GInv
<1>4. ListInv'
  BY <1>1, <1>2, <1>3, VisitKeepsList
<1>5. MainInv'
  BY <1>1, <1>2 DEF GInv, MainInv, Walking, Storing
<1> QED BY <1>1, <1>3, <1>4, <1>5, MapStays DEF Steady

LEMMA LookSteady ==
  ASSUME GInv, LookUpLine
  PROVE  Steady
<1>1. /\ at = "look" /\ at' = "return"
      /\ OnBuffer(Buffer!buff_borrow)
      /\ hmap_get(data[node])
      /\ UNCHANGED <<list, i, node, followed, appended>>
  BY DEF LookUpLine
<1>2. /\ at \in Walking /\ at' \in Walking /\ Visit(at') = Visit(at) + 1 /\ Visit(at) # 0
      /\ list_freed' = list_freed /\ ~list_freed
  BY <1>1, GuestTypes DEF Walking, Visit, list
<1>3. node # NULL
  BY <1>2, RowOfList DEF IsWalk
<1>4. /\ ref_ct' = IF data[node] = followed THEN ref_ct + 1 ELSE ref_ct
      /\ BufferInv'
  BY <1>1, <1>2, OnBufferCounts, BorrowCounts DEF GInv
<1>5. ListInv'
  BY <1>1, <1>2, <1>3, <1>4, VisitKeepsList
<1>6. MapInv'
  <2>1. data[node] \in Keys
    BY <1>2, <1>3, NodeHoldsLine, GuestTypes DEF List!TypeOK
  <2> QED BY <1>1, <2>1, GetKeepsMap DEF GInv
<1>7. MainInv'
  BY <1>1, <1>2 DEF GInv, MainInv, Walking, Storing
<1> QED BY <1>4, <1>5, <1>6, <1>7 DEF Steady

LEMMA ReturnSteady ==
  ASSUME GInv, ReturnLeases
  PROVE  Steady
<1> DEFINE p == Len(appended)
<1>1. /\ at = "return" /\ at' = "print" /\ node' = next[node]
      /\ OnBuffer(Buffer!buff_return_n(2))
      /\ UNCHANGED <<vars, list, i, followed, appended>>
  BY DEF ReturnLeases
<1>2. /\ at \in Walking /\ at' \in Walking /\ Visit(at') = 0 /\ Visit(at) = 2
      /\ list_freed' = list_freed /\ ~list_freed /\ pc' = pc /\ Tried' = Tried
      /\ ref_ct \in Nat /\ p \in Nat /\ DOMAIN appended = 1..p /\ IsHistory(appended, Tried)
  BY <1>1, GuestTypes DEF Walking, Visit, list, vars, Tried
<1>3. /\ ref_ct' = IF data[node] = followed THEN IF ref_ct = 2 THEN 2 ELSE ref_ct - 2 ELSE ref_ct
      /\ BufferInv'
  <2>1. CASE data[node] = followed
    <3>1. Buffer!buff_return_n(2)
      BY <1>1, <2>1 DEF OnBuffer
    <3>2. /\ ref_ct' = (IF ref_ct = 2 THEN 2 ELSE ref_ct - 2) /\ readers' = ref_ct'
          /\ Buffer!TypeOK' /\ ~lock' /\ allocated' /\ unmatched' = 0
      BY <3>1, ReturnCounts DEF GInv
    <3> QED BY <1>1, <1>2, <2>1, <3>2 DEF BufferInv, Storing
  <2>2. CASE data[node] # followed
    <3>1. UNCHANGED buffer
      BY <1>1, <2>2 DEF OnBuffer
    <3>2. BufferInv'
      BY <1>1, <1>2, <3>1, BufferStays DEF GInv, Storing
    <3> QED BY <2>2, <3>1, <3>2 DEF buffer
  <2> QED BY <2>1, <2>2
<1>4. PICK c \in [0..(p - 1) -> Nodes], q \in 0..p :
        /\ IsRow(c, p, first, last, next, data, alloc, appended)
        /\ IsWalk(c, p, q, node, data, appended, followed, 2, ref_ct)
  BY <1>2, RowOfList
<1>5. \A m, n \in 1..p : appended[m] = appended[n] => m = n
  BY <1>2 DEF IsHistory
<1>6. \E r \in 0..p : IsWalk(c, p, r, next[node], data, appended, followed, 0, ref_ct')
  <2> HIDE DEF p
  <2> QED BY <1>2, <1>3, <1>4, <1>5, WalkGoesOn
<1>7. ListInv'
  BY <1>1, <1>2, <1>4, <1>6, ListStays
<1>8. MainInv'
  BY <1>1, <1>2 DEF GInv, MainInv, Walking, Storing
<1> QED BY <1>1, <1>3, <1>7, <1>8, MapStays DEF Steady

(* ll_free walks along the row and frees all of it.                        *)
LEMMA FreeListSteady ==
  ASSUME GInv, FreeList
  PROVE  Steady
<1> DEFINE p == Len(appended)
<1>1. /\ at = "print" /\ at' = "free" /\ pc = "idle" /\ node = NULL
      /\ list_freed' = TRUE /\ alloc' = alloc \ List!Reached
      /\ UNCHANGED <<next, data, first, last, len, list_ret, strayed>>
      /\ UNCHANGED <<vars, buffer, i, node, followed, appended>>
  BY DEF FreeList, WalkEnded, List!ll_free, List!list
<1>2. /\ ~list_freed /\ Tried = i - 1 /\ Tried' = i - 1 /\ Visit(at) = 0 /\ pc' = pc
      /\ p \in Nat /\ DOMAIN appended = 1..p /\ IsHistory(appended, i - 1)
      /\ i \in Nat /\ i - 1 <= Len(Lines)
      /\ alloc \subseteq Nodes /\ List!TypeOK
  BY <1>1, GuestTypes, LineFacts DEF Tried, Visit, vars, List!TypeOK
<1>3. PICK c \in [0..(p - 1) -> Nodes], q \in 0..p :
        /\ IsRow(c, p, first, last, next, data, alloc, appended)
        /\ IsWalk(c, p, q, NULL, data, appended, followed, 0, ref_ct)
  BY <1>1, <1>2, RowOfList DEF Walking
<1>4. alloc' = {}
  <2>1. p <= Cardinality(Nodes)
    BY <1>2, LineFacts, NodesCount DEF IsHistory
  <2>2. ASSUME NEW a \in alloc PROVE a \in List!Reached
    <3>1. PICK k \in 0..(p - 1) : a = c[k]
      BY <1>3 DEF IsRow
    <3>2. p \in 1..Cardinality(Nodes) /\ k \in 0..Cardinality(Nodes)
      BY <1>2, <2>1, NodesCount
    <3>3. List!Nth(first, next)[k] = a /\ DOMAIN List!Nth(first, next) = 0..Cardinality(Nodes)
      <4>1. alloc \subseteq Nodes /\ IsRow(c, p, first, last, next, data, alloc, appended)
        BY <1>2, <1>3
      <4> HIDE DEF p
      <4>2. GoesAlong(List!Nth(first, next), c, p, first)
        BY <3>2, <4>1, NthAlongRow
      <4> QED BY <3>1, <4>2 DEF GoesAlong
    <3>4. a # NULL
      BY <1>2, GuestAssumption
    <3> QED BY <3>2, <3>3, <3>4 DEF List!Reached, List!Node
  <2> QED BY <1>1, <2>2
<1>5. ref_ct = IF followed \in ToSet(appended) THEN 2 ELSE 0
  <2>1. q = p
    <3>1. p # 1 /\ ~(q < p)
      <4>1. p # 0 => 0 \in 0..(p - 1)
        BY <1>2
      <4>2. \A k \in 0..(p - 1) : c[k] # NULL
        BY <1>2, <1>3, GuestAssumption DEF IsRow
      <4>3. q < p => q \in 0..(p - 1)
        BY <1>2
      <4> HIDE DEF p
      <4> QED BY <1>3, <4>1, <4>2, <4>3 DEF IsWalk
    <3> HIDE DEF p
    <3> QED BY <1>2, <3>1
  <2>2. followed \in ToSet(appended) <=> WalkedBy(appended, p, followed)
    BY <1>2 DEF ToSet, WalkedBy
  <2> QED BY <1>3, <2>1, <2>2 DEF IsWalk
<1>6. ListInv'
  <2>1. List!TypeOK'
    BY <1>1, <1>2, <1>4 DEF List!TypeOK
  <2> QED BY <1>1, <1>2, <1>4, <2>1 DEF GInv, ListInv
<1>7. BufferInv'
  <2>1. UNCHANGED <<ref_ct, lock, needs_sync, is_utf8, allocated, readers, writer,
                    unmatched, accepted, lease, followed, appended>>
    BY <1>1 DEF buffer
  <2>2. BufferInv /\ Buffer!TypeOK'
    BY <2>1 DEF GInv, BufferInv, Buffer!TypeOK
  <2> QED BY <1>1, <1>5, <2>1, <2>2 DEF BufferInv, Storing
<1>8. MainInv'
  BY <1>1, <1>2 DEF GInv, MainInv, Walking, Storing
<1> QED BY <1>1, <1>6, <1>7, <1>8, MapStays DEF Steady

LEMMA FreeMapSteady ==
  ASSUME GInv, FreeMap
  PROVE  Steady
<1>1. /\ at = "free" /\ at' = "done" /\ hmap_free
      /\ UNCHANGED <<list, buffer, i, node, followed, appended>>
  BY DEF FreeMap
<1>2. pc' = "freed"
  BY <1>1, FreeFinds DEF GInv, IInv
<1>3. list_freed /\ list_freed' = list_freed /\ Tried' = Tried
  BY <1>1, GuestTypes DEF list, Tried
<1>4. MapInv'
  <2>1. UNCHANGED <<buckets, capacity, last_error_code, lost>>
    BY <1>1 DEF hmap_free, status
  <2> QED BY <1>1, <1>2, <2>1, QuietKeepsMap DEF GInv
<1>5. ListInv'
  BY <1>1, <1>3, ListStays
<1>6. BufferInv'
  BY <1>1, <1>3, BufferStays DEF GInv, Storing
<1>7. MainInv'
  BY <1>1, <1>2, <1>3 DEF GInv, MainInv, Walking, Storing
<1> QED BY <1>4, <1>5, <1>6, <1>7 DEF Steady
-----------------------------------------------------------------------------
LEMMA InitGInv ==
  ASSUME GuestInit
  PROVE  GInv
<1>1. /\ at = "configure" /\ i = 1 /\ node = NULL /\ appended = << >>
      /\ followed \in ToSet(Lines) /\ Init /\ Buffer!buff_new
  BY DEF GuestInit
<1>2. PICK d \in Keys : List!ll_new(NULL, d)
  BY DEF GuestInit
<1>3. Len(Lines) \in Nat /\ Len(Lines) >= 1 /\ Len(appended) = 0
  BY <1>1, LineFacts DEF ToSet
<1>4. IInv /\ AnswersInv
  BY <1>1, InitIInv DEF Init, AnswersInv
<1>5. MapInv
  <2>1. buckets = EmptyTable(capacity) /\ pc # "rehash"
    BY <1>1 DEF Init
  <2>2. GoodTable(buckets, Before(i))
    BY <2>1 DEF EmptyTable, EmptyBucket, GoodTable, GoodChain
  <2>3. 1..(i - 1) = {}
    BY <1>1
  <2> QED BY <2>1, <2>2, <2>3 DEF MapInv, Answers
<1>6. ListInv
  <2>1. /\ next = [m \in Nodes |-> NULL] /\ data = [m \in Nodes |-> d] /\ alloc = {}
        /\ first = NULL /\ last = NULL /\ len = 0 /\ list_freed = FALSE /\ list_ret = 0
        /\ strayed = FALSE
    BY <1>2 DEF List!ll_new
  <2>2. List!TypeOK
    <3>1. next \in [Nodes -> Nodes \cup {NULL}] /\ data \in [Nodes -> Keys]
      BY <2>1
    <3>2. /\ alloc \subseteq Nodes /\ first \in Nodes \cup {NULL} /\ last \in Nodes \cup {NULL}
          /\ len \in Nat /\ list_ret \in Int
      BY <2>1
    <3>3. list_freed \in BOOLEAN /\ strayed \in BOOLEAN
      BY <2>1
    <3> QED BY <3>1, <3>2, <3>3 DEF List!TypeOK
  <2>3. IsHistory(appended, Tried)
    BY <1>1, <1>3, EmptySeq DEF IsHistory, Tried
  <2>4. 0..(0 - 1) = {} /\ 0..(0 - 2) = {}
    OBVIOUS
  <2> DEFINE c == [k \in 0..(0 - 1) |-> NULL]
  <2>5. c \in [0..(0 - 1) -> Nodes]
    BY <2>4
  <2>6. IsRow(c, 0, first, last, next, data, alloc, appended)
    BY <2>1, <2>4 DEF IsRow
  <2> HIDE DEF c
  <2>7. at \notin Walking /\ len = (IF appended = << >> THEN 0 ELSE Len(appended) + 1)
    BY <1>1, <2>1 DEF Walking
  <2>8. c \in [0..(Len(appended) - 1) -> Nodes]
    BY <1>3, <2>5
  <2>9. IsRow(c, Len(appended), first, last, next, data, alloc, appended)
    BY <1>3, <2>6
  <2> QED BY <2>1, <2>2, <2>3, <2>7, <2>8, <2>9 DEF ListInv
<1>7. BufferInv
  <2>1. /\ ref_ct = 0 /\ lock = FALSE /\ needs_sync = FALSE /\ is_utf8 = 0 /\ allocated = TRUE
        /\ readers = 0 /\ writer = FALSE /\ unmatched = 0 /\ accepted \in BOOLEAN /\ lease = "data"
        /\ list_freed = FALSE
    BY <1>1, <1>2 DEF Buffer!buff_new, List!ll_new
  <2>2. Buffer!TypeOK
    <3>1. ref_ct \in 0..(RefMod - 1) /\ is_utf8 \in 0..2 /\ readers \in 0..4 /\ unmatched \in 0..0
      BY <2>1, GuestAssumption
    <3>2. /\ lock \in BOOLEAN /\ needs_sync \in BOOLEAN /\ allocated \in BOOLEAN
          /\ writer \in BOOLEAN /\ accepted \in BOOLEAN
      BY <2>1
    <3>3. lease \in {"data", "NULL", "true", "false", "0", "count"}
      BY <2>1
    <3> QED BY <3>1, <3>2, <3>3 DEF Buffer!TypeOK
  <2> QED BY <2>1, <2>2 DEF BufferInv
<1>8. MainInv
  <2>1. list_freed = FALSE
    BY <1>2 DEF List!ll_new
  <2> QED BY <1>1, <1>3, <2>1 DEF MainInv, Storing, Walking
<1> QED BY <1>4, <1>5, <1>6, <1>7, <1>8 DEF GInv

LEMMA QuietSteady ==
  ASSUME GInv, UNCHANGED gvars
  PROVE  Steady
<1>1. UNCHANGED <<vars, list, buffer, at, i, node, followed, appended>>
  BY DEF gvars
<1>2. list_freed' = list_freed /\ pc' = pc /\ ref_ct' = ref_ct /\ Tried' = Tried
  BY <1>1 DEF list, vars, buffer, Tried
<1>3. ListInv'
  BY <1>1, <1>2, RowOfList, ListStays
<1>4. BufferInv'
  BY <1>1, <1>2, BufferStays DEF GInv
<1>5. MainInv'
  BY <1>1, <1>2 DEF GInv, MainInv
<1> QED BY <1>1, <1>3, <1>4, <1>5, MapStays DEF Steady

LEMMA NextKeepsGInv ==
  ASSUME GInv, [GuestNext]_gvars
  PROVE  GInv'
<1>1. [Next]_vars
  BY StepStoresOnce DEF WriteOnceNext, StoreOnce, Next, Call
<1>2. IInv' /\ TypeOK'
  BY <1>1, NextKeepsIInv DEF GInv, IInv
<1>3. AnswersInv'
  BY <1>1, <1>2, LinesAreTold, NextKeepsAnswers DEF GInv
<1>4. Steady
  BY ConfigureSteady, AppendSteady, SetSteady, RunningSteady, PrintSteady, LookSteady,
     ReturnSteady, FreeListSteady, FreeMapSteady, QuietSteady DEF GuestNext
<1> QED BY <1>2, <1>3, <1>4 DEF GInv, Steady

LEMMA GuestInvariant == GuestSpec => []GInv
<1>1. GuestInit => GInv
  BY InitGInv
<1>2. GInv /\ [GuestNext]_gvars => GInv'
  BY NextKeepsGInv
<1> QED BY <1>1, <1>2, PTL DEF GuestSpec
-----------------------------------------------------------------------------
(* The map, the list and the followed buffer keep their types in main, and *)
(* the node the walk is at is always one that is allocated.                *)
THEOREM MainIsTyped == GuestSpec => []GuestTypeOK
<1>1. GInv => GuestTypeOK
  <2> SUFFICES ASSUME GInv PROVE GuestTypeOK
    OBVIOUS
  <2>1. node \in alloc \cup {NULL}
    BY NodeHoldsLine DEF GInv, MainInv
  <2> QED BY <2>1, GuestTypes DEF GuestTypeOK, GInv, MainInv, Storing, Walking
<1> QED BY <1>1, GuestInvariant, PTL

(* However many lines there are and whichever appends fail: len is one     *)
(* more than there are nodes, and the chain is the appended lines in       *)
(* order; it ends, unless it has one node, which is linked to itself.      *)
THEOREM ListHoldsAppended == GuestSpec => []FirstNodeAddedTwice
<1>1. GInv => FirstNodeAddedTwice
  <2> DEFINE p == Len(appended)
             w == List!Node
  <2> SUFFICES ASSUME GInv, ~list_freed, appended # << >>
               PROVE  /\ len = p + 1
                      /\ \A k \in DOMAIN appended : data[w[k - 1]] = appended[k]
                      /\ w[p] = IF p = 1 THEN first ELSE NULL
    BY DEF FirstNodeAddedTwice
  <2>1. /\ p \in Nat /\ DOMAIN appended = 1..p /\ p # 0 /\ p <= Len(Lines) /\ len = p + 1
        /\ alloc \subseteq Nodes
    <3>1. p \in Nat /\ DOMAIN appended = 1..p /\ p # 0
      BY GuestTypes, EmptySeq
    <3>2. p <= Tried /\ Tried <= Len(Lines)
      BY GuestTypes, LineFacts DEF IsHistory, Tried
    <3>3. len = p + 1 /\ alloc \subseteq Nodes
      BY GuestTypes DEF GInv, ListInv, List!TypeOK
    <3>4. Tried \in Nat \cup {-1}
      BY GuestTypes DEF Tried
    <3> QED BY <3>1, <3>2, <3>3, <3>4, LineFacts
  <2>2. p \in 1..Cardinality(Nodes)
    BY <2>1, NodesCount, LineFacts
  <2>3. PICK c \in [0..(p - 1) -> Nodes] :
          IsRow(c, p, first, last, next, data, alloc, appended)
    BY RowOfList
  <2> HIDE DEF p
  <2>4. GoesAlong(w, c, p, first)
    <3>1. GoesAlong(List!Nth(first, next), c, p, first)
      BY <2>1, <2>2, <2>3, NthAlongRow
    <3> QED BY <3>1 DEF List!Node
  <2> HIDE DEF w
  <2>5. ASSUME NEW k \in 1..p
        PROVE  data[w[k - 1]] = appended[k]
    <3>1. k - 1 \in 0..(p - 1) /\ (k - 1) + 1 = k
      BY <2>1
    <3> QED BY <2>3, <2>4, <3>1 DEF IsRow, GoesAlong
  <2> QED BY <2>1, <2>4, <2>5 DEF p, GoesAlong
<1> QED BY <1>1, GuestInvariant, PTL

(* Once main has freed its list and its map no node is left, no entry was  *)
(* freed twice, and the buffer of each appended line has both its leases.  *)
THEOREM LeavesLeases == GuestSpec => []LeftAtTheEnd
<1>1. GInv => LeftAtTheEnd
  BY DEF GInv, ListInv, BufferInv, MainInv, LeftAtTheEnd
<1> QED BY <1>1, GuestInvariant, PTL

(* What main does to its map is what the client of HashmapWriteOnce may    *)
(* do: no line is stored while the map holds it.                           *)
THEOREM MainStoresOnce == GuestSpec => StoresOnce
<1>1. GInv /\ [GuestNext]_gvars => [WriteOnceNext \/ hmap_free]_vars
  BY StepStoresOnce
<1> QED BY <1>1, GuestInvariant, PTL DEF GuestSpec, StoresOnce

(* Each look-up of the walk returns the line of its node, whatever the     *)
(* hash function, the collisions and the growths of the map in between,    *)
(* as long as no error is on record and no list node was lost.             *)
THEOREM WalkFindsLines == GuestSpec => LookUpsFind
<1>1. GInv /\ [GuestNext]_gvars =>
        [at = "look" /\ last_error_code = HMAP_ERROR_CODE_OK /\ ~lost
           => ret' = data[node]]_gvars
  <2> SUFFICES ASSUME GInv, GuestNext, at = "look",
                      last_error_code = HMAP_ERROR_CODE_OK, ~lost
               PROVE  ret' = data[node]
    OBVIOUS
  <2>1. pc = "idle" /\ ~list_freed
    BY GuestTypes DEF GInv, MainInv
  <2>2. ~Running
    BY <2>1 DEF Running, RehashEntry, RehashNextBucket, ResizeBackOff, ResizeSwap, FinishCall
  <2>3. hmap_get(data[node])
    BY <2>2 DEF GuestNext, Configure, AppendLine, SetLine, PrintLine, LookUpLine,
                ReturnLeases, FreeList, FreeMap
  <2>4. node # NULL
    BY <2>1, RowOfList DEF Walking, IsWalk, Visit
  <2>5. PICK m \in 1..(i - 1) : data[node] = Lines[m]
    BY <2>4, NodeHoldsLine DEF Walking
  <2> QED BY <2>3, <2>5, GetFinds DEF GInv
<1> QED BY <1>1, GuestInvariant, PTL DEF GuestSpec, LookUpsFind
=============================================================================
