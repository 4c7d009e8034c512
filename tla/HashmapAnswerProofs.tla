------------------------ MODULE HashmapAnswerProofs ------------------------
(***************************************************************************)
(* What the map answers, for every set of keys and every hash function.    *)
(*                                                                         *)
(* For the client of HashmapWriteOnce, which stores each key once: a map   *)
(* that grows by one of its two resizing callbacks keeps its load under    *)
(* the threshold while no error is on record; set is the number of its     *)
(* entries; and it implements WriteOnceMap.  A table is taken for the set  *)
(* of pairs of key and value it holds.  A store adds one pair; hmap_rehash *)
(* has put into the new table the pairs of the entries it has passed,      *)
(* which at the end is all of them; and what a look-up answers depends on  *)
(* this set alone.                                                         *)
(*                                                                         *)
(* For any client: what a search for a key finds changes only by a call on *)
(* its own bucket, and a resize changes no answer at all.                  *)
(***************************************************************************)
EXTENDS HashmapWriteOnce, HashmapProofs

LoadIsHealthy ==
  /\ load_factor = LoadFactor(set, capacity)
  /\ load_factor <= Threshold

(* The load is known only when no entries are being moved: hmap_resize     *)
(* recomputes it at its end.  Nothing is ever removed.                     *)
HealthInv ==
  /\ unhealthy_callback # "defer"
  /\ pending = 0
  /\ pc \in {"idle", "return"} /\ last_error_code = HMAP_ERROR_CODE_OK
       => LoadIsHealthy
-----------------------------------------------------------------------------
(* update_load_factor returns under the threshold, or with an error, or it *)
(* has begun to move entries.                                              *)
LEMMA UpdateLoadIsHealthy ==
  ASSUME NEW n \in Nat, NEW cap \in Nat \ {0}, NEW err, NEW coll,
         unhealthy_callback # "defer",
         update_load_factor(n, cap, err, coll)
  PROVE  /\ pc' \in {"rehash", "return"}
         /\ pc' = "return" /\ last_error_code' = HMAP_ERROR_CODE_OK
              => load_factor' = LoadFactor(n, cap) /\ load_factor' <= Threshold
<1>1. LoadFactor(n, cap) \in Nat /\ Threshold \in Nat
  BY ConstantsAssumption DEF LoadFactor
<1>2. ASSUME NEW c, NEW e, NEW l, BeginResize(c, e, l)
      PROVE  /\ pc' \in {"rehash", "return"}
             /\ pc' = "return" => last_error_code' # HMAP_ERROR_CODE_OK
  BY <1>2, Codes DEF BeginResize
<1>3. load_factor' = LoadFactor(n, cap)
  BY DEF update_load_factor
<1>4. CASE ~Unhealthy(LoadFactor(n, cap)) /\ pc' = "return"
  BY <1>1, <1>3, <1>4 DEF Unhealthy
<1>5. CASE \E c, e, l : BeginResize(c, e, l)
  BY <1>2, <1>3, <1>5
<1> QED  BY <1>4, <1>5 DEF update_load_factor

LEMMA ReturnIsHealthy ==
  ASSUME HealthInv, NEW r, NEW err \in {last_error_code, HMAP_ERROR_CODE_KEY_MISMATCH,
                                        HMAP_ERROR_CODE_LOCKED},
         Return(r, err)
  PROVE  HealthInv'
BY Codes DEF HealthInv, LoadIsHealthy, LoadFactor, Return, config

LEMMA StoredIsHealthy ==
  ASSUME HealthInv, TypeOK, NEW i, NEW b, NEW err, NEW coll, NEW gone,
         Stored(i, b, err, coll, gone)
  PROVE  HealthInv'
<1>1. set + 1 \in Nat /\ capacity \in Nat \ {0}
  BY DEF TypeOK
<1>2. /\ update_load_factor(set + 1, capacity, err, coll)
      /\ set' = set + 1
      /\ UNCHANGED <<capacity, unhealthy_callback, pending>>
  BY DEF Stored, config
<1> QED  BY <1>1, <1>2, UpdateLoadIsHealthy DEF HealthInv, LoadIsHealthy, LoadFactor

LEMMA SetIsHealthy ==
  ASSUME HealthInv, TypeOK, NEW k, NEW v, NEW allow, hmap_set(k, v, allow)
  PROVE  HealthInv'
<1>1. \/ \E r : Return(r, HMAP_ERROR_CODE_KEY_MISMATCH) \/ Return(r, HMAP_ERROR_CODE_LOCKED)
      \/ \E i, b, err, coll, gone : Stored(i, b, err, coll, gone)
  BY DEF hmap_set, Refused, StoreColliding
<1> QED  BY <1>1, ReturnIsHealthy, StoredIsHealthy

LEMMA GetIsHealthy ==
  ASSUME HealthInv, NEW k, hmap_get(k)
  PROVE  HealthInv'
<1>1. \/ Undefined
      \/ \E r : \/ Return(r, last_error_code)
                \/ Return(r, HMAP_ERROR_CODE_KEY_MISMATCH)
                \/ Return(r, HMAP_ERROR_CODE_LOCKED)
  BY DEF hmap_get, Refused
<1>2. CASE Undefined
  BY <1>2 DEF Undefined, HealthInv, config
<1> QED  BY <1>1, <1>2, ReturnIsHealthy

LEMMA RehashEntryIsHealthy ==
  ASSUME HealthInv, RehashEntry
  PROVE  HealthInv'
<1>1. pc = "rehash" /\ UNCHANGED <<unhealthy_callback, pending>> /\ pc' \in {pc, "undefined"}
  <2>1. ASSUME NEW j, NEW e, hmap_rehash_complex(j, e) \/ hmap_rehash_simple(j, e)
        PROVE  \E b, err, coll, gone : RehashPut(j, b, err, coll, gone)
    BY <2>1 DEF hmap_rehash_complex, hmap_rehash_simple, RehashColliding
  <2>2. \/ Undefined
        \/ \E j, b, err, coll, gone : RehashPut(j, b, err, coll, gone)
    BY <2>1 DEF RehashEntry
  <2> QED  BY <2>2 DEF Undefined, RehashPut, RehashEntry, config
<1> QED  BY <1>1 DEF HealthInv

LEMMA SwapIsHealthy ==
  ASSUME HealthInv, TypeOK, ResizeSwap
  PROVE  HealthInv'
<1>1. set \in Nat /\ new_cap \in Nat \ {0}
  BY DEF TypeOK, ResizeSwap
<1>2. /\ update_load_factor(set, new_cap, last_error_code, collisions)
      /\ capacity' = new_cap
      /\ UNCHANGED <<set, unhealthy_callback, pending>>
  BY DEF ResizeSwap, config
<1> QED  BY <1>1, <1>2, UpdateLoadIsHealthy DEF HealthInv, LoadIsHealthy, LoadFactor

LEMMA StepIsHealthy ==
  ASSUME "defer" \notin Callbacks, HealthInv, TypeOK, [WriteOnceNext]_vars
  PROVE  HealthInv'
<1>1. ASSUME NEW k, NEW v, NEW allow, StoreOnce(k, v, allow)
      PROVE  HealthInv'
  BY <1>1, SetIsHealthy DEF StoreOnce
<1>2. ASSUME NEW cap, hmap_resize(cap)
      PROVE  HealthInv'
  BY <1>2, Codes DEF hmap_resize, BeginResize, HealthInv, config
<1>3. ASSUME NEW cb \in Callbacks, hmap_set_unhealthy_callback(cb)
      PROVE  HealthInv'
  BY <1>3 DEF hmap_set_unhealthy_callback, HealthInv, LoadIsHealthy, LoadFactor, status
<1>4. CASE RehashNextBucket
  BY <1>4 DEF RehashNextBucket, HealthInv, config
<1>5. CASE ResizeBackOff
  BY <1>5, Codes DEF ResizeBackOff, HealthInv, config
<1>6. CASE FinishCall
  <2>1. set' = set
    BY <1>6 DEF FinishCall, SetAfterCall, HealthInv, TypeOK
  <2> QED  BY <1>6, <2>1 DEF FinishCall, HealthInv, LoadIsHealthy, LoadFactor, config
<1>7. CASE UNCHANGED vars
  BY <1>7 DEF vars, HealthInv, LoadIsHealthy, LoadFactor, config, status
<1> QED  BY <1>1, <1>2, <1>3, <1>4, <1>5, <1>6, <1>7,
            GetIsHealthy, RehashEntryIsHealthy, SwapIsHealthy
         DEF WriteOnceNext, Running

(* This client is a client of Hashmap.                                     *)
LEMMA WriteOnceIsClient == WriteOnceSpec => Spec
<1>1. [WriteOnceNext]_vars => [Next]_vars
  BY DEF WriteOnceNext, StoreOnce, Next, Call
<1> QED  BY <1>1, PTL DEF WriteOnceSpec, Spec

LEMMA HealthInvariant ==
  ASSUME "defer" \notin Callbacks
  PROVE  WriteOnceSpec => []HealthInv
<1>1. Init => HealthInv
  <2>1. ASSUME Init PROVE LoadIsHealthy
    <3>1. capacity \in Nat \ {0} /\ Threshold \in Nat
      BY <2>1, ConstantsAssumption DEF Init
    <3> QED  BY <2>1, <3>1 DEF Init, LoadIsHealthy, LoadFactor
  <2> QED  BY <2>1 DEF Init, HealthInv
<1>2. TypeOK /\ HealthInv /\ [WriteOnceNext]_vars => HealthInv'
  BY StepIsHealthy
<1>3. WriteOnceSpec => []TypeOK
  BY WriteOnceIsClient, TypeCorrect, PTL
<1> QED  BY <1>1, <1>2, <1>3, PTL DEF WriteOnceSpec

(* A map with a resizing callback is never left over the threshold while   *)
(* no error is on record.                                                  *)
THEOREM LoadStaysHealthy ==
  ASSUME "defer" \notin Callbacks
  PROVE  WriteOnceSpec => []HealthyLoad
<1>1. HealthInv => HealthyLoad
  BY DEF HealthInv, HealthyLoad, LoadIsHealthy
<1> QED  BY <1>1, HealthInvariant, PTL
-----------------------------------------------------------------------------
(* The table as the set of what it holds.                                  *)
At(table, s) == table[s[1]].chain[s[2]]

HeldIn(table, slots) == {<<At(table, s).key, At(table, s).val>> : s \in slots}
Held(table)          == HeldIn(table, Slots(table))

Holds(table, k) == \E s \in Slots(table) : At(table, s).key = k

(* No entry is freed or damaged, and no key is there twice.                *)
Exact(table) ==
  /\ \A s \in Slots(table) : At(table, s).live /\ At(table, s).val \in Values
  /\ \A s, t \in Slots(table) : At(table, s).key = At(table, t).key => s = t

(* Table t2 has the entry e at slot x, and otherwise the entries of table.  *)
Extends(table, t2, x, e) ==
  /\ x \notin Slots(table)
  /\ Slots(t2) = Slots(table) \cup {x}
  /\ At(t2, x) = e
  /\ \A s \in Slots(table) : At(t2, s) = At(table, s)

(* Table t2 holds the new key k with v besides what table holds.           *)
Adds(table, t2, k, v) ==
  /\ Exact(t2)
  /\ Held(t2) = Held(table) \cup {<<k, v>>}
  /\ <<k, v>> \notin Held(table)

(* No allocation fails, no value is NULL, and no two keys are the same.    *)
ExactClient ==
  /\ ~MallocMayFail
  /\ NULL \notin Values
  /\ \A j, k \in Keys : SameKey(j, k) => j = k
-----------------------------------------------------------------------------
(* A table with one more entry, at the end of bucket i.                    *)
LEMMA AppendedSlots ==
  ASSUME NEW cap \in Nat, NEW table \in [0..(cap - 1) -> Bucket],
         NEW i \in 0..(cap - 1), NEW e \in Entry, NEW b \in Bucket,
         b.chain = Append(table[i].chain, e),
         NEW t2, t2 = [table EXCEPT ![i] = b]
  PROVE  Extends(table, t2, <<i, Len(table[i].chain) + 1>>, e)
<1> DEFINE l  == Len(table[i].chain)
           x  == <<i, l + 1>>
<1>1. t2 \in [0..(cap - 1) -> Bucket] /\ t2[i] = b
      /\ \A j \in 0..(cap - 1) : j # i => t2[j] = table[j]
  OBVIOUS
<1>2. table[i] \in Bucket
  OBVIOUS
<1>3. /\ table[i].chain \in Seq(Entry)
      /\ DOMAIN table[i].chain = 1..l /\ l \in Nat
  BY <1>2, BucketChain
<1>4. /\ DOMAIN b.chain = 1..(l + 1)
      /\ \A n \in 1..l : b.chain[n] = table[i].chain[n]
      /\ b.chain[l + 1] = e
  <2>1. /\ b.chain \in Seq(Entry) /\ Len(b.chain) = l + 1
        /\ \A n \in 1..l : b.chain[n] = table[i].chain[n]
        /\ b.chain[l + 1] = e
    BY <1>3, AppendProperties
  <2> QED  BY <2>1, LenProperties
<1>5. x \notin Slots(table)
  <2>1. l + 1 \notin DOMAIN table[i].chain
    BY <1>3
  <2> QED  BY <2>1, SlotOf
<1>6. Slots(t2) \subseteq Slots(table) \cup {x}
  <2> SUFFICES ASSUME NEW s \in Slots(t2), s # x
               PROVE  s \in Slots(table)
    OBVIOUS
  <2>0. s = <<s[1], s[2]>> /\ s[1] \in 0..(cap - 1)
    BY <1>1, SlotIsPair
  <2>1. s[2] \in DOMAIN t2[s[1]].chain
    <3>1. <<s[1], s[2]>> \in Slots(t2)
      BY <2>0
    <3> QED  BY <3>1, <1>1, SlotOf
  <2>2. s[2] \in DOMAIN table[s[1]].chain
    <3>1. CASE s[1] = i
      <4>1. s[2] \in 1..(l + 1) /\ s[2] # l + 1
        BY <2>0, <2>1, <3>1, <1>1, <1>4
      <4> QED  BY <4>1, <3>1, <1>3
    <3>2. CASE s[1] # i
      BY <2>0, <2>1, <3>2, <1>1
    <3> QED  BY <3>1, <3>2
  <2>3. <<s[1], s[2]>> \in Slots(table)
    BY <2>0, <2>2, SlotOf
  <2> QED  BY <2>0, <2>3
<1>7. ASSUME NEW s \in Slots(table)
      PROVE  s \in Slots(t2) /\ At(t2, s) = At(table, s)
  <2>1. s = <<s[1], s[2]>> /\ s[1] \in 0..(cap - 1) /\ s[2] \in DOMAIN table[s[1]].chain
    BY SlotIsPair, SlotOf
  <2>2. s[2] \in DOMAIN t2[s[1]].chain /\ t2[s[1]].chain[s[2]] = table[s[1]].chain[s[2]]
    <3>1. CASE s[1] = i
      <4>1. s[2] \in 1..l
        BY <2>1, <3>1, <1>3
      <4> QED  BY <4>1, <3>1, <1>1, <1>3, <1>4
    <3>2. CASE s[1] # i
      BY <2>1, <3>2, <1>1
    <3> QED  BY <3>1, <3>2
  <2>3. <<s[1], s[2]>> \in Slots(t2)
    BY <2>1, <2>2, <1>1, SlotOf
  <2> QED  BY <2>1, <2>2, <2>3 DEF At
<1>8. x \in Slots(t2) /\ At(t2, x) = e
  <2>1. i \in 0..(cap - 1) /\ l + 1 \in DOMAIN t2[i].chain
    BY <1>1, <1>3, <1>4
  <2>2. <<i, l + 1>> \in Slots(t2)
    BY <2>1, <1>1, SlotOf
  <2> QED  BY <2>2, <1>1, <1>4 DEF At
<1> HIDE DEF x
<1>9. Extends(table, t2, x, e)
  BY <1>5, <1>6, <1>7, <1>8 DEF Extends
<1> QED  BY <1>9 DEF x

(* A new key adds one pair.                                                *)
LEMMA AppendedHeld ==
  ASSUME NEW cap \in Nat, NEW table \in [0..(cap - 1) -> Bucket], Exact(table),
         NEW i \in 0..(cap - 1), NEW k \in Keys, NEW v \in Values, NEW b \in Bucket,
         b.chain = Append(table[i].chain, NewEntry(k, v)),
         ~Holds(table, k),
         NEW t2, t2 = [table EXCEPT ![i] = b]
  PROVE  /\ t2 \in [0..(cap - 1) -> Bucket]
         /\ Adds(table, t2, k, v)
<1> DEFINE e  == NewEntry(k, v)
<1>1. e \in Entry /\ e.key = k /\ e.val = v /\ e.live
  BY NewEntryType DEF NewEntry, Vals
<1>2. t2 \in [0..(cap - 1) -> Bucket]
  OBVIOUS
<1> DEFINE x == <<i, Len(table[i].chain) + 1>>
<1>3. Extends(table, t2, x, e)
  <2>1. e \in Entry /\ b.chain = Append(table[i].chain, e)
    BY <1>1
  <2> HIDE DEF e
  <2> QED  BY <2>1, AppendedSlots
<1> HIDE DEF x
<1> HIDE DEF e
<1>4. Exact(t2)
  <2>1. \A s \in Slots(t2) : At(t2, s).live /\ At(t2, s).val \in Values
    BY <1>1, <1>3 DEF Exact, Extends
  <2>2. \A s \in Slots(table) : At(t2, s).key # k
    BY <1>3 DEF Holds, Extends
  <2>3. ASSUME NEW s \in Slots(t2), NEW t \in Slots(t2), At(t2, s).key = At(t2, t).key
        PROVE  s = t
    BY <2>2, <2>3, <1>1, <1>3 DEF Exact, Extends
  <2> QED  BY <2>1, <2>3 DEF Exact
<1>5. Held(t2) = Held(table) \cup {<<k, v>>}
  <2>1. HeldIn(t2, Slots(table)) = HeldIn(table, Slots(table))
    <3>1. \A s \in Slots(table) : At(t2, s) = At(table, s)
      BY <1>3 DEF Extends
    <3> QED  BY <3>1 DEF HeldIn
  <2>2. Slots(t2) = Slots(table) \cup {x} /\ At(t2, x) = e
    BY <1>3 DEF Extends
  <2>3. HeldIn(t2, Slots(table) \cup {x}) = HeldIn(t2, Slots(table)) \cup {<<k, v>>}
    BY <2>2, <1>1 DEF HeldIn
  <2> QED  BY <2>1, <2>2, <2>3 DEF Held
<1>6. <<k, v>> \notin Held(table)
  BY DEF Held, HeldIn, Holds
<1> QED  BY <1>2, <1>4, <1>5, <1>6 DEF Adds

(* An exact table has as many pairs as entries.                            *)
LEMMA HeldCount ==
  ASSUME NEW cap \in Nat, NEW table \in [0..(cap - 1) -> Bucket], Exact(table)
  PROVE  /\ IsFiniteSet(Held(table))
         /\ Cardinality(Held(table)) = Entries(table)
<1> DEFINE S == Slots(table)
           T == Held(table)
           pair(s) == <<At(table, s).key, At(table, s).val>>
           f == [s \in S |-> pair(s)]
<1>1. f \in [S -> T] /\ \A t \in T : \E s \in S : f[s] = t
  BY DEF Held, HeldIn
<1>2. ASSUME NEW s \in S, NEW t \in S, f[s] = f[t]
      PROVE  s = t
  <2>1. At(table, s).key = At(table, t).key
    BY <1>2
  <2> QED  BY <2>1 DEF Exact
<1> HIDE DEF f, T, S
<1>3. f \in Bijection(S, T)
  BY <1>1, <1>2 DEF Bijection, Injection, Surjection, IsInjective
<1>4. IsFiniteSet(S)
  BY SlotsFinite DEF S
<1> QED  BY <1>3, <1>4, FS_Bijection DEF ExistsBijection, Entries, S, T

LEMMA EmptyHolds ==
  ASSUME NEW cap \in Nat
  PROVE  Exact(EmptyTable(cap)) /\ Held(EmptyTable(cap)) = {}
<1>1. Slots(EmptyTable(cap)) = {}
  <2>1. EmptyTable(cap) \in [0..(cap - 1) -> Bucket] /\ Entries(EmptyTable(cap)) = 0
    BY EmptyTableFacts
  <2>2. IsFiniteSet(Slots(EmptyTable(cap)))
    BY <2>1, SlotsFinite
  <2> QED  BY <2>1, <2>2, FS_EmptySet DEF Entries
<1> QED  BY <1>1 DEF Exact, Held, HeldIn
-----------------------------------------------------------------------------
(* A whole table of cap buckets, and what it answers.                      *)
ExactTable(table, cap) ==
  /\ cap \in Nat \ {0}
  /\ table \in [0..(cap - 1) -> Bucket]
  /\ Placed(table, cap)
  /\ Exact(table)

AnswerIn(table, cap, k) ==
  LET chain == table[Index(k, cap)].chain
  IN  IF Misses(chain, k) THEN NULL
      ELSE chain[CHOOSE i \in DOMAIN chain : StopsAt(chain, k, i)].val

(* The value of k among pairs of keys and values.                          *)
ValuesOf(held, k) == {v \in Values : <<k, v>> \in held}
OneOf(vs)         == IF vs = {} THEN NULL ELSE CHOOSE v \in vs : TRUE
ValueIn(held, k)  == OneOf(ValuesOf(held, k))

(* A search in the bucket of k meets the entry of k, and only that one.    *)
LEMMA SearchMeets ==
  ASSUME NEW cap, NEW table, ExactTable(table, cap), ExactClient, NEW k \in Keys,
         NEW chain, chain = table[Index(k, cap)].chain
  PROVE  /\ \A n \in DOMAIN chain : Stops(chain[n], k) <=> chain[n].key = k
         /\ \A m, n \in DOMAIN chain : chain[m].key = k /\ chain[n].key = k => m = n
         /\ \A n \in DOMAIN chain :
               /\ chain[n].live /\ chain[n].val \in Values
               /\ chain[n].key = k => <<k, chain[n].val>> \in Held(table)
         /\ \A v : <<k, v>> \in Held(table) =>
               \E n \in DOMAIN chain : chain[n].key = k /\ chain[n].val = v
<1> DEFINE i == Index(k, cap)
<1>1. /\ cap \in Nat \ {0} /\ table \in [0..(cap - 1) -> Bucket]
      /\ i \in 0..(cap - 1) /\ cap \in Nat
  BY IndexInRange DEF ExactTable
<1>2. table[i] \in Bucket /\ chain = table[i].chain
  BY <1>1
<1>3. chain \in Seq(Entry) /\ \A n \in DOMAIN chain : chain[n] \in Entry
  BY <1>2, BucketChain
<1> HIDE DEF i
<1>4. ASSUME NEW n \in DOMAIN chain
      PROVE  /\ <<i, n>> \in Slots(table)
             /\ At(table, <<i, n>>) = chain[n]
  BY <1>1, <1>2, SlotOf DEF At
<1> DEFINE S == Slots(table)
<1>0. /\ \A s \in S : At(table, s).live /\ At(table, s).val \in Values
      /\ \A s, t \in S : At(table, s).key = At(table, t).key => s = t
  BY DEF ExactTable, Exact
<1>5. ASSUME NEW n \in DOMAIN chain
      PROVE  /\ chain[n].live /\ chain[n].val \in Values
             /\ chain[n].key = k => <<k, chain[n].val>> \in Held(table)
             /\ Stops(chain[n], k) <=> chain[n].key = k
  <2>1. chain[n].live /\ chain[n].val \in Values
    <3> HIDE DEF S
    <3>1. <<i, n>> \in S /\ At(table, <<i, n>>) = chain[n]
      BY <1>4 DEF S
    <3> QED  BY <3>1, <1>0
  <2>2. chain[n].key = k => <<k, chain[n].val>> \in Held(table)
    BY <1>4 DEF Held, HeldIn
  <2>3. chain[n].key \in Keys
    BY <1>3 DEF Entry
  <2>4. Stops(chain[n], k) <=> chain[n].key = k
    BY <2>1, <2>3 DEF Stops, SameKey, ExactClient
  <2> QED  BY <2>1, <2>2, <2>4
<1>6. ASSUME NEW m \in DOMAIN chain, NEW n \in DOMAIN chain,
             chain[m].key = k, chain[n].key = k
      PROVE  m = n
  <2>1. <<i, m>> = <<i, n>>
    <3> HIDE DEF S
    <3>1. /\ <<i, m>> \in S /\ At(table, <<i, m>>).key = k
          /\ <<i, n>> \in S /\ At(table, <<i, n>>).key = k
      BY <1>4, <1>6 DEF S
    <3> QED  BY <3>1, <1>0
  <2> QED  BY <2>1
<1>7. ASSUME NEW v, <<k, v>> \in Held(table)
      PROVE  \E n \in DOMAIN chain : chain[n].key = k /\ chain[n].val = v
  <2>1. PICK s \in Slots(table) : At(table, s).key = k /\ At(table, s).val = v
    BY <1>7 DEF Held, HeldIn
  <2>2. s = <<s[1], s[2]>> /\ s[1] \in 0..(cap - 1)
    BY <1>1, SlotIsPair
  <2>3. s[2] \in DOMAIN table[s[1]].chain
    <3>1. <<s[1], s[2]>> \in Slots(table)
      BY <2>2
    <3> QED  BY <3>1, <1>1, SlotOf
  <2>4. s[1] = i
    <3>1. Index(table[s[1]].chain[s[2]].key, cap) = s[1]
      BY <2>2, <2>3, <1>1 DEF ExactTable, Placed
    <3> QED  BY <3>1, <2>1 DEF At, i
  <2> QED  BY <2>1, <2>3, <2>4, <1>2 DEF At
<1> QED  BY <1>5, <1>6, <1>7

(* What a look-up answers depends only on the pairs the table holds.       *)
LEMMA AnswerIsHeld ==
  ASSUME NEW cap, NEW table, ExactTable(table, cap), ExactClient, NEW k \in Keys
  PROVE  /\ AnswerIn(table, cap, k) = ValueIn(Held(table), k)
         /\ Misses(table[Index(k, cap)].chain, k) <=> ValuesOf(Held(table), k) = {}
         /\ ~Misses(table[Index(k, cap)].chain, k) =>
               /\ AnswerIn(table, cap, k) \in Values
               /\ \E n \in DOMAIN table[Index(k, cap)].chain :
                     StopsAt(table[Index(k, cap)].chain, k, n)
         /\ \A n \in DOMAIN table[Index(k, cap)].chain :
               StopsAt(table[Index(k, cap)].chain, k, n) =>
                  /\ table[Index(k, cap)].chain[n].live
                  /\ table[Index(k, cap)].chain[n].val = AnswerIn(table, cap, k)
                  /\ ~Misses(table[Index(k, cap)].chain, k)
<1> DEFINE chain == table[Index(k, cap)].chain
           vs    == ValuesOf(Held(table), k)
<1>1. /\ \A n \in DOMAIN chain : Stops(chain[n], k) <=> chain[n].key = k
      /\ \A m, n \in DOMAIN chain : chain[m].key = k /\ chain[n].key = k => m = n
      /\ \A n \in DOMAIN chain :
            /\ chain[n].live /\ chain[n].val \in Values
            /\ chain[n].key = k => <<k, chain[n].val>> \in Held(table)
      /\ \A v : <<k, v>> \in Held(table) =>
            \E n \in DOMAIN chain : chain[n].key = k /\ chain[n].val = v
  BY SearchMeets
<1>2. AnswerIn(table, cap, k) = IF Misses(chain, k) THEN NULL
        ELSE chain[CHOOSE i \in DOMAIN chain : StopsAt(chain, k, i)].val
  BY DEF AnswerIn
<1>3. ValueIn(Held(table), k) = IF vs = {} THEN NULL ELSE CHOOSE v \in vs : TRUE
  BY DEF ValueIn, OneOf
<1>4. DOMAIN chain = 1..Len(chain) /\ Len(chain) \in Nat
  <2>1. table[Index(k, cap)] \in Bucket
    BY IndexInRange DEF ExactTable
  <2> QED  BY <2>1, BucketChain
<1> HIDE DEF chain
<1>5. vs = {v \in Values : \E n \in DOMAIN chain : chain[n].key = k /\ chain[n].val = v}
  BY <1>1 DEF ValuesOf
<1> HIDE DEF vs
<1>6. CASE Misses(chain, k)
  <2>1. vs = {}
    BY <1>1, <1>5, <1>6 DEF Misses
  <2>2. AnswerIn(table, cap, k) = NULL /\ ValueIn(Held(table), k) = NULL
    BY <2>1, <1>2, <1>3, <1>6
  <2>3. \A n \in DOMAIN chain : ~StopsAt(chain, k, n)
    BY <1>6 DEF Misses, StopsAt
  <2> QED  BY <2>1, <2>2, <2>3, <1>6 DEF chain, vs
<1>7. CASE ~Misses(chain, k)
  <2>1. PICK n \in DOMAIN chain : chain[n].key = k
    BY <1>1, <1>7 DEF Misses
  <2>2. StopsAt(chain, k, n)
    <3>1. n \in Nat /\ n <= Len(chain) /\ Stops(chain[n], k)
      BY <2>1, <1>1, <1>4
    <3>2. ASSUME NEW j \in 1..(n - 1)
          PROVE  ~Stops(chain[j], k)
      <4>1. j \in DOMAIN chain /\ j # n
        BY <3>1, <1>4
      <4> QED  BY <4>1, <2>1, <1>1
    <3> QED  BY <2>1, <3>1, <3>2 DEF StopsAt
  <2>3. \A m \in DOMAIN chain : StopsAt(chain, k, m) => m = n
    BY <2>1, <1>1 DEF StopsAt
  <2>4. (CHOOSE i \in DOMAIN chain : StopsAt(chain, k, i)) = n
    BY <2>1, <2>2, <2>3
  <2>5. vs = {chain[n].val}
    <3>1. chain[n].val \in Values /\ \A m \in DOMAIN chain : chain[m].key = k => m = n
      BY <2>1, <1>1
    <3> QED  BY <2>1, <3>1, <1>5
  <2>6. (CHOOSE v \in vs : TRUE) = chain[n].val
    BY <2>5
  <2>7. AnswerIn(table, cap, k) = chain[n].val
    BY <2>4, <1>2, <1>7
  <2>8. ValueIn(Held(table), k) = chain[n].val /\ vs # {}
    BY <2>5, <2>6, <1>3
  <2>9. AnswerIn(table, cap, k) \in Values
    <3>1. chain[n].val \in Values
      BY <2>1, <1>1
    <3> QED  BY <3>1, <2>7
  <2>10. \A m \in DOMAIN chain : StopsAt(chain, k, m) =>
            chain[m].live /\ chain[m].val = AnswerIn(table, cap, k)
    <3>1. chain[n].live
      BY <2>1, <1>1
    <3> QED  BY <3>1, <2>3, <2>7
  <2> QED  BY <2>2, <2>7, <2>8, <2>9, <2>10, <1>7 DEF chain, vs
<1> QED  BY <1>6, <1>7

(* A new pair changes the answer of its key and of no other.               *)
LEMMA AnswerAdded ==
  ASSUME NEW held, NEW k \in Keys, NEW v \in Values, ValuesOf(held, k) = {}
  PROVE  /\ ValueIn(held \cup {<<k, v>>}, k) = v
         /\ \A j \in Keys \ {k} : ValueIn(held \cup {<<k, v>>}, j) = ValueIn(held, j)
<1>1. ValuesOf(held \cup {<<k, v>>}, k) = {v}
  BY DEF ValuesOf
<1>2. ASSUME NEW j \in Keys \ {k}
      PROVE  ValuesOf(held \cup {<<k, v>>}, j) = ValuesOf(held, j)
  BY DEF ValuesOf
<1>3. (CHOOSE w \in {v} : TRUE) = v
  OBVIOUS
<1>4. ValueIn(held \cup {<<k, v>>}, k) = v
  BY <1>1, <1>3 DEF ValueIn, OneOf
<1>5. \A j \in Keys \ {k} : ValueIn(held \cup {<<k, v>>}, j) = ValueIn(held, j)
  <2> SUFFICES ASSUME NEW j \in Keys \ {k}
               PROVE  ValueIn(held \cup {<<k, v>>}, j) = ValueIn(held, j)
    OBVIOUS
  <2>1. ValuesOf(held \cup {<<k, v>>}, j) = ValuesOf(held, j)
    BY <1>2
  <2> QED  BY <2>1 DEF ValueIn
<1> QED  BY <1>4, <1>5

LEMMA HoldsIsHeld ==
  ASSUME NEW table, Exact(table), NEW k
  PROVE  Holds(table, k) <=> ValuesOf(Held(table), k) # {}
BY DEF Holds, Exact, ValuesOf, Held, HeldIn
-----------------------------------------------------------------------------
(* While entries are moved the new table holds those that were passed.     *)
MovedOK ==
  pc = "rehash" =>
    /\ Exact(new_buckets)
    /\ Held(new_buckets) = HeldIn(buckets, Passed(buckets, at_bucket, at_node))

ExactInv ==
  /\ pc \in {"idle", "rehash", "return"}
  /\ pending = 0
  /\ resize_bound = 0
  /\ Exact(buckets)
  /\ Cardinality(Held(buckets)) = set
  /\ set <= MaxSet
  /\ MovedOK

Starts(cap) ==
  /\ pc' = "rehash"
  /\ new_buckets' = EmptyTable(cap)
  /\ new_cap' = cap
  /\ at_bucket' = 0
  /\ at_node' = 1

LEMMA TablesExact ==
  ASSUME IInv, ExactInv
  PROVE  ExactTable(buckets, capacity)
BY DEF IInv, TypeOK, HashPlacement, ExactInv, ExactTable

LEMMA BeginResizeExact ==
  ASSUME ExactClient, resize_bound = 0, NEW cap, NEW err, NEW coll,
         BeginResize(cap, err, coll)
  PROVE  Starts(cap) /\ last_error_code' = err
BY DEF BeginResize, Starts, ExactClient

LEMMA UpdateLoadExact ==
  ASSUME ExactClient, resize_bound = 0, NEW n, NEW cap, NEW err, NEW coll,
         update_load_factor(n, cap, err, coll)
  PROVE  \/ /\ pc' = "return"
            /\ last_error_code' = err
         \/ /\ Starts(2 * cap)
            /\ LoadFactor(n, cap) > Threshold
            /\ ~locked => last_error_code' = err
<1>1. ASSUME NEW e, BeginResize(2 * cap, e, coll)
      PROVE  Starts(2 * cap) /\ last_error_code' = e
  BY <1>1, BeginResizeExact
<1> HIDE DEF Starts
<1> QED  BY <1>1 DEF update_load_factor, Unhealthy, GrownCapacity

LEMMA StartsMoved ==
  ASSUME NEW c \in Nat, Starts(c),
         capacity' \in Nat, buckets' \in [0..(capacity' - 1) -> Bucket]
  PROVE  MovedOK'
<1>1. Passed(buckets', 0, 1) = {}
  <2> SUFFICES ASSUME NEW s \in Slots(buckets'), s[1] < 0 \/ (s[1] = 0 /\ s[2] < 1)
               PROVE  FALSE
    BY DEF Passed
  <2>1. s[1] \in 0..(capacity' - 1) /\ s[2] \in 1..Len(buckets'[s[1]].chain) /\ s[2] \in Nat
    BY SlotIsPair
  <2> QED  BY <2>1
<1>2. HeldIn(buckets', {}) = {}
  BY DEF HeldIn
<1>3. Exact(EmptyTable(c)) /\ Held(EmptyTable(c)) = {}
  BY EmptyHolds
<1> QED  BY <1>1, <1>2, <1>3 DEF MovedOK, Starts

LEMMA UpdateLoadMoved ==
  ASSUME ExactClient, resize_bound = 0, NEW n, NEW cap \in Nat \ {0}, NEW err, NEW coll,
         update_load_factor(n, cap, err, coll),
         capacity' \in Nat, buckets' \in [0..(capacity' - 1) -> Bucket]
  PROVE  MovedOK' /\ pc' \in {"rehash", "return"}
<1>1. CASE pc' = "return"
  BY <1>1 DEF MovedOK
<1>2. CASE Starts(2 * cap)
  <2>1. 2 * cap \in Nat
    OBVIOUS
  <2> QED  BY <1>2, <2>1, StartsMoved DEF Starts
<1> QED  BY <1>1, <1>2, UpdateLoadExact

(* A store of a new key, which goes to the end of its bucket.              *)
LEMMA StoredExact ==
  ASSUME IInv, ExactInv, ExactClient, NEW k \in Keys, NEW v \in Values,
         ~Holds(buckets, k), NEW b \in Bucket,
         b.chain = Append(buckets[Index(k, capacity)].chain, NewEntry(k, v)),
         NEW err, NEW coll, NEW gone,
         Stored(Index(k, capacity), b, err, coll, gone)
  PROVE  ExactInv' /\ Adds(buckets, buckets', k, v)
<1> DEFINE i == Index(k, capacity)
<1>1. /\ set < MaxSet /\ set' = set + 1
      /\ buckets' = [buckets EXCEPT ![i] = b]
      /\ update_load_factor(set + 1, capacity, err, coll)
      /\ UNCHANGED <<capacity, resize_bound, pending>>
  BY DEF Stored, config
<1>2. /\ capacity \in Nat \ {0} /\ buckets \in [0..(capacity - 1) -> Bucket]
      /\ set \in Nat /\ MaxSet \in Nat
  BY ConstantsAssumption DEF IInv, TypeOK
<1>3. /\ Exact(buckets) /\ Cardinality(Held(buckets)) = set
      /\ resize_bound = 0 /\ pending = 0
  BY DEF ExactInv
<1>4. i \in 0..(capacity - 1) /\ capacity \in Nat
  BY <1>2, IndexInRange
<1>5. buckets' \in [0..(capacity - 1) -> Bucket] /\ Adds(buckets, buckets', k, v)
  <2> HIDE DEF i
  <2>1. b.chain = Append(buckets[i].chain, NewEntry(k, v))
    BY DEF i
  <2> QED  BY <1>1, <1>2, <1>3, <1>4, <2>1, AppendedHeld
<1>6. Cardinality(Held(buckets')) = set + 1
  <2>1. IsFiniteSet(Held(buckets))
    BY <1>2, <1>3, <1>4, HeldCount
  <2> QED  BY <2>1, <1>2, <1>3, <1>5, FS_AddElement DEF Adds
<1>7. MovedOK' /\ pc' \in {"rehash", "return"}
  BY <1>1, <1>2, <1>3, <1>5, UpdateLoadMoved
<1>8. Exact(buckets')
  BY <1>5 DEF Adds
<1>9. set' <= MaxSet /\ Cardinality(Held(buckets')) = set'
  BY <1>1, <1>2, <1>6
<1>10. ExactInv'
  BY <1>1, <1>3, <1>7, <1>8, <1>9 DEF ExactInv
<1> QED  BY <1>5, <1>10

(* What hmap_complex_key_set_value does when no allocation fails.          *)
LEMMA SetValueExact ==
  ASSUME ExactClient, NEW b \in Bucket, NEW k \in Keys, NEW v \in Values,
         NEW o \in hmap_complex_key_set_value(b, k, v)
  PROVE  /\ o.bucket \in Bucket
         /\ o.bucket.chain = Append(b.chain, NewEntry(k, v))
         /\ o.failed = FALSE
<1> DEFINE b1 == [complex |-> TRUE, chain |-> Append(b.chain, NewEntry(k, v))]
<1>1. o = [bucket |-> b1, failed |-> FALSE, gone |-> FALSE]
  BY DEF hmap_complex_key_set_value, ExactClient, linked_last
<1>2. b1 \in Bucket
  BY AppendedBucket DEF Vals
<1> QED  BY <1>1, <1>2

LEMMA SimpleAppended ==
  ASSUME NEW b, b.chain = << >>, NEW k \in Keys, NEW v \in Values
  PROVE  /\ Simple(NewEntry(k, v)) \in Bucket
         /\ Simple(NewEntry(k, v)).chain = Append(b.chain, NewEntry(k, v))
<1> DEFINE e == NewEntry(k, v)
<1>1. e \in Entry
  BY NewEntryType DEF Vals
<1> HIDE DEF e
<1>2. <<e>> \in Seq(Entry) /\ <<e>> = Append(<< >>, e)
  BY <1>1
<1>3. Simple(e) \in Bucket /\ Simple(e).chain = Append(b.chain, e)
  BY <1>2 DEF Simple, Bucket
<1> QED  BY <1>3 DEF e

(* What a store of this client does.                                       *)
Appends(k, v) ==
  \E b, coll, gone :
     /\ b \in Bucket
     /\ ~locked
     /\ b.chain = Append(buckets[Index(k, capacity)].chain, NewEntry(k, v))
     /\ Stored(Index(k, capacity), b, last_error_code, coll, gone)

LEMMA StoreOnceAppends ==
  ASSUME IInv, ExactInv, ExactClient, NEW k \in Keys, NEW v \in Values, NEW allow,
         StoreOnce(k, v, allow)
  PROVE  ~Holds(buckets, k) /\ (Refused(FALSE) \/ Appends(k, v))
<1> DEFINE i     == Index(k, capacity)
           b     == buckets[i]
           match == b.chain # << >> /\ SameKey(b.chain[1].key, k)
<1>1. ExactTable(buckets, capacity)
  BY TablesExact
<1>2. i \in 0..(capacity - 1) /\ b \in Bucket
  BY <1>1, IndexInRange DEF ExactTable
<1>3. Misses(b.chain, k) /\ ~Holds(buckets, k)
  <2>1. \A n \in DOMAIN b.chain : ~StopsAt(b.chain, k, n)
    BY DEF StoreOnce, Found
  <2>2. Misses(b.chain, k)
    BY <2>1, <1>1, AnswerIsHeld
  <2>3. ValuesOf(Held(buckets), k) = {}
    BY <2>2, <1>1, AnswerIsHeld
  <2> QED  BY <2>2, <2>3, HoldsIsHeld DEF ExactInv
<1> HIDE DEF i, b
<1>4. ~match
  <2>1. CASE b.chain # << >>
    <3>1. 1 \in DOMAIN b.chain
      BY <2>1, <1>2, BucketChain
    <3> QED  BY <3>1, <1>3 DEF Misses, Stops
  <2> QED  BY <2>1
<1>5. ASSUME ~locked, StoreColliding(i, k, v)
      PROVE  Appends(k, v)
  <2>1. PICK o \in hmap_complex_key_set_value(b, k, v) :
           Stored(i, o.bucket,
                  IF o.failed THEN HMAP_ERROR_CODE_MALLOC_FAILED ELSE last_error_code,
                  IF o.failed THEN collisions ELSE collisions + 1,
                  o.gone)
    BY <1>5 DEF StoreColliding, b
  <2>2. /\ o.bucket \in Bucket
        /\ o.bucket.chain = Append(b.chain, NewEntry(k, v))
        /\ o.failed = FALSE
    BY <1>2, SetValueExact
  <2>3. Stored(i, o.bucket, last_error_code, collisions + 1, o.gone)
    BY <2>1, <2>2
  <2> QED  BY <1>5, <2>2, <2>3 DEF Appends, i, b
<1>6. ASSUME ~locked, b.chain = << >>,
             Stored(i, Simple(NewEntry(k, v)), last_error_code, collisions, FALSE)
      PROVE  Appends(k, v)
  <2>1. /\ Simple(NewEntry(k, v)) \in Bucket
        /\ Simple(NewEntry(k, v)).chain = Append(b.chain, NewEntry(k, v))
    BY <1>6, SimpleAppended
  <2> QED  BY <1>6, <2>1 DEF Appends, i, b
<1>7. Refused(FALSE) \/ Appends(k, v)
  <2>1. \/ Refused(FALSE)
        \/ ~locked /\ StoreColliding(i, k, v)
        \/ /\ ~locked /\ b.chain = << >>
           /\ Stored(i, Simple(NewEntry(k, v)), last_error_code, collisions, FALSE)
        \/ match
    BY DEF StoreOnce, hmap_set, i, b
  <2> QED  BY <2>1, <1>4, <1>5, <1>6
<1> QED  BY <1>3, <1>7

(* hmap_rehash appends the entry to its new bucket.                        *)
Moves(j, e) ==
  \E b, coll, gone :
     /\ b \in Bucket
     /\ b.chain = Append(new_buckets[j].chain, NewEntry(e.key, e.val))
     /\ RehashPut(j, b, last_error_code, coll, gone)

LEMMA RehashMoves ==
  ASSUME ExactClient, Exact(new_buckets),
         NEW e \in Entry, e.live, e.val \in Values,
         new_cap \in Nat \ {0}, new_buckets \in [0..(new_cap - 1) -> Bucket],
         NEW j \in 0..(new_cap - 1),
         hmap_rehash_complex(j, e) \/ hmap_rehash_simple(j, e)
  PROVE  Moves(j, e)
<1> DEFINE nb == new_buckets[j]
<1>1. e.key \in Keys /\ e = NewEntry(e.key, e.val)
  BY DEF Entry, NewEntry
<1>2. nb \in Bucket
  OBVIOUS
<1> HIDE DEF nb
<1>3. ASSUME RehashColliding(j, e)
      PROVE  Moves(j, e)
  <2>1. PICK o \in hmap_complex_key_set_value(nb, e.key, e.val) :
           RehashPut(j, o.bucket,
                     IF o.failed THEN HMAP_ERROR_CODE_MALLOC_FAILED ELSE last_error_code,
                     IF o.failed THEN collisions ELSE collisions + 1,
                     o.gone)
    BY <1>3 DEF RehashColliding, nb
  <2>2. /\ o.bucket \in Bucket
        /\ o.bucket.chain = Append(nb.chain, NewEntry(e.key, e.val))
        /\ o.failed = FALSE
    BY <1>1, <1>2, SetValueExact
  <2>3. RehashPut(j, o.bucket, last_error_code, collisions + 1, o.gone)
    BY <2>1, <2>2
  <2> QED  BY <2>2, <2>3 DEF Moves, nb
<1>4. ASSUME nb.chain = << >>, RehashPut(j, Simple(e), last_error_code, collisions, FALSE)
      PROVE  Moves(j, e)
  <2>1. Simple(e) \in Bucket /\ Simple(e).chain = Append(nb.chain, NewEntry(e.key, e.val))
    BY <1>1, <1>4, SimpleAppended
  <2> QED  BY <1>4, <2>1 DEF Moves, nb
<1>5. nb.chain # << >> => nb.chain[1].val # NULL
  <2> SUFFICES ASSUME nb.chain # << >>
               PROVE  nb.chain[1].val \in Values
    BY DEF ExactClient
  <2>1. 1 \in DOMAIN nb.chain
    BY <1>2, BucketChain
  <2>2. <<j, 1>> \in Slots(new_buckets)
    BY <2>1, SlotOf DEF nb
  <2>3. At(new_buckets, <<j, 1>>).val \in Values
    BY <2>2 DEF Exact
  <2> QED  BY <2>3 DEF At, nb
<1>6. \/ RehashColliding(j, e)
      \/ nb.chain = << >> /\ RehashPut(j, Simple(e), last_error_code, collisions, FALSE)
  BY <1>5 DEF hmap_rehash_complex, hmap_rehash_simple, nb
<1> QED  BY <1>3, <1>4, <1>6

LEMMA RehashEntryExact ==
  ASSUME IInv, ExactInv, ExactClient, RehashEntry
  PROVE  /\ ExactInv'
         /\ UNCHANGED <<buckets, capacity, set, new_cap, last_error_code, ret>>
<1> DEFINE old == buckets[at_bucket]
           e   == old.chain[at_node]
           j   == Index(e.key, new_cap)
           P   == Passed(buckets, at_bucket, at_node)
           x   == <<at_bucket, at_node>>
<1>1. /\ pc = "rehash"
      /\ at_bucket < capacity
      /\ at_node <= Len(old.chain)
      /\ \/ ~e.live
         \/ e.live /\ (hmap_rehash_complex(j, e) \/ hmap_rehash_simple(j, e))
  BY DEF RehashEntry, NewIndex
<1>2. /\ capacity \in Nat /\ buckets \in [0..(capacity - 1) -> Bucket]
      /\ new_cap \in Nat \ {0} /\ new_buckets \in [0..(new_cap - 1) -> Bucket]
      /\ new_cap \in Nat
      /\ at_bucket \in 0..(capacity - 1) /\ at_node \in Nat \ {0}
  BY <1>1 DEF IInv, TypeOK
<1>3. /\ old \in Bucket /\ at_node \in DOMAIN old.chain
      /\ e \in Entry /\ e.key \in Keys
  <2>1. old \in Bucket
    BY <1>2
  <2> HIDE DEF old
  <2>2. at_node \in DOMAIN old.chain /\ e \in Entry
    BY <1>1, <1>2, <2>1, BucketChain
  <2> QED  BY <2>1, <2>2 DEF Entry
<1>4. x \in Slots(buckets) /\ At(buckets, x) = e
  BY <1>2, <1>3, SlotOf DEF At
<1>5. /\ Exact(buckets) /\ Exact(new_buckets)
      /\ Held(new_buckets) = HeldIn(buckets, P)
  BY <1>1 DEF ExactInv, MovedOK
<1>6. e.live /\ e.val \in Values
  BY <1>4, <1>5 DEF Exact
<1>7. x \notin P /\ P \subseteq Slots(buckets) /\ Passed(buckets, at_bucket, at_node + 1) = P \cup {x}
  <2>1. x \notin P /\ P \subseteq Slots(buckets)
    BY <1>2 DEF Passed
  <2>2. P \cup {x} \subseteq Passed(buckets, at_bucket, at_node + 1)
    <3>1. x \in Passed(buckets, at_bucket, at_node + 1)
      BY <1>2, <1>4 DEF Passed
    <3>2. ASSUME NEW s \in P
          PROVE  s \in Passed(buckets, at_bucket, at_node + 1)
      <4>1. s \in Slots(buckets) /\ (s[1] < at_bucket \/ (s[1] = at_bucket /\ s[2] < at_node))
        BY DEF Passed
      <4>2. s[2] \in Nat
        BY <4>1, <1>2, SlotIsPair
      <4>3. s[2] < at_node => s[2] < at_node + 1
        BY <4>2, <1>2
      <4> QED  BY <4>1, <4>3 DEF Passed
    <3> HIDE DEF P, x
    <3> QED  BY <3>1, <3>2
  <2>3. ASSUME NEW s \in Passed(buckets, at_bucket, at_node + 1), s \notin P
        PROVE  s = x
    <3>1. s = <<s[1], s[2]>> /\ s[2] \in Nat /\ s[1] \in Nat /\ s \in Slots(buckets)
      BY <1>2, SlotIsPair DEF Passed
    <3>2. s[1] = at_bucket /\ s[2] < at_node + 1 /\ ~(s[2] < at_node)
      BY <2>3, <3>1 DEF Passed
    <3>3. s[2] = at_node
      BY <3>1, <3>2, <1>2
    <3> QED  BY <3>1, <3>2, <3>3
  <2> QED  BY <2>1, <2>2, <2>3
<1>8. j \in 0..(new_cap - 1)
  BY <1>2, <1>3, IndexInRange
<1> HIDE DEF old, e, j, P, x
<1>9. Moves(j, e)
  BY <1>1, <1>2, <1>3, <1>5, <1>6, <1>8, RehashMoves
<1>10. PICK b, coll, gone :
          /\ b \in Bucket
          /\ b.chain = Append(new_buckets[j].chain, NewEntry(e.key, e.val))
          /\ RehashPut(j, b, last_error_code, coll, gone)
  BY <1>9 DEF Moves
<1>11. /\ new_buckets' = [new_buckets EXCEPT ![j] = b]
       /\ at_node' = at_node + 1
       /\ UNCHANGED <<buckets, capacity, set, new_cap, last_error_code, ret, pc,
                      at_bucket, pending, resize_bound>>
  BY <1>10 DEF RehashPut, config
<1>12. ~Holds(new_buckets, e.key)
  <2> SUFFICES ASSUME NEW s \in Slots(new_buckets), At(new_buckets, s).key = e.key
               PROVE  FALSE
    BY DEF Holds
  <2>1. PICK t \in P : At(buckets, t).key = e.key
    <3>1. <<e.key, At(new_buckets, s).val>> \in HeldIn(buckets, P)
      BY <1>5 DEF Held, HeldIn
    <3> QED  BY <3>1 DEF HeldIn
  <2> QED  BY <2>1, <1>4, <1>5, <1>7 DEF Exact
<1>13. Adds(new_buckets, new_buckets', e.key, e.val)
  BY <1>2, <1>3, <1>5, <1>6, <1>8, <1>10, <1>11, <1>12, AppendedHeld
<1>14. Held(new_buckets') = HeldIn(buckets, Passed(buckets, at_bucket, at_node + 1))
  <2>1. HeldIn(buckets, P \cup {x}) = HeldIn(buckets, P) \cup {<<e.key, e.val>>}
    BY <1>4 DEF HeldIn
  <2> QED  BY <2>1, <1>5, <1>7, <1>13 DEF Adds
<1>15. MovedOK'
  BY <1>11, <1>13, <1>14 DEF MovedOK, Adds
<1> QED  BY <1>11, <1>15 DEF ExactInv

LEMMA RehashNextBucketExact ==
  ASSUME IInv, ExactInv, RehashNextBucket
  PROVE  /\ ExactInv'
         /\ UNCHANGED <<buckets, capacity, set, new_cap, last_error_code, ret>>
<1>1. /\ pc = "rehash" /\ at_bucket < capacity
      /\ at_node > Len(buckets[at_bucket].chain)
      /\ at_bucket' = at_bucket + 1 /\ at_node' = 1
      /\ UNCHANGED <<buckets, capacity, set, new_cap, last_error_code, ret, pc,
                     new_buckets, pending, resize_bound>>
  BY DEF RehashNextBucket, config, status
<1>2. /\ capacity \in Nat /\ buckets \in [0..(capacity - 1) -> Bucket]
      /\ at_bucket \in 0..(capacity - 1) /\ at_node \in Nat
  BY <1>1 DEF IInv, TypeOK
<1>3. Passed(buckets, at_bucket + 1, 1) = Passed(buckets, at_bucket, at_node)
  <2> SUFFICES ASSUME NEW s \in Slots(buckets)
               PROVE  s[1] < at_bucket + 1 \/ (s[1] = at_bucket + 1 /\ s[2] < 1)
                        <=> s[1] < at_bucket \/ (s[1] = at_bucket /\ s[2] < at_node)
    BY DEF Passed
  <2>1. s[1] \in 0..(capacity - 1) /\ s[2] \in 1..Len(buckets[s[1]].chain) /\ s[2] \in Nat
    BY <1>2, SlotIsPair
  <2>2. Len(buckets[at_bucket].chain) \in Nat
    <3>1. buckets[at_bucket] \in Bucket
      BY <1>2
    <3> QED  BY <3>1, BucketChain
  <2>3. s[1] = at_bucket => s[2] < at_node
    BY <1>1, <1>2, <2>1, <2>2
  <2> QED  BY <1>2, <2>1, <2>3
<1>4. MovedOK'
  BY <1>1, <1>3 DEF ExactInv, MovedOK
<1> QED  BY <1>1, <1>4 DEF ExactInv

(* The new table takes over with what the old one held.                    *)
LEMMA SwapExact ==
  ASSUME IInv, ExactInv, ExactClient, ResizeSwap
  PROVE  ExactInv' /\ Held(buckets') = Held(buckets)
<1>1. /\ pc = "rehash" /\ at_bucket = capacity
      /\ buckets' = new_buckets /\ capacity' = new_cap
      /\ update_load_factor(set, new_cap, last_error_code, collisions)
      /\ UNCHANGED <<set, resize_bound, pending>>
  BY DEF ResizeSwap, config
<1>2. /\ capacity \in Nat /\ buckets \in [0..(capacity - 1) -> Bucket]
      /\ new_cap \in Nat \ {0} /\ new_buckets \in [0..(new_cap - 1) -> Bucket]
  BY <1>1 DEF IInv, TypeOK
<1>3. Passed(buckets, capacity, at_node) = Slots(buckets)
  <2> SUFFICES ASSUME NEW s \in Slots(buckets)
               PROVE  s[1] < capacity
    BY DEF Passed
  <2>1. s[1] \in 0..(capacity - 1)
    BY <1>2, SlotIsPair
  <2> QED  BY <2>1, <1>2
<1>4. Exact(new_buckets) /\ Held(new_buckets) = Held(buckets)
  BY <1>1, <1>3 DEF ExactInv, MovedOK, Held
<1>5. MovedOK' /\ pc' \in {"rehash", "return"}
  <2>1. capacity' \in Nat /\ buckets' \in [0..(capacity' - 1) -> Bucket]
    BY <1>1, <1>2
  <2>2. resize_bound = 0
    BY DEF ExactInv
  <2> QED  BY <1>1, <1>2, <2>1, <2>2, UpdateLoadMoved
<1> QED  BY <1>1, <1>4, <1>5 DEF ExactInv

(* The calls and steps that leave the table alone.                         *)
LEMMA GetExact ==
  ASSUME IInv, ExactInv, ExactClient, NEW k \in Keys, hmap_get(k)
  PROVE  /\ ExactInv'
         /\ UNCHANGED <<buckets, capacity, set, pc>>
         /\ \/ locked /\ ret' = NULL /\ last_error_code' = HMAP_ERROR_CODE_LOCKED
            \/ /\ Answer(k) = NULL /\ ret' = NULL
               /\ last_error_code' \in {last_error_code, HMAP_ERROR_CODE_KEY_MISMATCH}
            \/ /\ Answer(k) # NULL /\ ret' = Answer(k)
               /\ last_error_code' = last_error_code
<1> DEFINE chain == buckets[Index(k, capacity)].chain
           a     == Answer(k)
<1>1. a = AnswerIn(buckets, capacity, k)
  BY DEF Answer, AnswerIn
<1>2. /\ Misses(chain, k) => a = NULL
      /\ ~Misses(chain, k) => a \in Values
      /\ \A n \in DOMAIN chain : StopsAt(chain, k, n) =>
            chain[n].live /\ chain[n].val = a /\ ~Misses(chain, k)
  <2>1. Misses(chain, k) => a = NULL
    BY <1>1 DEF AnswerIn
  <2> QED  BY <1>1, <2>1, TablesExact, AnswerIsHeld
<1>3. a \in Values => a # NULL
  BY DEF ExactClient
<1>4. \/ locked /\ Return(NULL, HMAP_ERROR_CODE_LOCKED)
      \/ /\ Misses(chain, k)
         /\ \/ Return(NULL, last_error_code)
            \/ Return(NULL, HMAP_ERROR_CODE_KEY_MISMATCH)
      \/ \E i \in DOMAIN chain :
            /\ StopsAt(chain, k, i)
            /\ IF chain[i].live THEN Return(chain[i].val, last_error_code) ELSE Undefined
  BY DEF hmap_get, Refused
<1> HIDE DEF chain, a
<1>5. \/ locked /\ Return(NULL, HMAP_ERROR_CODE_LOCKED)
      \/ /\ a = NULL
         /\ \/ Return(NULL, last_error_code)
            \/ Return(NULL, HMAP_ERROR_CODE_KEY_MISMATCH)
      \/ a # NULL /\ Return(a, last_error_code)
  BY <1>2, <1>3, <1>4
<1>6. ASSUME NEW r, NEW err, Return(r, err)
      PROVE  /\ ExactInv'
             /\ UNCHANGED <<buckets, capacity, set, pc>>
             /\ ret' = r /\ last_error_code' = err
  BY <1>6 DEF Return, config, rehash, ExactInv, MovedOK
<1> QED  BY <1>5, <1>6 DEF a

LEMMA ResizeExact ==
  ASSUME IInv, ExactInv, ExactClient, NEW cap \in ResizeCaps, hmap_resize(cap)
  PROVE  ExactInv' /\ UNCHANGED <<buckets, capacity, set, last_error_code, ret>>
<1>1. /\ BeginResize(cap, last_error_code, collisions)
      /\ UNCHANGED <<buckets, capacity, set, resize_bound, pending, ret>>
  BY DEF hmap_resize, config
<1>2. capacity \in Nat /\ buckets \in [0..(capacity - 1) -> Bucket] /\ cap \in Nat
  BY ConstantsAssumption DEF IInv, TypeOK
<1>3. Starts(cap) /\ last_error_code' = last_error_code
  BY <1>1, BeginResizeExact DEF ExactInv
<1>4. MovedOK'
  <2>1. capacity' \in Nat /\ buckets' \in [0..(capacity' - 1) -> Bucket]
    BY <1>1, <1>2
  <2> QED  BY <1>2, <1>3, <2>1, StartsMoved
<1> QED  BY <1>1, <1>3, <1>4 DEF ExactInv, Starts

LEMMA QuietExact ==
  ASSUME ExactInv,
         \/ ResizeBackOff
         \/ FinishCall
         \/ \E cb : hmap_set_unhealthy_callback(cb)
         \/ UNCHANGED vars,
         TypeOK
  PROVE  ExactInv' /\ UNCHANGED <<buckets, capacity, set, ret>>
<1>1. CASE ResizeBackOff
  BY <1>1 DEF ResizeBackOff, config, ExactInv, MovedOK
<1>2. CASE FinishCall
  <2>1. set' = set
    BY <1>2 DEF FinishCall, SetAfterCall, ExactInv, TypeOK
  <2> QED  BY <1>2, <2>1 DEF FinishCall, config, ExactInv, MovedOK
<1>3. ASSUME NEW cb, hmap_set_unhealthy_callback(cb)
      PROVE  ExactInv' /\ UNCHANGED <<buckets, capacity, set, ret>>
  BY <1>3 DEF hmap_set_unhealthy_callback, rehash, ExactInv, MovedOK
<1>4. CASE UNCHANGED vars
  BY <1>4 DEF vars, config, rehash, ExactInv, MovedOK
<1> QED  BY <1>1, <1>2, <1>3, <1>4

LEMMA SetExact ==
  ASSUME IInv, ExactInv, ExactClient, NEW k \in Keys, NEW v \in Values, NEW allow,
         StoreOnce(k, v, allow)
  PROVE  ExactInv'
<1>1. ~Holds(buckets, k) /\ (Refused(FALSE) \/ Appends(k, v))
  BY StoreOnceAppends
<1>2. CASE Refused(FALSE)
  BY <1>2 DEF Refused, Return, config, rehash, ExactInv, MovedOK
<1>3. CASE Appends(k, v)
  BY <1>1, <1>3, StoredExact DEF Appends
<1> QED  BY <1>1, <1>2, <1>3

LEMMA InitExact ==
  ASSUME Init
  PROVE  ExactInv
<1>1. capacity \in Nat
  BY ConstantsAssumption DEF Init
<1>2. Exact(buckets) /\ Held(buckets) = {}
  BY <1>1, EmptyHolds DEF Init
<1>3. Cardinality(Held(buckets)) = 0
  BY <1>2, FS_EmptySet
<1> QED  BY <1>2, <1>3, ConstantsAssumption DEF Init, ExactInv, MovedOK

LEMMA StepExact ==
  ASSUME IInv, ExactInv, ExactClient, [WriteOnceNext]_vars
  PROVE  ExactInv'
<1>0. TypeOK
  BY DEF IInv
<1> QED  BY <1>0, SetExact, GetExact, ResizeExact, RehashEntryExact,
            RehashNextBucketExact, SwapExact, QuietExact
         DEF WriteOnceNext, Running

LEMMA ExactInvariant ==
  ASSUME ExactClient
  PROVE  WriteOnceSpec => [](IInv /\ ExactInv)
<1>1. WriteOnceSpec => []IInv
  BY WriteOnceIsClient, Invariant, PTL
<1>2. Init => ExactInv
  BY InitExact
<1>3. IInv /\ ExactInv /\ [WriteOnceNext]_vars => ExactInv'
  BY StepExact
<1> QED  BY <1>1, <1>2, <1>3, PTL DEF WriteOnceSpec

(* set is the number of entries when no call runs.                         *)
THEOREM SetCountsEntries ==
  ASSUME ExactClient
  PROVE  WriteOnceSpec => []SetIsElementCount
<1>1. IInv /\ ExactInv => SetIsElementCount
  <2> SUFFICES ASSUME IInv, ExactInv
               PROVE  Entries(buckets) = set
    BY DEF SetIsElementCount
  <2>1. capacity \in Nat /\ buckets \in [0..(capacity - 1) -> Bucket] /\ Exact(buckets)
    BY DEF IInv, TypeOK, ExactInv
  <2>2. Cardinality(Held(buckets)) = Entries(buckets)
    BY <2>1, HeldCount
  <2> QED  BY <2>2 DEF ExactInv
<1> QED  BY <1>1, ExactInvariant, PTL
-----------------------------------------------------------------------------
(* Doubling a table that is under the threshold leaves room for one more   *)
(* entry, so that the growth of a healthy map enters no second growth.     *)
LEMMA DivAtMost ==
  ASSUME NEW a \in Nat, NEW c \in Nat \ {0}, NEW t \in Nat
  PROVE  a \div c <= t <=> a < (t + 1) * c
<1> DEFINE q == a \div c
<1>1. q \in Int /\ q * c <= a /\ a < (q + 1) * c
  <2>1. /\ a = (c * q) + (a % c) /\ q \in Int
        /\ (a % c) >= 0 /\ (a % c) < c
    OBVIOUS
  <2> QED  BY <2>1
<1> HIDE DEF q
<1>2. q <= t => (q + 1) * c <= (t + 1) * c
  BY <1>1
<1>3. q > t => (t + 1) * c <= q * c
  BY <1>1
<1>4. (t + 1) * c \in Int /\ (q + 1) * c \in Int /\ q * c \in Int
  BY <1>1
<1> QED  BY <1>1, <1>2, <1>3, <1>4 DEF q

LEMMA DoubledIsEnough ==
  ASSUME NEW n \in Nat, NEW cap \in Nat \ {0}, Threshold >= 50,
         LoadFactor(n, cap) <= Threshold
  PROVE  LoadFactor(n + 1, 2 * cap) <= Threshold
<1> DEFINE t == Threshold
<1>0. t \in Nat /\ t >= 50
  BY ConstantsAssumption
<1> HIDE DEF t
<1>1. n * 100 < (t + 1) * cap
  BY <1>0, DivAtMost, n * 100 \in Nat DEF LoadFactor, t
<1>2. (n + 1) * 100 < (t + 1) * (2 * cap)
  <2>1. CASE cap = 1
    <3>1. n * 100 < t + 1
      BY <1>0, <1>1, <2>1
    <3> QED  BY <1>0, <3>1, <2>1
  <2>2. CASE cap >= 2
    <3>1. (t + 1) * cap >= 51 * cap
      BY <1>0
    <3>2. /\ (t + 1) * (2 * cap) = (t + 1) * cap + (t + 1) * cap
          /\ (t + 1) * cap \in Nat
      BY <1>0
    <3>3. (n + 1) * 100 = n * 100 + 100
      OBVIOUS
    <3> QED  BY <3>1, <3>2, <3>3, <1>1, <2>2
  <2> QED  BY <2>1, <2>2
<1>3. (n + 1) * 100 \in Nat /\ 2 * cap \in Nat \ {0}
  OBVIOUS
<1>4. ((n + 1) * 100) \div (2 * cap) <= t
  BY <1>0, <1>2, <1>3, DivAtMost
<1> QED  BY <1>4 DEF LoadFactor, t

LEMMA FewerIsEnough ==
  ASSUME NEW n \in Nat, NEW m \in Nat, n <= m, NEW cap \in Nat \ {0},
         LoadFactor(m, cap) <= Threshold
  PROVE  LoadFactor(n, cap) <= Threshold
<1>0. Threshold \in Nat
  BY ConstantsAssumption
<1>1. m * 100 < (Threshold + 1) * cap
  BY <1>0, DivAtMost, m * 100 \in Nat DEF LoadFactor
<1>2. n * 100 < (Threshold + 1) * cap /\ n * 100 \in Nat
  BY <1>0, <1>1, (Threshold + 1) * cap \in Nat
<1> QED  BY <1>0, <1>2, DivAtMost DEF LoadFactor

(* The client asks for no capacity that MaxSet entries overload, and never *)
(* puts off a growth.                                                      *)
Roomy ==
  /\ Threshold >= 50
  /\ "defer" \notin Callbacks
  /\ \A c \in ResizeCaps : LoadFactor(MaxSet, c) <= Threshold

(* The default callback would find the map locked by the growth that       *)
(* called it, and record that error.                                       *)
NotNested ==
  pc = "rehash" /\ last_error_code = HMAP_ERROR_CODE_OK
    => LoadFactor(set, new_cap) <= Threshold

AppendSteps(k, v) ==
  /\ Adds(buckets, buckets', k, v)
  /\ ret' = TRUE
  /\ last_error_code' = last_error_code

LEMMA AppendsIsPut ==
  ASSUME IInv, ExactInv, HealthInv, ExactClient, Roomy,
         NEW k \in Keys, NEW v \in Values, ~Holds(buckets, k), pc = "idle",
         Appends(k, v)
  PROVE  NotNested' /\ AppendSteps(k, v)
<1>1. PICK b, coll, gone :
         /\ b \in Bucket
         /\ ~locked
         /\ b.chain = Append(buckets[Index(k, capacity)].chain, NewEntry(k, v))
         /\ Stored(Index(k, capacity), b, last_error_code, coll, gone)
  BY DEF Appends
<1>2. Adds(buckets, buckets', k, v)
  BY <1>1, StoredExact
<1>3. /\ ret' = TRUE /\ set' = set + 1
      /\ update_load_factor(set + 1, capacity, last_error_code, coll)
  BY <1>1 DEF Stored
<1>4. /\ last_error_code' = last_error_code
      /\ pc' = "return" \/ Starts(2 * capacity)
  <2> HIDE DEF Starts
  <2>1. resize_bound = 0
    BY DEF ExactInv
  <2> QED  BY <2>1, <1>1, <1>3, UpdateLoadExact
<1>5. set \in Nat /\ capacity \in Nat \ {0}
  BY DEF IInv, TypeOK
<1>6. last_error_code = HMAP_ERROR_CODE_OK => LoadFactor(set, capacity) <= Threshold
  BY DEF HealthInv, LoadIsHealthy
<1>7. last_error_code = HMAP_ERROR_CODE_OK => LoadFactor(set + 1, 2 * capacity) <= Threshold
  BY <1>5, <1>6, DoubledIsEnough DEF Roomy
<1>8. NotNested'
  <2>1. LoadFactor(set, new_cap)' = LoadFactor(set', new_cap')
    BY DEF LoadFactor
  <2> QED  BY <2>1, <1>3, <1>4, <1>7 DEF NotNested, Starts
<1> QED  BY <1>2, <1>3, <1>4, <1>8 DEF AppendSteps

(* A step that keeps what the table holds, what the last call returned,    *)
(* and the map's health.                                                   *)
Keeps ==
  /\ Held(buckets') = Held(buckets)
  /\ ret' = ret
  /\ last_error_code' = HMAP_ERROR_CODE_OK <=> last_error_code = HMAP_ERROR_CODE_OK

LEMMA RunningKeeps ==
  ASSUME IInv, ExactInv, ExactClient, NotNested, Running
  PROVE  NotNested' /\ Keeps
<1>1. ASSUME pc = "rehash", pc' = pc,
             UNCHANGED <<buckets, set, new_cap, last_error_code, ret>>
      PROVE  NotNested' /\ Keeps
  BY <1>1 DEF NotNested, Keeps, LoadFactor
<1>2. CASE RehashEntry
  <2>1. UNCHANGED <<buckets, set, new_cap, last_error_code, ret>>
    BY <1>2, RehashEntryExact
  <2>2. ExactInv'
    BY <1>2, RehashEntryExact
  <2>3. pc = "rehash" /\ (pc' = pc \/ pc' = "undefined")
    <3>1. ASSUME NEW j, NEW e, hmap_rehash_complex(j, e) \/ hmap_rehash_simple(j, e)
          PROVE  pc' = pc
      BY <3>1 DEF hmap_rehash_complex, hmap_rehash_simple, RehashColliding, RehashPut
    <3> QED  BY <1>2, <3>1 DEF RehashEntry, Undefined
  <2>4. pc' # "undefined"
    BY <2>2 DEF ExactInv
  <2> QED  BY <1>1, <2>1, <2>3, <2>4
<1>3. CASE RehashNextBucket
  <2>1. pc = "rehash" /\ pc' = pc
        /\ UNCHANGED <<buckets, set, new_cap, last_error_code, ret>>
    BY <1>3 DEF RehashNextBucket, status
  <2> QED  BY <1>1, <2>1
<1>4. CASE ResizeBackOff
  <2>1. /\ last_error_code # HMAP_ERROR_CODE_OK
        /\ last_error_code' = HMAP_ERROR_CODE_REHASH_FAILED
        /\ pc' = "return" /\ UNCHANGED <<buckets, ret>>
    BY <1>4 DEF ResizeBackOff, RehashFailed
  <2>2. last_error_code' # HMAP_ERROR_CODE_OK
    BY <2>1, Codes
  <2> QED  BY <2>1, <2>2 DEF NotNested, Keeps
<1>5. CASE ResizeSwap
  <2>1. /\ pc = "rehash" /\ last_error_code = HMAP_ERROR_CODE_OK
        /\ update_load_factor(set, new_cap, last_error_code, collisions)
        /\ ret' = ret
    BY <1>5 DEF ResizeSwap, RehashFailed
  <2>2. Held(buckets') = Held(buckets)
    BY <1>5, SwapExact
  <2>3. ~(LoadFactor(set, new_cap) > Threshold)
    <3>1. LoadFactor(set, new_cap) \in Int /\ Threshold \in Nat
      BY <2>1, ConstantsAssumption DEF IInv, TypeOK, LoadFactor
    <3> QED  BY <2>1, <3>1 DEF NotNested
  <2>4. pc' = "return" /\ last_error_code' = last_error_code
    <3>1. resize_bound = 0
      BY DEF ExactInv
    <3> QED  BY <2>1, <2>3, <3>1, UpdateLoadExact
  <2> QED  BY <2>1, <2>2, <2>4 DEF NotNested, Keeps
<1>6. CASE FinishCall
  BY <1>6 DEF FinishCall, config, NotNested, Keeps
<1> QED  BY <1>2, <1>3, <1>4, <1>5, <1>6 DEF Running

LEMMA ResizeIsRoomy ==
  ASSUME IInv, ExactInv, ExactClient, Roomy, NEW cap \in ResizeCaps, hmap_resize(cap)
  PROVE  NotNested' /\ Keeps
<1>1. UNCHANGED <<buckets, set, last_error_code, ret>>
  BY ResizeExact
<1>2. new_cap' = cap
  <2>1. BeginResize(cap, last_error_code, collisions)
    BY DEF hmap_resize
  <2> QED  BY <2>1, BeginResizeExact DEF ExactInv, Starts
<1>3. set \in Nat /\ MaxSet \in Nat /\ set <= MaxSet /\ cap \in Nat \ {0}
  BY ConstantsAssumption DEF IInv, TypeOK, ExactInv
<1>4. LoadFactor(set, cap) <= Threshold
  BY <1>3, FewerIsEnough DEF Roomy
<1> QED  BY <1>1, <1>2, <1>4 DEF NotNested, Keeps, LoadFactor

(* The value of every key is a matter of what the table holds.             *)
LEMMA StoreIsHeld ==
  ASSUME NEW k \in Keys, IInv, ExactInv, ExactClient
  PROVE  Answer(k) = ValueIn(Held(buckets), k)
<1>1. Answer(k) = AnswerIn(buckets, capacity, k)
  BY DEF Answer, AnswerIn
<1> QED  BY <1>1, TablesExact, AnswerIsHeld

LEMMA StoreIsHeldNext ==
  ASSUME NEW k \in Keys, IInv', ExactInv', ExactClient
  PROVE  Answer(k)' = ValueIn(Held(buckets'), k)
<1>1. Answer(k)' = AnswerIn(buckets', capacity', k)
  BY DEF Answer, AnswerIn, Index
<1>2. ExactTable(buckets', capacity')
  BY DEF IInv, TypeOK, HashPlacement, ExactInv, ExactTable
<1> QED  BY <1>1, <1>2, AnswerIsHeld

store == [k \in Keys |-> Answer(k)]

LEMMA KeepsIsStutter ==
  ASSUME IInv, IInv', ExactInv, ExactInv', ExactClient, Keeps
  PROVE  UNCHANGED Map!mapVars
<1>1. \A k \in Keys : Answer(k)' = Answer(k)
  BY StoreIsHeld, StoreIsHeldNext DEF Keeps
<1>2. store' = store
  BY <1>1 DEF store
<1> QED  BY <1>2 DEF Map!mapVars, Keeps, store

LEMMA AppendsMapsToPut ==
  ASSUME IInv, IInv', ExactInv, ExactInv', ExactClient,
         NEW k \in Keys, NEW v \in Values, ~Holds(buckets, k), AppendSteps(k, v)
  PROVE  Map!Put(k, v)
<1>1. ValuesOf(Held(buckets), k) = {}
  BY HoldsIsHeld DEF ExactInv
<1>2. Held(buckets') = Held(buckets) \cup {<<k, v>>}
  BY DEF AppendSteps, Adds
<1>3. /\ ValueIn(Held(buckets'), k) = v
      /\ \A j \in Keys \ {k} : ValueIn(Held(buckets'), j) = ValueIn(Held(buckets), j)
  BY <1>1, <1>2, AnswerAdded
<1>4. Answer(k) = NULL
  <2>1. ValueIn(Held(buckets), k) = NULL
    BY <1>1 DEF ValueIn, OneOf
  <2> QED  BY <2>1, StoreIsHeld
<1>5. Answer(k)' = v
  BY <1>3, StoreIsHeldNext
<1>6. \A j \in Keys \ {k} : Answer(j)' = Answer(j)
  BY <1>3, StoreIsHeld, StoreIsHeldNext
<1>7. store[k] = NULL
  BY <1>4 DEF store
<1>8. store' = [store EXCEPT ![k] = v]
  BY <1>5, <1>6 DEF store
<1> QED  BY <1>7, <1>8 DEF AppendSteps, Map!Put, store

LEMMA GetMaps ==
  ASSUME IInv, IInv', ExactInv, ExactInv', ExactClient, NEW k \in Keys, hmap_get(k)
  PROVE  NotNested' /\ (Map!Get(k) \/ Map!Miss(k) \/ Map!RefuseGet)
<1>1. UNCHANGED buckets /\ pc' = pc
  BY GetExact
<1>2. \A j \in Keys : Answer(j)' = Answer(j)
  BY <1>1, StoreIsHeld, StoreIsHeldNext
<1>3. store' = store /\ store[k] = Answer(k)
  BY <1>2 DEF store
<1>4. pc = "idle"
  BY DEF hmap_get
<1>5. NotNested'
  BY <1>1, <1>4 DEF NotNested
<1>6. \/ locked /\ ret' = NULL /\ last_error_code' = HMAP_ERROR_CODE_LOCKED
      \/ /\ Answer(k) = NULL /\ ret' = NULL
         /\ last_error_code' \in {last_error_code, HMAP_ERROR_CODE_KEY_MISMATCH}
      \/ /\ Answer(k) # NULL /\ ret' = Answer(k)
         /\ last_error_code' = last_error_code
  BY GetExact
<1>7. HMAP_ERROR_CODE_LOCKED # HMAP_ERROR_CODE_OK
      /\ HMAP_ERROR_CODE_KEY_MISMATCH # HMAP_ERROR_CODE_OK
  BY Codes
<1>8. CASE locked /\ ret' = NULL /\ last_error_code' = HMAP_ERROR_CODE_LOCKED
  <2>1. last_error_code # HMAP_ERROR_CODE_OK
    BY <1>4, <1>8 DEF IInv, LockOK, LockedOnlyAfterError
  <2>2. Map!RefuseGet
    BY <2>1, <1>3, <1>7, <1>8 DEF Map!RefuseGet, store
  <2> QED  BY <2>2, <1>5
<1>9. CASE /\ Answer(k) = NULL /\ ret' = NULL
           /\ last_error_code' \in {last_error_code, HMAP_ERROR_CODE_KEY_MISMATCH}
  <2>1. Map!Miss(k)
    BY <1>3, <1>7, <1>9 DEF Map!Miss, store
  <2> QED  BY <2>1, <1>5
<1>10. CASE Answer(k) # NULL /\ ret' = Answer(k) /\ last_error_code' = last_error_code
  <2>1. Map!Get(k)
    BY <1>3, <1>10 DEF Map!Get, store
  <2> QED  BY <2>1, <1>5
<1> QED  BY <1>6, <1>8, <1>9, <1>10

LEMMA StoreMaps ==
  ASSUME IInv, IInv', ExactInv, ExactInv', HealthInv, ExactClient, Roomy,
         NEW k \in Keys, NEW v \in Values, NEW allow, StoreOnce(k, v, allow)
  PROVE  NotNested' /\ (Map!Put(k, v) \/ Map!RefusePut)
<1>1. ~Holds(buckets, k) /\ (Refused(FALSE) \/ Appends(k, v)) /\ pc = "idle"
  BY StoreOnceAppends DEF StoreOnce, hmap_set
<1>2. CASE Appends(k, v)
  <2>1. NotNested' /\ AppendSteps(k, v)
    BY <1>1, <1>2, AppendsIsPut
  <2> QED  BY <1>1, <2>1, AppendsMapsToPut
<1>3. CASE Refused(FALSE)
  <2>1. /\ locked /\ ret' = FALSE /\ last_error_code' = HMAP_ERROR_CODE_LOCKED
        /\ UNCHANGED <<buckets, pc>>
    BY <1>3 DEF Refused, Return
  <2>2. last_error_code # HMAP_ERROR_CODE_OK /\ last_error_code' # HMAP_ERROR_CODE_OK
    BY <1>1, <2>1, Codes DEF IInv, LockOK, LockedOnlyAfterError
  <2>3. \A j \in Keys : Answer(j)' = Answer(j)
    BY <2>1, StoreIsHeld, StoreIsHeldNext
  <2>4. store' = store
    BY <2>3 DEF store
  <2>5. NotNested'
    BY <1>1, <2>1 DEF NotNested
  <2>6. Map!RefusePut
    BY <2>1, <2>2, <2>4 DEF Map!RefusePut, store
  <2> QED  BY <2>5, <2>6
<1> QED  BY <1>1, <1>2, <1>3

LEMMA StepMaps ==
  ASSUME IInv, IInv', ExactInv, ExactInv', HealthInv, NotNested, ExactClient, Roomy,
         [WriteOnceNext]_vars
  PROVE  NotNested' /\ [Map!MapNext]_(Map!mapVars)
<1>1. ASSUME NotNested', Keeps
      PROVE  NotNested' /\ [Map!MapNext]_(Map!mapVars)
  BY <1>1, KeepsIsStutter
<1>2. CASE Running
  BY <1>1, <1>2, RunningKeeps
<1>3. ASSUME NEW k \in Keys, NEW v \in Values, NEW allow \in BOOLEAN, StoreOnce(k, v, allow)
      PROVE  NotNested' /\ [Map!MapNext]_(Map!mapVars)
  BY <1>3, StoreMaps DEF Map!MapNext
<1>4. ASSUME NEW k \in Keys, hmap_get(k)
      PROVE  NotNested' /\ [Map!MapNext]_(Map!mapVars)
  BY <1>4, GetMaps DEF Map!MapNext
<1>5. ASSUME NEW cap \in ResizeCaps, hmap_resize(cap)
      PROVE  NotNested' /\ [Map!MapNext]_(Map!mapVars)
  BY <1>1, <1>5, ResizeIsRoomy
<1>6. ASSUME NEW cb, hmap_set_unhealthy_callback(cb)
      PROVE  NotNested' /\ [Map!MapNext]_(Map!mapVars)
  <2>1. pc = "idle" /\ UNCHANGED <<pc, buckets, ret, last_error_code>>
    BY <1>6 DEF hmap_set_unhealthy_callback, status
  <2>2. NotNested' /\ Keeps
    BY <2>1 DEF NotNested, Keeps
  <2> QED  BY <1>1, <2>2
<1>7. CASE UNCHANGED vars
  <2>1. NotNested' /\ Keeps
    BY <1>7 DEF vars, rehash, status, NotNested, Keeps, LoadFactor
  <2> QED  BY <1>1, <2>1
<1> QED  BY <1>2, <1>3, <1>4, <1>5, <1>6, <1>7 DEF WriteOnceNext

(* hmap_set, hmap_get and every growth between them implement the exact    *)
(* map of WriteOnceMap.                                                    *)
THEOREM MapImplemented ==
  ASSUME ExactClient, Roomy
  PROVE  WriteOnceSpec => ImplementsMap
<1>1. Init => Map!MapInit
  <2> SUFFICES ASSUME Init
               PROVE  Map!MapInit
    OBVIOUS
  <2>1. capacity \in Nat \ {0} /\ buckets = EmptyTable(capacity)
    BY ConstantsAssumption DEF Init
  <2>2. ASSUME NEW k \in Keys
        PROVE  Answer(k) = NULL
    <3>1. Index(k, capacity) \in 0..(capacity - 1)
      BY <2>1, IndexInRange
    <3>2. buckets[Index(k, capacity)].chain = << >>
      BY <2>1, <3>1 DEF EmptyTable, EmptyBucket
    <3> QED  BY <3>2 DEF Answer, Misses
  <2>3. store = [k \in Keys |-> NULL]
    BY <2>2 DEF store
  <2> QED  BY <2>3 DEF Init, Map!MapInit, store
<1>2. Init => NotNested
  BY DEF Init, NotNested
<1>3. /\ IInv /\ IInv' /\ ExactInv /\ ExactInv'
      /\ HealthInv /\ NotNested /\ [WriteOnceNext]_vars
      => NotNested' /\ [Map!MapNext]_(Map!mapVars)
  BY StepMaps
<1>4. WriteOnceSpec => [](IInv /\ ExactInv)
  BY ExactInvariant
<1>5. WriteOnceSpec => []HealthInv
  BY HealthInvariant DEF Roomy
<1> QED  BY <1>1, <1>2, <1>3, <1>4, <1>5, PTL
         DEF WriteOnceSpec, ImplementsMap, Map!MapSpec
-----------------------------------------------------------------------------
(* What a search finds, whoever the client is.                             *)
USE DEF linked_last, GrownCapacity, Unhealthy, NewIndex, RehashFailed,
        LockedAfterCall, SetAfterCall, Least

(* What a search of one chain finds: Found(k) is that of the chain of k's  *)
(* bucket.                                                                 *)
FoundIn(chain, k) ==
  {<<chain[i].val, chain[i].live>> : i \in {n \in DOMAIN chain : StopsAt(chain, k, n)}}

ChainOf(k) == buckets[Index(k, capacity)].chain

LEMMA FoundIsFoundIn ==
  ASSUME NEW k
  PROVE  /\ Found(k) = FoundIn(ChainOf(k), k)
         /\ Found(k)' = FoundIn(buckets'[Index(k, capacity')].chain, k)
BY DEF Found, FoundIn, ChainOf

LEMMA FoundNowhere ==
  ASSUME NEW chain, NEW k, Misses(chain, k)
  PROVE  FoundIn(chain, k) = {}
BY DEF FoundIn, Misses, StopsAt

LEMMA FoundInEmpty ==
  ASSUME NEW k
  PROVE  FoundIn(<< >>, k) = {} /\ Misses(<< >>, k)
BY FoundNowhere DEF Misses

(* An entry at the end of a chain is found only if nothing before it is.   *)
LEMMA FoundAppended ==
  ASSUME NEW chain \in Seq(Entry), NEW e \in Entry, NEW k
  PROVE  /\ FoundIn(Append(chain, e), k) =
              IF Misses(chain, k) THEN IF Stops(e, k) THEN {<<e.val, e.live>>} ELSE {}
                                  ELSE FoundIn(chain, k)
         /\ Misses(Append(chain, e), k) <=> Misses(chain, k) /\ ~Stops(e, k)
<1> DEFINE c == Append(chain, e)
           n == Len(chain)
<1>1. n \in Nat /\ DOMAIN chain = 1..n
  BY LenProperties
<1>2. /\ DOMAIN c = 1..(n + 1)
      /\ \A i \in 1..n : c[i] = chain[i]
      /\ c[n + 1] = e
  <2>1. c \in Seq(Entry) /\ Len(c) = n + 1 /\ (\A i \in 1..n : c[i] = chain[i]) /\ c[n + 1] = e
    BY AppendProperties
  <2> QED BY <2>1, LenProperties
<1> HIDE DEF c, n
<1>3. ASSUME Misses(chain, k)
      PROVE  FoundIn(c, k) = IF Stops(e, k) THEN {<<e.val, e.live>>} ELSE {}
  <2>1. \A i \in 1..n : ~Stops(c[i], k)
    BY <1>1, <1>2, <1>3 DEF Misses
  <2>2. \A i \in DOMAIN c : StopsAt(c, k, i) <=> i = n + 1 /\ Stops(e, k)
    <3>1. ASSUME NEW i \in 1..(n + 1) PROVE i \in 1..n \/ (i = n + 1 /\ \A j \in 1..(i - 1) : j \in 1..n)
      BY <1>1
    <3> QED BY <1>2, <2>1, <3>1 DEF StopsAt
  <2>3. n + 1 \in DOMAIN c
    BY <1>1, <1>2
  <2> QED BY <1>2, <2>2, <2>3 DEF FoundIn
<1>4. ASSUME ~Misses(chain, k)
      PROVE  FoundIn(c, k) = FoundIn(chain, k)
  <2>1. PICK m \in 1..n : Stops(c[m], k)
    BY <1>1, <1>2, <1>4 DEF Misses
  <2>2. ~StopsAt(c, k, n + 1)
    <3>1. m \in 1..((n + 1) - 1)
      BY <1>1
    <3> QED BY <2>1, <3>1 DEF StopsAt
  <2>3. \A i \in 1..n : StopsAt(c, k, i) <=> StopsAt(chain, k, i)
    <3>1. ASSUME NEW i \in 1..n PROVE i \in 1..(n + 1) /\ \A j \in 1..(i - 1) : j \in 1..n
      BY <1>1
    <3> QED BY <1>1, <1>2, <3>1 DEF StopsAt
  <2>4. {i \in DOMAIN c : StopsAt(c, k, i)} = {i \in DOMAIN chain : StopsAt(chain, k, i)}
    <3>1. \A i \in 1..(n + 1) : i \in 1..n \/ i = n + 1
      BY <1>1
    <3>2. \A i \in 1..n : i \in 1..(n + 1)
      BY <1>1
    <3> QED BY <1>1, <1>2, <2>2, <2>3, <3>1, <3>2
  <2> QED BY <1>1, <1>2, <2>4 DEF FoundIn
<1>5. Misses(c, k) <=> Misses(chain, k) /\ ~Stops(e, k)
  <2>1. \A i \in 1..(n + 1) : i \in 1..n \/ i = n + 1
    BY <1>1
  <2>2. \A i \in 1..n : i \in 1..(n + 1)
    BY <1>1
  <2>3. n + 1 \in 1..(n + 1)
    BY <1>1
  <2> QED BY <1>1, <1>2, <2>1, <2>2, <2>3 DEF Misses
<1> QED BY <1>3, <1>4, <1>5 DEF c

(* The one entry of a chain.                                               *)
LEMMA FoundAlone ==
  ASSUME NEW chain \in Seq(Entry), Len(chain) = 1, NEW k
  PROVE  FoundIn(chain, k) = IF Stops(chain[1], k) THEN {<<chain[1].val, chain[1].live>>} ELSE {}
<1>1. DOMAIN chain = {1}
  BY LenProperties
<1>2. StopsAt(chain, k, 1) <=> Stops(chain[1], k)
  BY <1>1 DEF StopsAt
<1> QED BY <1>1, <1>2 DEF FoundIn
-----------------------------------------------------------------------------
(* What a store changes.                                                   *)

(* The outcomes of hmap_complex_key_set_value, as far as the chain goes.   *)
LEMMA SetValueChains ==
  ASSUME NEW b, NEW k, NEW v, NEW o \in hmap_complex_key_set_value(b, k, v)
  PROVE  \/ o.bucket.chain = Append(b.chain, NewEntry(k, v)) /\ ~o.failed /\ ~o.gone
         \/ o.bucket.chain = b.chain /\ (o.failed \/ o.gone)
         \/ o.bucket = Halfway(b) /\ ~b.complex /\ o.failed
<1> DEFINE b1 == [complex |-> TRUE, chain |-> Append(b.chain, NewEntry(k, v))]
           b2 == [complex |-> TRUE, chain |-> b.chain]
           b3 == Halfway(b)
<1>1. \/ o = [bucket |-> b1, failed |-> FALSE, gone |-> FALSE]
      \/ o = [bucket |-> b,  failed |-> TRUE,  gone |-> FALSE]
      \/ o = [bucket |-> b2, failed |-> FALSE, gone |-> TRUE]
      \/ o = [bucket |-> b3, failed |-> TRUE,  gone |-> FALSE]
  BY DEF hmap_complex_key_set_value
<1>2. ASSUME b.complex
      PROVE  \/ o = [bucket |-> b1, failed |-> FALSE, gone |-> FALSE]
             \/ o = [bucket |-> b,  failed |-> TRUE,  gone |-> FALSE]
             \/ o = [bucket |-> b2, failed |-> FALSE, gone |-> TRUE]
  BY <1>2 DEF hmap_complex_key_set_value
<1> HIDE DEF b3
<1> QED BY <1>1, <1>2 DEF b3

LEMMA StoreAppended ==
  ASSUME NEW chain \in Seq(Entry), NEW j \in Keys, NEW v \in Vals, NEW k,
         FoundIn(Append(chain, NewEntry(j, v)), k) # FoundIn(chain, k)
  PROVE  SameKey(j, k) /\ FoundIn(chain, k) = {}
<1>1. NewEntry(j, v) \in Entry /\ NewEntry(j, v).live = TRUE /\ NewEntry(j, v).key = j
  BY NewEntryType DEF NewEntry
<1> DEFINE e == NewEntry(j, v)
<1>2. Misses(chain, k) /\ Stops(e, k)
  <2> HIDE DEF e
  <2>1. FoundIn(Append(chain, e), k) =
          IF Misses(chain, k) THEN IF Stops(e, k) THEN {<<e.val, e.live>>} ELSE {}
                              ELSE FoundIn(chain, k)
    BY <1>1, FoundAppended DEF e
  <2>2. Misses(chain, k) => FoundIn(chain, k) = {}
    BY FoundNowhere
  <2>3. FoundIn(Append(chain, e), k) # FoundIn(chain, k)
    BY DEF e
  <2> QED BY <2>1, <2>2, <2>3
<1> QED BY <1>1, <1>2, FoundNowhere DEF Stops

(* A new value in a simple bucket's one entry.                             *)
LEMMA FoundRevalued ==
  ASSUME NEW b \in Bucket, ~b.complex, WellShaped(b, 1), b.chain # << >>,
         NEW v \in Vals, NEW k,
         FoundIn([b EXCEPT !.chain[1].val = v].chain, k) # FoundIn(b.chain, k)
  PROVE  /\ SameKey(b.chain[1].key, k)
         /\ FoundIn([b EXCEPT !.chain[1].val = v].chain, k) = {<<v, TRUE>>}
<1> DEFINE c == [b EXCEPT !.chain[1].val = v].chain
<1>1. b.chain \in Seq(Entry) /\ Len(b.chain) = 1 /\ DOMAIN b.chain = {1} /\ b.chain[1] \in Entry /\ b.chain[1].live
  <2>1. /\ b.chain \in Seq(Entry) /\ Len(b.chain) \in Nat /\ DOMAIN b.chain = 1..Len(b.chain)
        /\ \A n \in 1..Len(b.chain) : b.chain[n] \in Entry
        /\ Len(b.chain) >= 1
    BY BucketChain
  <2>2. Len(b.chain) <= 1 /\ \A n \in DOMAIN b.chain : b.chain[n].live
    BY DEF WellShaped
  <2> DEFINE l == Len(b.chain)
  <2>3. l \in Nat /\ l >= 1 /\ l <= 1 /\ DOMAIN b.chain = 1..l
    BY <2>1, <2>2
  <2> HIDE DEF l
  <2>4. l = 1 /\ DOMAIN b.chain = {1}
    BY <2>3
  <2> QED BY <2>1, <2>2, <2>4 DEF l
<1>2. c = [b.chain EXCEPT ![1].val = v]
  BY DEF Bucket
<1>3. [b.chain[1] EXCEPT !.val = v] \in Entry
  BY <1>1 DEF Entry, Vals
<1>4. c = [b.chain EXCEPT ![1] = [b.chain[1] EXCEPT !.val = v]]
  BY <1>1, <1>2
<1>5. c \in Seq(Entry) /\ Len(c) = 1 /\ c[1] = [b.chain[1] EXCEPT !.val = v]
  BY <1>1, <1>3, <1>4, ExceptSeq
<1>6. c[1].key = b.chain[1].key /\ c[1].live = TRUE /\ c[1].val = v /\ b.chain[1].live = TRUE
  BY <1>1, <1>5 DEF Entry
<1> HIDE DEF c
<1>7. Stops(c[1], k) <=> SameKey(b.chain[1].key, k)
  BY <1>6 DEF Stops
<1>8. Stops(b.chain[1], k) <=> SameKey(b.chain[1].key, k)
  BY <1>6 DEF Stops
<1>9. FoundIn(c, k) = IF Stops(c[1], k) THEN {<<c[1].val, c[1].live>>} ELSE {}
  BY <1>5, FoundAlone
<1>10. FoundIn(b.chain, k) = IF Stops(b.chain[1], k) THEN {<<b.chain[1].val, b.chain[1].live>>} ELSE {}
  BY <1>1, FoundAlone
<1>11. FoundIn(c, k) # FoundIn(b.chain, k)
  BY DEF c
<1> QED BY <1>6, <1>7, <1>8, <1>9, <1>10, <1>11 DEF c

(* A step that replaces one bucket changes what is found in it only.       *)
LEMMA OneBucketChanges ==
  ASSUME TypeOK, capacity' = capacity,
         NEW i \in 0..(capacity - 1), NEW b2, buckets' = [buckets EXCEPT ![i] = b2],
         NEW k \in Keys, Found(k)' # Found(k)
  PROVE  /\ Index(k, capacity) = i
         /\ Found(k) = FoundIn(buckets[i].chain, k)
         /\ Found(k)' = FoundIn(b2.chain, k)
<1>1. capacity \in Nat \ {0} /\ buckets \in [0..(capacity - 1) -> Bucket]
  BY DEF TypeOK
<1>2. Index(k, capacity) \in 0..(capacity - 1)
  BY <1>1, IndexInRange
<1>3. /\ Found(k) = FoundIn(buckets[Index(k, capacity)].chain, k)
      /\ Found(k)' = FoundIn(buckets'[Index(k, capacity)].chain, k)
  BY FoundIsFoundIn DEF ChainOf
<1>4. Index(k, capacity) = i
  BY <1>1, <1>2, <1>3
<1> QED BY <1>1, <1>3, <1>4

(* A call that leaves the table alone leaves every answer alone.           *)
LEMMA SameTableSameAnswers ==
  ASSUME UNCHANGED <<buckets, capacity>>, NEW k
  PROVE  Found(k)' = Found(k)
BY FoundIsFoundIn DEF ChainOf

(* A store that adds an entry to a bucket's chain, or changes nothing, or  *)
(* fails half-way through making the bucket a list.                        *)
LEMMA CollidingIsConfined ==
  ASSUME TypeOK, BucketShape, NEW j \in Keys, NEW v \in Values,
         NEW i \in 0..(capacity - 1), i = Index(j, capacity),
         buckets[i].complex \/ buckets[i].chain # << >>,
         StoreColliding(i, j, v),
         NEW k \in Keys, Found(k)' # Found(k)
  PROVE  Index(j, capacity) = Index(k, capacity) /\ StoreChanges(j, k)
<1> DEFINE b == buckets[i]
<1>1. b \in Bucket /\ WellShaped(b, Least) /\ v \in Vals /\ ListPtr \in Vals
  BY DEF TypeOK, BucketShape, Vals
<1>2. PICK o \in hmap_complex_key_set_value(b, j, v) :
        Stored(i, o.bucket,
               IF o.failed THEN HMAP_ERROR_CODE_MALLOC_FAILED ELSE last_error_code,
               IF o.failed THEN collisions ELSE collisions + 1,
               o.gone)
  BY DEF StoreColliding
<1>3. buckets' = [buckets EXCEPT ![i] = o.bucket] /\ capacity' = capacity
  BY <1>2 DEF Stored
<1>4. ASSUME o.failed
      PROVE  last_error_code' # HMAP_ERROR_CODE_OK
  <2>1. Stored(i, o.bucket, HMAP_ERROR_CODE_MALLOC_FAILED, collisions, o.gone)
    BY <1>2, <1>4
  <2> QED BY <2>1, Codes, StoredKeepsError
<1>5. /\ Index(k, capacity) = i
      /\ Found(k) = FoundIn(b.chain, k)
      /\ Found(k)' = FoundIn(o.bucket.chain, k)
  BY <1>3, OneBucketChanges
<1>6. b.chain \in Seq(Entry)
  BY <1>1, BucketChain
<1> HIDE DEF b
<1>7. CASE o.bucket.chain = Append(b.chain, NewEntry(j, v))
  <2>1. FoundIn(Append(b.chain, NewEntry(j, v)), k) # FoundIn(b.chain, k)
    BY <1>5, <1>7
  <2>2. SameKey(j, k) /\ FoundIn(b.chain, k) = {}
    BY <1>1, <1>6, <2>1, StoreAppended
  <2> QED BY <1>5, <2>2 DEF StoreChanges
<1>8. CASE o.bucket = Halfway(b) /\ ~b.complex /\ o.failed
  <2>1. b.chain # << >> /\ WellShaped(b, 1)
    BY <1>1, <1>8 DEF WellShaped, b
  <2>2. FoundIn(Halfway(b).chain, k) # FoundIn(b.chain, k)
    BY <1>5, <1>8
  <2>3. FoundIn(Halfway(b).chain, k) = {<<ListPtr, TRUE>>}
    BY <1>1, <1>8, <2>1, <2>2, FoundRevalued DEF Halfway
  <2> QED BY <1>5, <1>8, <1>4, <2>3 DEF StoreChanges
<1>9. CASE o.bucket.chain = b.chain
  BY <1>5, <1>9
<1>10. \/ o.bucket.chain = Append(b.chain, NewEntry(j, v))
       \/ o.bucket.chain = b.chain
       \/ o.bucket = Halfway(b) /\ ~b.complex /\ o.failed
  BY SetValueChains
<1> QED BY <1>7, <1>8, <1>9, <1>10

LEMMA SetIsConfined ==
  ASSUME TypeOK, BucketShape, NEW j \in Keys, NEW v \in Values, NEW allow \in BOOLEAN,
         hmap_set(j, v, allow), NEW k \in Keys, Found(k)' # Found(k)
  PROVE  Index(j, capacity) = Index(k, capacity) /\ StoreChanges(j, k)
<1> DEFINE i == Index(j, capacity)
           b == buckets[i]
<1>1. capacity \in Nat \ {0} /\ i \in 0..(capacity - 1) /\ v \in Vals
  BY IndexInRange DEF TypeOK, Vals
<1>2. b \in Bucket /\ WellShaped(b, Least)
  BY <1>1 DEF TypeOK, BucketShape
<1>3. CASE Refused(FALSE)
  BY <1>3, SameTableSameAnswers DEF Refused, Return
<1>4. CASE (b.complex \/ b.chain # << >>) /\ StoreColliding(i, j, v)
  <2> HIDE DEF i
  <2> SUFFICES ASSUME NEW p \in 0..(capacity - 1), p = i
               PROVE  Index(j, capacity) = Index(k, capacity) /\ StoreChanges(j, k)
    BY <1>1
  <2>1. StoreColliding(p, j, v)
    BY <1>4 DEF StoreColliding, Stored
  <2> QED BY <1>4, <2>1, CollidingIsConfined DEF i
<1>5. CASE /\ ~b.complex /\ b.chain # << >> /\ SameKey(b.chain[1].key, j)
           /\ Stored(i, [b EXCEPT !.chain[1].val = v], last_error_code, collisions, FALSE)
  <2> DEFINE b2 == [b EXCEPT !.chain[1].val = v]
  <2>1. buckets' = [buckets EXCEPT ![i] = b2] /\ capacity' = capacity
    BY <1>5 DEF Stored
  <2> HIDE DEF b2
  <2>2. /\ Index(k, capacity) = i
        /\ Found(k) = FoundIn(b.chain, k)
        /\ Found(k)' = FoundIn(b2.chain, k)
    BY <1>1, <2>1, OneBucketChanges
  <2>3. WellShaped(b, 1)
    BY <1>2, <1>5 DEF WellShaped
  <2>4. FoundIn([b EXCEPT !.chain[1].val = v].chain, k) # FoundIn(b.chain, k)
    BY <2>2 DEF b2
  <2> HIDE DEF b
  <2>5. SameKey(b.chain[1].key, k)
    BY <1>1, <1>2, <1>5, <2>3, <2>4, FoundRevalued
  <2>6. SameKey(j, k)
    BY <1>5, <2>5 DEF SameKey
  <2> QED BY <1>5, <2>2, <2>6 DEF StoreChanges, b
<1>6. CASE Return(FALSE, HMAP_ERROR_CODE_KEY_MISMATCH)
  BY <1>6, SameTableSameAnswers DEF Return
<1>7. CASE /\ b.chain = << >>
           /\ Stored(i, Simple(NewEntry(j, v)), last_error_code, collisions, FALSE)
  <2>1. buckets' = [buckets EXCEPT ![i] = Simple(NewEntry(j, v))] /\ capacity' = capacity
    BY <1>7 DEF Stored
  <2>2. /\ Index(k, capacity) = i
        /\ Found(k) = FoundIn(b.chain, k)
        /\ Found(k)' = FoundIn(Simple(NewEntry(j, v)).chain, k)
    BY <1>1, <2>1, OneBucketChanges
  <2>3. /\ << >> \in Seq(Entry)
        /\ Simple(NewEntry(j, v)).chain = Append(<< >>, NewEntry(j, v))
    BY DEF Simple
  <2>4. FoundIn(Append(<< >>, NewEntry(j, v)), k) # FoundIn(<< >>, k)
    BY <1>7, <2>2, <2>3
  <2>5. SameKey(j, k) /\ FoundIn(<< >>, k) = {}
    <3>1. << >> \in Seq(Entry) /\ v \in Vals
      BY <1>1, <2>3
    <3> QED BY <2>4, <3>1, StoreAppended
  <2> QED BY <1>7, <2>2, <2>5 DEF StoreChanges
<1> QED BY <1>3, <1>4, <1>5, <1>6, <1>7 DEF hmap_set

LEMMA GetChangesNothing ==
  ASSUME NEW j, hmap_get(j)
  PROVE  UNCHANGED <<buckets, capacity>>
BY DEF hmap_get, Refused, Return, Undefined

LEMMA UnsetIsConfined ==
  ASSUME TypeOK, NEW j \in Keys, hashmap_unset(j), NEW k \in Keys, Found(k)' # Found(k)
  PROVE  Index(j, capacity) = Index(k, capacity)
<1> DEFINE i == Index(j, capacity)
<1>1. capacity \in Nat \ {0} /\ i \in 0..(capacity - 1)
  BY IndexInRange DEF TypeOK
<1> SUFFICES ASSUME i # Index(k, capacity)
             PROVE  FALSE
  OBVIOUS
<1>2. Index(k, capacity) \in 0..(capacity - 1) /\ buckets \in [0..(capacity - 1) -> Bucket]
  BY <1>1, IndexInRange DEF TypeOK
<1>3. \/ UNCHANGED <<buckets, capacity>>
      \/ capacity' = capacity /\ \E b2 : buckets' = [buckets EXCEPT ![i] = b2]
  BY DEF hashmap_unset, Refused, Return, Undefined
<1> HIDE DEF i
<1>4. capacity' = capacity /\ buckets'[Index(k, capacity)] = buckets[Index(k, capacity)]
  BY <1>2, <1>3
<1> QED BY <1>4, FoundIsFoundIn DEF ChainOf

(* hmap_set, hashmap_unset and hmap_get look at one bucket: an answer that *)
(* changes outside a resize was changed by a call on its own bucket, and   *)
(* by a store only as StoreChanges says.                                   *)
THEOREM AnswersChangeInTheirBucket == Spec => DamageIsConfined
<1>1. ASSUME IInv, [Next]_vars
      PROVE  pc = "idle" => \A k \in Keys : Found(k)' # Found(k) =>
               \E j \in Keys :
                  /\ Index(j, capacity) = Index(k, capacity)
                  /\ \/ hashmap_unset(j)
                     \/ /\ StoreChanges(j, k)
                        /\ \E v \in Values, allow \in BOOLEAN : hmap_set(j, v, allow)
  <2> SUFFICES ASSUME pc = "idle", NEW k \in Keys, Found(k)' # Found(k)
               PROVE  \E j \in Keys :
                  /\ Index(j, capacity) = Index(k, capacity)
                  /\ \/ hashmap_unset(j)
                     \/ /\ StoreChanges(j, k)
                        /\ \E v \in Values, allow \in BOOLEAN : hmap_set(j, v, allow)
    OBVIOUS
  <2>1. TypeOK /\ BucketShape
    BY <1>1 DEF IInv
  <2>2. ~UNCHANGED <<buckets, capacity>>
    BY SameTableSameAnswers
  <2>3. ASSUME NEW j \in Keys, NEW v \in Values, NEW allow \in BOOLEAN, hmap_set(j, v, allow)
        PROVE  Index(j, capacity) = Index(k, capacity) /\ StoreChanges(j, k)
    BY <2>1, <2>3, SetIsConfined
  <2>4. ASSUME NEW j \in Keys, hashmap_unset(j)
        PROVE  Index(j, capacity) = Index(k, capacity)
    BY <2>1, <2>4, UnsetIsConfined
  <2>5. ~Running
    BY DEF Running, RehashEntry, RehashNextBucket, ResizeBackOff, ResizeSwap, FinishCall
  <2>6. ~UNCHANGED vars
    BY <2>2 DEF vars
  <2>7. \/ \E j \in Keys, v \in Values, allow \in BOOLEAN : hmap_set(j, v, allow)
        \/ \E j \in Keys : hashmap_unset(j)
    <3>1. \A j \in Keys : ~hmap_get(j)
      BY <2>2, GetChangesNothing
    <3>2. \A cap \in ResizeCaps : ~hmap_resize(cap)
      BY <2>2 DEF hmap_resize
    <3>3. (\A cb \in Callbacks : ~hmap_set_unhealthy_callback(cb))
          /\ (\A n \in MaxBuckets : ~hmap_set_max_buckets(n))
      BY <2>2 DEF hmap_set_unhealthy_callback, hmap_set_max_buckets
    <3>4. ~hmap_free
      BY <2>2 DEF hmap_free
    <3> QED BY <1>1, <2>5, <2>6, <3>1, <3>2, <3>3, <3>4 DEF Next, Call
  <2> QED BY <2>3, <2>4, <2>7
<1> QED BY <1>1, Invariant, PTL DEF Spec, DamageIsConfined
-----------------------------------------------------------------------------
(* hmap_resize.  Entries go to the end of their new chains in the order in *)
(* which hmap_rehash meets them, so at each moment a new chain answers a   *)
(* search as the part of the old chain that was passed does.               *)

(* Keys that buff_cmp_raw takes for the same have the same hash.           *)
DigestsTellHashes == \A j, k \in Keys : SameKey(j, k) => Hash[j] = Hash[k]

SameAnswer(c, d, k) ==
  /\ FoundIn(c, k) = FoundIn(d, k)
  /\ Misses(c, k) <=> Misses(d, k)

NonNull(chain) == \A n \in DOMAIN chain : chain[n].val # NULL

(* The part of bucket i's chain passed at node an of bucket ab.            *)
Upto(table, ab, an, i) ==
  IF i < ab THEN table[i].chain
  ELSE IF i = ab THEN SubSeq(table[i].chain, 1, an - 1) ELSE << >>

AnswersKept(old, cap, new, ncap, ab, an) ==
  /\ \A i \in DOMAIN new : NonNull(new[i].chain)
  /\ ab < cap => an - 1 <= Len(old[ab].chain)
  /\ \A k \in Keys : SameAnswer(new[Index(k, ncap)].chain, Upto(old, ab, an, Index(k, cap)), k)

AnswersInv ==
  pc = "rehash" /\ NoNull /\ ~lost /\ last_error_code = HMAP_ERROR_CODE_OK =>
    AnswersKept(buckets, capacity, new_buckets, new_cap, at_bucket, at_node)

LEMMA PrefixGrows ==
  ASSUME NEW c \in Seq(Entry), NEW n \in Nat, n + 1 \in DOMAIN c
  PROVE  /\ SubSeq(c, 1, n) \in Seq(Entry)
         /\ SubSeq(c, 1, n + 1) = Append(SubSeq(c, 1, n), c[n + 1])
<1>1. n + 1 \in 1..Len(c) /\ Len(c) \in Nat /\ (\A i \in 1..Len(c) : c[i] \in Entry)
  BY LenProperties, ElementOfSeq
<1>2. SubSeq(c, 1, n) \in Seq(Entry)
  <2>1. \A i \in 1..n : c[i] \in Entry
    BY <1>1
  <2> QED BY <2>1, SubSeqProperties
<1>3. SubSeq(c, 1, n + 1) = SubSeq(c, 1, n) \o <<c[n + 1]>>
  <2> DEFINE m == n + 1
  <2>1. 1 \in 1..Len(c) /\ m \in 1..Len(c)
    BY <1>1
  <2>2. m - 1 = n
    OBVIOUS
  <2> HIDE DEF m
  <2>3. SubSeq(c, 1, m) = SubSeq(c, 1, m - 1) \o <<c[m]>>
    BY <2>1, SubSeqRecursiveSecond
  <2> QED BY <2>2, <2>3 DEF m
<1> QED BY <1>1, <1>2, <1>3, AppendIsConcat

LEMMA KeptAtStart ==
  ASSUME NEW cap \in Nat \ {0}, NEW ncap \in Nat \ {0}, NEW old \in [0..(cap - 1) -> Bucket]
  PROVE  AnswersKept(old, cap, EmptyTable(ncap), ncap, 0, 1)
<1>1. \A i \in 0..(ncap - 1) : EmptyTable(ncap)[i].chain = << >>
  BY DEF EmptyTable, EmptyBucket
<1>2. DOMAIN EmptyTable(ncap) = 0..(ncap - 1)
  BY DEF EmptyTable
<1>3. 0 \in 0..(cap - 1) /\ 1 - 1 = 0
  OBVIOUS
<1>4. old[0] \in Bucket
  BY <1>3
<1>5. 0 < cap => 1 - 1 <= Len(old[0].chain)
  BY <1>3, <1>4, BucketChain
<1>6. ASSUME NEW k \in Keys
      PROVE  Upto(old, 0, 1, Index(k, cap)) = << >>
  <2>1. Index(k, cap) \in 0..(cap - 1)
    BY IndexInRange
  <2>2. \A c \in Seq(Entry) : SubSeq(c, 1, 0) = << >>
    <3> TAKE c \in Seq(Entry)
    <3> QED BY SubSeqEmpty
  <2>3. SubSeq(old[0].chain, 1, 1 - 1) = << >>
    BY <1>3, <1>4, <2>2, BucketChain
  <2> QED BY <2>1, <2>3 DEF Upto
<1>7. \A k \in Keys : Index(k, ncap) \in 0..(ncap - 1)
  BY IndexInRange
<1>8. NonNull(<< >>)
  BY DEF NonNull
<1> QED BY <1>1, <1>2, <1>5, <1>6, <1>7, <1>8 DEF AnswersKept, SameAnswer

LEMMA NodeNumbers ==
  /\ \A l \in Nat : \A an \in 1..l :
        an - 1 \in Nat /\ (an - 1) + 1 = an /\ (an + 1) - 1 = an /\ an <= l
  /\ \A cap \in Nat : \A ab \in 0..(cap - 1) : ~(ab < ab)
OBVIOUS

LEMMA NonNullAppended ==
  ASSUME NEW c \in Seq(Entry), NEW e \in Entry, NonNull(c), e.val # NULL
  PROVE  NonNull(Append(c, e))
<1> DEFINE d == Append(c, e)
<1>1. d \in Seq(Entry) /\ Len(d) = Len(c) + 1
      /\ (\A m \in 1..Len(c) : d[m] = c[m]) /\ d[Len(c) + 1] = e
  BY AppendProperties
<1> HIDE DEF d
<1>2. DOMAIN d = 1..(Len(c) + 1) /\ DOMAIN c = 1..Len(c) /\ Len(c) \in Nat
  BY <1>1, LenProperties
<1>3. \A n \in DOMAIN d : n \in DOMAIN c \/ n = Len(c) + 1
  BY <1>2
<1>4. \A n \in DOMAIN d : d[n].val # NULL
  BY <1>1, <1>2, <1>3 DEF NonNull
<1> QED BY <1>4 DEF NonNull, d

(* One entry moves from the chain where it was to the one it belongs in.   *)
(* For every key either both chains get it or the one that does has it for *)
(* a key of another hash.                                                  *)
LEMMA KeptByMove ==
  ASSUME DigestsTellHashes,
         NEW cap \in Nat \ {0}, NEW ncap \in Nat \ {0},
         NEW old \in [0..(cap - 1) -> Bucket], NEW new \in [0..(ncap - 1) -> Bucket],
         Placed(old, cap),
         NEW ab \in 0..(cap - 1), NEW an \in DOMAIN old[ab].chain,
         AnswersKept(old, cap, new, ncap, ab, an),
         NEW e \in Entry, e = old[ab].chain[an], e.live, e.val # NULL,
         NEW b2 \in Bucket, b2.chain = Append(new[Index(e.key, ncap)].chain, e)
  PROVE  AnswersKept(old, cap, [new EXCEPT ![Index(e.key, ncap)] = b2], ncap, ab, an + 1)
<1> DEFINE j  == Index(e.key, ncap)
           t2 == [new EXCEPT ![j] = b2]
           c  == old[ab].chain
           nc == new[j].chain
<1>1. /\ e.key \in Keys
      /\ j \in 0..(ncap - 1)
      /\ Index(e.key, cap) = ab
  BY IndexInRange DEF Entry, Placed
<1>2. c \in Seq(Entry) /\ Len(c) \in Nat /\ DOMAIN c = 1..Len(c) /\ an \in 1..Len(c)
  <2>1. old[ab] \in Bucket
    OBVIOUS
  <2> QED BY <2>1, BucketChain
<1>3. nc \in Seq(Entry) /\ Len(nc) \in Nat /\ DOMAIN nc = 1..Len(nc)
  <2>1. new[j] \in Bucket
    BY <1>1
  <2> QED BY <2>1, BucketChain
<1>4. /\ t2[j] = b2
      /\ DOMAIN t2 = DOMAIN new
      /\ \A i \in DOMAIN new : i # j => t2[i] = new[i]
  BY <1>1
<1>5. /\ \A i \in DOMAIN new : NonNull(new[i].chain)
      /\ \A k \in Keys : SameAnswer(new[Index(k, ncap)].chain, Upto(old, ab, an, Index(k, cap)), k)
  BY DEF AnswersKept
<1> HIDE DEF j, t2, c, nc
<1>6. b2.chain = Append(nc, e)
  BY DEF nc, j
<1>7. \A i \in DOMAIN t2 : NonNull(t2[i].chain)
  <2>1. NonNull(nc)
    BY <1>1, <1>5 DEF nc, j
  <2>2. NonNull(Append(nc, e))
    BY <1>3, <2>1, NonNullAppended
  <2> QED BY <1>4, <1>5, <1>6, <2>2
<1>8. (an + 1) - 1 <= Len(old[ab].chain)
  BY <1>2, NodeNumbers DEF c
<1>9. /\ SubSeq(c, 1, an - 1) \in Seq(Entry)
      /\ SubSeq(c, 1, an) = Append(SubSeq(c, 1, an - 1), e)
  <2> DEFINE n == an - 1
  <2>1. n \in Nat /\ n + 1 = an
    BY <1>2, NodeNumbers
  <2> HIDE DEF n
  <2>2. SubSeq(c, 1, n) \in Seq(Entry) /\ SubSeq(c, 1, n + 1) = Append(SubSeq(c, 1, n), c[n + 1])
    BY <1>2, <2>1, PrefixGrows
  <2> QED BY <2>1, <2>2 DEF n, c
<1> DEFINE before(i) == Upto(old, ab, an, i)
           after(i)  == Upto(old, ab, an + 1, i)
<1>10. \A i : i # ab => after(i) = before(i)
  BY DEF Upto
<1>11. before(ab) = SubSeq(c, 1, an - 1) /\ after(ab) = SubSeq(c, 1, an)
  <2>1. (an + 1) - 1 = an /\ ~(ab < ab)
    BY <1>2, NodeNumbers
  <2> QED BY <2>1 DEF Upto, c
<1> HIDE DEF before, after
<1>12. ASSUME NEW k \in Keys
       PROVE  SameAnswer(t2[Index(k, ncap)].chain, after(Index(k, cap)), k)
  <2> DEFINE x == Index(k, ncap)
             y == Index(k, cap)
  <2>1. x \in DOMAIN new
    BY IndexInRange
  <2>2. SameAnswer(new[x].chain, before(y), k)
    BY <1>5 DEF before
  <2>3. Stops(e, k) => x = j /\ y = ab
    BY <1>1 DEF Stops, DigestsTellHashes, Index, j
  <2>4. before(ab) \in Seq(Entry) /\ after(ab) = Append(before(ab), e)
    BY <1>9, <1>11
  <2> HIDE DEF x, y
  (* What an entry at the end of a chain does to a search.                 *)
  <2>5. ASSUME NEW d \in Seq(Entry), ~Stops(e, k)
        PROVE  SameAnswer(Append(d, e), d, k)
    <3>1. /\ FoundIn(Append(d, e), k) =
               IF Misses(d, k) THEN IF Stops(e, k) THEN {<<e.val, e.live>>} ELSE {}
                               ELSE FoundIn(d, k)
          /\ Misses(Append(d, e), k) <=> Misses(d, k) /\ ~Stops(e, k)
      BY FoundAppended
    <3>2. Misses(d, k) => FoundIn(d, k) = {}
      BY FoundNowhere
    <3> QED BY <2>5, <3>1, <3>2 DEF SameAnswer
  <2>6. ASSUME NEW d \in Seq(Entry), NEW f \in Seq(Entry), SameAnswer(d, f, k)
        PROVE  SameAnswer(Append(d, e), Append(f, e), k)
    <3>1. FoundIn(d, k) = FoundIn(f, k) /\ (Misses(d, k) <=> Misses(f, k))
      BY <2>6 DEF SameAnswer
    <3>2. /\ FoundIn(Append(d, e), k) =
               IF Misses(d, k) THEN IF Stops(e, k) THEN {<<e.val, e.live>>} ELSE {}
                               ELSE FoundIn(d, k)
          /\ Misses(Append(d, e), k) <=> Misses(d, k) /\ ~Stops(e, k)
      BY FoundAppended
    <3>3. /\ FoundIn(Append(f, e), k) =
               IF Misses(f, k) THEN IF Stops(e, k) THEN {<<e.val, e.live>>} ELSE {}
                               ELSE FoundIn(f, k)
          /\ Misses(Append(f, e), k) <=> Misses(f, k) /\ ~Stops(e, k)
      BY FoundAppended
    <3> QED BY <3>1, <3>2, <3>3 DEF SameAnswer
  <2>7. x = j => t2[x].chain = Append(nc, e) /\ new[x].chain = nc
    BY <1>4, <1>6 DEF nc
  <2>8. x # j => t2[x] = new[x]
    BY <1>4, <2>1
  <2>9. CASE Stops(e, k)
    <3>1. SameAnswer(nc, before(ab), k)
      BY <2>2, <2>3, <2>7, <2>9
    <3>2. SameAnswer(Append(nc, e), Append(before(ab), e), k)
      BY <1>3, <2>4, <2>6, <3>1
    <3> QED BY <2>3, <2>4, <2>7, <2>9, <3>2 DEF x, y
  <2>10. CASE ~Stops(e, k)
    <3>1. SameAnswer(t2[x].chain, new[x].chain, k)
      <4>1. SameAnswer(Append(nc, e), nc, k)
        BY <1>3, <2>5, <2>10
      <4> QED BY <2>7, <2>8, <4>1 DEF SameAnswer
    <3>2. SameAnswer(after(y), before(y), k)
      <4>1. SameAnswer(Append(before(ab), e), before(ab), k)
        BY <2>4, <2>5, <2>10
      <4> QED BY <1>10, <2>4, <4>1 DEF SameAnswer
    <3> QED BY <2>2, <3>1, <3>2 DEF SameAnswer, x, y
  <2> QED BY <2>9, <2>10
<1> QED BY <1>7, <1>8, <1>12 DEF AnswersKept, t2, after, j

(* Past the last entry of a bucket.                                        *)
LEMMA KeptByNext ==
  ASSUME NEW cap \in Nat \ {0}, NEW ncap \in Nat \ {0},
         NEW old \in [0..(cap - 1) -> Bucket], NEW new,
         NEW ab \in 0..(cap - 1), NEW an \in Nat, an > Len(old[ab].chain),
         AnswersKept(old, cap, new, ncap, ab, an)
  PROVE  AnswersKept(old, cap, new, ncap, ab + 1, 1)
<1> DEFINE c == old[ab].chain
<1>1. c \in Seq(Entry) /\ Len(c) \in Nat
  <2>1. old[ab] \in Bucket
    OBVIOUS
  <2> QED BY <2>1, BucketChain
<1>2. an - 1 = Len(c)
  <2>1. an - 1 <= Len(c)
    BY DEF AnswersKept
  <2> HIDE DEF c
  <2> QED BY <1>1, <2>1 DEF c
<1>3. SubSeq(c, 1, an - 1) = c
  BY <1>1, <1>2, SubSeqFull
<1>4. ab + 1 < cap => 1 - 1 <= Len(old[ab + 1].chain)
  <2> SUFFICES ASSUME ab + 1 < cap
               PROVE  1 - 1 <= Len(old[ab + 1].chain)
    OBVIOUS
  <2>1. ab + 1 \in 0..(cap - 1)
    OBVIOUS
  <2>2. old[ab + 1] \in Bucket
    BY <2>1
  <2> QED BY <2>2, BucketChain
<1>5. ASSUME NEW i \in 0..(cap - 1)
      PROVE  Upto(old, ab + 1, 1, i) = Upto(old, ab, an, i)
  <2>1. SubSeq(old[i].chain, 1, 1 - 1) = << >>
    BY SubSeqEmpty, 1 - 1 < 1
  <2>2. CASE i < ab
    <3>1. i < ab + 1
      BY <2>2
    <3> QED BY <2>2, <3>1 DEF Upto
  <2>3. CASE i = ab
    <3>1. i < ab + 1 /\ ~(i < ab)
      BY <2>3
    <3> QED BY <1>3, <2>3, <3>1 DEF Upto
  <2>4. CASE i > ab
    <3>1. ~(i < ab) /\ i # ab /\ ~(i < ab + 1)
      BY <2>4
    <3> QED BY <2>1, <3>1 DEF Upto
  <2> QED BY <2>2, <2>3, <2>4
<1> QED BY <1>4, <1>5, IndexInRange DEF AnswersKept

(* With every bucket passed the new table answers as the old one.          *)
LEMMA KeptAtEnd ==
  ASSUME NEW cap \in Nat \ {0}, NEW old, NEW new, NEW ncap, NEW an,
         AnswersKept(old, cap, new, ncap, cap, an), NEW k \in Keys
  PROVE  FoundIn(new[Index(k, ncap)].chain, k) = FoundIn(old[Index(k, cap)].chain, k)
<1>1. Index(k, cap) < cap
  BY IndexInRange
<1>2. Upto(old, cap, an, Index(k, cap)) = old[Index(k, cap)].chain
  BY <1>1 DEF Upto
<1> QED BY <1>2 DEF AnswersKept, SameAnswer

(* What hmap_resize leaves when it starts to move entries.                 *)
StartsEmpty ==
  pc = "rehash" => /\ new_buckets = EmptyTable(new_cap)
                   /\ at_bucket = 0
                   /\ at_node = 1

LEMMA BeginResizeStarts ==
  ASSUME NEW cap, NEW err, NEW coll, BeginResize(cap, err, coll)
  PROVE  StartsEmpty'
BY DEF BeginResize, StartsEmpty

LEMMA UpdateLoadStarts ==
  ASSUME NEW n, NEW cap, NEW err, NEW coll, update_load_factor(n, cap, err, coll)
  PROVE  StartsEmpty'
<1>1. ASSUME NEW e, BeginResize(2 * cap, e, coll)
      PROVE  StartsEmpty'
  BY <1>1, BeginResizeStarts
<1>2. pc' = "return" => StartsEmpty'
  BY DEF StartsEmpty
<1> HIDE DEF StartsEmpty
<1> QED BY <1>1, <1>2 DEF update_load_factor

LEMMA StartKeepsAnswers ==
  ASSUME TypeOK', StartsEmpty'
  PROVE  AnswersInv'
<1>1. ASSUME pc' = "rehash"
      PROVE  AnswersKept(buckets', capacity', new_buckets', new_cap', at_bucket', at_node')
  <2>1. /\ capacity' \in Nat \ {0} /\ new_cap' \in Nat \ {0}
        /\ buckets' \in [0..(capacity' - 1) -> Bucket]
    BY <1>1 DEF TypeOK
  <2>2. AnswersKept(buckets', capacity', EmptyTable(new_cap'), new_cap', 0, 1)
    BY <2>1, KeptAtStart
  <2> QED BY <1>1, <2>2 DEF StartsEmpty
<1> QED BY <1>1 DEF AnswersInv

LEMMA RehashEntryKeepsAnswers ==
  ASSUME DigestsTellHashes, IInv, AnswersInv, RehashEntry
  PROVE  AnswersInv'
<1> SUFFICES ASSUME pc' = "rehash", NoNull', ~lost', last_error_code' = HMAP_ERROR_CODE_OK
             PROVE  AnswersKept(buckets, capacity, new_buckets', new_cap, at_bucket, at_node + 1)
  <2>1. ASSUME pc' = "rehash"
        PROVE  /\ UNCHANGED <<buckets, capacity, new_cap, at_bucket>>
               /\ at_node' = at_node + 1
    BY <2>1 DEF RehashEntry, RehashPut, Undefined, hmap_rehash_complex,
                hmap_rehash_simple, RehashColliding
  <2> QED BY <2>1 DEF AnswersInv
<1> DEFINE old == buckets[at_bucket]
           e   == old.chain[at_node]
           j   == Index(e.key, new_cap)
           nb  == new_buckets[j]
<1>1. /\ pc = "rehash" /\ at_bucket < capacity /\ at_node <= Len(old.chain) /\ e.live
      /\ hmap_rehash_complex(j, e) \/ hmap_rehash_simple(j, e)
  BY DEF RehashEntry, Undefined
<1>2. /\ TypeOK /\ HashPlacement
      /\ capacity \in Nat \ {0} /\ new_cap \in Nat \ {0}
      /\ buckets \in [0..(capacity - 1) -> Bucket]
      /\ new_buckets \in [0..(new_cap - 1) -> Bucket]
      /\ at_bucket \in 0..(capacity - 1)
      /\ at_node \in Nat \ {0}
  BY <1>1 DEF IInv, TypeOK
<1>3. at_node \in DOMAIN old.chain /\ e \in Entry
  <2>1. old \in Bucket
    BY <1>2
  <2> HIDE DEF old
  <2>2. /\ Len(old.chain) \in Nat /\ DOMAIN old.chain = 1..Len(old.chain)
        /\ \A n \in 1..Len(old.chain) : old.chain[n] \in Entry
    BY <2>1, BucketChain
  <2>3. at_node \in 1..Len(old.chain)
    BY <1>1, <1>2, <2>2
  <2> QED BY <2>2, <2>3
<1>4. e.key \in Keys /\ e.val \in Vals /\ e = NewEntry(e.key, e.val)
  <2> HIDE DEF e
  <2>1. e = [key |-> e.key, val |-> e.val, live |-> e.live] /\ e.key \in Keys /\ e.val \in Vals
    BY <1>3 DEF Entry, Vals
  <2>2. e.live = TRUE
    BY <1>1, <1>3 DEF Entry, e
  <2> QED BY <2>1, <2>2 DEF NewEntry
<1>5. nb \in Bucket /\ j \in DOMAIN new_buckets
  BY <1>2, <1>4, IndexInRange
<1>6. nb.chain \in Seq(Entry)
  BY <1>5, BucketChain
(* Without an error and without a loss, the entry went to the end.         *)
<1>7. /\ NoNull /\ ~lost /\ last_error_code = HMAP_ERROR_CODE_OK
      /\ \E b2 : new_buckets' = [new_buckets EXCEPT ![j] = b2]
               /\ \/ b2.chain = Append(nb.chain, e) /\ b2 \in Bucket
                  \/ ~nb.complex /\ nb.chain # << >> /\ nb.chain[1].val = NULL
  <2> HIDE DEF e, j, nb
  <2>0. UNCHANGED buckets
    BY <1>1 DEF hmap_rehash_complex, hmap_rehash_simple, RehashColliding, RehashPut
  <2>1. CASE RehashColliding(j, e)
    <3>1. PICK o \in hmap_complex_key_set_value(nb, e.key, e.val) :
            RehashPut(j, o.bucket,
               IF o.failed THEN HMAP_ERROR_CODE_MALLOC_FAILED ELSE last_error_code,
               IF o.failed THEN collisions ELSE collisions + 1,
               o.gone)
      BY <2>1 DEF RehashColliding, nb
    <3>2. ~o.failed /\ ~o.gone /\ ~lost /\ last_error_code = HMAP_ERROR_CODE_OK
          /\ new_buckets' = [new_buckets EXCEPT ![j] = o.bucket]
      BY <3>1, Codes DEF RehashPut
    <3>3. o.bucket.chain = Append(nb.chain, NewEntry(e.key, e.val))
      BY <3>2, SetValueChains
    <3>4. o.bucket \in Bucket
      BY <1>4, <1>5, SetValueBucket
    <3> QED BY <1>4, <2>0, <3>2, <3>3, <3>4 DEF NoNull
  <2>2. CASE nb.chain = << >> /\ RehashPut(j, Simple(e), last_error_code, collisions, FALSE)
    <3>1. Simple(e).chain = Append(<< >>, e) /\ Simple(e) \in Bucket
      BY <1>3, <1>5, SimpleBucket DEF Simple, e
    <3> QED BY <2>0, <2>2, <3>1 DEF RehashPut, NoNull
  <2>3. CASE /\ ~nb.complex /\ nb.chain # << >> /\ nb.chain[1].val = NULL
             /\ RehashPut(j, nb, last_error_code, collisions, FALSE)
    BY <2>0, <2>3 DEF RehashPut, NoNull
  <2> QED BY <1>1, <2>1, <2>2, <2>3 DEF hmap_rehash_complex, hmap_rehash_simple, nb
<1>8. AnswersKept(buckets, capacity, new_buckets, new_cap, at_bucket, at_node)
  BY <1>1, <1>7 DEF AnswersInv
<1>9. nb.chain # << >> => nb.chain[1].val # NULL
  <2>1. nb.chain # << >> => 1 \in DOMAIN nb.chain
    <3> HIDE DEF nb
    <3> QED BY <1>5, BucketChain
  <2> QED BY <1>5, <1>8, <2>1 DEF AnswersKept, NonNull
<1>10. e.val # NULL
  BY <1>2, <1>3, <1>7 DEF NoNull
<1>11. PICK b2 \in Bucket : /\ new_buckets' = [new_buckets EXCEPT ![j] = b2]
                           /\ b2.chain = Append(nb.chain, e)
  BY <1>7, <1>9
<1> QED BY <1>1, <1>2, <1>3, <1>8, <1>10, <1>11, KeptByMove DEF HashPlacement

LEMMA RehashNextBucketKeepsAnswers ==
  ASSUME IInv, AnswersInv, RehashNextBucket
  PROVE  AnswersInv'
<1>1. /\ pc = "rehash" /\ at_bucket < capacity /\ at_node > Len(buckets[at_bucket].chain)
      /\ UNCHANGED <<buckets, capacity, new_buckets, new_cap, pc, lost, last_error_code>>
      /\ at_bucket' = at_bucket + 1 /\ at_node' = 1
  BY DEF RehashNextBucket, status
<1>2. /\ capacity \in Nat \ {0} /\ new_cap \in Nat \ {0}
      /\ buckets \in [0..(capacity - 1) -> Bucket]
      /\ at_bucket \in 0..(capacity - 1)
      /\ at_node \in Nat
  BY <1>1 DEF IInv, TypeOK
<1>3. ASSUME AnswersKept(buckets, capacity, new_buckets, new_cap, at_bucket, at_node)
      PROVE  AnswersKept(buckets, capacity, new_buckets, new_cap, at_bucket + 1, 1)
  BY <1>1, <1>2, <1>3, KeptByNext
<1> QED BY <1>1, <1>3 DEF AnswersInv, NoNull

(* Every other step leaves a resize that has just begun, or none.          *)
LEMMA OtherStepsStart ==
  ASSUME [Next]_vars, ~RehashEntry, ~RehashNextBucket
  PROVE  StartsEmpty' \/ UNCHANGED vars
<1>1. ASSUME NEW k, NEW v, NEW allow, hmap_set(k, v, allow)
      PROVE  StartsEmpty'
  <2>1. ASSUME NEW i, NEW b, NEW err, NEW coll, NEW gone, Stored(i, b, err, coll, gone)
        PROVE  StartsEmpty'
    BY <2>1, UpdateLoadStarts DEF Stored
  <2>2. ASSUME NEW i, StoreColliding(i, k, v)
        PROVE  StartsEmpty'
    BY <2>1, <2>2 DEF StoreColliding
  <2>3. pc = "idle"
    BY <1>1 DEF hmap_set
  <2>4. ASSUME NEW r, NEW err, Return(r, err)
        PROVE  StartsEmpty'
    BY <2>3, <2>4 DEF Return, StartsEmpty
  <2> QED BY <1>1, <2>1, <2>2, <2>4 DEF hmap_set, Refused
<1>2. ASSUME NEW k, hmap_get(k)
      PROVE  StartsEmpty'
  BY <1>2 DEF hmap_get, Refused, Return, Undefined, StartsEmpty
<1>3. ASSUME NEW k, hashmap_unset(k)
      PROVE  StartsEmpty'
  <2>1. CASE update_load_factor(set, capacity, last_error_code, collisions)
    BY <2>1, UpdateLoadStarts
  <2>2. pc' # "rehash" => StartsEmpty'
    BY DEF StartsEmpty
  <2> HIDE DEF StartsEmpty
  <2> QED BY <1>3, <2>1, <2>2 DEF hashmap_unset, Refused, Return, Undefined
<1>4. ASSUME NEW cap, hmap_resize(cap)
      PROVE  StartsEmpty'
  BY <1>4, BeginResizeStarts DEF hmap_resize
<1>5. CASE ResizeSwap
  BY <1>5, UpdateLoadStarts DEF ResizeSwap
<1>6. CASE ResizeBackOff \/ FinishCall \/ hmap_free
  BY <1>6 DEF ResizeBackOff, FinishCall, hmap_free, StartsEmpty
<1>7. ASSUME NEW n, hmap_set_unhealthy_callback(n) \/ hmap_set_max_buckets(n)
      PROVE  StartsEmpty'
  BY <1>7 DEF hmap_set_unhealthy_callback, hmap_set_max_buckets, StartsEmpty
<1> HIDE DEF StartsEmpty
<1> QED BY <1>1, <1>2, <1>3, <1>4, <1>5, <1>6, <1>7 DEF Next, Running, Call

LEMMA NextKeepsAnswers ==
  ASSUME DigestsTellHashes, IInv, TypeOK', AnswersInv, [Next]_vars
  PROVE  AnswersInv'
<1>1. CASE RehashEntry
  BY <1>1, RehashEntryKeepsAnswers
<1>2. CASE RehashNextBucket
  BY <1>2, RehashNextBucketKeepsAnswers
<1>3. CASE StartsEmpty'
  BY <1>3, StartKeepsAnswers
<1>4. CASE UNCHANGED vars
  BY <1>4 DEF vars, status, rehash, AnswersInv, NoNull
<1> QED BY <1>1, <1>2, <1>3, <1>4, OtherStepsStart

LEMMA ResizeStepKeepsAnswers ==
  ASSUME IInv, AnswersInv, [Next]_vars, pc = "rehash", NoNull, ~lost, NEW k \in Keys
  PROVE  Found(k)' = Found(k)
<1>1. CASE ResizeSwap
  <2>1. /\ at_bucket = capacity /\ last_error_code = HMAP_ERROR_CODE_OK
        /\ buckets' = new_buckets /\ capacity' = new_cap
    BY <1>1 DEF ResizeSwap
  <2>2. capacity \in Nat \ {0}
    BY DEF IInv, TypeOK
  <2>3. AnswersKept(buckets, capacity, new_buckets, new_cap, capacity, at_node)
    BY <2>1 DEF AnswersInv
  <2>4. FoundIn(new_buckets[Index(k, new_cap)].chain, k) = FoundIn(buckets[Index(k, capacity)].chain, k)
    BY <2>2, <2>3, KeptAtEnd
  <2> QED BY <2>1, <2>4, FoundIsFoundIn DEF ChainOf
<1>2. CASE UNCHANGED <<buckets, capacity>>
  BY <1>2, SameTableSameAnswers
<1>3. \A j, v, allow : ~hmap_set(j, v, allow) /\ ~hmap_get(j) /\ ~hashmap_unset(j)
  BY DEF hmap_set, hmap_get, hashmap_unset
<1>4. \A n : ~hmap_resize(n) /\ ~hmap_set_unhealthy_callback(n) /\ ~hmap_set_max_buckets(n)
  BY DEF hmap_resize, hmap_set_unhealthy_callback, hmap_set_max_buckets
<1>5. ~hmap_free /\ ~FinishCall
  BY DEF hmap_free, FinishCall
<1>6. CASE RehashEntry
  BY <1>2, <1>6 DEF RehashEntry, Undefined, hmap_rehash_complex, hmap_rehash_simple,
                    RehashColliding, RehashPut
<1>7. CASE RehashNextBucket \/ ResizeBackOff \/ UNCHANGED vars
  BY <1>2, <1>7 DEF RehashNextBucket, ResizeBackOff, vars
<1> QED BY <1>1, <1>3, <1>4, <1>5, <1>6, <1>7 DEF Next, Running, Call

(* A resize keeps every answer, through all its steps and the swap, unless *)
(* the table holds a NULL or lost an entry: hmap_rehash meets the entries  *)
(* in the order a search does.  Two keys that compare equal must have the  *)
(* same hash, or one could come before the other's entry by the move.      *)
THEOREM ResizeChangesNoAnswer ==
  ASSUME DigestsTellHashes
  PROVE  Spec => ResizeKeepsAnswers
<1>1. Init => AnswersInv
  BY DEF Init, AnswersInv
<1>2. IInv /\ TypeOK' /\ AnswersInv /\ [Next]_vars => AnswersInv'
  BY NextKeepsAnswers
<1>3. IInv /\ AnswersInv /\ [Next]_vars =>
        [pc = "rehash" /\ NoNull /\ ~lost => \A k \in Keys : Found(k)' = Found(k)]_vars
  BY ResizeStepKeepsAnswers
<1> QED BY <1>1, <1>2, <1>3, Invariant, TypeCorrect, PTL DEF Spec, ResizeKeepsAnswers
=============================================================================
