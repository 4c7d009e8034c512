------------------------------ MODULE Hashmap ------------------------------
(***************************************************************************)
(* The chained hash map of src/containers/hashmap.c.                       *)
(*                                                                         *)
(* The program is sequential: a public call runs to its end before the     *)
(* next one starts.  A call that does not grow the table is one or two     *)
(* steps.  A call that grows it is a sequence of steps ordered by pc, one  *)
(* per entry that hmap_rehash moves, because growing interleaves the       *)
(* caller's own frame, the unhealthy callback, and possibly a second       *)
(* hmap_resize entered from the first; no public call starts in between.   *)
(*                                                                         *)
(*   pc = "idle"       no call is running                                  *)
(*   pc = "rehash"     hmap_resize is moving entries to new_buckets        *)
(*   pc = "return"     update_load_factor or hmap_resize has returned and  *)
(*                     the frames below it still have code to run          *)
(*   pc = "freed"      hmap_free has returned                              *)
(*   pc = "undefined"  the call has read or freed memory that was already  *)
(*                     freed; nothing is claimed about what follows        *)
(*                                                                         *)
(* A bucket is its chain: empty, one entry held in the bucket itself, or   *)
(* (complex) a linked list of entries.  A key is compared by digest, as    *)
(* buff_cmp_raw does.  Only the allocations whose result the code tests    *)
(* may fail; value_len, messages and key buffers' reference counts are     *)
(* left out, no control depends on them.                                   *)
(***************************************************************************)
EXTENDS Integers, Sequences, FiniteSets, SequencesExt, FiniteSetsExt

CONSTANTS
  Keys,           \* the keys the client uses
  Values,         \* the pointers the client stores; may include NULL
  NULL,           \* the null pointer
  ListPtr,        \* the address of a linked_list_t
  Hash,           \* hash_fn under the map's seed, a function of the key
  Digest,         \* rt_hash_fn, which buff_cmp_raw compares keys by
  InitCaps,       \* the capacities hmap_new is called with
  Threshold,      \* unhealthy_threshold, in percent
  Callbacks,      \* the unhealthy callbacks the client installs
  MaxBuckets,     \* the bounds the client gives hmap_set_max_buckets
  ResizeCaps,     \* the capacities the client passes to hmap_resize
  MaxSet,         \* bound: hmap_set stores while set is below it
  MallocMayFail   \* whether the allocations the code tests may fail

(* Capacities are not 0: hmap_hash divides by the capacity.                *)
ASSUME ConstantsAssumption ==
  /\ Hash \in [Keys -> Nat]
  /\ Digest \in [Keys -> Nat]
  /\ InitCaps \subseteq Nat \ {0}
  /\ ResizeCaps \subseteq Nat \ {0}
  /\ MaxBuckets \subseteq Nat
  /\ Threshold \in Nat \ {0}
  /\ MaxSet \in Nat
  /\ MallocMayFail \in BOOLEAN
  /\ Callbacks \subseteq {"default", "guest", "defer"}
  /\ ListPtr \notin Values \cup {NULL}

VARIABLES
  capacity, set, load_factor, collisions, buckets,   \* the table
  resize_bound, unhealthy_callback,                  \* its configuration
  locked, last_error_code,                           \* its status
  pc,
  new_buckets, new_cap,   \* hmap_resize's table under construction
  at_bucket, at_node,     \* hmap_rehash's next entry
  swapped,                \* a running hmap_resize has swapped the tables
  pending,                \* hashmap_unset has yet to decrement set
  ret,                    \* what the last call returned or is to return
  lost                    \* history: an entry was lost without an error,
                          \* for want of a list node

config   == <<resize_bound, unhealthy_callback>>
rehash   == <<new_buckets, new_cap, at_bucket, at_node>>
status   == <<locked, last_error_code>>
vars     == <<capacity, set, load_factor, collisions, buckets, config, status,
              pc, rehash, swapped, pending, ret, lost>>
-----------------------------------------------------------------------------
(* Error codes, as in hashmap.h: two names share the code 5.               *)
HMAP_ERROR_CODE_OK            == 0
HMAP_ERROR_CODE_MALLOC_FAILED == 1
HMAP_ERROR_CODE_KEY_MISMATCH  == 2
HMAP_ERR_TOO_LARGE            == 5
HMAP_ERROR_CODE_REHASH_FAILED == 5
HMAP_ERROR_CODE_LOCKED        == 3600

ErrorCodes == {0, 1, 2, 5, 3600}

(* An entry's live is FALSE once hashmap_unset has freed its node_value.   *)
Entry  == [key: Keys, val: Values \cup {NULL, ListPtr}, live: BOOLEAN]
Bucket == [complex: BOOLEAN, chain: Seq(Entry)]
Table  == UNION {[0..(n - 1) -> Bucket] : n \in Nat}

NewEntry(k, v) == [key |-> k, val |-> v, live |-> TRUE]
EmptyBucket    == [complex |-> FALSE, chain |-> << >>]
Simple(e)      == [complex |-> FALSE, chain |-> <<e>>]
EmptyTable(n)  == [i \in 0..(n - 1) |-> EmptyBucket]

Index(k, cap)      == Hash[k] % cap
SameKey(j, k)      == Digest[j] = Digest[k]
LoadFactor(n, cap) == (n * 100) \div cap

(* linked_list_find and hmap_complex_key_unset_value compare one node      *)
(* after the other and read node_value before they compare it.             *)
Stops(e, k)         == ~e.live \/ SameKey(e.key, k)
StopsAt(chain, k, i) == /\ i \in DOMAIN chain
                        /\ Stops(chain[i], k)
                        /\ \A j \in 1..(i - 1) : ~Stops(chain[j], k)
Misses(chain, k)    == \A i \in DOMAIN chain : ~Stops(chain[i], k)

count_collisions(table) ==
  Cardinality({i \in DOMAIN table : table[i].complex})

(* Fault: the new node goes to the head of the list, as with LL_PREPEND.   *)
linked_first(chain, e) == <<e>> \o chain

linked_last(chain, e) == Append(chain, e)

(* If the second malloc of a conversion fails, bucket->value already       *)
(* points to the new list while the bucket still looks simple.             *)
Halfway(b) == [b EXCEPT !.chain[1].val = ListPtr]

(* hmap_complex_key_set_value: the bucket it leaves, whether it recorded a *)
(* failed malloc, and whether ll_add_node returned -1, which it ignores.   *)
hmap_complex_key_set_value(b, k, v) ==
  LET outcome(bucket, failed, gone) ==
        [bucket |-> bucket, failed |-> failed, gone |-> gone]
      listed(chain) == [complex |-> TRUE, chain |-> chain]
  IN  {outcome(listed(linked_last(b.chain, NewEntry(k, v))), FALSE, FALSE)}
      \cup (IF MallocMayFail
            THEN {outcome(b, TRUE, FALSE), outcome(listed(b.chain), FALSE, TRUE)}
            ELSE {})
      \cup (IF MallocMayFail /\ ~b.complex
            THEN {outcome(Halfway(b), TRUE, FALSE)}
            ELSE {})
-----------------------------------------------------------------------------
(* hmap_resize up to the call of hmap_rehash; err and coll are last_error_ *)
(* code and collisions when it is entered.  Exceeding the bound sets an    *)
(* error and goes on.  locked stays set when the function backs off.       *)
BeginResize(cap, err, coll) ==
  /\ locked' = TRUE
  /\ \/ /\ last_error_code' = IF resize_bound > 0 /\ cap > resize_bound
                              THEN HMAP_ERR_TOO_LARGE ELSE err
        /\ collisions'  = 0
        /\ new_buckets' = EmptyTable(cap)
        /\ new_cap'     = cap
        /\ at_bucket'   = 0
        /\ at_node'     = 1
        /\ pc'          = "rehash"
     \/ /\ MallocMayFail
        /\ last_error_code' = HMAP_ERROR_CODE_MALLOC_FAILED
        /\ collisions' = coll
        /\ pc' = "return"
        /\ UNCHANGED rehash

(* Fault: the callback asks for the capacity the table already has.        *)
grown_by_nothing(cap) == cap

GrownCapacity(cap) == 2 * cap

(* Fault: the decision uses the load before it is recomputed.              *)
unhealthy_before(load) == load_factor > Threshold

Unhealthy(load) == load > Threshold

(* update_load_factor, and the unhealthy callback when the load is over    *)
(* the threshold.  "default" is default_unhealthy_callback, "guest" the    *)
(* one test_guest installs: both call hmap_resize, the default one even    *)
(* after hmap_check has refused it.  "defer" leaves resizing to the        *)
(* client.                                                                 *)
update_load_factor(n, cap, err, coll) ==
  LET load == LoadFactor(n, cap) IN
  /\ load_factor' = load
  /\ \/ /\ ~Unhealthy(load) \/ unhealthy_callback = "defer"
        /\ last_error_code' = err
        /\ collisions' = coll
        /\ pc' = "return"
        /\ UNCHANGED <<locked, rehash>>
     \/ /\ Unhealthy(load)
        /\ unhealthy_callback # "defer"
        /\ BeginResize(GrownCapacity(cap),
                       IF unhealthy_callback = "default" /\ locked
                       THEN HMAP_ERROR_CODE_LOCKED ELSE err,
                       coll)

(* The call ends here with result r, having changed nothing but the error  *)
(* code err.                                                               *)
Return(r, err) ==
  /\ ret' = r
  /\ last_error_code' = err
  /\ UNCHANGED <<capacity, set, load_factor, collisions, buckets, config,
                 locked, pc, rehash, swapped, pending, lost>>

Undefined ==
  /\ pc' = "undefined"
  /\ UNCHANGED <<capacity, set, load_factor, collisions, buckets, config,
                 status, rehash, swapped, pending, ret, lost>>

(* hmap_check refuses a locked map; unrecoverable_error is never set.      *)
Refused(r) == locked /\ Return(r, HMAP_ERROR_CODE_LOCKED)
-----------------------------------------------------------------------------
(* The end of hmap_set when it stores: bucket i becomes b.                 *)
Stored(i, b, err, coll, gone) ==
  /\ set < MaxSet
  /\ buckets' = [buckets EXCEPT ![i] = b]
  /\ set' = set + 1
  /\ ret' = TRUE
  /\ lost' = (lost \/ gone)
  /\ update_load_factor(set + 1, capacity, err, coll)
  /\ UNCHANGED <<capacity, config, swapped, pending>>

(* set and the result do not depend on whether the entry was stored.       *)
StoreColliding(i, k, v) ==
  \E o \in hmap_complex_key_set_value(buckets[i], k, v) :
     Stored(i, o.bucket,
            IF o.failed THEN HMAP_ERROR_CODE_MALLOC_FAILED ELSE last_error_code,
            IF o.failed THEN collisions ELSE collisions + 1,
            o.gone)

hmap_set(k, v, allow_update) ==
  LET i     == Index(k, capacity)
      b     == buckets[i]
      match == b.chain # << >> /\ SameKey(b.chain[1].key, k)
  IN  /\ pc = "idle"
      /\ \/ Refused(FALSE)
         \/ /\ ~locked
            /\ b.complex
            /\ StoreColliding(i, k, v)
         \/ /\ ~locked /\ ~b.complex
            /\ match /\ allow_update
            /\ Stored(i, [b EXCEPT !.chain[1].val = v], last_error_code, collisions, FALSE)
         \/ /\ ~locked /\ ~b.complex
            /\ match /\ ~allow_update
            /\ Return(FALSE, HMAP_ERROR_CODE_KEY_MISMATCH)
         \/ /\ ~locked /\ ~b.complex
            /\ b.chain # << >> /\ ~match
            /\ StoreColliding(i, k, v)
         \/ /\ ~locked /\ ~b.complex
            /\ b.chain = << >>
            /\ Stored(i, Simple(NewEntry(k, v)), last_error_code, collisions, FALSE)

(* A miss records KEY_MISMATCH, except in a complex bucket.                *)
hmap_get(k) ==
  LET b == buckets[Index(k, capacity)] IN
  /\ pc = "idle"
  /\ \/ Refused(NULL)
     \/ /\ ~locked
        /\ Misses(b.chain, k)
        /\ Return(NULL, IF b.complex THEN last_error_code
                                     ELSE HMAP_ERROR_CODE_KEY_MISMATCH)
     \/ /\ ~locked
        /\ \E i \in DOMAIN b.chain :
              /\ StopsAt(b.chain, k, i)
              /\ IF b.chain[i].live THEN Return(b.chain[i].val, last_error_code)
                                    ELSE Undefined

(* ll_remove_node(list, at): it unlinks the node before index at, and      *)
(* nothing when at is 0 or 1.                                              *)
ll_remove_node(chain, at) ==
  IF at >= 2 THEN RemoveAt(chain, at) ELSE chain

(* Fault: the list's length is passed for the index.                       *)
last_unlinked(chain, i) ==
  ll_remove_node([chain EXCEPT ![i].live = FALSE], Len(chain))

(* The node's value is freed whether or not its node is unlinked.          *)
hmap_complex_key_unset_value(chain, i) ==
  ll_remove_node([chain EXCEPT ![i].live = FALSE], i - 1)

(* A simple bucket is cleared without comparing its key.  set is           *)
(* decremented only there, after update_load_factor has used it.           *)
hashmap_unset(k) ==
  LET i == Index(k, capacity)
      b == buckets[i]
  IN  /\ pc = "idle"
      /\ \/ Refused(NULL)
         \/ /\ ~locked
            /\ b.complex
            /\ Misses(b.chain, k)
            /\ Return(NULL, last_error_code)
         \/ /\ ~locked
            /\ b.complex
            /\ \E n \in DOMAIN b.chain :
                  /\ StopsAt(b.chain, k, n)
                  /\ b.chain[n].live
                  /\ buckets' = [buckets EXCEPT ![i].chain =
                                   hmap_complex_key_unset_value(b.chain, n)]
                  /\ ret' = b.chain[n].val
                  /\ UNCHANGED <<capacity, set, load_factor, collisions, config,
                                 status, pc, rehash, swapped, pending, lost>>
         \/ /\ ~locked
            /\ b.complex
            /\ \E n \in DOMAIN b.chain :
                  StopsAt(b.chain, k, n) /\ ~b.chain[n].live /\ Undefined
         \/ /\ ~locked
            /\ ~b.complex
            /\ b.chain # << >>
            /\ buckets' = [buckets EXCEPT ![i] = EmptyBucket]
            /\ ret' = b.chain[1].val
            /\ pending' = 1
            /\ update_load_factor(set, capacity, last_error_code, collisions)
            /\ UNCHANGED <<capacity, set, config, swapped, lost>>
         \/ /\ ~locked
            /\ ~b.complex
            /\ b.chain = << >>
            /\ Return(NULL, HMAP_ERROR_CODE_KEY_MISMATCH)

(* The client's own hmap_resize, which no hmap_check guards.               *)
hmap_resize(cap) ==
  /\ pc = "idle"
  /\ BeginResize(cap, last_error_code, collisions)
  /\ UNCHANGED <<capacity, set, load_factor, buckets, config, swapped, pending, ret, lost>>
-----------------------------------------------------------------------------
(* hmap_rehash: the next entry of the old table goes to the new one.       *)
RehashPut(j, b, err, coll, gone) ==
  /\ new_buckets' = [new_buckets EXCEPT ![j] = b]
  /\ at_node' = at_node + 1
  /\ last_error_code' = err
  /\ collisions' = coll
  /\ lost' = (lost \/ gone)
  /\ UNCHANGED <<capacity, set, load_factor, buckets, config, locked, pc,
                 new_cap, at_bucket, swapped, pending, ret>>

RehashColliding(j, e) ==
  \E o \in hmap_complex_key_set_value(new_buckets[j], e.key, e.val) :
     RehashPut(j, o.bucket,
               IF o.failed THEN HMAP_ERROR_CODE_MALLOC_FAILED ELSE last_error_code,
               IF o.failed THEN collisions ELSE collisions + 1,
               o.gone)

(* Fault: an entry overwrites what its new bucket holds.                   *)
rehash_overwriting(j, e) ==
  RehashPut(j, Simple(e), last_error_code, collisions, FALSE)

(* An entry of a list is dropped when its new bucket holds one entry whose *)
(* value is NULL: neither branch of hmap_rehash_complex applies.           *)
hmap_rehash_complex(j, e) ==
  LET nb == new_buckets[j] IN
  \/ /\ nb.complex \/ (nb.chain # << >> /\ nb.chain[1].val # NULL)
     /\ RehashColliding(j, e)
  \/ /\ ~nb.complex /\ nb.chain # << >> /\ nb.chain[1].val = NULL
     /\ RehashPut(j, nb, last_error_code, collisions, FALSE)
  \/ /\ ~nb.complex /\ nb.chain = << >>
     /\ RehashPut(j, Simple(e), last_error_code, collisions, FALSE)

hmap_rehash_simple(j, e) ==
  LET nb == new_buckets[j] IN
  \/ /\ nb.chain = << >>
     /\ RehashPut(j, Simple(e), last_error_code, collisions, FALSE)
  \/ /\ nb.chain # << >>
     /\ RehashColliding(j, e)

(* Fault: an entry keeps its index, as far as the new table has it.        *)
index_kept(e) == at_bucket % new_cap

NewIndex(e) == Index(e.key, new_cap)

RehashEntry ==
  LET old == buckets[at_bucket]
      e   == old.chain[at_node]
      j   == NewIndex(e)
  IN  /\ pc = "rehash"
      /\ at_bucket < capacity
      /\ at_node <= Len(old.chain)
      /\ \/ ~e.live /\ Undefined
         \/ e.live /\ old.complex  /\ hmap_rehash_complex(j, e)
         \/ e.live /\ ~old.complex /\ hmap_rehash_simple(j, e)

RehashNextBucket ==
  /\ pc = "rehash"
  /\ at_bucket < capacity
  /\ at_node > Len(buckets[at_bucket].chain)
  /\ at_bucket' = at_bucket + 1
  /\ at_node' = 1
  /\ UNCHANGED <<capacity, set, load_factor, collisions, buckets, config, status,
                 pc, new_buckets, new_cap, swapped, pending, ret, lost>>

(* Fault: nothing that went wrong is noticed.                              *)
never_failed == FALSE

(* Any error on record, whenever it was recorded, counts as a failure.     *)
RehashFailed == last_error_code # HMAP_ERROR_CODE_OK

(* The new table is freed and locked stays set.                            *)
ResizeBackOff ==
  /\ pc = "rehash"
  /\ at_bucket = capacity
  /\ RehashFailed
  /\ last_error_code' = HMAP_ERROR_CODE_REHASH_FAILED
  /\ pc' = "return"
  /\ UNCHANGED <<capacity, set, load_factor, collisions, buckets, config, locked,
                 rehash, swapped, pending, ret, lost>>

(* The tables are swapped and the load is recomputed while locked is still *)
(* set, so the callback may enter a second resize.                         *)
ResizeSwap ==
  /\ pc = "rehash"
  /\ at_bucket = capacity
  /\ ~RehashFailed
  /\ buckets' = new_buckets
  /\ capacity' = new_cap
  /\ swapped' = TRUE
  /\ update_load_factor(set, new_cap, last_error_code, collisions)
  /\ UNCHANGED <<set, config, pending, ret, lost>>

(* Fault: every way out unlocks.                                           *)
unlocked_always == FALSE

(* Fault: nothing unlocks.                                                 *)
locked_as_before == locked

LockedAfterCall == locked /\ ~swapped

(* Fault: set is decremented on every way out.                             *)
set_minus_one == set - 1

SetAfterCall == set - pending

(* The frames below unwind: every hmap_resize that swapped counts the      *)
(* collisions and unlocks, hashmap_unset decrements set.                   *)
FinishCall ==
  /\ pc = "return"
  /\ collisions' = IF swapped THEN count_collisions(buckets) ELSE collisions
  /\ locked' = LockedAfterCall
  /\ set' = SetAfterCall
  /\ swapped' = FALSE
  /\ pending' = 0
  /\ new_buckets' = EmptyTable(0)
  /\ new_cap' = 0
  /\ at_bucket' = 0
  /\ at_node' = 1
  /\ pc' = "idle"
  /\ UNCHANGED <<capacity, load_factor, buckets, config, last_error_code, ret, lost>>
-----------------------------------------------------------------------------
(* hmap_free frees every node_value of every list, the freed ones again.   *)
hmap_free ==
  /\ pc = "idle"
  /\ pc' = IF \E i \in DOMAIN buckets : \E n \in DOMAIN buckets[i].chain :
                ~buckets[i].chain[n].live
           THEN "undefined" ELSE "freed"
  /\ UNCHANGED <<capacity, set, load_factor, collisions, buckets, config, status,
                 rehash, swapped, pending, ret, lost>>

hmap_set_unhealthy_callback(cb) ==
  /\ pc = "idle"
  /\ unhealthy_callback' = cb
  /\ UNCHANGED <<capacity, set, load_factor, collisions, buckets, resize_bound,
                 status, pc, rehash, swapped, pending, ret, lost>>

hmap_set_max_buckets(max_buckets) ==
  /\ pc = "idle"
  /\ resize_bound' = max_buckets
  /\ UNCHANGED <<capacity, set, load_factor, collisions, buckets,
                 unhealthy_callback, status, pc, rehash, swapped, pending, ret, lost>>

(* hmap_new installs the default callback and no bound.                    *)
Init ==
  /\ capacity \in InitCaps
  /\ set = 0
  /\ load_factor = 0
  /\ collisions = 0
  /\ buckets = EmptyTable(capacity)
  /\ resize_bound = 0
  /\ unhealthy_callback = "default"
  /\ locked = FALSE
  /\ last_error_code = HMAP_ERROR_CODE_OK
  /\ pc = "idle"
  /\ new_buckets = EmptyTable(0)
  /\ new_cap = 0
  /\ at_bucket = 0
  /\ at_node = 1
  /\ swapped = FALSE
  /\ pending = 0
  /\ ret = NULL
  /\ lost = FALSE

(* The steps of a call that is already running.                            *)
Running ==
  \/ RehashEntry
  \/ RehashNextBucket
  \/ ResizeBackOff
  \/ ResizeSwap
  \/ FinishCall

(* The calls the client may make.                                          *)
Call ==
  \/ \E k \in Keys, v \in Values, allow \in BOOLEAN : hmap_set(k, v, allow)
  \/ \E k \in Keys : hmap_get(k)
  \/ \E k \in Keys : hashmap_unset(k)
  \/ \E cap \in ResizeCaps : hmap_resize(cap)
  \/ \E cb \in Callbacks : hmap_set_unhealthy_callback(cb)
  \/ \E n \in MaxBuckets : hmap_set_max_buckets(n)
  \/ hmap_free

Next == Running \/ Call

Spec == Init /\ [][Next]_vars

(* A call that runs keeps running: the program is one thread.  The client  *)
(* owes no further call.                                                   *)
FairSpec == Spec /\ WF_vars(Running)
-----------------------------------------------------------------------------
TableStates == {"idle", "rehash", "return", "freed", "undefined"}

(* The type invariant of the map's fields and of hmap_resize's frame.      *)
TypeOK ==
  /\ capacity \in Nat \ {0}
  /\ set \in Nat
  /\ load_factor \in Nat
  /\ collisions \in Nat
  /\ buckets \in [0..(capacity - 1) -> Bucket]
  /\ resize_bound \in Nat
  /\ unhealthy_callback \in {"default", "guest", "defer"}
  /\ locked \in BOOLEAN
  /\ last_error_code \in ErrorCodes
  /\ pc \in TableStates
  /\ new_cap \in Nat
  /\ new_buckets \in [0..(new_cap - 1) -> Bucket]
  /\ at_bucket \in Nat
  /\ at_node \in Nat \ {0}
  /\ pc = "rehash" => new_cap # 0 /\ at_bucket <= capacity
  /\ swapped \in BOOLEAN
  /\ pending \in {0, 1}
  /\ ret \in Values \cup {NULL, ListPtr} \cup BOOLEAN
  /\ lost \in BOOLEAN

(* Every entry is in the bucket its key hashes to.  hmap_get, hmap_set and *)
(* hashmap_unset look in that bucket only, so an entry elsewhere is lost;  *)
(* hmap_resize must redistribute a whole table to keep this.               *)
Placed(table, cap) ==
  \A i \in DOMAIN table : \A n \in DOMAIN table[i].chain :
     Index(table[i].chain[n].key, cap) = i

HashPlacement == Placed(buckets, capacity)

(* "Remove a value from the hashmap. @param key The key to remove"         *)
(* (hashmap.h:174) by way of "Removes the node at from self" (linked_list. *)
(* h:70): hashmap.c:185-186 frees the entry and has the node before its    *)
(* own unlinked, or none.  So in a list the entry of the removed key stays *)
(* where it is, freed, and no later call gets rid of it: no removal        *)
(* unlinks it, no growth passes it, and hmap_free frees it again.          *)
FreedKeys ==
  {k \in Keys : \E i \in DOMAIN buckets : \E n \in DOMAIN buckets[i].chain :
     buckets[i].chain[n].key = k /\ ~buckets[i].chain[n].live}

FreedEntriesStay ==
  [][/\ FreedKeys # {} =>
          FreedKeys \subseteq FreedKeys' /\ capacity' = capacity /\ pc' # "freed"
     /\ \A k \in Keys :
          /\ hashmap_unset(k)
          /\ buckets[Index(k, capacity)].complex
          /\ buckets' # buckets
          => \E j \in FreedKeys' : SameKey(j, k)]_vars

(* set never falls below the number of entries, also while hashmap_unset   *)
(* has yet to decrement it, so "hmap->set--" (hashmap.c:487) never wraps.  *)
Slots(table)   == UNION {{i} \X DOMAIN table[i].chain : i \in DOMAIN table}
Entries(table) == Cardinality(Slots(table))

SetBoundsEntries == Entries(buckets) + pending <= set

(* A map that is left locked has an error on record: no call unlocks       *)
(* late or leaves the map locked after it succeeded.                       *)
LockedOnlyAfterError ==
  pc = "idle" /\ locked => last_error_code # HMAP_ERROR_CODE_OK

(* Once a resize runs with an error on record and no swap behind it, the   *)
(* map is locked for good: the resize backs off without unlocking, every   *)
(* call is then refused, and the client's own hmap_resize backs off too.   *)
Wedged == locked /\ ~swapped /\ last_error_code # HMAP_ERROR_CODE_OK

WedgedForever ==
  [][Wedged => Wedged' /\ UNCHANGED <<capacity, buckets>>]_vars

(* last_error_code is never cleared, and an error on record, were it only  *)
(* a missed hmap_get, ends all growth: the capacity never changes again.   *)
ErrorEndsGrowth ==
  [][last_error_code # HMAP_ERROR_CODE_OK =>
       /\ last_error_code' # HMAP_ERROR_CODE_OK
       /\ capacity' = capacity]_vars

(* What a search for k meets first: nothing, or one entry's value and      *)
(* whether its memory is still allocated.                                  *)
Found(k) ==
  LET chain == buckets[Index(k, capacity)].chain
  IN  {<<chain[i].val, chain[i].live>> :
          i \in {n \in DOMAIN chain : StopsAt(chain, k, n)}}

(* hmap_resize moves every entry and lists keep their order: what a search *)
(* finds is the same at every step of it, the swap included, if no list    *)
(* node was lost.  With a NULL among the values it is not: an entry may    *)
(* then be dropped.                                                        *)
NoNull == \A i \in DOMAIN buckets : \A n \in DOMAIN buckets[i].chain :
             buckets[i].chain[n].val # NULL

ResizeKeepsAnswers ==
  [][pc = "rehash" /\ NoNull /\ ~lost => \A k \in Keys : Found(k)' = Found(k)]_vars

(* Otherwise, what a search for k finds changes only in a call on the      *)
(* bucket of k: a hashmap_unset, or a store.  A store changes it only for  *)
(* its own key, if it was not there or is alone in its bucket: in a list   *)
(* an update stays hidden behind the old entry, whatever hmap_set returns. *)
(* Or an allocation failed half-way and left the address of a list there:  *)
(* then an error is on record.                                             *)
StoreChanges(j, k) ==
  \/ Found(k)' = {<<ListPtr, TRUE>>} /\ last_error_code' # HMAP_ERROR_CODE_OK
  \/ /\ SameKey(j, k)
     /\ Found(k) = {} \/ ~buckets[Index(k, capacity)].complex

DamageIsConfined ==
  [][pc = "idle" => \A k \in Keys : Found(k)' # Found(k) =>
       \E j \in Keys :
          /\ Index(j, capacity) = Index(k, capacity)
          /\ \/ hashmap_unset(j)
             \/ /\ StoreChanges(j, k)
                /\ \E v \in Values, allow \in BOOLEAN : hmap_set(j, v, allow)]_vars

(* Every call returns, also when the callback of one hmap_resize enters    *)
(* another: growing ends.                                                  *)
CallReturns == (pc \in {"rehash", "return"}) ~> (pc \in {"idle", "undefined"})
-----------------------------------------------------------------------------
(* "Remove a value from the hashmap. @param key The key to remove"         *)
(* (hashmap.h:174): a call that removes k leaves what other keys find.     *)
(* hashmap_unset clears a simple bucket without comparing its key.         *)
UnsetRemovesItsKeyOnly ==
  [][\A k \in Keys : hashmap_unset(k) =>
       \A j \in Keys : ~SameKey(j, k) => Found(j)' = Found(j)]_vars
=============================================================================
