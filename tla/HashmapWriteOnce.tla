-------------------------- MODULE HashmapWriteOnce --------------------------
(***************************************************************************)
(* Hashmap driven the way test_guest/guest.c drives it: distinct keys are  *)
(* stored, nothing is stored twice or removed, and keys are looked up.     *)
(* The guest looks up only keys it has stored; here any key, to show what  *)
(* one miss costs.  Under this client the map implements WriteOnceMap.     *)
(***************************************************************************)
EXTENDS Hashmap

StoreOnce(k, v, allow_update) == Found(k) = {} /\ hmap_set(k, v, allow_update)

WriteOnceNext ==
  \/ Running
  \/ \E k \in Keys, v \in Values, allow \in BOOLEAN : StoreOnce(k, v, allow)
  \/ \E k \in Keys : hmap_get(k)
  \/ \E cap \in ResizeCaps : hmap_resize(cap)
  \/ \E cb \in Callbacks : hmap_set_unhealthy_callback(cb)

WriteOnceSpec == Init /\ [][WriteOnceNext]_vars
-----------------------------------------------------------------------------
(* The value a search for k meets, NULL when it meets none.                *)
Answer(k) ==
  LET chain == buckets[Index(k, capacity)].chain
  IN  IF Misses(chain, k) THEN NULL
      ELSE chain[CHOOSE i \in DOMAIN chain : StopsAt(chain, k, i)].val

Map == INSTANCE WriteOnceMap WITH
         store   <- [k \in Keys |-> Answer(k)],
         healthy <- last_error_code = HMAP_ERROR_CODE_OK

(* hmap_set, hmap_get and every growth between them implement the exact    *)
(* map: no key of a crowded bucket hides another, no resize loses or       *)
(* changes an entry, and only a missed hmap_get makes later calls refused. *)
ImplementsMap == Map!MapSpec

(* "Number of elements in the hashmap" (hashmap.h:73), which holds for     *)
(* this client whenever no call runs.                                      *)
SetIsElementCount == pc = "idle" => Entries(buckets) = set

(* "The default callback will resize the hashmap as soon as the load       *)
(* factor is reached" (hashmap.h:144): a healthy map at rest is never over *)
(* the threshold.                                                          *)
HealthyLoad ==
  pc = "idle" /\ last_error_code = HMAP_ERROR_CODE_OK
     => /\ load_factor = LoadFactor(set, capacity)
        /\ load_factor <= Threshold
=============================================================================
