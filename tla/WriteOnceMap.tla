---------------------------- MODULE WriteOnceMap ----------------------------
(***************************************************************************)
(* What a client that stores every key once and removes none may expect of *)
(* the map: a store from keys to values that is exact while the map is     *)
(* healthy.  A look-up that misses may cost the map its health.  A map     *)
(* that has lost it may refuse calls, but never returns a wrong value and  *)
(* never loses what it holds.                                              *)
(***************************************************************************)
CONSTANTS Keys, Values, NULL

VARIABLES
  store,    \* the value of each key, NULL when it has none
  healthy,  \* no call has been refused or may be refused yet
  ret       \* the result of the last call

mapVars == <<store, healthy, ret>>

MapInit ==
  /\ store = [k \in Keys |-> NULL]
  /\ healthy = TRUE
  /\ ret = NULL

Put(k, v) ==
  /\ store[k] = NULL
  /\ store' = [store EXCEPT ![k] = v]
  /\ ret' = TRUE
  /\ UNCHANGED healthy

RefusePut ==
  /\ ~healthy
  /\ ret' = FALSE
  /\ UNCHANGED <<store, healthy>>

Get(k) ==
  /\ store[k] # NULL
  /\ ret' = store[k]
  /\ UNCHANGED <<store, healthy>>

Miss(k) ==
  /\ store[k] = NULL
  /\ ret' = NULL
  /\ healthy' \in {healthy, FALSE}
  /\ UNCHANGED store

RefuseGet ==
  /\ ~healthy
  /\ ret' = NULL
  /\ UNCHANGED <<store, healthy>>

MapNext ==
  \/ \E k \in Keys, v \in Values : Put(k, v)
  \/ \E k \in Keys : Get(k) \/ Miss(k)
  \/ RefusePut
  \/ RefuseGet

MapSpec == MapInit /\ [][MapNext]_mapVars
=============================================================================
