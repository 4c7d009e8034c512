----------------------------- MODULE LinkedList -----------------------------
(***************************************************************************)
(* The singly linked list of src/containers/linked_list.c at the level of  *)
(* its nodes: next pointers, a first and a last pointer, a length, and     *)
(* which nodes are allocated.  A call is one step.  The doubly linked node *)
(* type has a constructor and no list, and is left out.                    *)
(*                                                                         *)
(* Two calls leave last behind the list: LL_INSERT at list->len, which      *)
(* leaves it on the node before the new one, and ll_remove_node at         *)
(* list->len, which frees the node last points to.  What follows is        *)
(* modelled up to the append that writes to the freed node.                *)
(*                                                                         *)
(* The first node that is added to an empty list spoils it: the model ends *)
(* with that call.  What appends make of such a list is in Guest.          *)
(***************************************************************************)
EXTENDS Integers, Sequences, FiniteSets

CONSTANTS
  Nodes,    \* the addresses malloc may return for a node
  Data,     \* the pointers the client stores
  NULL,     \* the null pointer
  MaxPos    \* bound: the largest position the client names

ASSUME ListAssumption ==
  /\ NULL \notin Nodes
  /\ IsFiniteSet(Nodes)
  /\ MaxPos \in Nat

VARIABLES
  next, data,        \* the nodes' fields
  alloc,             \* the nodes that are allocated
  first, last, len,  \* the list's fields
  freed,             \* ll_free has returned
  ret,               \* the result of the last ll_add_node
  strayed            \* history: one of the two calls above was made

list == <<first, last, len>>
vars == <<next, data, alloc, list, freed, ret, strayed>>
-----------------------------------------------------------------------------
(* The i-th node of the chain that starts at f, from 0; NULL past its end. *)
Nth(f, nxt) ==
  LET nth[i \in 0..Cardinality(Nodes)] ==
        IF i = 0 THEN f ELSE IF nth[i - 1] = NULL THEN NULL ELSE nxt[nth[i - 1]]
  IN  nth

Node == Nth(first, next)

(* ll_gnat_impl: an index that wrapped below 0 is past every end.          *)
ll_gnat_impl(nth, i) == IF i \in DOMAIN nth THEN nth[i] ELSE NULL

new_ll_node(n, d) == n \in Nodes \ alloc /\ d \in Data

(* ll_new(fval): a list of one node, or of none when fval is NULL.         *)
ll_new(n, d) ==
  /\ next = [m \in Nodes |-> NULL]
  /\ data = [m \in Nodes |-> d]
  /\ alloc = {n} \ {NULL}
  /\ first = n
  /\ last = n
  /\ len = IF n = NULL THEN 0 ELSE 1
  /\ freed = FALSE
  /\ ret = 0
  /\ strayed = FALSE

(* new_ll_node returns NULL.                                               *)
AddFails ==
  /\ ~freed
  /\ ret' = -1
  /\ UNCHANGED <<next, data, alloc, list, freed, strayed>>

(* An empty list is initialised to the new node and the code goes on to    *)
(* add the node a second time.                                             *)
Initialised(n) ==
  IF len > 0 /\ first # NULL /\ last # NULL
  THEN [first |-> first, last |-> last, len |-> len]
  ELSE [first |-> n, last |-> n, len |-> 1]

(* Node n, with d, is linked: the caller of Added says how.                *)
Added(n, d, nxt, f, l) ==
  /\ next' = nxt
  /\ data' = [data EXCEPT ![n] = d]
  /\ alloc' = alloc \cup {n}
  /\ first' = f
  /\ last' = l
  /\ len' = Initialised(n).len + 1
  /\ ret' = Initialised(n).len + 1
  /\ UNCHANGED freed

(* new_ll_node sets the next pointer to NULL.                              *)
Fresh(n) == [next EXCEPT ![n] = NULL]

ll_prepend_node(n, d) ==
  LET self == Initialised(n) IN
  /\ ~freed
  /\ new_ll_node(n, d)
  /\ Added(n, d, [Fresh(n) EXCEPT ![n] = self.first], n, self.last)
  /\ UNCHANGED strayed

(* Fault: last is not moved to the new node.                               *)
last_kept(n) == Initialised(n).last

AppendedLast(n) == n

(* Nothing is said of a call that writes to a freed last node, unless      *)
(* malloc has just returned that very node again.                          *)
ll_append_node(n, d) ==
  LET self == Initialised(n) IN
  /\ ~freed
  /\ new_ll_node(n, d)
  /\ self.last \in alloc \cup {n}
  /\ Added(n, d, [Fresh(n) EXCEPT ![self.last] = n], self.first, AppendedLast(n))
  /\ UNCHANGED strayed

(* The node is freed again when there is no node to put it behind.         *)
InsertRefused(n, code) ==
  LET self == Initialised(n) IN
  /\ first' = self.first /\ last' = self.last /\ len' = self.len
  /\ next' = Fresh(n)
  /\ ret' = code
  /\ UNCHANGED <<data, alloc, freed, strayed>>

(* Fault: prev is linked to the node before the node takes prev's next.    *)
prev_linked_first(n, prev, nxt) == [nxt EXCEPT ![prev] = n, ![n] = n]

InsertLinks(n, prev, nxt) == [nxt EXCEPT ![n] = nxt[prev], ![prev] = n]

ll_insert_node(n, d, pos) ==
  LET self == Initialised(n)
      prev == ll_gnat_impl(Nth(self.first, Fresh(n)), pos - 1)
  IN  /\ ~freed
      /\ new_ll_node(n, d)
      /\ \/ self.len < pos /\ InsertRefused(n, -2)
         \/ self.len >= pos /\ prev = NULL /\ InsertRefused(n, -3)
         \/ /\ self.len >= pos
            /\ prev # NULL
            /\ Added(n, d, InsertLinks(n, prev, Fresh(n)), self.first, self.last)
            /\ strayed' = (strayed \/ pos = len)

(* The walk stops at index at - 1: at 0 it runs off the end, at 1 it stops *)
(* on the first node, which has no node before it.                         *)
Unlinks(at) == at \in 2..len /\ ll_gnat_impl(Node, at - 1) # NULL

(* Fault: len is decremented although nothing is unlinked.                 *)
len_minus_one(at) == len - 1

LenAfterRemoval(at) == IF Unlinks(at) THEN len - 1 ELSE len

ll_remove_node(at) ==
  /\ ~freed
  /\ IF Unlinks(at)
     THEN /\ next' = [next EXCEPT ![Node[at - 2]] = next[Node[at - 1]]]
          /\ alloc' = alloc \ {Node[at - 1]}
          /\ strayed' = (strayed \/ at = len)
     ELSE UNCHANGED <<next, alloc, strayed>>
  /\ len' = LenAfterRemoval(at)
  /\ UNCHANGED <<data, first, last, freed, ret>>

(* Fault: the first node is not freed.                                     *)
reached_from_second == {Node[i] : i \in DOMAIN Node \ {0}} \ {NULL}

Reached == {Node[i] : i \in DOMAIN Node} \ {NULL}

(* Fault: the length counts as the place of a node.                        *)
gnat_up_to_len(at) ==
  IF first # NULL /\ at <= len THEN ll_gnat_impl(Node, at) ELSE NULL

(* What ll_gnat returns; it changes nothing.  Its branch for at = 0 cannot *)
(* be reached with a first node that is not NULL.                          *)
ll_gnat(at) ==
  CASE first # NULL /\ at < len -> ll_gnat_impl(Node, at)
    [] at = len -> last
    [] OTHER -> NULL

(* ll_free frees the nodes it finds from first on.                         *)
ll_free ==
  /\ ~freed
  /\ freed' = TRUE
  /\ alloc' = alloc \ Reached
  /\ UNCHANGED <<next, data, list, ret, strayed>>
-----------------------------------------------------------------------------
(* Any client that starts from one node, as hashmap.c does, or from none,  *)
(* as guest.c does.                                                        *)
Init == \E n \in Nodes \cup {NULL}, d \in Data : ll_new(n, d)

(* A node was added to an empty list: first is a node that was freed, when *)
(* the addition was refused, or one that is linked to itself.              *)
Spoilt == ~freed /\ first # NULL /\ (first \notin alloc \/ next[first] = first)

Next ==
  /\ ~Spoilt
  /\ \/ AddFails
     \/ \E n \in Nodes, d \in Data :
           \/ ll_prepend_node(n, d)
           \/ ll_append_node(n, d)
           \/ \E pos \in 0..MaxPos : ll_insert_node(n, d, pos)
     \/ \E at \in 0..MaxPos : ll_remove_node(at)
     \/ ll_free

Spec == Init /\ [][Next]_vars
-----------------------------------------------------------------------------
TypeOK ==
  /\ next \in [Nodes -> Nodes \cup {NULL}]
  /\ data \in [Nodes -> Data]
  /\ alloc \subseteq Nodes
  /\ first \in Nodes \cup {NULL}
  /\ last \in Nodes \cup {NULL}
  /\ len \in Nat
  /\ freed \in BOOLEAN
  /\ ret \in Int
  /\ strayed \in BOOLEAN

(* The last node of the chain.                                             *)
End == IF len = 0 THEN NULL ELSE Node[len - 1]

(* Whatever is called, in whatever order and wherever last points: each    *)
(* node that is allocated is counted, and a walk of the list, ll_free's    *)
(* too, meets at most len nodes, all allocated, and ends.  The first node  *)
(* of an empty list breaks both: it is counted twice, or though it was     *)
(* refused.                                                                *)
LenCountsNodes ==
  ~freed =>
    /\ Cardinality(alloc) = IF Spoilt THEN len - 1 ELSE len
    /\ ~Spoilt => /\ Reached \subseteq alloc
                  /\ len \in DOMAIN Node => Node[len] = NULL

(* Until one of the two calls at the list's end is made, every allocated   *)
(* node is in the chain, so ll_free leaves none behind, and last is the    *)
(* end of the chain.  "Check if the list is initialized if not just        *)
(* initialize and stop here" (linked_list.c:95), and "@return 0 on         *)
(* success, -1 otherwise" (linked_list.h:65): but an insertion that is     *)
(* refused after it has initialised the list, and only such a call, frees  *)
(* its node and leaves first and last on it.                               *)
MemoryInOrder ==
  ~strayed =>
    /\ freed => alloc = {}
    /\ Spoilt => last = first /\ (first \in alloc <=> ret > 0)
    /\ ~freed /\ ~Spoilt => Reached = alloc /\ last = End

(* "A pointer to the node at that location or NULL, if: at > self.len"     *)
(* (linked_list.h:81-82): each place below len has a node, and len is a    *)
(* second place of the last one, until one of those calls is made.  After  *)
(* it a place below len may have none, but never one that was freed, while *)
(* what ll_gnat returns for len may be any node, or a freed one.           *)
GnatFindsNode ==
  ~freed /\ ~Spoilt => \A at \in 0..MaxPos :
    /\ at < len => ll_gnat(at) \in IF strayed THEN alloc \cup {NULL} ELSE alloc
    /\ at = len /\ ~strayed => ll_gnat(at) = End
    /\ at > len => ll_gnat(at) = NULL

(* Until then the list implements the sequence that Hashmap takes it for.  *)
(* Its calls are not the documented ones: ll_remove_node(at) removes "the  *)
(* node at" (linked_list.h:70), index at - 1 if counted from 0, and        *)
(* neither the first nor one it returns; ll_add_node returns the new       *)
(* length, where linked_list.h:65 has 0.  Chain says what they do.         *)
ListChain == INSTANCE Chain WITH items <- [i \in 1..len |-> data[Node[i - 1]]]

(* What ll_free leaves is not looked at.                                   *)
ImplementsChain ==
  /\ ListChain!ChainInit
  /\ [][~strayed' /\ ~Spoilt' => [ListChain!ChainNext]_(ListChain!chainVars)]_vars
=============================================================================
