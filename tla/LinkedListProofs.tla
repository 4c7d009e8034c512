-------------------------- MODULE LinkedListProofs --------------------------
(***************************************************************************)
(* Proofs about LinkedList, for every set of nodes: what the runs check of *)
(* it, and that it implements Chain.                                       *)
(*                                                                         *)
(* Node is a recursive function, so nothing can be read off it directly.   *)
(* The proofs name the nodes of the chain by a function c on 0..k-1 and    *)
(* show that the walk from first is that function followed by NULLs: it    *)
(* solves the recursive equation, and a least place where two solutions    *)
(* differ does not exist.  Each call then turns c into another such        *)
(* function, which is written down.  An empty list, and the one its first  *)
(* node has spoilt, are invariants of their own.                           *)
(***************************************************************************)
EXTENDS LinkedList, TLAPS, FiniteSetTheorems, SequenceTheorems, WellFoundedInduction

LEMMA LeastElement ==
  ASSUME NEW S, S \subseteq Nat, S # {}
  PROVE  \E m \in S : \A k \in S : m <= k
<1>1. PICK x \in S : \A y \in S : ~(<<y, x>> \in OpToRel(<, Nat))
  BY NatLessThanWellFounded, WFMin
<1>2. ASSUME NEW k \in S PROVE x <= k
  <2>1. <<k, x>> \notin OpToRel(<, Nat)
    BY <1>1
  <2>2. k \in Nat /\ x \in Nat
    OBVIOUS
  <2>3. ~(k < x)
    BY <2>1, <2>2 DEF OpToRel
  <2> QED BY <2>2, <2>3
<1> QED BY <1>2

LEMMA NodesAreFinite == Cardinality(Nodes) \in Nat
BY ListAssumption, FS_CardinalityType
-----------------------------------------------------------------------------
(* p satisfies the equation that defines Nth(f, nxt).                      *)
WalksFrom(p, f, nxt) ==
  p = [i \in 0..Cardinality(Nodes) |->
         IF i = 0 THEN f ELSE IF p[i - 1] = NULL THEN NULL ELSE nxt[p[i - 1]]]

LEMMA WalkIsUnique ==
  ASSUME NEW f, NEW nxt, NEW p, NEW q, WalksFrom(p, f, nxt), WalksFrom(q, f, nxt)
  PROVE  p = q
<1> DEFINE N == Cardinality(Nodes)
           D == {i \in 0..N : p[i] # q[i]}
<1>1. N \in Nat
  BY NodesAreFinite
<1>2. p = [i \in 0..N |-> p[i]] /\ q = [i \in 0..N |-> q[i]]
  BY DEF WalksFrom
<1>3. ASSUME NEW i \in 0..N
      PROVE  /\ p[i] = IF i = 0 THEN f ELSE IF p[i - 1] = NULL THEN NULL ELSE nxt[p[i - 1]]
             /\ q[i] = IF i = 0 THEN f ELSE IF q[i - 1] = NULL THEN NULL ELSE nxt[q[i - 1]]
  BY DEF WalksFrom
<1> HIDE DEF N
<1>4. SUFFICES ASSUME D # {} PROVE FALSE
  BY <1>2
<1>5. PICK m \in D : \A k \in D : m <= k
  <2>1. D \subseteq Nat
    BY <1>1
  <2> QED BY <1>4, <2>1, LeastElement
<1>6. m = 0 => p[m] = q[m]
  BY <1>1, <1>3
<1>7. m # 0 => m - 1 \in 0..N /\ p[m - 1] = q[m - 1]
  BY <1>5, <1>1
<1>8. m # 0 => p[m] = q[m]
  BY <1>7, <1>3
<1> QED BY <1>6, <1>8

LEMMA NthIsTheWalk ==
  ASSUME NEW f, NEW nxt, NEW p, WalksFrom(p, f, nxt)
  PROVE  Nth(f, nxt) = p
<1>1. WalksFrom(Nth(f, nxt), f, nxt)
  BY DEF WalksFrom, Nth
<1> QED BY <1>1, WalkIsUnique
-----------------------------------------------------------------------------
(* c names k different nodes of A in the order in which a walk from f      *)
(* along nxt meets them, and the walk ends there.                          *)
IsChain(c, k, f, nxt, A) ==
  /\ k \in Nat \ {0}
  /\ c[0] = f
  /\ \A i \in 0..(k - 1) : c[i] \in A
  /\ \A i, j \in 0..(k - 1) : c[i] = c[j] => i = j
  /\ \A i \in 0..(k - 2) : nxt[c[i]] = c[i + 1]
  /\ nxt[c[k - 1]] = NULL

(* A chain is no longer than its nodes are many, and as long only if it    *)
(* takes them all.                                                         *)
LEMMA ChainLength ==
  ASSUME NEW c, NEW k, NEW f, NEW nxt, NEW A, A \subseteq Nodes, IsChain(c, k, f, nxt, A)
  PROVE  /\ k <= Cardinality(A)
         /\ k = Cardinality(A) => A = {c[i] : i \in 0..(k - 1)}
         /\ Cardinality(A) <= Cardinality(Nodes)
<1> DEFINE g == [i \in 0..(k - 1) |-> c[i]]
<1>1. k \in Nat \ {0}
  BY DEF IsChain
<1>2. IsFiniteSet(A) /\ Cardinality(A) <= Cardinality(Nodes)
  BY ListAssumption, FS_Subset
<1>3. g \in Injection(0..(k - 1), A)
  BY DEF IsChain, Injection, IsInjective
<1>4. Cardinality(0..(k - 1)) = k
  BY <1>1, FS_Interval
<1>5. /\ Cardinality(0..(k - 1)) <= Cardinality(A)
      /\ Cardinality(0..(k - 1)) = Cardinality(A) <=> g \in Surjection(0..(k - 1), A)
  BY <1>2, <1>3, FS_Injection
<1>6. k = Cardinality(A) => A = {c[i] : i \in 0..(k - 1)}
  <2>1. SUFFICES ASSUME k = Cardinality(A) PROVE A = {c[i] : i \in 0..(k - 1)}
    OBVIOUS
  <2>2. \A t \in A : \E i \in 0..(k - 1) : g[i] = t
    BY <2>1, <1>4, <1>5 DEF Surjection
  <2> QED BY <2>2 DEF IsChain
<1> QED BY <1>2, <1>4, <1>5, <1>6

(* The walk that Node takes: the chain, then NULLs.                        *)
LEMMA WalkOfChain ==
  ASSUME NEW c, NEW k, NEW f, NEW nxt, NEW A, A \subseteq Nodes, IsChain(c, k, f, nxt, A)
  PROVE  /\ k <= Cardinality(Nodes)
         /\ Nth(f, nxt) = [i \in 0..Cardinality(Nodes) |-> IF i < k THEN c[i] ELSE NULL]
         /\ IsChain(Nth(f, nxt), k, f, nxt, A)
<1> DEFINE N == Cardinality(Nodes)
           p == [i \in 0..N |-> IF i < k THEN c[i] ELSE NULL]
<1>1. k \in Nat \ {0} /\ N \in Nat /\ k <= N
  <2>1. Cardinality(A) \in Nat
    BY ListAssumption, FS_Subset, FS_CardinalityType
  <2> QED BY <2>1, ChainLength, NodesAreFinite DEF IsChain
<1> HIDE DEF N
<1>2. ASSUME NEW i \in 0..N
      PROVE  p[i] = IF i = 0 THEN f ELSE IF p[i - 1] = NULL THEN NULL ELSE nxt[p[i - 1]]
  <2>1. CASE i = 0
    BY <2>1, <1>1 DEF IsChain
  <2>2. CASE i \in 1..(k - 1)
    <3>1. i - 1 \in 0..(k - 2) /\ i - 1 \in 0..(k - 1) /\ i - 1 \in 0..N /\ i - 1 < k /\ i < k
      BY <2>2, <1>1
    <3>2. c[i - 1] # NULL
      BY <3>1, ListAssumption DEF IsChain
    <3>3. nxt[c[i - 1]] = c[(i - 1) + 1]
      BY <3>1 DEF IsChain
    <3>4. (i - 1) + 1 = i /\ i # 0
      BY <2>2, <1>1
    <3> QED BY <3>1, <3>2, <3>3, <3>4
  <2>3. CASE i = k
    <3>1. i - 1 = k - 1 /\ i - 1 \in 0..(k - 1) /\ i - 1 \in 0..N /\ i - 1 < k /\ ~(i < k) /\ i # 0
      BY <2>3, <1>1
    <3>2. c[i - 1] # NULL
      BY <3>1, ListAssumption DEF IsChain
    <3>3. nxt[c[i - 1]] = NULL
      BY <3>1 DEF IsChain
    <3> QED BY <3>1, <3>2, <3>3
  <2>4. CASE i > k
    <3>1. i - 1 \in 0..N /\ ~(i - 1 < k) /\ ~(i < k) /\ i # 0
      BY <2>4, <1>1
    <3> QED BY <3>1
  <2> QED BY <2>1, <2>2, <2>3, <2>4, <1>1
<1>3. WalksFrom(p, f, nxt)
  <2>1. p = [i \in 0..N |->
               IF i = 0 THEN f ELSE IF p[i - 1] = NULL THEN NULL ELSE nxt[p[i - 1]]]
    <3> HIDE DEF p
    <3>1. p = [i \in 0..N |-> p[i]]
      BY DEF p
    <3> QED BY <1>2, <3>1
  <2> QED BY <2>1 DEF WalksFrom, N
<1>4. Nth(f, nxt) = p
  <2> HIDE DEF p
  <2> QED BY <1>3, NthIsTheWalk
<1>5. IsChain(p, k, f, nxt, A)
  <2>1. \A i \in 0..(k - 1) : p[i] = c[i]
    BY <1>1
  <2> HIDE DEF p
  <2>2. 0 \in 0..(k - 1) /\ k - 1 \in 0..(k - 1)
    BY <1>1
  <2>3. \A i \in 0..(k - 2) : i \in 0..(k - 1) /\ i + 1 \in 0..(k - 1)
    BY <1>1
  <2> QED BY <2>1, <2>2, <2>3 DEF IsChain
<1> QED BY <1>1, <1>4, <1>5 DEF N
-----------------------------------------------------------------------------
(* What each way to link or unlink a node does to a chain.                 *)

(* A next pointer that is not in the chain may change.                     *)
LEMMA ChainElsewhere ==
  ASSUME NEW c, NEW k, NEW f, NEW nxt, NEW A, NEW B, IsChain(c, k, f, nxt, A),
         NEW other, A \subseteq B, \A i \in 0..(k - 1) : other[c[i]] = nxt[c[i]]
  PROVE  IsChain(c, k, f, other, B)
<1>1. k - 1 \in 0..(k - 1) /\ \A i \in 0..(k - 2) : i \in 0..(k - 1)
  BY DEF IsChain
<1> QED BY <1>1 DEF IsChain

Prepended(c, k, n) == [i \in 0..k |-> IF i = 0 THEN n ELSE c[i - 1]]

LEMMA ChainPrepended ==
  ASSUME NEW c, NEW k, NEW f, NEW nxt, NEW A, IsChain(c, k, f, nxt, A), NEW n, n \notin A,
         NEW other, other[n] = f, \A i \in 0..(k - 1) : other[c[i]] = nxt[c[i]]
  PROVE  IsChain(Prepended(c, k, n), k + 1, n, other, A \cup {n})
<1> DEFINE e == Prepended(c, k, n)
<1>1. k \in Nat \ {0} /\ c[0] = f /\ nxt[c[k - 1]] = NULL
  BY DEF IsChain
<1>2. e[0] = n /\ \A i \in 1..k : e[i] = c[i - 1] /\ i - 1 \in 0..(k - 1)
  BY <1>1 DEF Prepended
<1> HIDE DEF e
<1>3. \A i \in 0..k : e[i] \in A \cup {n}
  BY <1>1, <1>2 DEF IsChain
<1>4. \A i, j \in 0..k : e[i] = e[j] => i = j
  <2>1. ASSUME NEW i \in 1..k PROVE e[i] # n
    BY <1>2 DEF IsChain
  <2>2. ASSUME NEW i \in 1..k, NEW j \in 1..k, e[i] = e[j] PROVE i = j
    <3>1. c[i - 1] = c[j - 1] /\ i - 1 \in 0..(k - 1) /\ j - 1 \in 0..(k - 1)
      BY <1>2, <2>2
    <3>2. i - 1 = j - 1
      BY <3>1 DEF IsChain
    <3> QED BY <3>2, <1>1
  <2>3. \A i \in 0..k : i = 0 \/ i \in 1..k
    BY <1>1
  <2> QED BY <2>1, <2>2, <2>3, <1>2
<1>5. ASSUME NEW i \in 0..(k - 1) PROVE other[e[i]] = e[i + 1]
  <2>1. e[i + 1] = c[i]
    <3>1. i + 1 \in 1..k /\ (i + 1) - 1 = i
      BY <1>1
    <3> QED BY <3>1, <1>2
  <2>2. CASE i = 0
    BY <2>1, <2>2, <1>1, <1>2
  <2>3. CASE i # 0
    <3>1. i \in 1..k /\ i - 1 \in 0..(k - 2) /\ i - 1 \in 0..(k - 1) /\ (i - 1) + 1 = i
      BY <2>3, <1>1
    <3>2. nxt[c[i - 1]] = c[(i - 1) + 1]
      BY <3>1 DEF IsChain
    <3> QED BY <2>1, <3>1, <3>2, <1>2
  <2> QED BY <2>2, <2>3
<1>6. other[e[k]] = NULL
  <2>1. k \in 1..k /\ k - 1 \in 0..(k - 1)
    BY <1>1
  <2> QED BY <2>1, <1>1, <1>2
<1>7. (k + 1) - 1 = k /\ (k + 1) - 2 = k - 1 /\ k + 1 \in Nat \ {0}
  BY <1>1
<1>8. IsChain(e, k + 1, n, other, A \cup {n})
  BY <1>2, <1>3, <1>4, <1>5, <1>6, <1>7 DEF IsChain
<1> QED BY <1>8 DEF e

(* n is linked behind the node at q, and what followed is lost.            *)
CutAfter(c, q, n) == [i \in 0..(q + 1) |-> IF i <= q THEN c[i] ELSE n]

LEMMA ChainCut ==
  ASSUME NEW c, NEW k, NEW f, NEW nxt, NEW A, IsChain(c, k, f, nxt, A), NEW n, n \notin A,
         NEW q \in 0..(k - 1),
         NEW other, other[n] = NULL, other[c[q]] = n,
         \A i \in 0..(q - 1) : other[c[i]] = nxt[c[i]]
  PROVE  IsChain(CutAfter(c, q, n), q + 2, f, other, A \cup {n})
<1> DEFINE e == CutAfter(c, q, n)
<1>1. k \in Nat \ {0} /\ c[0] = f
  BY DEF IsChain
<1>2. e[q + 1] = n /\ \A i \in 0..q : e[i] = c[i] /\ i \in 0..(k - 1)
  BY <1>1 DEF CutAfter
<1> HIDE DEF e
<1>s. \A i \in 0..(q + 1) : i \in 0..q \/ i = q + 1
  BY <1>1
<1>3. \A i \in 0..(q + 1) : e[i] \in A \cup {n}
  BY <1>2, <1>s DEF IsChain
<1>4. \A i, j \in 0..(q + 1) : e[i] = e[j] => i = j
  <2>1. ASSUME NEW i \in 0..q PROVE e[i] # n
    BY <1>2 DEF IsChain
  <2>2. ASSUME NEW i \in 0..q, NEW j \in 0..q, e[i] = e[j] PROVE i = j
    BY <1>2, <2>2 DEF IsChain
  <2> QED BY <2>1, <2>2, <1>2, <1>s
<1>5. ASSUME NEW i \in 0..q PROVE other[e[i]] = e[i + 1]
  <2>1. CASE i = q
    BY <2>1, <1>2
  <2>2. CASE i # q
    <3>1. i \in 0..(q - 1) /\ i + 1 \in 0..q /\ i \in 0..(k - 2)
      BY <2>2, <1>1
    <3> QED BY <3>1, <1>2 DEF IsChain
  <2> QED BY <2>1, <2>2
<1>6. (q + 2) - 1 = q + 1 /\ (q + 2) - 2 = q /\ q + 2 \in Nat \ {0} /\ 0 \in 0..q
  BY <1>1
<1>7. e[0] = f
  BY <1>1, <1>2, <1>6
<1>8. IsChain(e, q + 2, f, other, A \cup {n})
  BY <1>2, <1>3, <1>4, <1>5, <1>6, <1>7 DEF IsChain
<1> QED BY <1>8 DEF e

(* n is linked between the node at q and the one after it.                 *)
InsertedAfter(c, k, q, n) ==
  [i \in 0..k |-> IF i <= q THEN c[i] ELSE IF i = q + 1 THEN n ELSE c[i - 1]]

LEMMA ChainInserted ==
  ASSUME NEW c, NEW k, NEW f, NEW nxt, NEW A, IsChain(c, k, f, nxt, A), NEW n, n \notin A,
         NEW q \in 0..(k - 1),
         NEW other, other[n] = nxt[c[q]], other[c[q]] = n,
         \A i \in 0..(k - 1) : i # q => other[c[i]] = nxt[c[i]]
  PROVE  IsChain(InsertedAfter(c, k, q, n), k + 1, f, other, A \cup {n})
<1> DEFINE e == InsertedAfter(c, k, q, n)
<1>1. k \in Nat \ {0} /\ c[0] = f
  BY DEF IsChain
<1>2. /\ e[q + 1] = n
      /\ \A i \in 0..q : e[i] = c[i] /\ i \in 0..(k - 1)
      /\ \A i \in (q + 2)..k : e[i] = c[i - 1] /\ i - 1 \in 0..(k - 1)
  BY <1>1 DEF InsertedAfter
<1> HIDE DEF e
<1>s. \A i \in 0..k : i \in 0..q \/ i = q + 1 \/ i \in (q + 2)..k
  BY <1>1
<1>3. \A i \in 0..k : e[i] \in A \cup {n}
  BY <1>2, <1>s DEF IsChain
<1>4. \A i, j \in 0..k : e[i] = e[j] => i = j
  <2> DEFINE at(i) == IF i <= q THEN i ELSE i - 1
  <2>1. ASSUME NEW i \in 0..k, i # q + 1 PROVE e[i] = c[at(i)] /\ at(i) \in 0..(k - 1) /\ e[i] # n
    <3>1. e[i] = c[at(i)] /\ at(i) \in 0..(k - 1)
      BY <1>1, <1>2, <2>1
    <3> HIDE DEF at
    <3> QED BY <3>1 DEF IsChain
  <2>2. ASSUME NEW i \in 0..k, NEW j \in 0..k, i # q + 1, j # q + 1, at(i) = at(j) PROVE i = j
    BY <2>2, <1>1
  <2> HIDE DEF at
  <2>3. ASSUME NEW i \in 0..k, NEW j \in 0..k, i # q + 1, j # q + 1, e[i] = e[j] PROVE i = j
    <3>1. at(i) = at(j)
      BY <2>1, <2>3 DEF IsChain
    <3> QED BY <2>2, <2>3, <3>1
  <2> QED BY <2>1, <2>3, <1>2
<1>5. ASSUME NEW i \in 0..(k - 1) PROVE other[e[i]] = e[i + 1]
  <2>1. CASE i \in 0..(q - 1)
    <3>1. i \in 0..(k - 2) /\ i + 1 \in 0..q /\ i \in 0..q /\ i # q
      BY <2>1, <1>1
    <3> QED BY <3>1, <1>2 DEF IsChain
  <2>2. CASE i = q
    <3>1. i \in 0..q
      BY <2>2, <1>1
    <3> QED BY <3>1, <2>2, <1>2
  <2>3. CASE i = q + 1
    <3>1. i + 1 \in (q + 2)..k /\ (i + 1) - 1 = q + 1 /\ q \in 0..(k - 2)
      BY <2>3, <1>1
    <3> QED BY <3>1, <2>3, <1>2 DEF IsChain
  <2>4. CASE i \in (q + 2)..(k - 1)
    <3>1. /\ i \in (q + 2)..k /\ i + 1 \in (q + 2)..k
          /\ (i + 1) - 1 = (i - 1) + 1
          /\ i - 1 \in 0..(k - 2) /\ i - 1 # q /\ i - 1 \in 0..(k - 1)
      BY <2>4, <1>1
    <3>2. nxt[c[i - 1]] = c[(i - 1) + 1] /\ other[c[i - 1]] = nxt[c[i - 1]]
      BY <3>1 DEF IsChain
    <3>3. e[i] = c[i - 1] /\ e[i + 1] = c[(i + 1) - 1]
      BY <3>1, <1>2
    <3> QED BY <3>1, <3>2, <3>3
  <2> QED BY <2>1, <2>2, <2>3, <2>4, <1>1
<1>6. other[e[k]] = NULL
  <2>1. CASE q = k - 1
    <3>1. k = q + 1
      BY <2>1, <1>1
    <3> QED BY <2>1, <3>1, <1>2 DEF IsChain
  <2>2. CASE q # k - 1
    <3>1. k \in (q + 2)..k /\ k - 1 \in 0..(k - 1)
      BY <2>2, <1>1
    <3> QED BY <2>2, <3>1, <1>2 DEF IsChain
  <2> QED BY <2>1, <2>2
<1>7. (k + 1) - 1 = k /\ (k + 1) - 2 = k - 1 /\ k + 1 \in Nat \ {0} /\ 0 \in 0..q
  BY <1>1
<1>8. e[0] = f
  BY <1>1, <1>2, <1>7
<1>9. IsChain(e, k + 1, f, other, A \cup {n})
  BY <1>3, <1>4, <1>5, <1>6, <1>7, <1>8 DEF IsChain
<1> QED BY <1>9 DEF e

(* The node at q is unlinked: there is one before it.                      *)
RemovedAt(c, k, q) == [i \in 0..(k - 2) |-> IF i < q THEN c[i] ELSE c[i + 1]]

LEMMA ChainRemoved ==
  ASSUME NEW c, NEW k, NEW f, NEW nxt, NEW A, IsChain(c, k, f, nxt, A),
         NEW q \in 1..(k - 1),
         NEW other, other[c[q - 1]] = nxt[c[q]],
         \A i \in 0..(k - 1) : i # q - 1 => other[c[i]] = nxt[c[i]]
  PROVE  IsChain(RemovedAt(c, k, q), k - 1, f, other, A \ {c[q]})
<1> DEFINE e == RemovedAt(c, k, q)
           at(i) == IF i < q THEN i ELSE i + 1
<1>1. k \in Nat \ {0} /\ c[0] = f /\ k - 1 \in Nat \ {0} /\ 0 < q /\ (k - 1) - 1 = k - 2
  BY DEF IsChain
<1>2. \A i \in 0..(k - 2) : e[i] = c[at(i)] /\ at(i) \in 0..(k - 1) /\ at(i) # q
  BY <1>1 DEF RemovedAt
<1>3. \A i, j \in 0..(k - 2) : at(i) = at(j) => i = j
  BY <1>1
<1>f. at(0) = 0 /\ 0 \in 0..(k - 2) /\ q \in 0..(k - 1) /\ q - 1 \in 0..(k - 2)
  BY <1>1
<1>s. \A i \in 0..((k - 1) - 2) : i \in 0..(k - 2) /\ i + 1 \in 0..(k - 2)
  BY <1>1
<1>g. \A i \in 0..((k - 1) - 2) :
        \/ i < q - 1 /\ at(i) = i /\ at(i + 1) = i + 1
        \/ i = q - 1 /\ at(i) = i /\ at(i + 1) = q + 1 /\ q \in 0..(k - 2)
        \/ i > q - 1 /\ at(i) = i + 1 /\ at(i + 1) = (i + 1) + 1
  BY <1>1
<1> HIDE DEF e, at
<1>4. \A i \in 0..(k - 2) : e[i] \in A \ {c[q]}
  BY <1>2, <1>f DEF IsChain
<1>5. \A i, j \in 0..(k - 2) : e[i] = e[j] => i = j
  BY <1>2, <1>3 DEF IsChain
<1>6. ASSUME NEW i \in 0..((k - 1) - 2) PROVE other[e[i]] = e[i + 1]
  <2>1. e[i] = c[at(i)] /\ e[i + 1] = c[at(i + 1)]
    BY <1>2, <1>s
  <2>2. CASE i < q - 1
    <3>1. i \in 0..(k - 1) /\ i \in 0..(k - 2) /\ i # q - 1 /\ at(i) = i /\ at(i + 1) = i + 1
      BY <2>2, <1>1, <1>g
    <3> QED BY <2>1, <3>1 DEF IsChain
  <2>3. CASE i = q - 1
    <3>1. at(i) = q - 1 /\ at(i + 1) = q + 1 /\ q \in 0..(k - 2)
      BY <2>3, <1>1, <1>g
    <3> QED BY <2>1, <3>1 DEF IsChain
  <2>4. CASE i > q - 1
    <3>1. /\ at(i) = i + 1 /\ at(i + 1) = (i + 1) + 1
          /\ i + 1 \in 0..(k - 2) /\ i + 1 \in 0..(k - 1) /\ i + 1 # q - 1
      BY <2>4, <1>1, <1>g
    <3> QED BY <2>1, <3>1 DEF IsChain
  <2> QED BY <2>2, <2>3, <2>4, <1>1
<1>7. other[e[(k - 1) - 1]] = NULL
  <2>1. e[k - 2] = c[at(k - 2)]
    BY <1>1, <1>2
  <2>2. CASE q = k - 1
    <3>1. at(k - 2) = q - 1
      BY <2>2, <1>1 DEF at
    <3> QED BY <1>1, <2>1, <2>2, <3>1 DEF IsChain
  <2>3. CASE q # k - 1
    <3>1. at(k - 2) = k - 1 /\ k - 1 \in 0..(k - 1) /\ k - 1 # q - 1
      BY <2>3, <1>1 DEF at
    <3> QED BY <1>1, <2>1, <3>1 DEF IsChain
  <2> QED BY <2>2, <2>3
<1>8. e[0] = f
  BY <1>1, <1>2, <1>f
<1>9. IsChain(e, k - 1, f, other, A \ {c[q]})
  BY <1>1, <1>4, <1>5, <1>6, <1>7, <1>8 DEF IsChain
<1> QED BY <1>9 DEF e
-----------------------------------------------------------------------------
(* The inductive invariant.  Wherever last points, the walk from first is  *)
(* a chain of allocated nodes and len is the number of those allocated;    *)
(* until a call at the list's end is made the chain has len nodes, so all  *)
(* of them, and last is its end.                                           *)
LinkedAs(f, l, m, nxt, A, s) ==
  /\ f \in Nodes /\ l \in Nodes
  /\ Cardinality(A) = m
  /\ \E k \in 1..m :
       /\ IsChain(Nth(f, nxt), k, f, nxt, A)
       /\ ~s => k = m /\ l = Nth(f, nxt)[m - 1]

Linked == LinkedAs(first, last, len, next, alloc, strayed)

ListInv ==
  /\ TypeOK
  /\ ~freed => Linked
  /\ freed /\ ~strayed => alloc = {}

LEMMA LinkedByChain ==
  ASSUME NEW f, NEW l \in Nodes, NEW m, NEW nxt, NEW A, A \subseteq Nodes, NEW s,
         Cardinality(A) = m,
         NEW c, NEW k, IsChain(c, k, f, nxt, A), ~s => k = m /\ l = c[m - 1]
  PROVE  LinkedAs(f, l, m, nxt, A, s)
<1>1. k \in Nat \ {0} /\ f \in Nodes
  BY DEF IsChain
<1>2. m \in Nat
  BY ListAssumption, FS_Subset, FS_CardinalityType
<1>3. k \in 1..m
  BY <1>1, <1>2, ChainLength
<1>4. IsChain(Nth(f, nxt), k, f, nxt, A)
  BY WalkOfChain
<1>5. ~s => l = Nth(f, nxt)[m - 1]
  <2>1. Nth(f, nxt) = [i \in 0..Cardinality(Nodes) |-> IF i < k THEN c[i] ELSE NULL] /\ k <= Cardinality(Nodes)
    BY WalkOfChain
  <2>2. SUFFICES ASSUME ~s PROVE l = Nth(f, nxt)[m - 1]
    OBVIOUS
  <2>3. m - 1 \in 0..Cardinality(Nodes) /\ m - 1 < k /\ l = c[m - 1]
    BY <1>1, <2>1, <2>2, NodesAreFinite
  <2> QED BY <2>1, <2>3
<1> QED BY <1>1, <1>3, <1>4, <1>5 DEF LinkedAs

(* The list is never empty, so no call initialises it again.               *)
LEMMA AlreadyInitialised ==
  ASSUME ListInv, ~freed, NEW n
  PROVE  /\ Initialised(n) = [first |-> first, last |-> last, len |-> len]
         /\ IsFiniteSet(alloc) /\ len \in Nat \ {0}
<1>1. Linked /\ TypeOK
  BY DEF ListInv
<1>2. first # NULL /\ last # NULL
  BY <1>1, ListAssumption DEF Linked, LinkedAs
<1>3. len \in Nat \ {0}
  BY <1>1 DEF Linked, LinkedAs, TypeOK
<1>4. IsFiniteSet(alloc)
  BY <1>1, ListAssumption, FS_Subset DEF TypeOK
<1> QED BY <1>2, <1>3, <1>4 DEF Initialised

(* Node along a chain of k nodes.                                          *)
LEMMA NodeOfChain ==
  ASSUME ListInv, NEW k, IsChain(Node, k, first, next, alloc)
  PROVE  /\ k \in Nat \ {0} /\ k <= Cardinality(Nodes) /\ DOMAIN Node = 0..Cardinality(Nodes)
         /\ \A i \in 0..(k - 1) : Node[i] \in alloc /\ Node[i] \in Nodes /\ Node[i] # NULL
         /\ \A i \in 0..Cardinality(Nodes) : i >= k => Node[i] = NULL
<1>1. alloc \subseteq Nodes
  BY DEF ListInv, TypeOK
<1>2. /\ Node = [i \in 0..Cardinality(Nodes) |-> IF i < k THEN Node[i] ELSE NULL]
      /\ k <= Cardinality(Nodes)
  BY <1>1, WalkOfChain DEF Node
<1>3. k \in Nat \ {0} /\ \A i \in 0..(k - 1) : Node[i] \in alloc
  BY DEF IsChain
<1>4. \A i \in 0..Cardinality(Nodes) : i >= k => Node[i] = NULL
  <2> DEFINE w == Node
  <2>1. w = [i \in 0..Cardinality(Nodes) |-> IF i < k THEN w[i] ELSE NULL]
    BY <1>2
  <2> HIDE DEF w
  <2>2. \A i \in 0..Cardinality(Nodes) : i >= k => w[i] = NULL
    BY <2>1, <1>3, NodesAreFinite
  <2> QED BY <2>2 DEF w
<1> QED BY <1>1, <1>2, <1>3, <1>4, ListAssumption

LEMMA InitListInv ==
  ASSUME NEW n \in Nodes, NEW d \in Data, ll_new(n, d)
  PROVE  ListInv
<1> DEFINE c == [i \in {0} |-> n]
<1>1. n # NULL /\ alloc = {n} /\ len = 1 /\ first = n /\ last = n /\ ~strayed /\ ~freed
  BY ListAssumption DEF ll_new
<1>2. next[n] = NULL /\ TypeOK
  <2>1. next = [m \in Nodes |-> NULL] /\ data = [m \in Nodes |-> d] /\ ret = 0
    BY DEF ll_new
  <2>2. next[n] = NULL /\ next \in [Nodes -> Nodes \cup {NULL}] /\ data \in [Nodes -> Data]
    BY <2>1
  <2>3. freed \in BOOLEAN /\ strayed \in BOOLEAN
    BY DEF ll_new
  <2> QED BY <1>1, <2>1, <2>2, <2>3 DEF TypeOK
<1>3. IsChain(c, 1, first, next, alloc)
  BY <1>1, <1>2 DEF IsChain
<1>4. Cardinality(alloc) = len
  BY <1>1, FS_Singleton
<1>5. last = c[len - 1]
  BY <1>1
<1> HIDE DEF c
<1>6. Linked
  BY <1>1, <1>2, <1>3, <1>4, <1>5, LinkedByChain DEF Linked, TypeOK
<1> QED BY <1>1, <1>2, <1>6 DEF ListInv
-----------------------------------------------------------------------------
(* What each call does to the chain that Node walks.                       *)

LEMMA PrependLinks ==
  ASSUME ListInv, NEW n \in Nodes, NEW d \in Data, ll_prepend_node(n, d),
         NEW k, IsChain(Node, k, first, next, alloc)
  PROVE  IsChain(Prepended(Node, k, n), k + 1, first', next', alloc')
<1>1. ~freed /\ n \notin alloc
  BY DEF ll_prepend_node, new_ll_node
<1>i. Initialised(n).first = first /\ Initialised(n).last = last
  BY <1>1, AlreadyInitialised
<1>2. /\ next' = [[next EXCEPT ![n] = NULL] EXCEPT ![n] = first]
      /\ first' = n /\ alloc' = alloc \cup {n}
  BY <1>i DEF ll_prepend_node, Added, Fresh
<1>3. next \in [Nodes -> Nodes \cup {NULL}]
  BY DEF ListInv, TypeOK
<1>4. \A i \in 0..(k - 1) : Node[i] # n /\ Node[i] \in Nodes
  BY <1>1, NodeOfChain
<1>5. next'[n] = first /\ \A i \in 0..(k - 1) : next'[Node[i]] = next[Node[i]]
  BY <1>2, <1>3, <1>4
<1>6. IsChain(Prepended(Node, k, n), k + 1, n, next', alloc \cup {n})
  BY <1>1, <1>5, ChainPrepended
<1> QED BY <1>2, <1>6

(* Behind the node at q if last points to it, and else out of the chain.   *)
LEMMA AppendLinks ==
  ASSUME ListInv, NEW n \in Nodes, NEW d \in Data, ll_append_node(n, d),
         NEW k, IsChain(Node, k, first, next, alloc)
  PROVE  /\ \A q \in 0..(k - 1) : last = Node[q] =>
              IsChain(CutAfter(Node, q, n), q + 2, first', next', alloc')
         /\ (\A q \in 0..(k - 1) : last # Node[q]) =>
              IsChain(Node, k, first', next', alloc')
<1>1. ~freed /\ n \notin alloc
  BY DEF ll_append_node, new_ll_node
<1>i. Initialised(n).first = first /\ Initialised(n).last = last
  BY <1>1, AlreadyInitialised
<1>2. /\ next' = [[next EXCEPT ![n] = NULL] EXCEPT ![last] = n]
      /\ first' = first /\ alloc' = alloc \cup {n}
  BY <1>i DEF ll_append_node, Added, Fresh
<1>3. next \in [Nodes -> Nodes \cup {NULL}] /\ k \in Nat
  BY NodeOfChain DEF ListInv, TypeOK
<1>4. \A i \in 0..(k - 1) : Node[i] # n /\ Node[i] \in Nodes
  BY <1>1, NodeOfChain
<1>5. ASSUME NEW q \in 0..(k - 1), last = Node[q]
      PROVE  IsChain(CutAfter(Node, q, n), q + 2, first', next', alloc')
  <2>1. next'[n] = NULL /\ next'[Node[q]] = n
    BY <1>2, <1>3, <1>4, <1>5
  <2>2. ASSUME NEW i \in 0..(q - 1) PROVE next'[Node[i]] = next[Node[i]]
    <3>1. i \in 0..(k - 1) /\ i # q
      BY <1>3
    <3>2. Node[i] # Node[q]
      BY <3>1 DEF IsChain
    <3> QED BY <3>1, <3>2, <1>2, <1>3, <1>4, <1>5
  <2>3. IsChain(CutAfter(Node, q, n), q + 2, first, next', alloc \cup {n})
    BY <1>1, <2>1, <2>2, ChainCut
  <2> QED BY <2>3, <1>2
<1>6. ASSUME \A q \in 0..(k - 1) : last # Node[q]
      PROVE  IsChain(Node, k, first', next', alloc')
  <2>1. \A i \in 0..(k - 1) : next'[Node[i]] = next[Node[i]]
    BY <1>2, <1>3, <1>4, <1>6
  <2>2. IsChain(Node, k, first, next', alloc \cup {n})
    BY <2>1, ChainElsewhere
  <2> QED BY <2>2, <1>2
<1> QED BY <1>5, <1>6

(* The new node does not change where ll_gnat_impl finds the node before   *)
(* it.                                                                     *)
LEMMA FreshKeepsNode ==
  ASSUME ListInv, NEW n \in Nodes \ alloc, NEW k, IsChain(Node, k, first, next, alloc)
  PROVE  IsChain(Node, k, first, Fresh(n), alloc) /\ Nth(first, Fresh(n)) = Node
<1>1. next \in [Nodes -> Nodes \cup {NULL}] /\ alloc \subseteq Nodes
  BY DEF ListInv, TypeOK
<1>2. \A i \in 0..(k - 1) : Fresh(n)[Node[i]] = next[Node[i]]
  BY <1>1, NodeOfChain DEF Fresh
<1>3. IsChain(Node, k, first, Fresh(n), alloc)
  BY <1>2, ChainElsewhere
<1>4. Nth(first, Fresh(n)) = [i \in 0..Cardinality(Nodes) |-> IF i < k THEN Node[i] ELSE NULL]
  BY <1>1, <1>3, WalkOfChain
<1>5. Node = [i \in 0..Cardinality(Nodes) |-> IF i < k THEN Node[i] ELSE NULL]
  BY <1>1, WalkOfChain DEF Node
<1> QED BY <1>3, <1>4, <1>5

(* The three ends of ll_add_node for LL_INSERT.                            *)
InsertAdds(n, d, pos) ==
  /\ pos >= 1 /\ pos <= len
  /\ next' = InsertLinks(n, Node[pos - 1], Fresh(n))
  /\ data' = [data EXCEPT ![n] = d]
  /\ alloc' = alloc \cup {n}
  /\ first' = first /\ last' = last /\ len' = len + 1 /\ ret' = len + 1
  /\ strayed' = (strayed \/ pos = len)

InsertAddsNone(n) ==
  /\ first' = first /\ last' = last /\ len' = len
  /\ next' = Fresh(n)
  /\ ret' \in {-2, -3}
  /\ UNCHANGED <<data, alloc, strayed>>

LEMMA InsertCases ==
  ASSUME ListInv, NEW n \in Nodes, NEW d \in Data, NEW pos \in 0..MaxPos, ll_insert_node(n, d, pos),
         NEW k, IsChain(Node, k, first, next, alloc)
  PROVE  /\ ~freed /\ UNCHANGED freed /\ n \notin alloc
         /\ \/ InsertAddsNone(n)
            \/ pos - 1 \in 0..(k - 1) /\ InsertAdds(n, d, pos)
<1>1. ~freed /\ n \in Nodes \ alloc /\ UNCHANGED freed
  BY DEF ll_insert_node, new_ll_node, Added, InsertRefused
<1>2. Initialised(n) = [first |-> first, last |-> last, len |-> len]
  BY <1>1, AlreadyInitialised
<1>3. Nth(first, Fresh(n)) = Node
  BY <1>1, FreshKeepsNode
<1> DEFINE prev == ll_gnat_impl(Node, pos - 1)
<1>4. \/ len < pos /\ InsertRefused(n, -2)
      \/ len >= pos /\ prev = NULL /\ InsertRefused(n, -3)
      \/ /\ len >= pos
         /\ prev # NULL
         /\ Added(n, d, InsertLinks(n, prev, Fresh(n)), first, last)
         /\ strayed' = (strayed \/ pos = len)
  BY <1>2, <1>3 DEF ll_insert_node
<1>5. ASSUME NEW code \in {-2, -3}, InsertRefused(n, code)
      PROVE  InsertAddsNone(n)
  BY <1>2, <1>5 DEF InsertRefused, InsertAddsNone
<1>6. ASSUME len >= pos, prev # NULL,
             Added(n, d, InsertLinks(n, prev, Fresh(n)), first, last),
             strayed' = (strayed \/ pos = len)
      PROVE  pos - 1 \in 0..(k - 1) /\ InsertAdds(n, d, pos)
  <2>1. pos - 1 \in DOMAIN Node /\ prev = Node[pos - 1]
    BY <1>6 DEF ll_gnat_impl
  <2>2. pos - 1 \in 0..(k - 1)
    BY <1>6, <2>1, NodeOfChain, NodesAreFinite, ListAssumption
  <2>3. pos >= 1 /\ pos <= len
    BY <1>6, <2>2, ListAssumption DEF ListInv, TypeOK
  <2> HIDE DEF prev
  <2> QED BY <1>2, <1>6, <2>1, <2>2, <2>3 DEF Added, InsertAdds
<1> HIDE DEF prev
<1> QED BY <1>1, <1>4, <1>5, <1>6

LEMMA InsertLinksOne ==
  ASSUME ListInv, NEW n \in Nodes, n \notin alloc, NEW d, NEW pos \in Nat, InsertAdds(n, d, pos),
         NEW k, IsChain(Node, k, first, next, alloc), pos - 1 \in 0..(k - 1)
  PROVE  IsChain(InsertedAfter(Node, k, pos - 1, n), k + 1, first', next', alloc')
<1> DEFINE q == pos - 1
<1>1. /\ next' = [[next EXCEPT ![n] = NULL] EXCEPT ![n] = [next EXCEPT ![n] = NULL][Node[q]], ![Node[q]] = n]
      /\ first' = first /\ alloc' = alloc \cup {n}
  BY DEF InsertAdds, InsertLinks, Fresh
<1>2. next \in [Nodes -> Nodes \cup {NULL}]
  BY DEF ListInv, TypeOK
<1>3. \A i \in 0..(k - 1) : Node[i] # n /\ Node[i] \in Nodes
  BY NodeOfChain
<1>4. q \in 0..(k - 1)
  OBVIOUS
<1> HIDE DEF q
<1>5. next'[n] = next[Node[q]] /\ next'[Node[q]] = n
  BY <1>1, <1>2, <1>3, <1>4
<1>6. ASSUME NEW i \in 0..(k - 1), i # q PROVE next'[Node[i]] = next[Node[i]]
  <2>1. Node[i] # Node[q]
    BY <1>4, <1>6 DEF IsChain
  <2> QED BY <2>1, <1>1, <1>2, <1>3, <1>4
<1>7. IsChain(InsertedAfter(Node, k, q, n), k + 1, first, next', alloc \cup {n})
  BY <1>4, <1>5, <1>6, ChainInserted
<1> QED BY <1>1, <1>7 DEF q

LEMMA RemoveUnlinks ==
  ASSUME ListInv, NEW at \in 0..MaxPos, ll_remove_node(at), Unlinks(at),
         NEW k, IsChain(Node, k, first, next, alloc)
  PROVE  /\ at - 1 \in 1..(k - 1)
         /\ IsChain(RemovedAt(Node, k, at - 1), k - 1, first', next', alloc')
<1> DEFINE q == at - 1
<1>1. at \in 2..len /\ q \in DOMAIN Node /\ Node[q] # NULL
  BY DEF Unlinks, ll_gnat_impl
<1>2. q \in 1..(k - 1)
  BY <1>1, NodeOfChain, NodesAreFinite DEF ListInv, TypeOK
<1>3. /\ next' = [next EXCEPT ![Node[q - 1]] = next[Node[q]]]
      /\ first' = first /\ alloc' = alloc \ {Node[q]}
  <2>1. at - 2 = q - 1
    BY <1>1
  <2> QED BY <2>1 DEF ll_remove_node
<1>4. next \in [Nodes -> Nodes \cup {NULL}] /\ k \in Nat
  BY NodeOfChain DEF ListInv, TypeOK
<1> HIDE DEF q
<1>5. q - 1 \in 0..(k - 1) /\ \A i \in 0..(k - 1) : Node[i] \in Nodes
  BY <1>2, <1>4, NodeOfChain
<1>6. next'[Node[q - 1]] = next[Node[q]]
  BY <1>3, <1>4, <1>5
<1>7. ASSUME NEW i \in 0..(k - 1), i # q - 1 PROVE next'[Node[i]] = next[Node[i]]
  <2>1. Node[i] # Node[q - 1]
    BY <1>5, <1>7 DEF IsChain
  <2> QED BY <2>1, <1>3, <1>4, <1>5
<1>8. IsChain(RemovedAt(Node, k, q), k - 1, first, next', alloc \ {Node[q]})
  BY <1>2, <1>6, <1>7, ChainRemoved
<1> QED BY <1>2, <1>3, <1>8 DEF q
-----------------------------------------------------------------------------
(* Each call keeps the invariant.                                          *)

(* The fields of TypeOK that a call that adds a node sets.                 *)
LEMMA AddedType ==
  ASSUME ListInv, ~freed, NEW n \in Nodes, NEW d \in Data, data' = [data EXCEPT ![n] = d],
         NEW f \in Nodes, NEW l \in Nodes, NEW nxt, Added(n, d, nxt, f, l),
         nxt \in [Nodes -> Nodes \cup {NULL}], strayed' \in BOOLEAN
  PROVE  TypeOK' /\ len' = len + 1 /\ ret' = len + 1 /\ ~freed'
<1>1. Initialised(n).len = len /\ len \in Nat \ {0}
  BY AlreadyInitialised
<1>2. TypeOK
  BY DEF ListInv
<1>3. len' = len + 1 /\ ret' = len + 1 /\ ~freed'
  BY <1>1 DEF Added
<1>4. data' \in [Nodes -> Data]
  BY <1>2 DEF TypeOK
<1>5. next' = nxt /\ alloc' = alloc \cup {n} /\ first' = f /\ last' = l /\ freed' = freed
  BY DEF Added
<1> QED BY <1>1, <1>2, <1>3, <1>4, <1>5 DEF TypeOK

LEMMA AddedCount ==
  ASSUME ListInv, ~freed, NEW n, n \notin alloc, alloc' = alloc \cup {n}, len' = len + 1
  PROVE  Cardinality(alloc') = len'
<1>1. IsFiniteSet(alloc) /\ Cardinality(alloc) = len
  BY AlreadyInitialised DEF ListInv, Linked, LinkedAs
<1> QED BY <1>1, FS_AddElement

LEMMA PrependKeepsInv ==
  ASSUME ListInv, NEW n \in Nodes, NEW d \in Data, ll_prepend_node(n, d)
  PROVE  ListInv'
<1>1. ~freed /\ n \notin alloc /\ strayed' = strayed
  BY DEF ll_prepend_node, new_ll_node
<1>2. PICK k \in 1..len : /\ IsChain(Node, k, first, next, alloc)
                          /\ ~strayed => k = len /\ last = Node[len - 1]
  BY <1>1 DEF ListInv, Linked, LinkedAs, Node
<1>3. first \in Nodes /\ last \in Nodes /\ strayed \in BOOLEAN /\ next \in [Nodes -> Nodes \cup {NULL}]
  BY <1>1 DEF ListInv, Linked, LinkedAs, TypeOK
<1>4. Initialised(n).first = first /\ Initialised(n).last = last /\ len \in Nat \ {0}
  BY <1>1, AlreadyInitialised
<1>5. Added(n, d, [Fresh(n) EXCEPT ![n] = first], n, last)
  BY <1>4 DEF ll_prepend_node
<1>6. data' = [data EXCEPT ![n] = d] /\ last' = last /\ alloc' = alloc \cup {n}
  BY <1>5 DEF Added
<1>7. [Fresh(n) EXCEPT ![n] = first] \in [Nodes -> Nodes \cup {NULL}]
  BY <1>3 DEF Fresh
<1>8. TypeOK' /\ len' = len + 1 /\ ~freed'
  BY <1>1, <1>3, <1>5, <1>6, <1>7, AddedType
<1>9. Cardinality(alloc') = len'
  BY <1>1, <1>6, <1>8, AddedCount
<1>10. IsChain(Prepended(Node, k, n), k + 1, first', next', alloc')
  BY <1>2, PrependLinks
<1>11. ~strayed' => k + 1 = len' /\ last' = Prepended(Node, k, n)[len' - 1]
  <2>1. SUFFICES ASSUME ~strayed PROVE k + 1 = len' /\ last = Prepended(Node, k, n)[len' - 1]
    BY <1>1, <1>6
  <2>2. k = len /\ last = Node[len - 1] /\ len' - 1 = len /\ len \in 0..k /\ len # 0
    BY <2>1, <1>2, <1>4, <1>8
  <2> QED BY <2>2, <1>8 DEF Prepended
<1>12. alloc' \subseteq Nodes /\ last' \in Nodes
  BY <1>3, <1>6, <1>8 DEF TypeOK
<1>13. Linked'
  <2>1. LinkedAs(first', last', len', next', alloc', strayed')
    BY <1>9, <1>10, <1>11, <1>12, LinkedByChain
  <2> QED BY <2>1 DEF Linked
<1> QED BY <1>8, <1>13 DEF ListInv

LEMMA AppendKeepsInv ==
  ASSUME ListInv, NEW n \in Nodes, NEW d \in Data, ll_append_node(n, d)
  PROVE  ListInv'
<1>1. ~freed /\ n \notin alloc /\ strayed' = strayed
  BY DEF ll_append_node, new_ll_node
<1>2. PICK k \in 1..len : /\ IsChain(Node, k, first, next, alloc)
                          /\ ~strayed => k = len /\ last = Node[len - 1]
  BY <1>1 DEF ListInv, Linked, LinkedAs, Node
<1>3. first \in Nodes /\ last \in Nodes /\ strayed \in BOOLEAN /\ next \in [Nodes -> Nodes \cup {NULL}]
  BY <1>1 DEF ListInv, Linked, LinkedAs, TypeOK
<1>4. Initialised(n).first = first /\ Initialised(n).last = last /\ len \in Nat \ {0}
  BY <1>1, AlreadyInitialised
<1>5. Added(n, d, [Fresh(n) EXCEPT ![last] = n], first, n)
  BY <1>4 DEF ll_append_node, AppendedLast
<1>6. data' = [data EXCEPT ![n] = d] /\ last' = n /\ alloc' = alloc \cup {n}
  BY <1>5 DEF Added
<1>7. [Fresh(n) EXCEPT ![last] = n] \in [Nodes -> Nodes \cup {NULL}]
  BY <1>3 DEF Fresh
<1>8. TypeOK' /\ len' = len + 1 /\ ~freed'
  BY <1>1, <1>3, <1>5, <1>6, <1>7, AddedType
<1>9. Cardinality(alloc') = len'
  BY <1>1, <1>6, <1>8, AddedCount
<1>10. alloc' \subseteq Nodes /\ last' \in Nodes
  BY <1>6, <1>8 DEF TypeOK
<1>11. ASSUME NEW q \in 0..(k - 1), last = Node[q], ~strayed => q = k - 1
       PROVE  Linked'
  <2>1. IsChain(CutAfter(Node, q, n), q + 2, first', next', alloc')
    BY <1>2, <1>11, AppendLinks
  <2>2. ~strayed' => q + 2 = len' /\ last' = CutAfter(Node, q, n)[len' - 1]
    <3>1. SUFFICES ASSUME ~strayed PROVE q + 2 = len' /\ n = CutAfter(Node, q, n)[len' - 1]
      BY <1>1, <1>6
    <3>2. k = len /\ len' - 1 = q + 1 /\ q + 2 = len' /\ q + 1 \in 0..(q + 1) /\ ~(q + 1 <= q)
      BY <3>1, <1>2, <1>4, <1>8, <1>11
    <3> QED BY <3>2 DEF CutAfter
  <2>3. LinkedAs(first', last', len', next', alloc', strayed')
    BY <1>9, <1>10, <2>1, <2>2, LinkedByChain
  <2> QED BY <2>3 DEF Linked
<1>12. ASSUME \A q \in 0..(k - 1) : last # Node[q]
       PROVE  Linked'
  <2>1. IsChain(Node, k, first', next', alloc')
    BY <1>2, <1>12, AppendLinks
  <2>2. strayed'
    <3>1. ~strayed => last = Node[k - 1] /\ k - 1 \in 0..(k - 1)
      BY <1>2
    <3> QED BY <3>1, <1>1, <1>12
  <2>3. LinkedAs(first', last', len', next', alloc', strayed')
    BY <1>9, <1>10, <2>1, <2>2, LinkedByChain
  <2> QED BY <2>3 DEF Linked
<1>13. Linked'
  <2>1. CASE ~strayed
    <3>1. last = Node[k - 1] /\ k - 1 \in 0..(k - 1)
      BY <2>1, <1>2
    <3> QED BY <3>1, <1>11
  <2>2. CASE strayed
    <3>1. CASE \E q \in 0..(k - 1) : last = Node[q]
      BY <2>2, <3>1, <1>11
    <3> QED BY <3>1, <1>12
  <2> QED BY <2>1, <2>2
<1> QED BY <1>8, <1>13 DEF ListInv

LEMMA InsertKeepsInv ==
  ASSUME ListInv, NEW n \in Nodes, NEW d \in Data, NEW pos \in 0..MaxPos, ll_insert_node(n, d, pos)
  PROVE  ListInv'
<1>1. ~freed /\ ~freed' /\ n \notin alloc
  BY DEF ll_insert_node, new_ll_node, Added, InsertRefused
<1>2. PICK k \in 1..len : /\ IsChain(Node, k, first, next, alloc)
                          /\ ~strayed => k = len /\ last = Node[len - 1]
  BY <1>1 DEF ListInv, Linked, LinkedAs, Node
<1>3. /\ first \in Nodes /\ last \in Nodes /\ Cardinality(alloc) = len
      /\ next \in [Nodes -> Nodes \cup {NULL}] /\ data \in [Nodes -> Data] /\ alloc \subseteq Nodes
      /\ strayed \in BOOLEAN /\ len \in Nat /\ freed' = FALSE
  BY <1>1, InsertCases, <1>2 DEF ListInv, Linked, LinkedAs, TypeOK
<1>4. InsertAddsNone(n) \/ (pos - 1 \in 0..(k - 1) /\ InsertAdds(n, d, pos))
  BY <1>2, InsertCases
<1>5. CASE InsertAddsNone(n)
  <2>1. /\ first' = first /\ last' = last /\ len' = len /\ next' = Fresh(n)
        /\ alloc' = alloc /\ strayed' = strayed /\ data' = data /\ ret' \in Int
    BY <1>5 DEF InsertAddsNone
  <2>2. IsChain(Node, k, first', next', alloc')
    BY <1>1, <1>2, <2>1, FreshKeepsNode
  <2>3. ~strayed' => k = len' /\ last' = Node[len' - 1]
    BY <1>2, <2>1
  <2>4. LinkedAs(first', last', len', next', alloc', strayed')
    BY <1>3, <2>1, <2>2, <2>3, LinkedByChain
  <2>5. next' \in [Nodes -> Nodes \cup {NULL}]
    BY <1>3, <2>1 DEF Fresh
  <2>6. TypeOK'
    BY <1>3, <2>1, <2>5 DEF TypeOK
  <2> QED BY <1>1, <2>4, <2>6 DEF ListInv, Linked
<1>6. CASE pos - 1 \in 0..(k - 1) /\ InsertAdds(n, d, pos)
  <2>1. /\ first' = first /\ last' = last /\ len' = len + 1 /\ alloc' = alloc \cup {n}
        /\ strayed' = (strayed \/ pos = len) /\ data' = [data EXCEPT ![n] = d] /\ ret' = len + 1
        /\ next' = InsertLinks(n, Node[pos - 1], Fresh(n))
        /\ pos \in 1..len
    BY <1>6, ListAssumption DEF InsertAdds
  <2>2. IsChain(InsertedAfter(Node, k, pos - 1, n), k + 1, first', next', alloc')
    <3>1. pos \in Nat
      BY ListAssumption
    <3> QED BY <3>1, <1>1, <1>2, <1>6, InsertLinksOne
  <2>3. ~strayed' => k + 1 = len' /\ last' = InsertedAfter(Node, k, pos - 1, n)[len' - 1]
    <3>1. SUFFICES ASSUME ~strayed, pos # len
                   PROVE  k + 1 = len' /\ last = InsertedAfter(Node, k, pos - 1, n)[len' - 1]
      BY <2>1
    <3>2. /\ k = len /\ last = Node[len - 1] /\ len' - 1 = len /\ len \in 0..k
          /\ ~(len <= pos - 1) /\ len # (pos - 1) + 1 /\ k + 1 = len'
      BY <3>1, <1>2, <1>3, <2>1
    <3> QED BY <3>2 DEF InsertedAfter
  <2>4. Cardinality(alloc') = len'
    BY <1>1, <2>1, AddedCount
  <2>5. LinkedAs(first', last', len', next', alloc', strayed')
    BY <1>3, <2>1, <2>2, <2>3, <2>4, LinkedByChain
  <2>6. next' \in [Nodes -> Nodes \cup {NULL}]
    <3>1. Node[pos - 1] \in Nodes
      BY <1>2, <1>6, NodeOfChain
    <3> QED BY <3>1, <1>3, <2>1 DEF Fresh, InsertLinks
  <2>7. data' \in [Nodes -> Data]
    BY <1>3, <2>1
  <2>8. TypeOK'
    <3>1. alloc' \subseteq Nodes /\ strayed' \in BOOLEAN /\ len' \in Nat /\ ret' \in Int
      BY <1>3, <2>1
    <3> QED BY <3>1, <1>3, <2>1, <2>6, <2>7 DEF TypeOK
  <2> QED BY <1>1, <2>5, <2>8 DEF ListInv, Linked
<1> QED BY <1>4, <1>5, <1>6

LEMMA RemoveKeepsInv ==
  ASSUME ListInv, NEW at \in 0..MaxPos, ll_remove_node(at)
  PROVE  ListInv'
<1>1. ~freed /\ ~freed' /\ UNCHANGED <<data, first, last, freed, ret>>
  BY DEF ll_remove_node
<1>2. PICK k \in 1..len : /\ IsChain(Node, k, first, next, alloc)
                          /\ ~strayed => k = len /\ last = Node[len - 1]
  BY <1>1 DEF ListInv, Linked, LinkedAs, Node
<1>3. /\ first \in Nodes /\ last \in Nodes /\ Cardinality(alloc) = len
      /\ next \in [Nodes -> Nodes \cup {NULL}] /\ alloc \subseteq Nodes /\ IsFiniteSet(alloc)
      /\ strayed \in BOOLEAN /\ len \in Nat
  BY <1>1, AlreadyInitialised DEF ListInv, Linked, LinkedAs, TypeOK
<1>4. CASE ~Unlinks(at)
  <2>1. UNCHANGED <<next, alloc, strayed, len, first, last, data, freed, ret>>
    BY <1>1, <1>4 DEF ll_remove_node, LenAfterRemoval
  <2> QED BY <1>1, <2>1 DEF ListInv, TypeOK, Linked
<1>5. CASE Unlinks(at)
  <2>1. /\ at - 1 \in 1..(k - 1)
        /\ IsChain(RemovedAt(Node, k, at - 1), k - 1, first', next', alloc')
    BY <1>2, <1>5, RemoveUnlinks
  <2>2. /\ next' = [next EXCEPT ![Node[at - 2]] = next[Node[at - 1]]]
        /\ alloc' = alloc \ {Node[at - 1]}
        /\ strayed' = (strayed \/ at = len)
        /\ len' = len - 1
    BY <1>5 DEF ll_remove_node, LenAfterRemoval
  <2>3. Node[at - 1] \in alloc /\ Node[at - 1] \in Nodes
    BY <1>2, <2>1, NodeOfChain
  <2>4. Cardinality(alloc') = len'
    <3>1. ASSUME NEW m \in alloc PROVE Cardinality(alloc \ {m}) = Cardinality(alloc) - 1
      BY <1>3, FS_RemoveElement
    <3> QED BY <1>3, <2>2, <2>3, <3>1
  <2>5. ~strayed' => k - 1 = len' /\ last' = RemovedAt(Node, k, at - 1)[len' - 1]
    <3>1. SUFFICES ASSUME ~strayed, at # len
                   PROVE  k - 1 = len' /\ last = RemovedAt(Node, k, at - 1)[len' - 1]
      BY <2>2, <1>1
    <3>2. /\ k = len /\ last = Node[len - 1] /\ len' - 1 = k - 2 /\ (k - 2) + 1 = k - 1
          /\ k - 2 \in 0..(k - 2) /\ ~(k - 2 < at - 1)
      BY <3>1, <1>2, <1>3, <2>1, <2>2
    <3> QED BY <3>2, <2>2 DEF RemovedAt
  <2>6. alloc' \subseteq Nodes /\ last' \in Nodes
    BY <1>1, <1>3, <2>2
  <2>7. LinkedAs(first', last', len', next', alloc', strayed')
    BY <2>1, <2>4, <2>5, <2>6, LinkedByChain
  <2>8. next' \in [Nodes -> Nodes \cup {NULL}]
    BY <1>3, <2>2, <2>3
  <2>9. len' \in Nat
    <3>1. len \in 1..len
      BY <1>2, <1>3
    <3> QED BY <3>1, <1>3, <2>2
  <2>10. TypeOK'
    BY <1>1, <1>3, <2>2, <2>6, <2>8, <2>9 DEF TypeOK, ListInv
  <2> QED BY <1>1, <2>7, <2>10 DEF ListInv, Linked
<1> QED BY <1>4, <1>5

(* The nodes the walk reaches: those of the chain.                         *)
LEMMA ReachedIsChain ==
  ASSUME ListInv, NEW k, IsChain(Node, k, first, next, alloc)
  PROVE  Reached = {Node[i] : i \in 0..(k - 1)} /\ Reached \subseteq alloc
<1>1. DOMAIN Node = 0..Cardinality(Nodes) /\ k <= Cardinality(Nodes) /\ k \in Nat
  BY NodeOfChain
<1>2. \A i \in 0..(k - 1) : Node[i] \in alloc /\ Node[i] # NULL /\ i \in 0..Cardinality(Nodes)
  BY <1>1, NodeOfChain, NodesAreFinite
<1>3. \A i \in 0..Cardinality(Nodes) : Node[i] # NULL => i \in 0..(k - 1)
  BY <1>1, NodeOfChain, NodesAreFinite
<1> QED BY <1>1, <1>2, <1>3 DEF Reached

LEMMA FreeKeepsInv ==
  ASSUME ListInv, ll_free
  PROVE  ListInv'
<1>1. ~freed /\ freed' = TRUE /\ alloc' = alloc \ Reached /\ UNCHANGED <<next, data, list, ret, strayed>>
  BY DEF ll_free
<1>2. TypeOK'
  BY <1>1 DEF ListInv, TypeOK, list
<1>3. ASSUME ~strayed PROVE alloc' = {}
  <2>1. IsChain(Node, len, first, next, alloc) /\ Cardinality(alloc) = len /\ alloc \subseteq Nodes
    BY <1>1, <1>3 DEF ListInv, Linked, LinkedAs, Node, TypeOK
  <2>2. alloc = {Node[i] : i \in 0..(len - 1)}
    BY <2>1, ChainLength
  <2>3. Reached = {Node[i] : i \in 0..(len - 1)}
    BY <2>1, ReachedIsChain
  <2> QED BY <1>1, <2>2, <2>3
<1> QED BY <1>1, <1>2, <1>3 DEF ListInv

LEMMA NextListInv == ListInv /\ [Next]_vars => ListInv'
<1> SUFFICES ASSUME ListInv, [Next]_vars PROVE ListInv'
  OBVIOUS
<1>1. CASE AddFails
  BY <1>1 DEF AddFails, ListInv, TypeOK, Linked, list
<1>2. ASSUME NEW n \in Nodes, NEW d \in Data, ll_prepend_node(n, d) PROVE ListInv'
  BY <1>2, PrependKeepsInv
<1>3. ASSUME NEW n \in Nodes, NEW d \in Data, ll_append_node(n, d) PROVE ListInv'
  BY <1>3, AppendKeepsInv
<1>4. ASSUME NEW n \in Nodes, NEW d \in Data, NEW pos \in 0..MaxPos, ll_insert_node(n, d, pos)
      PROVE  ListInv'
  BY <1>4, InsertKeepsInv
<1>5. ASSUME NEW at \in 0..MaxPos, ll_remove_node(at) PROVE ListInv'
  BY <1>5, RemoveKeepsInv
<1>6. CASE ll_free
  BY <1>6, FreeKeepsInv
<1>7. CASE UNCHANGED vars
  BY <1>7 DEF ListInv, TypeOK, Linked, vars, list
<1> QED BY <1>1, <1>2, <1>3, <1>4, <1>5, <1>6, <1>7 DEF Next

-----------------------------------------------------------------------------
(* A list without nodes, and what its first node leaves.                   *)
EmptyInv ==
  TypeOK /\ first = NULL /\ last = NULL /\ len = 0 /\ alloc = {}

SpoiltInv ==
  /\ TypeOK
  /\ Spoilt
  /\ last = first
  /\ Cardinality(alloc) = len - 1
  /\ first \in alloc <=> ret > 0

AnyInv == ListInv \/ EmptyInv \/ SpoiltInv

LEMMA ListIsNotSpoilt == ListInv => ~Spoilt
<1> SUFFICES ASSUME ListInv, ~freed PROVE first \in alloc /\ next[first] # first
  BY DEF Spoilt
<1>1. PICK k \in 1..len : IsChain(Node, k, first, next, alloc)
  BY DEF ListInv, Linked, LinkedAs, Node
<1>2. k \in Nat \ {0} /\ first = Node[0] /\ first \in alloc /\ first # NULL
  BY <1>1, NodeOfChain, ListAssumption DEF IsChain, ListInv, Linked, LinkedAs
<1>3. CASE k = 1
  BY <1>1, <1>2, <1>3 DEF IsChain
<1>4. CASE k # 1
  <2>1. 0 \in 0..(k - 2) /\ 0 \in 0..(k - 1) /\ 1 \in 0..(k - 1)
    BY <1>2, <1>4
  <2>2. next[Node[0]] = Node[1] /\ Node[1] # Node[0]
    BY <1>1, <2>1 DEF IsChain
  <2> QED BY <1>2, <2>2
<1> QED BY <1>2, <1>3, <1>4

(* The walk of an empty list.                                              *)
LEMMA NodeOfEmpty ==
  ASSUME EmptyInv
  PROVE  Node = [i \in 0..Cardinality(Nodes) |-> NULL] /\ Reached = {} /\ ~Spoilt
<1> DEFINE e == [i \in 0..Cardinality(Nodes) |-> NULL]
<1>1. \A i \in 0..Cardinality(Nodes) : i # 0 => i - 1 \in 0..Cardinality(Nodes)
  BY NodesAreFinite
<1>2. WalksFrom(e, NULL, next)
  BY <1>1 DEF WalksFrom
<1>3. Node = e
  BY <1>2, NthIsTheWalk DEF Node, EmptyInv
<1> QED BY <1>3 DEF Reached, Spoilt, EmptyInv

LEMMA InitAnyInv == Init => AnyInv
<1> SUFFICES ASSUME NEW n \in Nodes \cup {NULL}, NEW d \in Data, ll_new(n, d) PROVE AnyInv
  BY DEF Init
<1>1. CASE n \in Nodes
  BY <1>1, InitListInv DEF AnyInv
<1>2. CASE n = NULL
  <2>1. /\ next = [m \in Nodes |-> NULL] /\ data = [m \in Nodes |-> d] /\ alloc = {}
        /\ first = NULL /\ last = NULL /\ len = 0 /\ freed = FALSE /\ ret = 0 /\ strayed = FALSE
    BY <1>2 DEF ll_new
  <2>2. next \in [Nodes -> Nodes \cup {NULL}] /\ data \in [Nodes -> Data]
    BY <2>1
  <2>3. TypeOK
    <3>1. freed \in BOOLEAN /\ strayed \in BOOLEAN
      BY <1>2 DEF ll_new
    <3> QED BY <2>1, <2>2, <3>1 DEF TypeOK
  <2> QED BY <2>1, <2>3 DEF AnyInv, EmptyInv
<1> QED BY <1>1, <1>2

(* What an addition to an empty list makes of it.                          *)
LEMMA AdditionSpoils ==
  ASSUME EmptyInv, ~freed, NEW n \in Nodes, NEW d \in Data, NEW pos \in 0..MaxPos,
         ll_prepend_node(n, d) \/ ll_append_node(n, d) \/ ll_insert_node(n, d, pos)
  PROVE  SpoiltInv'
<1> DEFINE new == [next EXCEPT ![n] = NULL]
           linked == [new EXCEPT ![n] = n]
<1>0. /\ next \in [Nodes -> Nodes \cup {NULL}] /\ data \in [Nodes -> Data]
      /\ len = 0 /\ alloc = {} /\ strayed \in BOOLEAN /\ freed \in BOOLEAN /\ n # NULL
  BY ListAssumption DEF EmptyInv, TypeOK
<1>1. Initialised(n) = [first |-> n, last |-> n, len |-> 1] /\ Fresh(n) = new
  BY <1>0 DEF Initialised, Fresh
<1>2. /\ new \in [Nodes -> Nodes \cup {NULL}] /\ new[n] = NULL
      /\ linked \in [Nodes -> Nodes \cup {NULL}] /\ linked[n] = n
      /\ [data EXCEPT ![n] = d] \in [Nodes -> Data]
  BY <1>0
<1> HIDE DEF new, linked
<1>3. ASSUME Added(n, d, linked, n, n), strayed' \in BOOLEAN
      PROVE  SpoiltInv'
  <2>1. /\ next' = linked /\ data' = [data EXCEPT ![n] = d] /\ alloc' = {n} /\ first' = n
        /\ last' = n /\ len' = 2 /\ ret' = 2 /\ freed' = freed
    BY <1>0, <1>1, <1>3 DEF Added
  <2>2. TypeOK'
    BY <1>0, <1>2, <1>3, <2>1 DEF TypeOK
  <2>3. Cardinality(alloc') = 1
    BY <2>1, FS_Singleton
  <2>4. Spoilt'
    BY <1>0, <1>2, <2>1 DEF Spoilt
  <2> QED BY <2>1, <2>2, <2>3, <2>4 DEF SpoiltInv
<1>4. ASSUME NEW code \in {-2, -3}, InsertRefused(n, code)
      PROVE  SpoiltInv'
  <2>1. /\ next' = new /\ data' = data /\ alloc' = {} /\ first' = n /\ last' = n /\ len' = 1
        /\ ret' = code /\ freed' = freed /\ strayed' = strayed
    BY <1>0, <1>1, <1>4 DEF InsertRefused
  <2>2. TypeOK'
    BY <1>0, <1>2, <2>1 DEF TypeOK
  <2>3. Cardinality(alloc') = 0
    BY <2>1, FS_EmptySet
  <2>4. Spoilt'
    BY <1>0, <2>1 DEF Spoilt
  <2> QED BY <2>1, <2>2, <2>3, <2>4 DEF SpoiltInv
<1>5. CASE ll_prepend_node(n, d)
  <2>1. Added(n, d, [Fresh(n) EXCEPT ![n] = n], n, n) /\ strayed' = strayed
    BY <1>1, <1>5 DEF ll_prepend_node
  <2> QED BY <1>0, <1>1, <1>3, <2>1 DEF linked
<1>6. CASE ll_append_node(n, d)
  <2>1. Added(n, d, [Fresh(n) EXCEPT ![n] = n], n, n) /\ strayed' = strayed
    BY <1>1, <1>6 DEF ll_append_node, AppendedLast
  <2> QED BY <1>0, <1>1, <1>3, <2>1 DEF linked
<1>7. CASE ll_insert_node(n, d, pos)
  <2> DEFINE walk == Nth(n, Fresh(n))
             prev == ll_gnat_impl(walk, pos - 1)
  <2>1. \/ \E code \in {-2, -3} : InsertRefused(n, code)
        \/ /\ pos <= 1 /\ prev # NULL
           /\ Added(n, d, InsertLinks(n, prev, Fresh(n)), n, n)
           /\ strayed' = (strayed \/ pos = len)
    BY <1>1, <1>7, ListAssumption DEF ll_insert_node
  <2>2. CASE pos <= 1 /\ prev # NULL
    <3>1. DOMAIN walk = 0..Cardinality(Nodes) /\ walk[0] = n
      <4> DEFINE p == [i \in 0..Cardinality(Nodes) |-> IF i = 0 THEN n ELSE NULL]
      <4>1. \A i \in 0..Cardinality(Nodes) : i # 0 => i - 1 \in 0..Cardinality(Nodes)
        BY NodesAreFinite
      <4>2. WalksFrom(p, n, Fresh(n))
        BY <1>0, <1>1, <1>2, <4>1, NodesAreFinite DEF WalksFrom
      <4>3. walk = p /\ 0 \in 0..Cardinality(Nodes)
        BY <4>2, NthIsTheWalk, NodesAreFinite
      <4> HIDE DEF walk
      <4> QED BY <4>3
    <3> HIDE DEF walk
    <3>2. pos = 1
      BY <2>2, <3>1, ListAssumption, NodesAreFinite DEF ll_gnat_impl
    <3>3. prev = n
      BY <2>2, <3>1, <3>2 DEF ll_gnat_impl
    <3>4. InsertLinks(n, prev, Fresh(n)) = linked
      BY <1>1, <1>2, <3>3 DEF InsertLinks, linked
    <3> QED BY <1>0, <1>3, <1>4, <2>1, <3>4
  <2>3. CASE ~(pos <= 1 /\ prev # NULL)
    BY <1>4, <2>1, <2>3
  <2> QED BY <2>2, <2>3
<1> QED BY <1>5, <1>6, <1>7

(* The other calls leave an empty list as it is.                           *)
LEMMA EmptyStep ==
  ASSUME EmptyInv, [Next]_vars
  PROVE  \/ SpoiltInv'
         \/ /\ EmptyInv' /\ (ret' = ret \/ ret' < 0)
<1> USE DEF EmptyInv, TypeOK
<1>1. CASE AddFails
  BY <1>1 DEF AddFails, list
<1>2. ASSUME NEW at \in 0..MaxPos, ll_remove_node(at) PROVE EmptyInv' /\ ret' = ret
  <2>1. ~Unlinks(at)
    BY DEF Unlinks
  <2> QED BY <1>2, <2>1 DEF ll_remove_node, LenAfterRemoval
<1>3. CASE ll_free
  BY <1>3 DEF ll_free, list
<1>4. CASE UNCHANGED vars
  BY <1>4 DEF vars, list
<1>5. ASSUME NEW n \in Nodes, NEW d \in Data, NEW pos \in 0..MaxPos,
             ll_prepend_node(n, d) \/ ll_append_node(n, d) \/ ll_insert_node(n, d, pos)
      PROVE  SpoiltInv'
  <2>1. ~freed
    BY <1>5 DEF ll_prepend_node, ll_append_node, ll_insert_node
  <2> HIDE DEF EmptyInv, TypeOK
  <2> QED BY <1>5, <2>1, AdditionSpoils
<1>6. 0 \in 0..MaxPos
  BY ListAssumption
<1> HIDE DEF EmptyInv, TypeOK
<1> QED BY <1>1, <1>2, <1>3, <1>4, <1>5, <1>6 DEF Next

LEMMA NextAnyInv == AnyInv /\ [Next]_vars => AnyInv'
<1> SUFFICES ASSUME AnyInv, [Next]_vars PROVE AnyInv'
  OBVIOUS
<1>1. CASE ListInv
  BY <1>1, NextListInv DEF AnyInv
<1>2. CASE EmptyInv
  BY <1>2, EmptyStep DEF AnyInv
<1>3. CASE SpoiltInv
  <2>1. UNCHANGED vars
    BY <1>3 DEF SpoiltInv, Next
  <2> QED BY <1>3, <2>1 DEF AnyInv, SpoiltInv, Spoilt, TypeOK, vars, list
<1> QED BY <1>1, <1>2, <1>3 DEF AnyInv

LEMMA ListInvariant == Spec => []AnyInv
BY InitAnyInv, NextAnyInv, PTL DEF Spec
-----------------------------------------------------------------------------
LEMMA InvCountsNodes == ListInv => LenCountsNodes
<1> SUFFICES ASSUME ListInv, ~freed PROVE LenCountsNodes
  BY DEF LenCountsNodes
<1>0. ~Spoilt
  BY ListIsNotSpoilt
<1>1. PICK k \in 1..len : IsChain(Node, k, first, next, alloc)
  BY DEF ListInv, Linked, LinkedAs, Node
<1>2. Cardinality(alloc) = len /\ len \in Nat
  BY DEF ListInv, Linked, LinkedAs, TypeOK
<1>3. Reached \subseteq alloc
  BY <1>1, ReachedIsChain
<1>4. len \in DOMAIN Node => Node[len] = NULL
  <2>1. k \in Nat /\ k <= len /\ DOMAIN Node = 0..Cardinality(Nodes)
    BY <1>1, <1>2, NodeOfChain
  <2> QED BY <2>1, <1>1, NodeOfChain
<1> QED BY <1>0, <1>2, <1>3, <1>4 DEF LenCountsNodes

LEMMA InvKeepsMemory == ListInv => MemoryInOrder
<1> SUFFICES ASSUME ListInv, ~strayed PROVE MemoryInOrder
  BY DEF MemoryInOrder
<1>1. CASE freed
  <2>1. ~Spoilt
    BY <1>1 DEF Spoilt
  <2> QED BY <1>1, <2>1 DEF ListInv, MemoryInOrder
<1>2. CASE ~freed
  <2>1. /\ IsChain(Node, len, first, next, alloc) /\ Cardinality(alloc) = len /\ alloc \subseteq Nodes
        /\ last = Node[len - 1] /\ len # 0 /\ ~Spoilt
    BY <1>2, ListIsNotSpoilt DEF ListInv, Linked, LinkedAs, Node, TypeOK
  <2>2. Reached = alloc
    BY <2>1, ChainLength, ReachedIsChain
  <2> QED BY <1>2, <2>1, <2>2 DEF MemoryInOrder, End
<1> QED BY <1>1, <1>2

LEMMA InvFindsNode == ListInv => GnatFindsNode
<1> SUFFICES ASSUME ListInv, ~freed, NEW at \in 0..MaxPos
    PROVE /\ at < len => ll_gnat(at) \in IF strayed THEN alloc \cup {NULL} ELSE alloc
          /\ at = len /\ ~strayed => ll_gnat(at) = End
          /\ at > len => ll_gnat(at) = NULL
  BY DEF GnatFindsNode
<1>1. PICK k \in 1..len : /\ IsChain(Node, k, first, next, alloc)
                          /\ ~strayed => k = len /\ last = Node[len - 1]
  BY DEF ListInv, Linked, LinkedAs, Node
<1>2. first # NULL /\ Cardinality(alloc) = len /\ len \in Nat /\ alloc \subseteq Nodes /\ at \in Nat
  BY ListAssumption DEF ListInv, Linked, LinkedAs, TypeOK
<1>3. len <= Cardinality(Nodes) /\ DOMAIN Node = 0..Cardinality(Nodes)
  BY <1>1, <1>2, ChainLength, NodeOfChain
<1>4. ASSUME at < len
      PROVE  ll_gnat(at) \in IF strayed THEN alloc \cup {NULL} ELSE alloc
  <2>1. at \in DOMAIN Node /\ at # len
    BY <1>2, <1>3, <1>4, NodesAreFinite
  <2>2. ll_gnat(at) = Node[at]
    BY <1>2, <1>4, <2>1 DEF ll_gnat, ll_gnat_impl
  <2>3. CASE at \in 0..(k - 1)
    BY <2>2, <2>3, <1>1, NodeOfChain
  <2>4. CASE at >= k
    <3>1. Node[at] = NULL /\ strayed
      BY <2>1, <2>4, <1>1, <1>2, <1>3, <1>4, NodeOfChain
    <3> QED BY <2>2, <3>1
  <2> QED BY <2>3, <2>4, <1>2
<1>5. at = len => ll_gnat(at) = last
  BY <1>2 DEF ll_gnat
<1>6. at > len => ll_gnat(at) = NULL
  BY <1>2 DEF ll_gnat
<1>7. ~strayed => last = End
  BY <1>1 DEF End
<1> QED BY <1>4, <1>5, <1>6, <1>7

LEMMA AnyMeans ==
  ASSUME AnyInv
  PROVE  LenCountsNodes /\ MemoryInOrder /\ GnatFindsNode
<1>1. CASE ListInv
  BY <1>1, InvCountsNodes, InvKeepsMemory, InvFindsNode
<1>2. CASE EmptyInv
  <2>1. /\ Node = [i \in 0..Cardinality(Nodes) |-> NULL] /\ Reached = {} /\ ~Spoilt
        /\ first = NULL /\ last = NULL /\ len = 0 /\ alloc = {} /\ Cardinality(alloc) = 0
    BY <1>2, NodeOfEmpty, FS_EmptySet DEF EmptyInv
  <2>2. LenCountsNodes
    BY <2>1 DEF LenCountsNodes
  <2>3. MemoryInOrder
    BY <2>1 DEF MemoryInOrder, End
  <2>4. ASSUME NEW at \in 0..MaxPos PROVE ll_gnat(at) = NULL /\ ~(at < len) /\ End = NULL
    BY <2>1, ListAssumption DEF ll_gnat, End
  <2> QED BY <2>2, <2>3, <2>4 DEF GnatFindsNode
<1>3. CASE SpoiltInv
  <2>1. /\ Spoilt /\ ~freed /\ last = first
        /\ Cardinality(alloc) = len - 1 /\ (first \in alloc <=> ret > 0)
    BY <1>3 DEF SpoiltInv, Spoilt
  <2> QED BY <2>1 DEF LenCountsNodes, MemoryInOrder, GnatFindsNode
<1> QED BY <1>1, <1>2, <1>3 DEF AnyInv

(* Every field stays of its type (linked_list.c:63-180).                   *)
THEOREM ListIsTyped == Spec => []TypeOK
<1>1. AnyInv => TypeOK
  BY DEF AnyInv, ListInv, EmptyInv, SpoiltInv
<1> QED BY <1>1, ListInvariant, PTL

(* Whatever is called, also after last was left behind the list: len is    *)
(* the number of allocated nodes, and a walk of the list meets only        *)
(* allocated nodes and ends within len steps.                              *)
THEOREM LenIsTheCount == Spec => []LenCountsNodes
BY ListInvariant, AnyMeans, PTL

(* Until a call at the list's end is made, the chain takes all allocated   *)
(* nodes and last is its end; ll_free then leaves none allocated.          *)
THEOREM NoNodeIsLost == Spec => []MemoryInOrder
BY ListInvariant, AnyMeans, PTL

(* Which places ll_gnat has a node for, and that it is never a freed one   *)
(* below len.                                                              *)
THEOREM GnatIsSafe == Spec => []GnatFindsNode
BY ListInvariant, AnyMeans, PTL
-----------------------------------------------------------------------------
(* The refinement of Chain.                                                *)

(* SequenceTheorems, with the arithmetic of a prefix and a suffix done.    *)
LEMMA Prefix ==
  ASSUME NEW D, NEW s \in Seq(D), NEW p \in 0..Len(s)
  PROVE  /\ SubSeq(s, 1, p) \in Seq(D) /\ Len(SubSeq(s, 1, p)) = p
         /\ \A i \in 1..p : SubSeq(s, 1, p)[i] = s[i]
<1> DEFINE a == SubSeq(s, 1, p)
<1>1. Len(s) \in Nat /\ \A i \in 1..p : s[i] \in D
  BY LenProperties, ElementOfSeq
<1>2. /\ a \in Seq(D) /\ Len(a) = IF 1 <= p THEN p - 1 + 1 ELSE 0
      /\ \A i \in 1..(p - 1 + 1) : a[i] = s[1 + i - 1]
  BY <1>1, SubSeqProperties
<1> HIDE DEF a
<1>3. ASSUME NEW i \in 1..p PROVE a[i] = s[i]
  <2>1. i \in 1..(p - 1 + 1) /\ 1 + i - 1 = i
    BY <1>1
  <2> QED BY <1>2, <2>1
<1>4. Len(a) = p
  BY <1>1, <1>2
<1> QED BY <1>2, <1>3, <1>4 DEF a

LEMMA Suffix ==
  ASSUME NEW D, NEW s \in Seq(D), NEW p \in 0..Len(s)
  PROVE  /\ SubSeq(s, p + 1, Len(s)) \in Seq(D) /\ Len(SubSeq(s, p + 1, Len(s))) = Len(s) - p
         /\ \A i \in 1..(Len(s) - p) : SubSeq(s, p + 1, Len(s))[i] = s[p + i]
<1> DEFINE n == Len(s)
           b == SubSeq(s, p + 1, n)
<1>1. n \in Nat /\ \A i \in (p + 1)..n : s[i] \in D
  BY LenProperties, ElementOfSeq
<1> HIDE DEF n
<1>2. /\ b \in Seq(D) /\ Len(b) = IF p + 1 <= n THEN n - (p + 1) + 1 ELSE 0
      /\ \A i \in 1..(n - (p + 1) + 1) : b[i] = s[p + 1 + i - 1]
  BY <1>1, SubSeqProperties
<1> HIDE DEF b
<1>p. p \in 0..n
  BY DEF n
<1>3. ASSUME NEW i \in 1..(n - p) PROVE b[i] = s[p + i]
  <2>1. i \in 1..(n - (p + 1) + 1) /\ p + 1 + i - 1 = p + i
    BY <1>1, <1>p
  <2> QED BY <1>2, <2>1
<1>4. Len(b) = n - p
  BY <1>1, <1>2, <1>p
<1> QED BY <1>2, <1>3, <1>4 DEF b, n

(* u is s followed by t.                                                   *)
IsJoin(u, s, t, D) ==
  /\ u \in Seq(D) /\ Len(u) = Len(s) + Len(t)
  /\ \A i \in 1..Len(s) : u[i] = s[i]
  /\ \A i \in 1..Len(t) : u[Len(s) + i] = t[i]

LEMMA Joined ==
  ASSUME NEW D, NEW s \in Seq(D), NEW t \in Seq(D)
  PROVE  IsJoin(s \o t, s, t, D)
<1> DEFINE m == Len(s)
           n == Len(t)
           st == s \o t
<1>1. m \in Nat /\ n \in Nat
  BY LenProperties
<1>2. /\ st \in Seq(D) /\ Len(st) = m + n
      /\ \A i \in 1..(m + n) : st[i] = IF i <= m THEN s[i] ELSE t[i - m]
  BY ConcatProperties
<1> HIDE DEF m, n, st
<1>3. ASSUME NEW i \in 1..m PROVE st[i] = s[i]
  <2>1. i \in 1..(m + n) /\ i <= m
    BY <1>1
  <2> QED BY <1>2, <2>1
<1>4. ASSUME NEW i \in 1..n PROVE st[m + i] = t[i]
  <2>1. m + i \in 1..(m + n) /\ ~(m + i <= m) /\ (m + i) - m = i
    BY <1>1
  <2> QED BY <1>2, <2>1
<1> QED BY <1>2, <1>3, <1>4 DEF m, n, st, IsJoin

LEMMA InsertedSequence ==
  ASSUME NEW D, NEW s \in Seq(D), NEW d \in D, NEW p \in 0..Len(s),
         NEW t \in Seq(D), Len(t) = Len(s) + 1,
         \A i \in 1..p : t[i] = s[i],
         t[p + 1] = d,
         \A i \in 1..(Len(s) - p) : t[p + 1 + i] = s[p + i]
  PROVE  t = ListChain!InsertAt(s, p + 1, d)
<1> DEFINE a  == SubSeq(s, 1, p)
           b  == SubSeq(s, p + 1, Len(s))
           ad == a \o <<d>>
           n  == Len(s)
<1>1. n \in Nat
  BY LenProperties
<1>2. a \in Seq(D) /\ Len(a) = p /\ \A i \in 1..p : a[i] = s[i]
  BY Prefix
<1>3. b \in Seq(D) /\ Len(b) = n - p /\ \A i \in 1..(n - p) : b[i] = s[p + i]
  BY Suffix
<1>4. ListChain!InsertAt(s, p + 1, d) = ad \o b
  <2>1. (p + 1) - 1 = p
    BY <1>1
  <2> QED BY <2>1 DEF ListChain!InsertAt
<1>5. <<d>> \in Seq(D) /\ Len(<<d>>) = 1 /\ <<d>>[1] = d
  OBVIOUS
<1>n. p \in 0..n /\ Len(t) = n + 1 /\ \A i \in 1..(n - p) : t[p + 1 + i] = s[p + i]
  OBVIOUS
<1> HIDE DEF a, b, n
<1>6. /\ ad \in Seq(D) /\ Len(ad) = p + 1
      /\ \A i \in 1..p : ad[i] = s[i]
      /\ ad[p + 1] = d
  <2>1. IsJoin(ad, a, <<d>>, D)
    BY <1>2, <1>5, Joined
  <2> HIDE DEF ad
  <2> QED BY <2>1, <1>2, <1>5 DEF IsJoin
<1> HIDE DEF ad
<1>7. IsJoin(ad \o b, ad, b, D)
  BY <1>3, <1>6, Joined
<1> DEFINE adb == ad \o b
<1>8. /\ adb \in Seq(D) /\ Len(adb) = n + 1
      /\ \A i \in 1..(p + 1) : adb[i] = ad[i]
      /\ \A i \in 1..(n - p) : adb[p + 1 + i] = b[i]
  <2> HIDE DEF adb
  <2>1. IsJoin(adb, ad, b, D)
    BY <1>7 DEF adb
  <2>2. (p + 1) + (n - p) = n + 1
    BY <1>1, <1>n
  <2> QED BY <2>1, <2>2, <1>3, <1>6 DEF IsJoin
<1> HIDE DEF adb
<1>9. ASSUME NEW i \in 1..(n + 1) PROVE t[i] = adb[i]
  <2>1. CASE i \in 1..p
    BY <2>1, <1>1, <1>n, <1>6, <1>8
  <2>2. CASE i = p + 1
    BY <2>2, <1>1, <1>n, <1>6, <1>8
  <2>3. CASE i > p + 1
    <3>1. PICK j \in 1..(n - p) : i = p + 1 + j
      <4>1. i - (p + 1) \in 1..(n - p) /\ i = p + 1 + (i - (p + 1))
        BY <2>3, <1>1, <1>n
      <4> QED BY <4>1
    <3> QED BY <3>1, <1>3, <1>n, <1>8
  <2> QED BY <2>1, <2>2, <2>3, <1>1, <1>n
<1>10. t = adb
  BY <1>n, <1>8, <1>9, SeqEqual
<1> QED BY <1>4, <1>10 DEF adb

LEMMA RemovedSequence ==
  ASSUME NEW D, NEW s \in Seq(D), NEW p \in 0..(Len(s) - 1),
         NEW t \in Seq(D), Len(t) = Len(s) - 1,
         \A i \in 1..p : t[i] = s[i],
         \A i \in 1..(Len(s) - (p + 1)) : t[p + i] = s[p + 1 + i]
  PROVE  t = ListChain!RemoveAt(s, p + 1)
<1> DEFINE a == SubSeq(s, 1, p)
           b == SubSeq(s, (p + 1) + 1, Len(s))
           n == Len(s)
<1>1. n \in Nat /\ p \in 0..n /\ p + 1 \in 0..n
  BY LenProperties
<1>2. a \in Seq(D) /\ Len(a) = p /\ \A i \in 1..p : a[i] = s[i]
  BY <1>1, Prefix
<1>3. b \in Seq(D) /\ Len(b) = n - (p + 1) /\ \A i \in 1..(n - (p + 1)) : b[i] = s[p + 1 + i]
  BY <1>1, Suffix
<1>4. ListChain!RemoveAt(s, p + 1) = a \o b
  <2>1. (p + 1) - 1 = p
    BY <1>1
  <2> QED BY <2>1 DEF ListChain!RemoveAt
<1>n. Len(t) = n - 1 /\ \A i \in 1..(n - (p + 1)) : t[p + i] = s[p + 1 + i]
  OBVIOUS
<1> HIDE DEF a, b, n
<1> DEFINE ab == a \o b
<1>5. /\ ab \in Seq(D) /\ Len(ab) = n - 1
      /\ \A i \in 1..p : ab[i] = s[i]
      /\ \A i \in 1..(n - (p + 1)) : ab[p + i] = b[i]
  <2>1. p + (n - (p + 1)) = n - 1
    BY <1>1
  <2>2. IsJoin(ab, a, b, D)
    BY <1>2, <1>3, Joined
  <2> HIDE DEF ab
  <2> QED BY <2>1, <2>2, <1>2, <1>3 DEF IsJoin
<1> HIDE DEF ab
<1>6. ASSUME NEW i \in 1..(n - 1) PROVE t[i] = ab[i]
  <2>1. CASE i \in 1..p
    BY <2>1, <1>5
  <2>2. CASE i > p
    <3>1. PICK j \in 1..(n - (p + 1)) : i = p + j
      <4>1. i - p \in 1..(n - (p + 1)) /\ i = p + (i - p)
        BY <2>2, <1>1
      <4> QED BY <4>1
    <3> QED BY <3>1, <1>3, <1>n, <1>5
  <2> QED BY <2>1, <2>2, <1>1
<1>7. t = ab
  BY <1>n, <1>5, <1>6, SeqEqual
<1> QED BY <1>4, <1>7 DEF ab
-----------------------------------------------------------------------------
Items == [i \in 1..len |-> data[Node[i - 1]]]

LEMMA DataAlongChain ==
  ASSUME NEW w, NEW k, NEW f, NEW nxt, NEW A, A \subseteq Nodes, IsChain(w, k, f, nxt, A),
         NEW dat \in [Nodes -> Data], NEW s, s = [i \in 1..k |-> dat[w[i - 1]]]
  PROVE  /\ k \in Nat \ {0}
         /\ s \in Seq(Data) /\ Len(s) = k
         /\ \A i \in 1..k : s[i] = dat[w[i - 1]]
<1>1. k \in Nat \ {0}
  BY DEF IsChain
<1>2. ASSUME NEW i \in 1..k PROVE dat[w[i - 1]] \in Data
  <2>1. i - 1 \in 0..(k - 1)
    BY <1>1
  <2> QED BY <2>1 DEF IsChain
<1>3. s \in [1..k -> Data]
  BY <1>2
<1> QED BY <1>1, <1>3

LEMMA ItemsType ==
  ASSUME ListInv, ~freed, ~strayed
  PROVE  /\ IsChain(Node, len, first, next, alloc)
         /\ len \in Nat \ {0}
         /\ Items \in Seq(Data) /\ Len(Items) = len
         /\ \A i \in 1..len : Items[i] = data[Node[i - 1]]
<1>1. /\ IsChain(Node, len, first, next, alloc) /\ alloc \subseteq Nodes
      /\ data \in [Nodes -> Data]
  BY DEF ListInv, Linked, LinkedAs, Node, TypeOK
<1> QED BY <1>1, DataAlongChain DEF Items

LEMMA ItemsTypeNext ==
  ASSUME ListInv', ~freed', ~strayed'
  PROVE  /\ len' \in Nat \ {0}
         /\ Items' \in Seq(Data) /\ Len(Items') = len'
         /\ \A i \in 1..len' : Items'[i] = data'[Node'[i - 1]]
<1>1. /\ IsChain(Node', len', first', next', alloc') /\ alloc' \subseteq Nodes
      /\ data' \in [Nodes -> Data]
  BY DEF ListInv, Linked, LinkedAs, Node, TypeOK
<1> QED BY <1>1, DataAlongChain DEF Items

(* The walk after a call that makes c the chain.                           *)
LEMMA NodeNext ==
  ASSUME ListInv', NEW c, NEW k, IsChain(c, k, first', next', alloc')
  PROVE  \A i \in 0..(k - 1) : Node'[i] = c[i]
<1>1. alloc' \subseteq Nodes
  BY DEF ListInv, TypeOK
<1>2. /\ Node' = [i \in 0..Cardinality(Nodes) |-> IF i < k THEN c[i] ELSE NULL]
      /\ k <= Cardinality(Nodes)
  BY <1>1, WalkOfChain DEF Node
<1>3. k \in Nat
  BY DEF IsChain
<1>4. ASSUME NEW i \in 0..(k - 1) PROVE i \in 0..Cardinality(Nodes) /\ i < k
  BY <1>2, <1>3, NodesAreFinite
<1> QED BY <1>2, <1>4

(* A call that puts n, with d, behind the first p nodes.                   *)
LEMMA InsertRefines ==
  ASSUME ListInv, ListInv', ~freed, ~freed', ~strayed, ~strayed',
         NEW n \in Nodes, n \notin alloc, NEW d \in Data, data' = [data EXCEPT ![n] = d],
         len' = len + 1, ret' = len + 1,
         NEW p \in 0..len, NEW c, IsChain(c, len + 1, first', next', alloc'),
         \A i \in 0..(p - 1) : c[i] = Node[i],
         c[p] = n,
         \A i \in 0..(len - p - 1) : c[p + 1 + i] = Node[p + i]
  PROVE  Items' = ListChain!InsertAt(Items, p + 1, d) /\ ret' = Len(Items')
<1>1. /\ IsChain(Node, len, first, next, alloc) /\ len \in Nat \ {0}
      /\ Items \in Seq(Data) /\ Len(Items) = len
      /\ \A i \in 1..len : Items[i] = data[Node[i - 1]]
  BY ItemsType
<1>2. /\ Items' \in Seq(Data) /\ Len(Items') = len + 1
      /\ \A i \in 1..(len + 1) : Items'[i] = data'[Node'[i - 1]]
  BY ItemsTypeNext
<1>3. \A i \in 0..((len + 1) - 1) : Node'[i] = c[i]
  BY NodeNext
<1>4. data \in [Nodes -> Data] /\ data'[n] = d
  BY DEF ListInv, TypeOK
<1>5. ASSUME NEW i \in 0..(len - 1) PROVE data'[Node[i]] = data[Node[i]]
  <2>1. Node[i] \in alloc /\ Node[i] \in Nodes
    BY <1>1, <1>5, NodeOfChain
  <2> QED BY <1>4, <2>1
<1> DEFINE t == Items'
           w == Node'
           dat == data'
<1>e. /\ \A i \in 1..(len + 1) : t[i] = dat[w[i - 1]]
      /\ \A i \in 0..((len + 1) - 1) : w[i] = c[i]
      /\ \A i \in 0..(len - 1) : dat[Node[i]] = data[Node[i]]
      /\ dat[n] = d
  BY <1>2, <1>3, <1>4, <1>5
<1> HIDE DEF t, w, dat
<1>6. ASSUME NEW i \in 1..p PROVE t[i] = Items[i]
  <2>1. i - 1 \in 0..(p - 1) /\ i - 1 \in 0..((len + 1) - 1) /\ i - 1 \in 0..(len - 1) /\ i \in 1..len /\ i \in 1..(len + 1)
    BY <1>1
  <2> QED BY <2>1, <1>1, <1>e
<1>7. t[p + 1] = d
  <2>1. (p + 1) - 1 = p /\ p \in 0..((len + 1) - 1) /\ p + 1 \in 1..(len + 1)
    BY <1>1
  <2> QED BY <2>1, <1>e
<1>8. ASSUME NEW i \in 1..(len - p) PROVE t[p + 1 + i] = Items[p + i]
  <2>1. /\ i - 1 \in 0..(len - p - 1)
        /\ p + 1 + i \in 1..(len + 1) /\ (p + 1 + i) - 1 = p + 1 + (i - 1)
        /\ p + 1 + (i - 1) \in 0..((len + 1) - 1)
        /\ p + i \in 1..len /\ (p + i) - 1 = p + (i - 1) /\ p + (i - 1) \in 0..(len - 1)
    BY <1>1
  <2>2. w[p + 1 + (i - 1)] = Node[p + (i - 1)]
    BY <2>1, <1>e
  <2> QED BY <2>1, <2>2, <1>1, <1>e
<1>9. t \in Seq(Data) /\ Len(t) = Len(Items) + 1 /\ p \in 0..Len(Items)
  BY <1>1, <1>2 DEF t
<1>10. /\ \A i \in 1..p : t[i] = Items[i]
       /\ t[p + 1] = d
       /\ \A i \in 1..(Len(Items) - p) : t[p + 1 + i] = Items[p + i]
  BY <1>1, <1>6, <1>7, <1>8
<1>11. t = ListChain!InsertAt(Items, p + 1, d)
  BY <1>1, <1>9, <1>10, InsertedSequence
<1> QED BY <1>1, <1>9, <1>11 DEF t

LEMMA DropRefines ==
  ASSUME ListInv, ListInv', ~freed, ~freed', ~strayed, ~strayed', data' = data,
         NEW p \in 0..(len - 1), len' = len - 1,
         NEW c, IsChain(c, len - 1, first', next', alloc'),
         \A i \in 0..(p - 1) : c[i] = Node[i],
         \A i \in 0..(len - p - 2) : c[p + i] = Node[p + 1 + i]
  PROVE  Items' = ListChain!RemoveAt(Items, p + 1)
<1>1. /\ len \in Nat \ {0}
      /\ Items \in Seq(Data) /\ Len(Items) = len
      /\ \A i \in 1..len : Items[i] = data[Node[i - 1]]
  BY ItemsType
<1>2. /\ Items' \in Seq(Data) /\ Len(Items') = len - 1
      /\ \A i \in 1..(len - 1) : Items'[i] = data[Node'[i - 1]]
  BY ItemsTypeNext
<1>3. \A i \in 0..((len - 1) - 1) : Node'[i] = c[i]
  BY NodeNext
<1>4. len - 1 \in Nat \ {0}
  BY DEF IsChain
<1> DEFINE t == Items'
           w == Node'
<1>e. /\ \A i \in 1..(len - 1) : t[i] = data[w[i - 1]]
      /\ \A i \in 0..((len - 1) - 1) : w[i] = c[i]
  BY <1>2, <1>3
<1> HIDE DEF t, w
<1>6. ASSUME NEW i \in 1..p PROVE t[i] = Items[i]
  <2>1. i - 1 \in 0..(p - 1) /\ i \in 1..len
    BY <1>1
  <2>2. p <= len - 1 => i \in 1..(len - 1) /\ i - 1 \in 0..((len - 1) - 1)
    BY <1>1
  <2>3. i \in 1..(len - 1) /\ i - 1 \in 0..((len - 1) - 1)
    BY <2>2
  <2>4. w[i - 1] = Node[i - 1]
    BY <2>1, <2>3, <1>e
  <2> QED BY <2>1, <2>3, <2>4, <1>1, <1>e
<1>8. ASSUME NEW i \in 1..(len - (p + 1)) PROVE t[p + i] = Items[p + 1 + i]
  <2>1. /\ i - 1 \in 0..(len - p - 2)
        /\ p + i \in 1..(len - 1) /\ (p + i) - 1 = p + (i - 1)
        /\ p + (i - 1) \in 0..((len - 1) - 1)
    BY <1>1
  <2>a. p + 1 + i \in 1..len /\ (p + 1 + i) - 1 = p + 1 + (i - 1)
    BY <1>1
  <2>2. w[p + (i - 1)] = Node[p + 1 + (i - 1)]
    BY <2>1, <1>e
  <2> QED BY <2>1, <2>a, <2>2, <1>1, <1>e
<1>9. t \in Seq(Data) /\ Len(t) = Len(Items) - 1 /\ p \in 0..(Len(Items) - 1)
  BY <1>1, <1>2 DEF t
<1>10. /\ \A i \in 1..p : t[i] = Items[i]
       /\ \A i \in 1..(Len(Items) - (p + 1)) : t[p + i] = Items[p + 1 + i]
  BY <1>1, <1>6, <1>8
<1>11. t = ListChain!RemoveAt(Items, p + 1)
  BY <1>1, <1>9, <1>10, RemovedSequence
<1> QED BY <1>11 DEF t
LEMMA FirstNodeRefines ==
  ASSUME NEW n \in Nodes, NEW d \in Data, ll_new(n, d)
  PROVE  ListChain!ChainInit
<1>1. /\ n # NULL /\ alloc = {n} /\ len = 1 /\ first = n /\ last = n /\ ret = 0 /\ ~freed /\ ~strayed
      /\ data = [m \in Nodes |-> d]
  BY ListAssumption DEF ll_new
<1>2. ListInv
  BY InitListInv
<1>3. /\ IsChain(Node, len, first, next, alloc)
      /\ Items \in Seq(Data) /\ Len(Items) = len
      /\ \A i \in 1..len : Items[i] = data[Node[i - 1]]
  BY <1>1, <1>2, ItemsType
<1>4. Node[0] = n
  BY <1>1, <1>3 DEF IsChain
<1>5. Items[1] = d
  BY <1>1, <1>3, <1>4
<1> HIDE DEF Items
<1>6. Items = <<d>>
  BY <1>1, <1>3, <1>5
<1> QED BY <1>1, <1>6 DEF ListChain!ChainInit, Items

LEMMA InitRefines == Init => ListChain!ChainInit
<1> SUFFICES ASSUME NEW n \in Nodes \cup {NULL}, NEW d \in Data, ll_new(n, d)
             PROVE  ListChain!ChainInit
  BY DEF Init
<1>1. CASE n \in Nodes
  BY <1>1, FirstNodeRefines
<1>2. CASE n = NULL
  <2>1. len = 0 /\ ret = 0
    BY <1>2 DEF ll_new
  <2>2. Items = << >>
    BY <2>1 DEF Items
  <2> QED BY <2>1, <2>2 DEF ListChain!ChainInit, Items
<1> QED BY <1>1, <1>2

LEMMA InsertIsStep ==
  ASSUME NEW d \in Data, NEW p \in 0..Len(Items), ListChain!Insert(d, p)
  PROVE  ListChain!ChainNext
BY DEF ListChain!ChainNext, Items

(* Every call is a step of Chain.                                          *)
LEMMA PrependRefines ==
  ASSUME ListInv, ListInv', NEW n \in Nodes, NEW d \in Data, ll_prepend_node(n, d), ~strayed'
  PROVE  ListChain!ChainNext
<1>1. ~freed /\ ~freed' /\ n \notin alloc /\ ~strayed /\ data' = [data EXCEPT ![n] = d]
  BY DEF ll_prepend_node, new_ll_node, Added
<1>2. IsChain(Node, len, first, next, alloc) /\ len \in Nat \ {0} /\ Len(Items) = len
  BY <1>1, ItemsType
<1>3. len' = len + 1 /\ ret' = len + 1
  BY <1>1, AlreadyInitialised DEF ll_prepend_node, Added
<1> DEFINE c == Prepended(Node, len, n)
<1>4. IsChain(c, len + 1, first', next', alloc')
  BY <1>2, PrependLinks
<1>5. /\ \A i \in 0..(0 - 1) : c[i] = Node[i]
      /\ c[0] = n
      /\ \A i \in 0..(len - 0 - 1) : c[0 + 1 + i] = Node[0 + i]
  BY <1>2 DEF Prepended
<1> HIDE DEF c
<1>6. 0 \in 0..len
  BY <1>2
<1>7. Items' = ListChain!InsertAt(Items, 0 + 1, d) /\ ret' = Len(Items')
  BY <1>1, <1>3, <1>4, <1>5, <1>6, InsertRefines
<1>8. ListChain!Insert(d, 0)
  BY <1>7 DEF ListChain!Insert, Items
<1> QED BY <1>2, <1>6, <1>8, InsertIsStep

LEMMA AppendRefines ==
  ASSUME ListInv, ListInv', NEW n \in Nodes, NEW d \in Data, ll_append_node(n, d), ~strayed'
  PROVE  ListChain!ChainNext
<1>1. ~freed /\ ~freed' /\ n \notin alloc /\ ~strayed /\ data' = [data EXCEPT ![n] = d]
  BY DEF ll_append_node, new_ll_node, Added
<1>2. IsChain(Node, len, first, next, alloc) /\ len \in Nat \ {0} /\ Len(Items) = len
  BY <1>1, ItemsType
<1>3. len' = len + 1 /\ ret' = len + 1 /\ last = Node[len - 1]
  BY <1>1, AlreadyInitialised DEF ll_append_node, Added, ListInv, Linked, LinkedAs, Node
<1> DEFINE c == CutAfter(Node, len - 1, n)
<1>4. IsChain(c, len + 1, first', next', alloc')
  <2>1. len - 1 \in 0..(len - 1) /\ (len - 1) + 2 = len + 1
    BY <1>2
  <2> QED BY <2>1, <1>2, <1>3, AppendLinks
<1>5. /\ \A i \in 0..(len - 1) : c[i] = Node[i]
      /\ c[len] = n
      /\ \A i \in 0..(len - len - 1) : c[len + 1 + i] = Node[len + i]
  BY <1>2 DEF CutAfter
<1> HIDE DEF c
<1>6. len \in 0..len
  BY <1>2
<1>7. Items' = ListChain!InsertAt(Items, len + 1, d) /\ ret' = Len(Items')
  BY <1>1, <1>3, <1>4, <1>5, <1>6, InsertRefines
<1>8. ASSUME NEW p, p = len PROVE ListChain!ChainNext
  <2>1. ListChain!Insert(d, p)
    BY <1>7, <1>8 DEF ListChain!Insert, Items
  <2>2. p \in 0..Len(Items)
    BY <1>2, <1>6, <1>8
  <2> QED BY <2>1, <2>2, InsertIsStep
<1> QED BY <1>8

LEMMA InsertNodeRefines ==
  ASSUME ListInv, ListInv', NEW n \in Nodes, NEW d \in Data, NEW pos \in 0..MaxPos,
         ll_insert_node(n, d, pos), ~strayed'
  PROVE  ListChain!ChainNext
<1>1. ~freed /\ ~freed' /\ n \notin alloc /\ ~strayed
  <2>1. ~freed /\ n \notin alloc
    BY DEF ll_insert_node, new_ll_node
  <2>2. PICK k \in 1..len : IsChain(Node, k, first, next, alloc)
    BY <2>1 DEF ListInv, Linked, LinkedAs, Node
  <2>3. /\ UNCHANGED freed
        /\ InsertAddsNone(n) \/ InsertAdds(n, d, pos)
    BY <2>2, InsertCases
  <2>4. strayed => strayed'
    BY <2>3 DEF InsertAddsNone, InsertAdds
  <2> QED BY <2>1, <2>3, <2>4
<1>2. IsChain(Node, len, first, next, alloc) /\ len \in Nat \ {0} /\ Len(Items) = len
  BY <1>1, ItemsType
<1>3. InsertAddsNone(n) \/ (pos - 1 \in 0..(len - 1) /\ InsertAdds(n, d, pos))
  BY <1>2, InsertCases
<1>4. CASE InsertAddsNone(n)
  <2>1. data' = data /\ len' = len /\ ret' < 0
    BY <1>4 DEF InsertAddsNone
  <2>2. Node' = Node
    <3>1. Nth(first, Fresh(n)) = Node
      BY <1>1, <1>2, FreshKeepsNode
    <3> QED BY <3>1, <1>4 DEF InsertAddsNone, Node
  <2>3. Items' = Items
    BY <2>1, <2>2 DEF Items
  <2>4. ListChain!Refuse
    BY <2>1, <2>3 DEF ListChain!Refuse, Items
  <2> QED BY <2>4 DEF ListChain!ChainNext
<1>5. CASE pos - 1 \in 0..(len - 1) /\ InsertAdds(n, d, pos)
  <2>1. len' = len + 1 /\ ret' = len + 1 /\ data' = [data EXCEPT ![n] = d]
    BY <1>5 DEF InsertAdds
  <2>2. pos \in 1..len /\ pos \in 0..len /\ pos \in Nat /\ (pos - 1) + 1 = pos
    BY <1>2, <1>5, ListAssumption
  <2> DEFINE c == InsertedAfter(Node, len, pos - 1, n)
  <2>3. IsChain(c, len + 1, first', next', alloc')
    BY <1>1, <1>2, <1>5, <2>2, InsertLinksOne
  <2>4. /\ \A i \in 0..(pos - 1) : c[i] = Node[i]
        /\ c[pos] = n
        /\ \A i \in 0..(len - pos - 1) : c[pos + 1 + i] = Node[pos + i]
    BY <1>2, <2>2 DEF InsertedAfter
  <2> HIDE DEF c
  <2>5. Items' = ListChain!InsertAt(Items, pos + 1, d) /\ ret' = Len(Items')
    BY <1>1, <2>1, <2>2, <2>3, <2>4, InsertRefines
  <2>6. ListChain!Insert(d, pos)
    BY <2>5 DEF ListChain!Insert, Items
  <2> QED BY <1>2, <2>2, <2>6, InsertIsStep
<1> QED BY <1>3, <1>4, <1>5

LEMMA RemoveRefines ==
  ASSUME ListInv, ListInv', NEW at \in 0..MaxPos, ll_remove_node(at), Unlinks(at), ~strayed'
  PROVE  ListChain!ChainNext
<1>1. ~freed /\ ~freed' /\ ~strayed /\ at # len /\ data' = data /\ ret' = ret /\ len' = len - 1
  BY DEF ll_remove_node, LenAfterRemoval
<1>2. IsChain(Node, len, first, next, alloc) /\ len \in Nat \ {0} /\ Len(Items) = len
  BY <1>1, ItemsType
<1>3. at \in 2..len /\ at - 1 \in 0..(len - 1) /\ (at - 1) + 1 = at
  BY <1>2 DEF Unlinks
<1> DEFINE c == RemovedAt(Node, len, at - 1)
<1>4. IsChain(c, len - 1, first', next', alloc')
  BY <1>2, RemoveUnlinks
<1>5. /\ \A i \in 0..((at - 1) - 1) : c[i] = Node[i]
      /\ \A i \in 0..(len - (at - 1) - 2) : c[(at - 1) + i] = Node[(at - 1) + 1 + i]
  BY <1>2, <1>3 DEF RemovedAt
<1> HIDE DEF c
<1>6. Items' = ListChain!RemoveAt(Items, (at - 1) + 1)
  BY <1>1, <1>3, <1>4, <1>5, DropRefines
<1>7. ListChain!Drop(at)
  <2>1. 2 <= at /\ at < Len(Items)
    BY <1>1, <1>2, <1>3
  <2> QED BY <1>1, <1>3, <1>6, <2>1 DEF ListChain!Drop, Items
<1>8. at \in 2..Len(Items)
  BY <1>2, <1>3
<1> QED BY <1>7, <1>8 DEF ListChain!ChainNext, Items

LEMMA NextRefines ==
  ListInv /\ ListInv' /\ [Next]_vars => (~strayed' => [ListChain!ChainNext]_(ListChain!chainVars))
<1> SUFFICES ASSUME ListInv, ListInv', [Next]_vars, ~strayed'
             PROVE  [ListChain!ChainNext]_(ListChain!chainVars)
  OBVIOUS
<1>1. ASSUME UNCHANGED <<next, data, first, len, ret>>
      PROVE  [ListChain!ChainNext]_(ListChain!chainVars)
  <2>1. Node' = Node
    BY <1>1 DEF Node
  <2>2. Items' = Items
    BY <1>1, <2>1 DEF Items
  <2> QED BY <1>1, <2>2 DEF ListChain!chainVars, Items
<1>2. CASE AddFails
  <2>1. Node' = Node /\ data' = data /\ len' = len /\ ret' < 0
    BY <1>2 DEF AddFails, Node, list
  <2>2. Items' = Items
    BY <2>1 DEF Items
  <2>3. ListChain!Refuse
    BY <2>1, <2>2 DEF ListChain!Refuse, Items
  <2> QED BY <2>3 DEF ListChain!ChainNext
<1>3. ASSUME NEW n \in Nodes, NEW d \in Data, ll_prepend_node(n, d) PROVE ListChain!ChainNext
  BY <1>3, PrependRefines
<1>4. ASSUME NEW n \in Nodes, NEW d \in Data, ll_append_node(n, d) PROVE ListChain!ChainNext
  BY <1>4, AppendRefines
<1>5. ASSUME NEW n \in Nodes, NEW d \in Data, NEW pos \in 0..MaxPos, ll_insert_node(n, d, pos)
      PROVE  ListChain!ChainNext
  BY <1>5, InsertNodeRefines
<1>6. ASSUME NEW at \in 0..MaxPos, ll_remove_node(at)
      PROVE  [ListChain!ChainNext]_(ListChain!chainVars)
  <2>1. CASE Unlinks(at)
    BY <1>6, <2>1, RemoveRefines
  <2>2. CASE ~Unlinks(at)
    BY <1>6, <2>2, <1>1 DEF ll_remove_node, LenAfterRemoval
  <2> QED BY <2>1, <2>2
<1>7. CASE ll_free
  BY <1>7, <1>1 DEF ll_free, list
<1>8. CASE UNCHANGED vars
  BY <1>8, <1>1 DEF vars, list
<1> QED BY <1>2, <1>3, <1>4, <1>5, <1>6, <1>7, <1>8 DEF Next

(* Nothing but refusals happens to an empty list that is not spoilt.       *)
LEMMA EmptyRefines ==
  ASSUME EmptyInv, [Next]_vars, ~Spoilt'
  PROVE  [ListChain!ChainNext]_(ListChain!chainVars)
<1>1. len = 0 /\ len' = 0 /\ (ret' = ret \/ ret' < 0)
  BY EmptyStep DEF SpoiltInv, EmptyInv
<1>2. Items = << >> /\ Items' = << >>
  BY <1>1 DEF Items
<1>3. CASE ret' = ret
  BY <1>2, <1>3 DEF ListChain!chainVars, Items
<1>4. CASE ret' < 0
  BY <1>2, <1>4 DEF ListChain!ChainNext, ListChain!Refuse, Items
<1> QED BY <1>1, <1>3, <1>4

LEMMA AnyRefines ==
  AnyInv /\ [Next]_vars =>
    (~strayed' /\ ~Spoilt' => [ListChain!ChainNext]_(ListChain!chainVars))
<1> SUFFICES ASSUME AnyInv, [Next]_vars, ~strayed', ~Spoilt'
             PROVE  [ListChain!ChainNext]_(ListChain!chainVars)
  OBVIOUS
<1>1. CASE ListInv
  BY <1>1, NextListInv, NextRefines
<1>2. CASE EmptyInv
  BY <1>2, EmptyRefines
<1>3. CASE SpoiltInv
  <2>1. UNCHANGED vars
    BY <1>3 DEF SpoiltInv, Next
  <2> QED BY <1>3, <2>1 DEF SpoiltInv, Spoilt, vars, list
<1> QED BY <1>1, <1>2, <1>3 DEF AnyInv

(* Until a call at the list's end is made, each call of linked_list.c does *)
(* to the data in the nodes what Chain says: the sequence Hashmap keeps a  *)
(* bucket's list as.                                                       *)
THEOREM ListIsChain == Spec => ImplementsChain
BY InitRefines, AnyRefines, ListInvariant, PTL DEF Spec, ImplementsChain
=============================================================================
