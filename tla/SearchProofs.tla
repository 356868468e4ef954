---------------------------- MODULE SearchProofs ----------------------------
(***************************************************************************)
(* How a key is found.  In a memtable: the skip list's search and what     *)
(* insert, remove, clear and clone make of the lists, for every set of     *)
(* keys, values and addresses and every maximal height.  In the tables:    *)
(* search_readers returns every table that can hold a key, for every level *)
(* of sorted, disjoint tables and every totally ordered set of keys; and   *)
(* the keys of the index block separate the data blocks, for every pair of *)
(* keys the server can store.                                              *)
(***************************************************************************)
EXTENDS SkipList, SearchReaders, Separator, FiniteSetTheorems, WellFoundedInduction, TLAPS

\* A heap that a proof looks into: keys are numbers, no two are the same.
LEMMA HeapFacts ==
  ASSUME NEW ns, IsHeap(ns)
  PROVE  /\ \A p \in DOMAIN ns : ns[p].key \in Nat
         /\ \A p, q \in DOMAIN ns : ns[p].key = ns[q].key => p = q
         /\ HeadNode \in DOMAIN ns /\ ns[HeadNode].key = 0
         /\ \A p \in DOMAIN ns \ {HeadNode} : ns[p].key \in Keys /\ ns[p].key > 0
BY SkipKeysAssumption DEF IsHeap, Node

\* Every node is linked at all heights from 0 to its own.
LEMMA NodeHeights ==
  ASSUME NEW ns, IsHeap(ns), NEW p \in DOMAIN ns
  PROVE  \E h \in 0..MaxHeight : DOMAIN ns[p].nexts = 0..h /\ ns[p].nexts \in [0..h -> Addresses \cup {Null}]
BY DEF IsHeap, Node

\* A node that is linked at a height is linked at every lower one.
LEMMA LowerHeight ==
  ASSUME NEW ns, IsHeap(ns), NEW i \in Nat, NEW j \in 0..i
  PROVE  At(ns, i) \subseteq At(ns, j)
<1> SUFFICES ASSUME NEW p \in At(ns, i) PROVE p \in At(ns, j)
  BY Zenon
<1>1. p \in DOMAIN ns /\ i \in DOMAIN ns[p].nexts
  BY Zenon DEF At
<1>2. PICK h \in 0..MaxHeight : DOMAIN ns[p].nexts = 0..h
  BY Zenon, <1>1, NodeHeights
<1> QED
  BY <1>1, <1>2, HeightAssumption DEF At

\* Every node is linked at height 0, and the head at every height.
LEMMA AllAtZero ==
  ASSUME NEW ns, IsHeap(ns)
  PROVE  At(ns, 0) = DOMAIN ns /\ \A i \in 0..MaxHeight : HeadNode \in At(ns, i)
<1>1. \A p \in DOMAIN ns : 0 \in DOMAIN ns[p].nexts
  BY NodeHeights, HeightAssumption
<1>2. HeadNode \in DOMAIN ns /\ DOMAIN ns[HeadNode].nexts = 0..MaxHeight
  BY Zenon DEF IsHeap
<1> QED
  BY Zenon, <1>1, <1>2 DEF At

\* The inner loop stops at the last node before the key,
LEMMA StopsAtLast ==
  ASSUME NEW ns, IsHeap(ns), NEW i, Linked(ns, i), NEW u \in At(ns, i), NEW k \in Nat, ns[u].key < k,
         LET n == ns[u].nexts[i] IN n = Null \/ ~ (ns[n].key < k)
  PROVE  LastBefore(ns, i, u, k)
<1> DEFINE n == ns[u].nexts[i]
<1>1. Follows(ns, i, u, n)
  BY Zenon DEF Linked
<1>2. \A p \in At(ns, i) : ns[p].key \in Nat
  BY Zenon, HeapFacts DEF At
<1>3. n # Null => n \in At(ns, i)
  BY Zenon, <1>1 DEF Follows
<1> HIDE DEF n
<1>4. n = Null \/ ~ (ns[n].key < k)
  BY Zenon DEF n
<1> QED
  BY <1>1, <1>2, <1>3, <1>4 DEF Follows, LastBefore

\* and what follows it is the node of the key, if there is one.
LEMMA FollowsLast ==
  ASSUME NEW ns, IsHeap(ns), NEW i, Linked(ns, i), NEW u, NEW k \in Nat, LastBefore(ns, i, u, k),
         NEW q \in At(ns, i), ns[q].key = k
  PROVE  ns[u].nexts[i] = q
<1> DEFINE n == ns[u].nexts[i]
<1>1. Follows(ns, i, u, n) /\ u \in At(ns, i) /\ ns[u].key < k
  BY Zenon DEF Linked, LastBefore
<1>2. \A p \in At(ns, i) : ns[p].key \in Nat /\ p \in DOMAIN ns
  BY Zenon, HeapFacts DEF At
<1> HIDE DEF n
<1>3. n # Null /\ n \in At(ns, i) /\ ns[u].key < ns[n].key /\ ns[n].key =< k
  BY Zenon, <1>1 DEF Follows
<1>4. ns[n].key < k => ns[n].key =< ns[u].key
  BY Zenon, <1>3 DEF LastBefore
<1>5. ns[n].key = k
  BY <1>1, <1>2, <1>3, <1>4
<1> QED
  BY Zenon, <1>2, <1>3, <1>5, HeapFacts DEF n

(***************************************************************************)
(* Relinking one height.                                                   *)
(***************************************************************************)
\* A height at which no pointer changes stays linked.
LEMMA SameLinks ==
  ASSUME NEW ns, NEW ms, NEW i, Linked(ns, i), At(ms, i) = At(ns, i),
         \A p \in At(ns, i) : ms[p].key = ns[p].key /\ ms[p].nexts[i] = ns[p].nexts[i]
  PROVE  Linked(ms, i)
BY DEF Linked, Follows

\* insert: the new node n after u, the last one before its key.
LEMMA LinkOne ==
  ASSUME NEW ns, IsHeap(ns), NEW ms, NEW i, Linked(ns, i), NEW u, NEW k \in Nat, LastBefore(ns, i, u, k),
         \A p \in DOMAIN ns : ns[p].key # k,
         NEW n, n \notin DOMAIN ns, n # Null,
         At(ms, i) = At(ns, i) \cup {n}, ms[n].key = k, ms[n].nexts[i] = ns[u].nexts[i],
         \A p \in At(ns, i) :
           ms[p].key = ns[p].key /\ ms[p].nexts[i] = IF p = u THEN n ELSE ns[p].nexts[i]
  PROVE  Linked(ms, i)
<1>1. \A p \in At(ns, i) : ns[p].key \in Nat /\ p \in DOMAIN ns /\ ns[p].key # k
  BY Zenon, HeapFacts DEF At
<1>2. u \in At(ns, i) /\ ns[u].key < k /\ \A q \in At(ns, i) : ns[q].key < k => ns[q].key =< ns[u].key
  BY Zenon DEF LastBefore
<1>3. ASSUME NEW p \in At(ns, i), p # u PROVE Follows(ms, i, p, ms[p].nexts[i])
  <2> DEFINE m == ns[p].nexts[i]
  <2>1. ms[p].nexts[i] = m /\ ms[p].key = ns[p].key /\ Follows(ns, i, p, m)
    BY Zenon, <1>3 DEF Linked
  <2>2. ns[p].key # ns[u].key
    BY Zenon, <1>1, <1>2, <1>3, HeapFacts
  <2> HIDE DEF m
  <2>3. m # Null => m \in At(ns, i) /\ ns[p].key < ns[m].key /\ ms[m].key = ns[m].key
    BY Zenon, <2>1 DEF Follows
  <2>4. ns[p].key < k => m # Null /\ ns[m].key =< k
    <3>1. ns[p].key < k => ns[p].key < ns[u].key
      BY <1>1, <1>2, <2>2
    <3>2. ns[p].key < k => m # Null /\ ns[m].key =< ns[u].key
      BY Zenon, <1>2, <2>1, <3>1 DEF Follows
    <3> QED
      BY <1>1, <1>2, <2>3, <3>2
  <2>5. \A q \in At(ns, i) : ns[p].key < ns[q].key => m # Null /\ ns[m].key =< ns[q].key
    BY Zenon, <2>1 DEF Follows
  <2> QED
    BY Zenon, <1>3, <2>1, <2>3, <2>4, <2>5 DEF Follows
<1>4. Follows(ms, i, u, n)
  BY <1>1, <1>2 DEF Follows
<1>5. Follows(ms, i, n, ns[u].nexts[i])
  <2> DEFINE m == ns[u].nexts[i]
  <2>1. Follows(ns, i, u, m)
    BY Zenon, <1>2 DEF Linked
  <2> HIDE DEF m
  <2>2. m # Null => m \in At(ns, i) /\ ns[u].key < ns[m].key /\ ms[m].key = ns[m].key
    BY Zenon, <2>1 DEF Follows
  <2>3. m # Null => k < ns[m].key
    BY <1>1, <1>2, <2>2
  <2>4. \A q \in At(ns, i) : k < ns[q].key => m # Null /\ ns[m].key =< ns[q].key
    BY <1>1, <1>2, <2>1 DEF Follows
  <2>5. \A q \in At(ms, i) : k < ms[q].key => q \in At(ns, i) /\ ms[q].key = ns[q].key
    OBVIOUS
  <2> QED
    BY Zenon, <2>2, <2>3, <2>4, <2>5 DEF Follows, m
<1> QED
  BY Zenon, <1>2, <1>3, <1>4, <1>5 DEF Linked

\* remove: what follows node n follows u, the last one before it.
LEMMA UnlinkOne ==
  ASSUME NEW ns, IsHeap(ns), NEW ms, NEW i, Linked(ns, i), NEW u, NEW n \in At(ns, i),
         LastBefore(ns, i, u, ns[n].key), At(ms, i) = At(ns, i) \ {n},
         \A p \in At(ms, i) :
           ms[p].key = ns[p].key /\ ms[p].nexts[i] = IF p = u THEN ns[n].nexts[i] ELSE ns[p].nexts[i]
  PROVE  Linked(ms, i)
<1> DEFINE k == ns[n].key
<1>1. \A p \in At(ns, i) : ns[p].key \in Nat /\ p \in DOMAIN ns
  BY Zenon, HeapFacts DEF At
<1>2. u \in At(ns, i) /\ ns[u].key < k /\ \A q \in At(ns, i) : ns[q].key < k => ns[q].key =< ns[u].key
  BY Zenon DEF LastBefore
<1>3. \A q \in At(ms, i) : ns[q].key # k
  BY Zenon, <1>1, HeapFacts
<1>4. ASSUME NEW p \in At(ms, i), p # u PROVE Follows(ms, i, p, ms[p].nexts[i])
  <2> DEFINE m == ns[p].nexts[i]
  <2>1. ms[p].nexts[i] = m /\ ms[p].key = ns[p].key /\ Follows(ns, i, p, m) /\ p \in At(ns, i)
    BY Zenon, <1>4 DEF Linked
  <2>2. ns[p].key # ns[u].key
    BY Zenon, <1>1, <1>2, <1>4, <2>1, HeapFacts
  <2> HIDE DEF m
  <2>3. m # n
    <3>1. ns[p].key < k => ns[p].key < ns[u].key
      BY <1>1, <1>2, <2>1, <2>2
    <3>2. SUFFICES ASSUME m = n PROVE FALSE
      BY Zenon
    <3>3. ns[p].key < k /\ k =< ns[u].key
      BY <1>2, <2>1, <3>1, <3>2, AddressAssumption DEF Follows, IsHeap, At
    <3> QED
      BY <1>1, <1>2, <3>3
  <2> QED
    BY Zenon, <1>4, <2>1, <2>3 DEF Follows
<1>5. ASSUME u \in At(ms, i) PROVE Follows(ms, i, u, ns[n].nexts[i])
  <2> DEFINE m == ns[n].nexts[i]
  <2>1. Follows(ns, i, n, m)
    BY Zenon DEF Linked
  <2> HIDE DEF m
  <2>2. m # Null => m \in At(ns, i) /\ k < ns[m].key
    BY Zenon, <2>1 DEF Follows
  <2>3. m # Null => m \in At(ms, i) /\ ms[u].key < ms[m].key
    BY <1>1, <1>2, <1>5, <2>2
  <2>4. ASSUME NEW q \in At(ms, i), ms[u].key < ms[q].key PROVE m # Null /\ ms[m].key =< ms[q].key
    <3>1. k < ns[q].key
      BY <1>1, <1>2, <1>3, <1>5, <2>4
    <3> QED
      BY Zenon, <2>1, <2>3, <2>4, <3>1 DEF Follows
  <2> QED
    BY Zenon, <2>3, <2>4 DEF Follows, m
<1> QED
  BY Zenon, <1>4, <1>5 DEF Linked

(***************************************************************************)
(* What a search that has ended tells.                                     *)
(***************************************************************************)
LEMMA SearchEnds ==
  ASSUME SkipInv, pc = "apply"
  PROVE  /\ Nested(nodes) /\ IsHeap(nodes) /\ call.key \in Keys /\ call.key \in Nat
         /\ \A i \in 0..MaxHeight : LastBefore(nodes, i, updates[i], call.key)
         /\ Hit = nodes[cur].nexts[0] /\ cur = updates[0] /\ cur \in DOMAIN nodes
<1>1. /\ Nested(nodes) /\ IsHeap(nodes) /\ call.key \in Keys
      /\ level = 0 /\ cur \in At(nodes, 0) /\ updates[0] = cur /\ LastBefore(nodes, 0, updates[0], call.key)
      /\ \A i \in 0..MaxHeight : i > 0 => LastBefore(nodes, i, updates[i], call.key)
  BY Zenon DEF SkipInv, SkipType, ListInv, FindInv, Searching
<1>2. \A i \in 0..MaxHeight : i = 0 \/ i > 0
  BY HeightAssumption
<1>3. cur \in DOMAIN nodes /\ 0 \in DOMAIN nodes[cur].nexts
  BY Zenon, <1>1 DEF At
<1> QED
  BY Zenon, <1>1, <1>2, <1>3, SkipKeysAssumption DEF Hit, NextOf

\* A node that was found is the node of the key.
LEMMA SearchHits ==
  ASSUME SkipInv, pc = "apply", Found
  PROVE  Hit \in DOMAIN nodes \ {HeadNode} /\ nodes[Hit].key = call.key
<1>1. Linked(nodes, 0) /\ cur \in At(nodes, 0) /\ Hit = nodes[cur].nexts[0] /\ Hit # Null
  BY SearchEnds, AllAtZero, HeightAssumption DEF Nested, Found
<1>2. Hit \in At(nodes, 0)
  BY Zenon, <1>1 DEF Linked, Follows
<1>3. call.key # 0
  BY Zenon, SearchEnds, SkipKeysAssumption
<1> QED
  BY Zenon, <1>2, <1>3, SearchEnds, HeapFacts DEF Found, At

\* The node of the key, if there is one, is found.
LEMMA SearchMisses ==
  ASSUME SkipInv, pc = "apply", NEW p \in DOMAIN nodes, nodes[p].key = call.key
  PROVE  Found /\ Hit = p
<1>1. Linked(nodes, 0) /\ p \in At(nodes, 0)
  BY SearchEnds, AllAtZero, HeightAssumption DEF Nested
<1>2. nodes[updates[0]].nexts[0] = p
  BY <1>1, SearchEnds, FollowsLast, HeightAssumption
<1>3. p # Null
  BY Zenon, SearchEnds, AddressAssumption DEF IsHeap
<1> QED
  BY Zenon, <1>2, <1>3, SearchEnds DEF Found

(***************************************************************************)
(* insert links a node: what the nodes are then.                           *)
(***************************************************************************)
\* ns are the nodes with n added; the others keep key, value and height.
Extends(ns, n) ==
  /\ DOMAIN ns = DOMAIN nodes \cup {n}
  /\ ns[n].key = call.key /\ ns[n].val = call.val
  /\ \A p \in DOMAIN nodes :
       ns[p].key = nodes[p].key /\ ns[p].val = nodes[p].val /\ DOMAIN ns[p].nexts = DOMAIN nodes[p].nexts

PointsTo(ns, n) ==
  /\ ns[n] = [key |-> call.key, val |-> call.val,
              nexts |-> [i \in 0..call.height |-> nodes[updates[i]].nexts[i]]]
  /\ \A p \in DOMAIN nodes :
       ns[p] = [nodes[p] EXCEPT !.nexts =
                  [i \in DOMAIN nodes[p].nexts |->
                     IF i =< call.height /\ updates[i] = p THEN n ELSE nodes[p].nexts[i]]]

\* What insert changes: one new node, and the pointers of its predecessors.
LEMMA LinkedNodes ==
  ASSUME SkipInv, pc = "apply", call.op = "insert", ~Found,
         NEW n \in Addresses \ DOMAIN nodes, NEW ns, ns = LinkedTo(n)
  PROVE  Extends(ns, n) /\ PointsTo(ns, n)
<1>1. call.height \in 0..MaxHeight
  BY Zenon DEF SkipInv, SkipType
<1>2. \A i \in 0..call.height : NextOf(nodes, updates[i], i) = nodes[updates[i]].nexts[i]
  <2> TAKE i \in 0..call.height
  <2>1. i \in 0..MaxHeight
    BY <1>1, HeightAssumption
  <2>2. updates[i] \in At(nodes, i)
    BY Zenon, <2>1, SearchEnds DEF LastBefore
  <2> QED
    BY Zenon, <2>2 DEF NextOf, At
<1>3. DOMAIN ns = DOMAIN nodes \cup {n}
  BY Zenon DEF LinkedTo
<1>4. ns[n] = [key |-> call.key, val |-> call.val,
              nexts |-> [i \in 0..call.height |-> nodes[updates[i]].nexts[i]]]
  BY Zenon, <1>2 DEF LinkedTo
<1>5. ASSUME NEW p \in DOMAIN nodes
      PROVE  ns[p] = [nodes[p] EXCEPT !.nexts =
                        [i \in DOMAIN nodes[p].nexts |->
                           IF i =< call.height /\ updates[i] = p THEN n ELSE nodes[p].nexts[i]]]
  BY Zenon DEF LinkedTo
<1>6. \A p \in DOMAIN nodes : nodes[p] \in Node
  BY Zenon DEF SkipInv, SkipType, IsHeap
<1>8. ASSUME NEW p \in DOMAIN nodes
      PROVE  ns[p].key = nodes[p].key /\ ns[p].val = nodes[p].val /\ DOMAIN ns[p].nexts = DOMAIN nodes[p].nexts
  <2> DEFINE f == [i \in DOMAIN nodes[p].nexts |->
                     IF i =< call.height /\ updates[i] = p THEN n ELSE nodes[p].nexts[i]]
  <2>1. ns[p] = [nodes[p] EXCEPT !.nexts = f] /\ DOMAIN f = DOMAIN nodes[p].nexts
    BY Zenon, <1>5
  <2> HIDE DEF f
  <2> QED
    BY Zenon, <1>6, <2>1 DEF Node
<1>9. Extends(ns, n)
  BY <1>3, <1>4, <1>8 DEF Extends
<1> QED
  BY Zenon, <1>4, <1>5, <1>9 DEF PointsTo

\* The heap after insert.
LEMMA LinkedIsHeap ==
  ASSUME SkipInv, pc = "apply", call.op = "insert", ~Found,
         NEW n \in Addresses \ DOMAIN nodes, NEW ns, ns = LinkedTo(n)
  PROVE  IsHeap(ns)
<1>0. Extends(ns, n) /\ PointsTo(ns, n)
  BY Zenon, LinkedNodes
<1>1. /\ call.key \in Keys /\ call.key \in Nat /\ call.val \in Vals
      /\ call.height \in 0..MaxHeight /\ IsHeap(nodes)
  BY Zenon, SkipKeysAssumption DEF SkipInv, SkipType, Searching
<1>2. \A p \in DOMAIN nodes : ns[p] \in Node
  <2> TAKE p \in DOMAIN nodes
  <2>1. PICK h \in 0..MaxHeight :
          DOMAIN nodes[p].nexts = 0..h /\ nodes[p].nexts \in [0..h -> Addresses \cup {Null}]
    BY Zenon, <1>1, NodeHeights
  <2> DEFINE f == [i \in 0..h |-> IF i =< call.height /\ updates[i] = p THEN n ELSE nodes[p].nexts[i]]
  <2>2. f \in [0..h -> Addresses \cup {Null}]
    BY Zenon, <2>1
  <2>3. ns[p] = [nodes[p] EXCEPT !.nexts = f]
    BY Zenon, <1>0, <2>1 DEF PointsTo
  <2>4. nodes[p] \in Node
    BY Zenon, <1>1 DEF IsHeap
  <2> HIDE DEF f
  <2> QED
    BY <2>2, <2>3, <2>4 DEF Node
<1>3. ns[n] \in Node
  <2> DEFINE f == [i \in 0..call.height |-> nodes[updates[i]].nexts[i]]
  <2>1. ASSUME NEW i \in 0..call.height PROVE f[i] \in Addresses \cup {Null}
    <3>1. i \in 0..MaxHeight
      BY <1>1, HeightAssumption
    <3>2. updates[i] \in At(nodes, i)
      BY <3>1, SearchEnds DEF LastBefore
    <3>3. updates[i] \in DOMAIN nodes /\ i \in DOMAIN nodes[updates[i]].nexts
      BY Zenon, <3>2 DEF At
    <3> QED
      BY <1>1, <3>3, NodeHeights
  <2>2. f \in [0..call.height -> Addresses \cup {Null}]
    BY Zenon, <2>1
  <2>3. ns[n] = [key |-> call.key, val |-> call.val, nexts |-> f]
    BY Zenon, <1>0 DEF PointsTo
  <2> HIDE DEF f
  <2> QED
    BY <1>1, <2>2, <2>3 DEF Node
<1>4. ns \in [DOMAIN ns -> Node]
  <2>1. ns = [p \in DOMAIN ns |-> ns[p]]
    BY Zenon DEF LinkedTo
  <2>2. DOMAIN ns = DOMAIN nodes \cup {n}
    BY Zenon, <1>0 DEF Extends
  <2> QED
    BY Zenon, <1>2, <1>3, <2>1, <2>2
<1>5. \A p \in DOMAIN nodes : nodes[p].key # call.key
  BY Zenon, SearchMisses
<1>6. DOMAIN ns[HeadNode].nexts = 0..MaxHeight
  BY Zenon, <1>0, <1>1 DEF IsHeap, Extends
<1>7. HeadNode \in DOMAIN ns /\ DOMAIN ns \subseteq Addresses \cup {HeadNode} /\ ns[HeadNode].key = 0
  BY Zenon, <1>0, <1>1 DEF IsHeap, Extends
<1>8. \A p \in DOMAIN ns \ {HeadNode} : ns[p].key \in Keys /\ ns[p].val \in Vals
  BY Zenon, <1>0, <1>1 DEF IsHeap, Extends
<1>9. \A p, q \in DOMAIN ns : ns[p].key = ns[q].key => p = q
  <2>1. /\ \A p \in DOMAIN ns : p = n \/ p \in DOMAIN nodes
        /\ ns[n].key = call.key /\ \A p \in DOMAIN nodes : ns[p].key = nodes[p].key
    BY Zenon, <1>0 DEF Extends
  <2> SUFFICES ASSUME NEW p \in DOMAIN ns, NEW q \in DOMAIN ns, ns[p].key = ns[q].key PROVE p = q
    BY Zenon
  <2>2. p = n \/ q = n => p = q
    BY Zenon, <1>5, <2>1
  <2>3. p \in DOMAIN nodes /\ q \in DOMAIN nodes => p = q
    BY Zenon, <1>1, <2>1, HeapFacts
  <2> QED
    BY Zenon, <2>1, <2>2, <2>3
<1> QED
  BY Zenon, <1>4, <1>6, <1>7, <1>8, <1>9 DEF IsHeap

\* The lists after insert: at each height up to its own the node is between its neighbours.
LEMMA LinkedIsNested ==
  ASSUME SkipInv, pc = "apply", call.op = "insert", ~Found,
         NEW n \in Addresses \ DOMAIN nodes, NEW ns, ns = LinkedTo(n)
  PROVE  /\ Nested(ns) /\ DOMAIN ns[n].nexts = 0..call.height
<1>1. Extends(ns, n) /\ PointsTo(ns, n) /\ n # Null /\ call.height \in 0..MaxHeight
  BY Zenon, LinkedNodes, AddressAssumption DEF SkipInv, SkipType
<1>2. /\ DOMAIN ns[n].nexts = 0..call.height
      /\ \A i \in 0..call.height : ns[n].nexts[i] = nodes[updates[i]].nexts[i]
  BY <1>1 DEF PointsTo
<1>3. ASSUME NEW p \in DOMAIN nodes, NEW i \in DOMAIN nodes[p].nexts
      PROVE  ns[p].nexts[i] = IF i =< call.height /\ updates[i] = p THEN n ELSE nodes[p].nexts[i]
  <2> DEFINE f == [j \in DOMAIN nodes[p].nexts |->
                     IF j =< call.height /\ updates[j] = p THEN n ELSE nodes[p].nexts[j]]
  <2>1. ns[p] = [nodes[p] EXCEPT !.nexts = f] /\ nodes[p] \in Node
    BY Zenon, <1>1 DEF PointsTo, SkipInv, SkipType, IsHeap
  <2>2. f[i] = IF i =< call.height /\ updates[i] = p THEN n ELSE nodes[p].nexts[i]
    BY Zenon
  <2> HIDE DEF f
  <2>3. ns[p].nexts = f
    BY Zenon, <2>1 DEF Node
  <2> QED
    BY Zenon, <2>2, <2>3
<1>4. ASSUME NEW i \in 0..MaxHeight PROVE Linked(ns, i)
  <2>1. \A p \in At(nodes, i) :
          ns[p].key = nodes[p].key /\
          ns[p].nexts[i] = IF i =< call.height /\ updates[i] = p THEN n ELSE nodes[p].nexts[i]
    BY Zenon, <1>1, <1>3 DEF At, Extends
  <2>2. /\ DOMAIN ns = DOMAIN nodes \cup {n}
        /\ \A p \in DOMAIN nodes : DOMAIN ns[p].nexts = DOMAIN nodes[p].nexts
    BY Zenon, <1>1 DEF Extends
  <2>3. IsHeap(nodes) /\ Linked(nodes, i) /\ LastBefore(nodes, i, updates[i], call.key) /\ call.key \in Nat
    BY Zenon, <1>4, SearchEnds DEF Nested
  <2>4. CASE i =< call.height
    <3>0. i \in DOMAIN ns[n].nexts
      BY <1>1, <1>2, <1>4, <2>4, HeightAssumption
    <3>1. At(ns, i) = At(nodes, i) \cup {n}
      BY Zenon, <2>2, <3>0 DEF At
    <3>2. ns[n].nexts[i] = nodes[updates[i]].nexts[i] /\ ns[n].key = call.key
      BY <1>1, <1>2, <1>4, <2>4, HeightAssumption DEF Extends
    <3>3. \A p \in DOMAIN nodes : nodes[p].key # call.key
      BY Zenon, SearchMisses
    <3> QED
      BY <1>1, <2>1, <2>3, <2>4, <3>1, <3>2, <3>3, LinkOne
  <2>5. CASE ~ (i =< call.height)
    <3>1. At(ns, i) = At(nodes, i)
      BY <1>1, <1>2, <1>4, <2>2, <2>5 DEF At
    <3> QED
      BY Zenon, <2>1, <2>3, <2>5, <3>1, SameLinks
  <2> QED
    BY Zenon, <2>4, <2>5
<1> QED
  BY Zenon, <1>2, <1>4 DEF Nested

(***************************************************************************)
(* remove unlinks a node.                                                  *)
(***************************************************************************)
\* ns are the nodes without n; the others keep key, value and height.
Reduces(ns, n) ==
  /\ DOMAIN ns = DOMAIN nodes \ {n}
  /\ \A p \in DOMAIN nodes \ {n} :
       /\ ns[p].key = nodes[p].key /\ ns[p].val = nodes[p].val
       /\ DOMAIN ns[p].nexts = DOMAIN nodes[p].nexts
       /\ \A i \in DOMAIN nodes[p].nexts :
            ns[p].nexts[i] = IF i \in DOMAIN nodes[n].nexts /\ updates[i] = p
                             THEN nodes[n].nexts[i] ELSE nodes[p].nexts[i]

\* What remove changes: one node less, and the pointers of its predecessors.
LEMMA UnlinkedNodes ==
  ASSUME SkipInv, NEW n \in DOMAIN nodes \ {HeadNode}, NEW ns, ns = UnlinkedFrom(n)
  PROVE  Reduces(ns, n) /\ IsHeap(ns)
<1>1. IsHeap(nodes)
  BY Zenon DEF SkipInv, SkipType
<1>2. DOMAIN ns = DOMAIN nodes \ {n}
  BY Zenon DEF UnlinkedFrom
<1> DEFINE N(p) == [i \in DOMAIN nodes[p].nexts |->
                      IF i \in DOMAIN nodes[n].nexts /\ updates[i] = p
                      THEN nodes[n].nexts[i] ELSE nodes[p].nexts[i]]
<1>3. \A p \in DOMAIN nodes \ {n} : ns[p] = [nodes[p] EXCEPT !.nexts = N(p)]
  BY Zenon DEF UnlinkedFrom
<1>4. ASSUME NEW p \in DOMAIN nodes \ {n}
      PROVE  /\ ns[p].key = nodes[p].key /\ ns[p].val = nodes[p].val /\ ns[p].nexts = N(p)
             /\ ns[p] \in Node
  <2>1. PICK h \in 0..MaxHeight :
          DOMAIN nodes[p].nexts = 0..h /\ nodes[p].nexts \in [0..h -> Addresses \cup {Null}]
    BY Zenon, <1>1, NodeHeights
  <2>2. \A i \in DOMAIN nodes[n].nexts : nodes[n].nexts[i] \in Addresses \cup {Null}
    BY <1>1, NodeHeights
  <2>3. N(p) \in [0..h -> Addresses \cup {Null}]
    BY Zenon, <2>1, <2>2
  <2>4. nodes[p] \in Node /\ ns[p] = [nodes[p] EXCEPT !.nexts = N(p)]
    BY Zenon, <1>1, <1>3 DEF IsHeap
  <2> HIDE DEF N
  <2> QED
    BY SMTT(30), <2>3, <2>4 DEF Node
<1>5. Reduces(ns, n)
  <2>1. ASSUME NEW p \in DOMAIN nodes \ {n}
        PROVE  /\ DOMAIN ns[p].nexts = DOMAIN nodes[p].nexts
               /\ \A i \in DOMAIN nodes[p].nexts :
                    ns[p].nexts[i] = IF i \in DOMAIN nodes[n].nexts /\ updates[i] = p
                                     THEN nodes[n].nexts[i] ELSE nodes[p].nexts[i]
    <3>1. ns[p].nexts = N(p)
      BY Zenon, <1>4
    <3> QED
      BY Zenon, <3>1
  <2> HIDE DEF N
  <2> QED
    BY Zenon, <1>2, <1>4, <2>1 DEF Reduces
<1>6. ns \in [DOMAIN ns -> Node]
  <2>1. ns = [p \in DOMAIN ns |-> ns[p]]
    BY Zenon DEF UnlinkedFrom
  <2> HIDE DEF N
  <2> QED
    BY Zenon, <1>2, <1>4, <2>1
<1>7. /\ HeadNode \in DOMAIN ns /\ DOMAIN ns \subseteq DOMAIN nodes
      /\ DOMAIN ns[HeadNode].nexts = DOMAIN nodes[HeadNode].nexts
      /\ \A p \in DOMAIN ns : ns[p].key = nodes[p].key /\ ns[p].val = nodes[p].val
  BY Zenon, <1>1, <1>5 DEF IsHeap, Reduces
<1> HIDE DEF N
<1>8. \A p \in DOMAIN ns \ {HeadNode} : ns[p].key \in Keys /\ ns[p].val \in Vals
  BY Zenon, <1>1, <1>7 DEF IsHeap
<1>9. \A p, q \in DOMAIN ns : ns[p].key = ns[q].key => p = q
  BY <1>1, <1>7 DEF IsHeap
<1>10. /\ DOMAIN ns \subseteq Addresses \cup {HeadNode}
       /\ ns[HeadNode].key = 0 /\ DOMAIN ns[HeadNode].nexts = 0..MaxHeight
  BY Zenon, <1>1, <1>7 DEF IsHeap
<1> QED
  BY Zenon, <1>5, <1>6, <1>7, <1>8, <1>9, <1>10 DEF IsHeap

\* The lists after remove.
LEMMA UnlinkedIsNested ==
  ASSUME SkipInv, pc = "apply", Found, NEW ns, ns = UnlinkedFrom(Hit)
  PROVE  Nested(ns)
<1> DEFINE n == Hit
<1>1. n \in DOMAIN nodes \ {HeadNode} /\ nodes[n].key = call.key /\ Reduces(ns, n) /\ IsHeap(nodes)
  BY Zenon, SearchHits, SearchEnds, UnlinkedNodes
<1>2. n # Null
  BY Zenon, <1>1, AddressAssumption DEF IsHeap
<1> HIDE DEF n
<1> SUFFICES ASSUME NEW i \in 0..MaxHeight PROVE Linked(ns, i)
  BY Zenon DEF Nested
<1>3. Linked(nodes, i) /\ LastBefore(nodes, i, updates[i], nodes[n].key)
  BY Zenon, <1>1, SearchEnds DEF Nested
<1>4. At(ns, i) = At(nodes, i) \ {n}
  BY Zenon, <1>1 DEF At, Reduces
<1>5. \A p \in At(ns, i) :
        /\ ns[p].key = nodes[p].key
        /\ ns[p].nexts[i] = IF i \in DOMAIN nodes[n].nexts /\ updates[i] = p
                            THEN nodes[n].nexts[i] ELSE nodes[p].nexts[i]
  BY SMTT(30), <1>1, <1>4 DEF At, Reduces
<1>6. CASE n \in At(nodes, i)
  <2>1. i \in DOMAIN nodes[n].nexts
    BY Zenon, <1>6 DEF At
  <2> QED
    BY <1>1, <1>3, <1>4, <1>5, <1>6, <2>1, UnlinkOne
<1>7. CASE n \notin At(nodes, i)
  <2>1. i \notin DOMAIN nodes[n].nexts /\ At(ns, i) = At(nodes, i)
    BY Zenon, <1>1, <1>4, <1>7 DEF At
  <2> QED
    BY Zenon, <1>3, <1>5, <2>1, SameLinks
<1> QED
  BY Zenon, <1>6, <1>7

\* insert on an old key changes one value.
Replaced(v) == [nodes EXCEPT ![Hit].val = v]

Revalues(ns, v) ==
  /\ DOMAIN ns = DOMAIN nodes /\ ns[Hit].val = v
  /\ \A p \in DOMAIN nodes : ns[p].key = nodes[p].key /\ ns[p].nexts = nodes[p].nexts
  /\ \A p \in DOMAIN nodes : p # Hit => ns[p].val = nodes[p].val

\* What insert changes for an old key: the value of one node.
LEMMA ReplacedNodes ==
  ASSUME SkipInv, pc = "apply", Found, NEW v \in Vals, NEW ns, ns = Replaced(v)
  PROVE  Revalues(ns, v) /\ IsHeap(ns) /\ Nested(ns)
<1>1. Hit \in DOMAIN nodes \ {HeadNode} /\ IsHeap(nodes) /\ nodes \in [DOMAIN nodes -> Node]
  BY Zenon, SearchHits, SearchEnds DEF IsHeap
<1> DEFINE n == Hit
<1> HIDE DEF n
<1>2. /\ DOMAIN ns = DOMAIN nodes /\ ns[n].val = v /\ ns \in [DOMAIN nodes -> Node]
      /\ \A p \in DOMAIN nodes : ns[p].key = nodes[p].key /\ ns[p].nexts = nodes[p].nexts
      /\ \A p \in DOMAIN nodes : p # n => ns[p].val = nodes[p].val
  <2>1. ns = [nodes EXCEPT ![n].val = v] /\ n \in DOMAIN nodes
    BY Zenon, <1>1 DEF n, Replaced
  <2> QED
    BY SMTT(30), <1>1, <2>1 DEF Node
<1>3. \A i \in 0..MaxHeight : At(ns, i) = At(nodes, i)
  BY Zenon, <1>2 DEF At
<1>4. IsHeap(ns)
  BY <1>1, <1>2 DEF IsHeap, n
<1>5. Nested(ns)
  <2> SUFFICES ASSUME NEW i \in 0..MaxHeight PROVE Linked(ns, i)
    BY Zenon DEF Nested
  <2>1. Linked(nodes, i)
    BY Zenon, SearchEnds DEF Nested
  <2>2. \A p \in At(nodes, i) : ns[p].key = nodes[p].key /\ ns[p].nexts[i] = nodes[p].nexts[i]
    BY Zenon, <1>2 DEF At
  <2> QED
    BY Zenon, <1>3, <2>1, <2>2, SameLinks
<1> QED
  BY Zenon, <1>2, <1>4, <1>5 DEF n, Revalues

(***************************************************************************)
(* The end of get, insert and remove: the lists stay nested,               *)
(***************************************************************************)
LEMMA ApplyLists ==
  ASSUME SkipInv, Apply
  PROVE  /\ IsHeap(nodes') /\ Nested(nodes') /\ IsFiniteSet(DOMAIN nodes')
         /\ length' \in Nat /\ length' = Cardinality(DOMAIN nodes' \ {HeadNode}) /\ height' \in 0..MaxHeight
         /\ \A p \in DOMAIN nodes' \ {HeadNode} : DOMAIN nodes'[p].nexts \subseteq 0..height'
<1>0. pc = "apply"
  BY Zenon DEF Apply, ReturnValue, ReplaceValue, Link, Unlink, NothingToRemove
<1>1. /\ IsHeap(nodes) /\ Nested(nodes) /\ IsFiniteSet(DOMAIN nodes) /\ length \in Nat
      /\ length = Cardinality(DOMAIN nodes \ {HeadNode}) /\ height \in 0..MaxHeight
      /\ \A p \in DOMAIN nodes \ {HeadNode} : DOMAIN nodes[p].nexts \subseteq 0..height
  BY Zenon, <1>0 DEF SkipInv, SkipType, ListInv
<1>2. HeadNode \in DOMAIN nodes /\ IsFiniteSet(DOMAIN nodes \ {HeadNode})
  BY Zenon, <1>1, FS_Subset DEF IsHeap
<1>3. CASE ReturnValue \/ NothingToRemove
  <2>1. UNCHANGED theList
    BY Zenon, <1>3 DEF ReturnValue, NothingToRemove
  <2> QED
    BY Zenon, <1>1, <2>1 DEF theList
<1>4. CASE ReplaceValue
  <2>1. Found /\ call.val \in Vals /\ nodes' = Replaced(call.val) /\ UNCHANGED <<length, height>>
    BY Zenon, <1>0, <1>4 DEF Replaced, ReplaceValue, SkipInv, SkipType, Searching
  <2>2. /\ DOMAIN nodes' = DOMAIN nodes /\ IsHeap(nodes') /\ Nested(nodes')
        /\ \A p \in DOMAIN nodes : nodes'[p].nexts = nodes[p].nexts
    BY SMTT(30), <1>0, <2>1, ReplacedNodes DEF Revalues
  <2> QED
    BY Zenon, <1>1, <2>1, <2>2
<1>5. CASE Link
  <2>1. PICK n \in Addresses \ DOMAIN nodes : nodes' = LinkedTo(n)
    BY Zenon, <1>5 DEF Link
  <2>2. /\ ~Found /\ call.op = "insert" /\ call.height \in 0..MaxHeight
        /\ length' = length + 1 /\ height' = IF call.height > height THEN call.height ELSE height
    BY Zenon, <1>5 DEF Link, SkipInv, SkipType
  <2>3. /\ IsHeap(nodes') /\ Nested(nodes') /\ Extends(nodes', n) /\ DOMAIN nodes'[n].nexts = 0..call.height
    BY Zenon, <1>0, <2>1, <2>2, LinkedNodes, LinkedIsHeap, LinkedIsNested
  <2>4. DOMAIN nodes' = DOMAIN nodes \cup {n} /\ \A p \in DOMAIN nodes : DOMAIN nodes'[p].nexts = DOMAIN nodes[p].nexts
    BY Zenon, <2>3 DEF Extends
  <2>5. IsFiniteSet(DOMAIN nodes')
    BY <1>1, <2>4, FS_AddElement
  <2>6. DOMAIN nodes' \ {HeadNode} = (DOMAIN nodes \ {HeadNode}) \cup {n} /\ n \notin DOMAIN nodes \ {HeadNode}
    BY Zenon, <2>4, AddressAssumption
  <2>7. Cardinality(DOMAIN nodes' \ {HeadNode}) = length + 1
    BY Zenon, <1>1, <1>2, <2>6, FS_AddElement
  <2>8. height' \in 0..MaxHeight /\ 0..height \subseteq 0..height' /\ 0..call.height \subseteq 0..height'
    BY <1>1, <2>2, HeightAssumption
  <2>9. \A p \in DOMAIN nodes' \ {HeadNode} : DOMAIN nodes'[p].nexts \subseteq 0..height'
    BY Zenon, <1>1, <2>3, <2>4, <2>8
  <2> QED
    BY <1>1, <2>2, <2>3, <2>5, <2>7, <2>8, <2>9
<1>6. CASE Unlink
  <2> DEFINE n == Hit
  <2>1. Found /\ nodes' = UnlinkedFrom(n) /\ length' = length - 1 /\ height' = height
    BY Zenon, <1>6 DEF Unlink
  <2>2. /\ n \in DOMAIN nodes \ {HeadNode} /\ IsHeap(nodes') /\ Nested(nodes') /\ Reduces(nodes', n)
    BY Zenon, <1>0, <2>1, SearchHits, UnlinkedNodes, UnlinkedIsNested
  <2> HIDE DEF n
  <2>3. /\ DOMAIN nodes' = DOMAIN nodes \ {n}
        /\ \A p \in DOMAIN nodes \ {n} : DOMAIN nodes'[p].nexts = DOMAIN nodes[p].nexts
    BY Zenon, <2>2 DEF Reduces
  <2>4. IsFiniteSet(DOMAIN nodes')
    BY Zenon, <1>1, <2>3, FS_Subset
  <2>5. DOMAIN nodes' \ {HeadNode} = (DOMAIN nodes \ {HeadNode}) \ {n}
    BY Zenon, <2>3
  <2>6. Cardinality(DOMAIN nodes' \ {HeadNode}) = length - 1 /\ Cardinality(DOMAIN nodes' \ {HeadNode}) \in Nat
    <3>1. Cardinality((DOMAIN nodes \ {HeadNode}) \ {n}) = Cardinality(DOMAIN nodes \ {HeadNode}) - 1
      BY Zenon, <1>2, <2>2, FS_RemoveElement
    <3>2. IsFiniteSet(DOMAIN nodes' \ {HeadNode})
      BY Zenon, <2>4, FS_Difference
    <3> QED
      BY Zenon, <1>1, <1>2, <2>5, <3>1, <3>2, FS_CardinalityType
  <2> QED
    BY Zenon, <1>1, <2>1, <2>2, <2>3, <2>4, <2>6
<1> QED
  BY Zenon, <1>3, <1>4, <1>5, <1>6 DEF Apply

(***************************************************************************)
(* and as a map the list changes as it should.                             *)
(***************************************************************************)
Bound(k) == {e.val : e \in {x \in Entries(nodes) : x.key = k}}

\* The value at the node that was found is the value of the key.
LEMMA FoundIsBound ==
  ASSUME SkipInv, pc = "apply"
  PROVE  Bound(call.key) = IF Found THEN {nodes[Hit].val} ELSE {}
<1>1. \A e \in Entries(nodes) :
        \E p \in DOMAIN nodes \ {HeadNode} : e = [key |-> nodes[p].key, val |-> nodes[p].val]
  BY Zenon DEF Entries
<1>2. \A p \in DOMAIN nodes : nodes[p].key = call.key => Found /\ p = Hit
  BY Zenon, SearchMisses
<1>3. ASSUME NEW e \in Entries(nodes), e.key = call.key PROVE Found /\ e.val = nodes[Hit].val
  BY <1>1, <1>2, <1>3
<1>4. CASE Found
  <2> DEFINE e == [key |-> nodes[Hit].key, val |-> nodes[Hit].val]
  <2>1. e \in Entries(nodes) /\ e.key = call.key /\ e.val = nodes[Hit].val
    BY Zenon, <1>4, SearchHits DEF Entries
  <2> HIDE DEF e
  <2> QED
    BY Zenon, <1>3, <1>4, <2>1 DEF Bound
<1>5. CASE ~Found
  BY Zenon, <1>3, <1>5 DEF Bound
<1> QED
  BY Zenon, <1>4, <1>5

Without(es, k) == {e \in es : e.key # k}
Others(ns, n) == {[key |-> ns[p].key, val |-> ns[p].val] : p \in DOMAIN ns \ {HeadNode, n}}

\* Two heaps that differ at node n, the one of key k, have the same other entries.
LEMMA OtherEntries ==
  ASSUME NEW ns, NEW ms, NEW n, NEW k,
         DOMAIN ns \ {HeadNode, n} = DOMAIN ms \ {HeadNode, n},
         \A p \in DOMAIN ns \ {HeadNode, n} :
           ms[p].key = ns[p].key /\ ms[p].val = ns[p].val /\ ns[p].key # k,
         n \in DOMAIN ns => ns[n].key = k
  PROVE  Others(ms, n) = Without(Entries(ns), k)
<1> DEFINE E == Others(ns, n)
<1>1. E = Others(ms, n)
  BY Zenon DEF Others
<1>2. \A e \in E : e.key # k
  BY DEF Others
<1>3. ASSUME NEW p \in DOMAIN ns \ {HeadNode}, ns[p].key # k PROVE p \in DOMAIN ns \ {HeadNode, n}
  BY Zenon, <1>3
<1>4. \A e \in Entries(ns) : e.key # k => e \in E
  BY <1>3 DEF Entries, Others
<1>5. E \subseteq Entries(ns)
  BY Zenon DEF Entries, Others
<1> QED
  BY Zenon, <1>1, <1>2, <1>4, <1>5 DEF Without

\* insert leaves the key with the value, whether it was there or not,
LEMMA EntryBound ==
  ASSUME NEW ns, NEW ms, NEW n, NEW k, NEW v,
         DOMAIN ns \ {HeadNode, n} = DOMAIN ms \ {HeadNode, n},
         \A p \in DOMAIN ns \ {HeadNode, n} :
           ms[p].key = ns[p].key /\ ms[p].val = ns[p].val /\ ns[p].key # k,
         n \in DOMAIN ns => ns[n].key = k,
         n \in DOMAIN ms \ {HeadNode}, ms[n].key = k, ms[n].val = v
  PROVE  Entries(ms) = Without(Entries(ns), k) \cup {[key |-> k, val |-> v]}
<1>1. Others(ms, n) = Without(Entries(ns), k)
  BY OtherEntries
<1>2. DOMAIN ms \ {HeadNode} = (DOMAIN ms \ {HeadNode, n}) \cup {n}
  BY Zenon
<1>3. Entries(ms) = Others(ms, n) \cup {[key |-> k, val |-> v]}
  BY Zenon, <1>2 DEF Entries, Others
<1> QED
  BY Zenon, <1>1, <1>3

\* and remove leaves it without one.
LEMMA EntryGone ==
  ASSUME NEW ns, NEW ms, NEW n, NEW k,
         DOMAIN ns \ {HeadNode, n} = DOMAIN ms \ {HeadNode, n},
         \A p \in DOMAIN ns \ {HeadNode, n} :
           ms[p].key = ns[p].key /\ ms[p].val = ns[p].val /\ ns[p].key # k,
         n \in DOMAIN ns, ns[n].key = k, n \notin DOMAIN ms
  PROVE  Entries(ms) = Without(Entries(ns), k)
<1>1. Others(ms, n) = Without(Entries(ns), k)
  BY OtherEntries
<1>2. Entries(ms) = Others(ms, n)
  <2>1. DOMAIN ms \ {HeadNode} = DOMAIN ms \ {HeadNode, n}
    BY Zenon
  <2> QED
    BY Zenon, <2>1 DEF Entries, Others
<1> QED
  BY Zenon, <1>1, <1>2

\* What get, insert and remove do to the entries, and return.
LEMMA ApplyEntries ==
  ASSUME SkipInv, Apply
  PROVE  /\ Entries(nodes') = Result(call, Entries(nodes))
         /\ {ret'} \ {None} = Bound(call.key) /\ ret' \in Vals \cup {None}
<1>0. pc = "apply" /\ Searching
  BY Zenon DEF Apply, ReturnValue, ReplaceValue, Link, Unlink, NothingToRemove, Searching
<1>1. IsHeap(nodes)
  BY Zenon DEF SkipInv, SkipType
<1>2. \A p \in DOMAIN nodes : nodes[p].key = call.key => Found /\ p = Hit
  BY Zenon, <1>0, SearchMisses
<1>3. Found => /\ Hit \in DOMAIN nodes \ {HeadNode} /\ nodes[Hit].key = call.key
               /\ nodes[Hit].val \in Vals /\ nodes[Hit].val # None
  BY Zenon, <1>0, <1>1, SearchHits, SkipKeysAssumption DEF IsHeap
<1>4. ret' = IF Found THEN nodes[Hit].val ELSE None
  BY Zenon DEF Apply, ReturnValue, ReplaceValue, Link, Unlink, NothingToRemove
<1>5. {ret'} \ {None} = Bound(call.key) /\ ret' \in Vals \cup {None}
  BY Zenon, <1>0, <1>3, <1>4, FoundIsBound
<1>6. CASE ReturnValue
  <2>1. call.op = "get" /\ nodes' = nodes
    BY Zenon, <1>6 DEF ReturnValue, theList
  <2> QED
    BY Zenon, <1>5, <2>1 DEF Result
<1>7. CASE NothingToRemove
  <2>1. call.op = "remove" /\ nodes' = nodes /\ ~Found
    BY Zenon, <1>7 DEF NothingToRemove, theList
  <2>2. \A e \in Entries(nodes) : e.key # call.key
    BY <1>2, <2>1 DEF Entries
  <2>3. Result(call, Entries(nodes)) = {e \in Entries(nodes) : e.key # call.key}
    BY Zenon, <2>1 DEF Result
  <2> QED
    BY Zenon, <1>5, <2>1, <2>2, <2>3
<1>8. CASE ReplaceValue
  <2>1. call.op = "insert" /\ Found /\ call.val \in Vals /\ nodes' = Replaced(call.val)
    BY Zenon, <1>0, <1>8 DEF Replaced, ReplaceValue, SkipInv, SkipType
  <2>2. /\ DOMAIN nodes' = DOMAIN nodes /\ nodes'[Hit].val = call.val
        /\ \A p \in DOMAIN nodes : nodes'[p].key = nodes[p].key
        /\ \A p \in DOMAIN nodes : p # Hit => nodes'[p].val = nodes[p].val
    BY SMTT(30), <1>0, <2>1, ReplacedNodes DEF Revalues
  <2>3. Entries(nodes') = Without(Entries(nodes), call.key) \cup {[key |-> call.key, val |-> call.val]}
    <3>0. PICK h \in DOMAIN nodes \ {HeadNode} : h = Hit
      BY Zenon, <1>3, <2>1
    <3>1. \A p \in DOMAIN nodes \ {HeadNode, h} :
            /\ nodes'[p].key = nodes[p].key /\ nodes'[p].val = nodes[p].val
            /\ nodes[p].key # call.key
      BY Zenon, <1>2, <2>2, <3>0
    <3>2. /\ h \in DOMAIN nodes' \ {HeadNode} /\ nodes'[h].key = call.key
          /\ nodes[h].key = call.key /\ nodes'[h].val = call.val
      BY Zenon, <1>3, <2>1, <2>2, <3>0
    <3>3. DOMAIN nodes \ {HeadNode, h} = DOMAIN nodes' \ {HeadNode, h}
      BY Zenon, <2>2
    <3> QED
      BY SMTT(30), <3>1, <3>2, <3>3, EntryBound
  <2> QED
    BY Zenon, <1>5, <2>1, <2>3 DEF Result, Without
<1>9. CASE Link
  <2>1. PICK n \in Addresses \ DOMAIN nodes : nodes' = LinkedTo(n)
    BY <1>9 DEF Link
  <2>2. ~Found /\ call.op = "insert"
    BY Zenon, <1>9 DEF Link
  <2>3. Extends(nodes', n)
    BY Zenon, <1>0, <2>1, <2>2, LinkedNodes
  <2>4. /\ DOMAIN nodes' = DOMAIN nodes \cup {n} /\ nodes'[n].key = call.key /\ nodes'[n].val = call.val
        /\ \A p \in DOMAIN nodes : nodes'[p].key = nodes[p].key /\ nodes'[p].val = nodes[p].val
    BY Zenon, <2>3 DEF Extends
  <2>5. n # HeadNode
    BY Zenon, AddressAssumption
  <2>6. Entries(nodes') = Without(Entries(nodes), call.key) \cup {[key |-> call.key, val |-> call.val]}
    <3>1. \A p \in DOMAIN nodes \ {HeadNode, n} :
            /\ nodes'[p].key = nodes[p].key /\ nodes'[p].val = nodes[p].val
            /\ nodes[p].key # call.key
      BY Zenon, <1>2, <2>2, <2>4
    <3>2. /\ DOMAIN nodes \ {HeadNode, n} = DOMAIN nodes' \ {HeadNode, n}
          /\ n \in DOMAIN nodes' \ {HeadNode} /\ n \notin DOMAIN nodes
      BY Zenon, <2>1, <2>4, <2>5
    <3>3. nodes'[n].key = call.key /\ nodes'[n].val = call.val
      BY Zenon, <2>4
    <3>4. n \in DOMAIN nodes => nodes[n].key = call.key
      BY Zenon, <3>2
    <3> DEFINE k == call.key
               v == call.val
    <3> HIDE DEF k, v
    <3>5. Entries(nodes') = Without(Entries(nodes), k) \cup {[key |-> k, val |-> v]}
      <4>1. \A p \in DOMAIN nodes \ {HeadNode, n} :
            nodes'[p].key = nodes[p].key /\ nodes'[p].val = nodes[p].val /\ nodes[p].key # k
        BY Zenon, <3>1 DEF k
      <4>2. nodes'[n].key = k /\ nodes'[n].val = v /\ (n \in DOMAIN nodes => nodes[n].key = k)
        BY Zenon, <3>3, <3>4 DEF k, v
      <4> QED
        BY <3>2, <4>1, <4>2, EntryBound
    <3> QED
      BY Zenon, <3>5 DEF k, v
  <2> QED
    BY Zenon, <1>5, <2>2, <2>6 DEF Result, Without
<1>10. CASE Unlink
  <2>1. Found /\ call.op = "remove" /\ nodes' = UnlinkedFrom(Hit)
    BY Zenon, <1>10 DEF Unlink
  <2>2. Reduces(nodes', Hit)
    BY Zenon, <1>3, <2>1, UnlinkedNodes
  <2>3. /\ DOMAIN nodes' = DOMAIN nodes \ {Hit}
        /\ \A p \in DOMAIN nodes \ {Hit} : nodes'[p].key = nodes[p].key /\ nodes'[p].val = nodes[p].val
    BY Zenon, <2>2 DEF Reduces
  <2>4. Entries(nodes') = Without(Entries(nodes), call.key)
    <3>0. PICK h \in DOMAIN nodes \ {HeadNode} : h = Hit
      BY Zenon, <1>3, <2>1
    <3>1. \A p \in DOMAIN nodes \ {HeadNode, h} :
            /\ nodes'[p].key = nodes[p].key /\ nodes'[p].val = nodes[p].val
            /\ nodes[p].key # call.key
      BY Zenon, <1>2, <2>3, <3>0
    <3>2. DOMAIN nodes \ {HeadNode, h} = DOMAIN nodes' \ {HeadNode, h} /\ h \notin DOMAIN nodes'
      BY Zenon, <2>3, <3>0
    <3>3. nodes[h].key = call.key
      BY Zenon, <1>3, <2>1, <3>0
    <3> QED
      BY Zenon, <3>1, <3>2, <3>3, EntryGone
  <2> QED
    BY Zenon, <1>5, <2>1, <2>4 DEF Result, Without
<1> QED
  BY Zenon, <1>6, <1>7, <1>8, <1>9, <1>10 DEF Apply

(***************************************************************************)
(* Every step preserves SkipInv.                                           *)
(***************************************************************************)
LEMMA ApplyStep ==
  ASSUME SkipInv, Apply
  PROVE  SkipInv'
<1>1. /\ pc = "apply" /\ pc' = (IF iter = Null THEN "idle" ELSE "clone")
      /\ UNCHANGED <<call, cur, level, updates, source, iter>>
  BY Zenon DEF Apply, ReturnValue, ReplaceValue, Link, Unlink, NothingToRemove, Return, copying
<1>2. SkipType'
  BY Zenon, <1>1, ApplyLists, ApplyEntries DEF SkipInv, SkipType, Searching
<1>3. ListInv'
  BY Zenon, ApplyLists DEF ListInv
<1>4. FindInv' /\ DisposeInv'
  BY Zenon, <1>1 DEF FindInv, DisposeInv, Searching
<1>5. CloneInv'
  <2>1. CASE iter = Null
    BY Zenon, <1>1, <2>1 DEF CloneInv
  <2>2. CASE iter # Null
    <3> DEFINE k == source[iter].key
               others == {e \in Entries(nodes) : e.key # k}
    <3>1. /\ IsHeap(source) /\ Linked(source, 0) /\ iter \in DOMAIN source \ {HeadNode}
          /\ call.op = "insert" /\ call.key = k /\ call.val = source[iter].val
          /\ Entries(nodes) = {e \in Entries(source) : e.key < k}
      BY Zenon, <1>1, <2>2 DEF SkipInv, CloneInv, Searching
    <3>2. \A p \in DOMAIN source : source[p].key \in Nat /\ (source[p].key = k => p = iter)
      BY Zenon, <3>1, HeapFacts
    <3>3. \A e \in Entries(source) :
            e.key \in Nat /\ (e.key = k => e = [key |-> k, val |-> source[iter].val])
      BY <3>2 DEF Entries
    <3>4. [key |-> k, val |-> source[iter].val] \in Entries(source)
      BY Zenon, <3>1 DEF Entries
    <3>5. Entries(nodes') = others \cup {[key |-> k, val |-> source[iter].val]}
      BY Zenon, <3>1, ApplyEntries DEF Result
    <3>6. k \in Nat
      BY Zenon, <3>1, <3>2
    <3>7. Entries(nodes') = {e \in Entries(source) : e.key =< k}
      BY SMTT(30), <3>1, <3>3, <3>4, <3>5, <3>6
    <3> QED
      BY Zenon, <1>1, <2>2, <3>1, <3>7 DEF CloneInv, Searching
  <2> QED
    BY Zenon, <2>1, <2>2
<1> QED
  BY Zenon, <1>2, <1>3, <1>4, <1>5 DEF SkipInv

\* get_lower_bound_and_updates begins: only the head is above height_.
LEMMA SearchBegins ==
  ASSUME SkipInv, UNCHANGED theList, ret' \in Vals \cup {None}, iter' \in Addresses \cup {HeadNode, Null},
         NEW o \in {"get", "insert", "remove"}, NEW k \in Keys, NEW v \in Vals \cup {None}, NEW h \in 0..MaxHeight,
         o = "insert" => v \in Vals, pc \in {"idle", "clone"}, StartSearch(Call(o, k, v, h), height)
  PROVE  SkipType' /\ ListInv' /\ FindInv' /\ DisposeInv' /\ pc' = "search"
<1> DEFINE c == Call(o, k, v, h)
<1>1. /\ pc' = "search" /\ call' = c /\ cur' = HeadNode /\ level' = height
      /\ updates' = [i \in 0..MaxHeight |-> IF i > height THEN HeadNode ELSE Null]
      /\ nodes' = nodes /\ length' = length /\ height' = height
  BY Zenon DEF StartSearch, theList
<1>2. IsHeap(nodes) /\ height \in 0..MaxHeight
  BY Zenon DEF SkipInv, SkipType
<1>3. /\ c.key \in Keys /\ c.key \in Nat /\ c.key > 0 /\ c.op \in {"get", "insert", "remove"}
      /\ c \in [op : {"new", "get", "insert", "remove", "clear", "clone"}, key : Keys \cup {0},
                val : Vals \cup {None}, height : 0..MaxHeight]
      /\ c.op = "insert" => c.val \in Vals
  BY SMTT(30), SkipKeysAssumption DEF Call
<1> HIDE DEF c
<1>4. SkipType'
  <2>1. updates' \in [0..MaxHeight -> Addresses \cup {HeadNode, Null}]
    BY Zenon, <1>1
  <2> QED
    BY Zenon, <1>1, <1>3, <2>1 DEF SkipInv, SkipType, Searching
<1>5. ListInv'
  BY Zenon, <1>1 DEF SkipInv, ListInv
<1>6. \A i \in 0..MaxHeight : HeadNode \in At(nodes, i)
  BY Zenon, <1>2, AllAtZero
<1>7. nodes[HeadNode].key = 0
  BY Zenon, <1>2, HeapFacts
<1>8. ASSUME NEW i \in 0..MaxHeight, i > height PROVE LastBefore(nodes, i, HeadNode, c.key)
  <2>1. \A p \in DOMAIN nodes \ {HeadNode} : DOMAIN nodes[p].nexts \subseteq 0..height
    BY Zenon DEF SkipInv, ListInv
  <2>2. \A q \in At(nodes, i) : q = HeadNode
    BY SMTT(30), <1>2, <1>8, <2>1 DEF At
  <2> QED
    BY SMTT(30), <1>3, <1>6, <1>7, <2>2 DEF LastBefore
<1>9. FindInv'
  <2>1. \A i \in 0..MaxHeight : i > height => updates'[i] = HeadNode
    BY Zenon, <1>1
  <2> QED
    BY SMTT(30), <1>1, <1>2, <1>3, <1>6, <1>7, <1>8, <2>1 DEF FindInv, Searching
<1> QED
  BY Zenon, <1>1, <1>4, <1>5, <1>9 DEF DisposeInv

\* get, insert and remove begin.
LEMMA CallStep ==
  ASSUME SkipInv, \/ \E k \in Keys : Get(k) \/ Remove(k)
                  \/ \E k \in Keys, v \in Vals, h \in 0..MaxHeight : Insert(k, v, h)
  PROVE  SkipInv'
<1>1. /\ pc = "idle" /\ UNCHANGED <<theList, copying>> /\ ret' = None
  BY Zenon DEF Get, Remove, Insert
<1>2. PICK o \in {"get", "insert", "remove"}, k \in Keys, v \in Vals \cup {None}, h \in 0..MaxHeight :
        StartSearch(Call(o, k, v, h), height) /\ (o = "insert" => v \in Vals)
  <2>1. 0 \in 0..MaxHeight /\ None \in Vals \cup {None}
    BY HeightAssumption
  <2>2. CASE \E k \in Keys : Get(k)
    BY Zenon, <2>1, <2>2 DEF Get
  <2>3. CASE \E k \in Keys : Remove(k)
    BY Zenon, <2>1, <2>3 DEF Remove
  <2>4. CASE \E k \in Keys, v \in Vals, h \in 0..MaxHeight : Insert(k, v, h)
    BY Zenon, <2>4 DEF Insert
  <2> QED
    BY Zenon, <2>2, <2>3, <2>4
<1>3. iter = Null /\ iter' = Null
  BY Zenon, <1>1 DEF SkipInv, CloneInv, copying
<1>4. SkipType' /\ ListInv' /\ FindInv' /\ DisposeInv' /\ pc' = "search"
  BY Zenon, <1>1, <1>2, <1>3, SearchBegins DEF SkipInv, SkipType
<1> QED
  BY Zenon, <1>3, <1>4 DEF SkipInv, CloneInv

\* The loop of clone inserts the next entry of the list it copies.
LEMMA CloneNextStep ==
  ASSUME SkipInv, NEW h \in 0..MaxHeight, CloneNext(h)
  PROVE  SkipInv'
<1> DEFINE n == NextOf(source, iter, 0)
           c == Call("insert", source[n].key, source[n].val, h)
<1>1. /\ pc = "clone" /\ n # Null /\ iter' = n /\ StartSearch(c, height)
      /\ UNCHANGED theList /\ source' = source /\ ret' = ret /\ nodes' = nodes
  BY Zenon DEF CloneNext, theList
<1>2. /\ IsHeap(source) /\ Linked(source, 0) /\ iter \in DOMAIN source
      /\ Entries(nodes) = {e \in Entries(source) : e.key =< source[iter].key}
  BY Zenon, <1>1 DEF SkipInv, CloneInv
<1>3. iter \in At(source, 0) /\ At(source, 0) = DOMAIN source /\ n = source[iter].nexts[0]
  <2>1. iter \in At(source, 0) /\ At(source, 0) = DOMAIN source
    BY Zenon, <1>2, AllAtZero
  <2>2. 0 \in DOMAIN source[iter].nexts
    BY Zenon, <2>1 DEF At
  <2> QED
    BY Zenon, <2>1, <2>2 DEF NextOf
<1>4. Follows(source, 0, iter, n)
  BY Zenon, <1>2, <1>3 DEF Linked
<1>5. /\ n \in DOMAIN source /\ source[iter].key < source[n].key
      /\ \A q \in DOMAIN source : source[iter].key < source[q].key => source[n].key =< source[q].key
  BY Zenon, <1>1, <1>3, <1>4 DEF Follows
<1>6. \A q \in DOMAIN source : source[q].key \in Nat
  BY Zenon, <1>2, HeapFacts
<1>7. n # HeadNode
  BY <1>2, <1>5, <1>6, HeapFacts
<1>8. source[n].key \in Keys /\ source[n].val \in Vals /\ n \in Addresses
  BY Zenon, <1>2, <1>5, <1>7 DEF IsHeap
<1>9. c.op = "insert" /\ c.val = source[n].val /\ c.key = source[n].key /\ call' = c
  BY Zenon, <1>1 DEF Call, StartSearch
<1>10. SkipType' /\ ListInv' /\ FindInv' /\ DisposeInv' /\ pc' = "search"
  <2> HIDE DEF n
  <2>1. ret' \in Vals \cup {None} /\ iter' \in Addresses \cup {HeadNode, Null}
    BY Zenon, <1>1, <1>8 DEF SkipInv, SkipType
  <2> QED
    BY Zenon, <1>1, <1>8, <2>1, SearchBegins
<1>11. Entries(nodes) = {e \in Entries(source) : e.key < source[n].key}
  <2>1. \A q \in DOMAIN source : source[q].key =< source[iter].key <=> source[q].key < source[n].key
    BY <1>2, <1>5, <1>6
  <2>2. \A e \in Entries(source) : e.key =< source[iter].key <=> e.key < source[n].key
    BY SMTT(30), <2>1 DEF Entries
  <2> QED
    BY Zenon, <1>2, <2>2
<1>12. CloneInv'
  <2> HIDE DEF c, n
  <2> QED
    BY Zenon, <1>1, <1>2, <1>5, <1>7, <1>9, <1>10, <1>11 DEF CloneInv, Searching
<1> QED
  BY Zenon, <1>10, <1>12 DEF SkipInv

\* The inner loop of the search passes a node before the key.
LEMMA ForwardStep ==
  ASSUME SkipInv, Forward
  PROVE  SkipInv'
<1>1. /\ pc = "search" /\ pc' = pc /\ cur' = Ahead /\ Ahead # Null /\ nodes[Ahead].key < call.key
      /\ UNCHANGED <<nodes, length, height, source, iter, call, level, updates, ret>>
  BY Zenon DEF Forward, Behind, theList, copying
<1>2. /\ IsHeap(nodes) /\ Nested(nodes) /\ level \in 0..MaxHeight /\ cur \in At(nodes, level)
  BY Zenon, <1>1 DEF SkipInv, SkipType, ListInv, FindInv, Searching
<1>3. Ahead = nodes[cur].nexts[level]
  BY Zenon, <1>2 DEF Ahead, NextOf, At
<1>4. Ahead \in At(nodes, level)
  BY Zenon, <1>1, <1>2, <1>3 DEF Nested, Linked, Follows
<1>5. Ahead \in Addresses \cup {HeadNode}
  BY Zenon, <1>2, <1>4 DEF At, IsHeap
<1>6. SkipType'
  BY Zenon, <1>1, <1>5 DEF SkipInv, SkipType, Searching
<1>7. ListInv'
  BY Zenon, <1>1 DEF SkipInv, ListInv
<1>8. FindInv'
  BY Zenon, <1>1, <1>4 DEF SkipInv, FindInv, Searching
<1>9. CloneInv'
  BY Zenon, <1>1 DEF SkipInv, CloneInv, Searching
<1> QED
  BY Zenon, <1>1, <1>6, <1>7, <1>8, <1>9 DEF SkipInv, DisposeInv

\* The outer loop of the search has found the predecessor at one height.
LEMMA DownStep ==
  ASSUME SkipInv, Down
  PROVE  SkipInv'
<1>1. /\ pc = "search" /\ ~Behind(Ahead) /\ updates' = [updates EXCEPT ![level] = cur]
      /\ level = 0 => pc' = "apply" /\ level' = 0
      /\ level # 0 => pc' = "search" /\ level' = level - 1
      /\ UNCHANGED <<nodes, length, height, source, iter, call, cur, ret>>
  BY Zenon DEF Down, theList, copying
<1>2. /\ IsHeap(nodes) /\ Nested(nodes) /\ level \in 0..MaxHeight /\ height \in 0..MaxHeight
      /\ cur \in At(nodes, level) /\ nodes[cur].key < call.key
      /\ level =< height /\ call.key \in Keys /\ updates \in [0..MaxHeight -> Addresses \cup {HeadNode, Null}]
      /\ cur \in Addresses \cup {HeadNode}
      /\ \A i \in 0..MaxHeight : i > level => LastBefore(nodes, i, updates[i], call.key)
  BY Zenon, <1>1 DEF SkipInv, SkipType, ListInv, FindInv, Searching
<1>3. Ahead = nodes[cur].nexts[level]
  BY Zenon, <1>2 DEF Ahead, NextOf, At
<1>4. call.key \in Nat
  BY Zenon, <1>2, SkipKeysAssumption
<1>5. LastBefore(nodes, level, cur, call.key)
  BY Zenon, <1>1, <1>2, <1>3, <1>4, StopsAtLast DEF Nested, Behind
<1>6. /\ updates'[level] = cur /\ updates' \in [0..MaxHeight -> Addresses \cup {HeadNode, Null}]
      /\ \A i \in 0..MaxHeight : i # level => updates'[i] = updates[i]
  BY Zenon, <1>1, <1>2
<1>7. level' \in 0..MaxHeight /\ level' =< level /\ level' \in 0..level
      /\ (level # 0 => \A i \in 0..MaxHeight : i > level' => i = level \/ i > level)
  BY SMTT(30), <1>1, <1>2, HeightAssumption
<1>8. cur \in At(nodes, level')
  BY SMTT(30), <1>2, <1>7, LowerHeight
<1>9. SkipType'
  BY Zenon, <1>1, <1>6, <1>7 DEF SkipInv, SkipType, Searching
<1>10. ListInv'
  BY Zenon, <1>1 DEF SkipInv, ListInv
<1>11. \A i \in 0..MaxHeight : i > level' => LastBefore(nodes, i, updates'[i], call.key)
  BY Zenon, <1>1, <1>2, <1>5, <1>6, <1>7
<1>12. level = 0 => LastBefore(nodes, 0, updates'[0], call.key) /\ updates'[0] = cur
  BY Zenon, <1>5, <1>6
<1>13. level' =< height
  BY SMTT(30), <1>2, <1>7
<1>14. FindInv'
  BY Zenon, <1>1, <1>2, <1>8, <1>11, <1>12, <1>13 DEF FindInv, Searching
<1>15. CloneInv'
  BY Zenon, <1>1 DEF SkipInv, CloneInv, Searching
<1> QED
  BY Zenon, <1>1, <1>9, <1>10, <1>14, <1>15 DEF SkipInv, DisposeInv

\* An empty list: a new one, and one that is cleared.
LEMMA EmptyList ==
  /\ IsHeap(NoNodes) /\ Nested(NoNodes) /\ Entries(NoNodes) = {} /\ DOMAIN NoNodes = {HeadNode}
  /\ IsFiniteSet(DOMAIN NoNodes) /\ Cardinality(DOMAIN NoNodes \ {HeadNode}) = 0
<1>1. /\ DOMAIN NoNodes = {HeadNode} /\ NoNodes[HeadNode] = Dummy
      /\ NoNodes \in [{HeadNode} -> {Dummy}]
  BY Zenon DEF NoNodes
<1>2. [i \in 0..MaxHeight |-> Null] \in [0..MaxHeight -> Addresses \cup {Null}]
  BY Zenon
<1>3. /\ Dummy \in Node /\ Dummy.key = 0 /\ DOMAIN Dummy.nexts = 0..MaxHeight
      /\ \A i \in 0..MaxHeight : Dummy.nexts[i] = Null
  BY <1>2, HeightAssumption DEF Dummy, Node
<1>4. IsHeap(NoNodes)
  BY Zenon, <1>1, <1>3 DEF IsHeap
<1>5. Nested(NoNodes)
  BY SMTT(30), <1>1, <1>3 DEF Nested, Linked, Follows, At
<1>6. Entries(NoNodes) = {}
  BY Zenon, <1>1 DEF Entries
<1>7. DOMAIN NoNodes \ {HeadNode} = {}
  BY Zenon, <1>1
<1>8. Cardinality(DOMAIN NoNodes \ {HeadNode}) = 0
  <2>1. Cardinality({}) = 0
    BY Zenon, FS_EmptySet
  <2> QED
    BY Zenon, <1>7, <2>1
<1>9. IsFiniteSet(DOMAIN NoNodes)
  <2>1. IsFiniteSet({HeadNode})
    BY Zenon, FS_Singleton
  <2> QED
    BY Zenon, <1>1, <2>1
<1> QED
  BY Zenon, <1>1, <1>4, <1>5, <1>6, <1>8, <1>9

\* A new list.
LEMMA InitSkip == Init => SkipInv
<1> SUFFICES ASSUME Init PROVE SkipInv
  BY Zenon
<1>1. /\ nodes = NoNodes /\ length = 0 /\ height = 0 /\ call = Call("new", 0, None, 0) /\ pc = "idle"
      /\ ret = None /\ cur = HeadNode /\ level = 0 /\ updates = [i \in 0..MaxHeight |-> Null]
      /\ iter = Null
  BY Zenon DEF Init
<1>2. SkipType
  BY SMTT(30), <1>1, EmptyList, HeightAssumption DEF SkipType, Searching, Call
<1>3. ListInv
  BY Zenon, <1>1, EmptyList DEF ListInv
<1> QED
  BY Zenon, <1>1, <1>2, <1>3 DEF SkipInv, FindInv, DisposeInv, CloneInv, Searching

\* clear begins.
LEMMA ClearStep ==
  ASSUME SkipInv, Clear
  PROVE  SkipInv'
<1>1. /\ pc = "idle" /\ pc' = "dispose" /\ call' = Call("clear", 0, None, 0) /\ cur' = HeadNode /\ ret' = None
      /\ UNCHANGED <<nodes, length, height, source, iter, level, updates>>
  BY Zenon DEF Clear, theList, copying
<1>2. SkipType'
  BY SMTT(30), <1>1, HeightAssumption DEF SkipInv, SkipType, Searching, Call
<1>3. DisposeInv'
  BY SMTT(30), <1>1, HeightAssumption DEF SkipInv, SkipType, ListInv, IsHeap, DisposeInv, Nested
<1> QED
  BY Zenon, <1>1, <1>2, <1>3 DEF SkipInv, ListInv, FindInv, CloneInv, Searching

\* clone begins with an empty list.
LEMMA CloneStep ==
  ASSUME SkipInv, Clone
  PROVE  SkipInv'
<1>1. /\ pc = "idle" /\ pc' = "clone" /\ call' = Call("clone", 0, None, 0) /\ ret' = None
      /\ source' = nodes /\ nodes' = NoNodes /\ length' = 0 /\ height' = 0 /\ iter' = HeadNode
      /\ UNCHANGED <<cur, level, updates>>
  BY Zenon DEF Clone
<1>2. IsHeap(nodes) /\ Linked(nodes, 0) /\ HeadNode \in DOMAIN nodes
  BY SMTT(30), <1>1, HeightAssumption DEF SkipInv, SkipType, ListInv, IsHeap, Nested
<1>3. SkipType'
  BY SMTT(30), <1>1, EmptyList, HeightAssumption DEF SkipInv, SkipType, Searching, Call
<1>4. ListInv'
  BY ZenonT(30), <1>1, EmptyList DEF ListInv
<1>5. CloneInv'
  <2>1. \A p \in DOMAIN nodes \ {HeadNode} : nodes[p].key > 0 /\ nodes[p].key \in Nat
    BY Zenon, <1>2, HeapFacts
  <2>2. \A e \in Entries(nodes) : ~ (e.key =< 0)
    BY <2>1 DEF Entries
  <2>3. nodes[HeadNode].key = 0
    BY Zenon, <1>2, HeapFacts
  <2>4. Entries(nodes)' = {e \in Entries(source') : e.key =< source'[iter'].key}
    <3>1. {e \in Entries(nodes) : e.key =< 0} = {}
      BY Zenon, <2>2
    <3>2. Entries(nodes') = {} /\ source' = nodes /\ source'[iter'].key = 0
      BY Zenon, <1>1, <2>3, EmptyList
    <3> QED
      BY Zenon, <3>1, <3>2
  <2>5. iter' # Null /\ pc' = "clone"
    BY Zenon, <1>1, AddressAssumption
  <2> QED
    BY Zenon, <1>1, <1>2, <2>4, <2>5 DEF CloneInv, Searching
<1> QED
  BY Zenon, <1>1, <1>3, <1>4, <1>5 DEF SkipInv, FindInv, DisposeInv, Searching

\* clone() has reached the end of the list it copies.
LEMMA CloneEnds ==
  ASSUME SkipInv, CloneEnd
  PROVE  Entries(nodes) = Entries(source)
<1>1. /\ IsHeap(source) /\ Linked(source, 0) /\ iter \in DOMAIN source /\ NextOf(source, iter, 0) = Null
      /\ Entries(nodes) = {e \in Entries(source) : e.key =< source[iter].key}
  BY Zenon DEF SkipInv, CloneInv, CloneEnd
<1>2. iter \in At(source, 0) /\ At(source, 0) = DOMAIN source
  BY Zenon, <1>1, AllAtZero
<1>3. source[iter].nexts[0] = Null
  BY Zenon, <1>1, <1>2 DEF NextOf, At
<1>4. Follows(source, 0, iter, Null)
  BY Zenon, <1>1, <1>2, <1>3 DEF Linked
<1>5. \A q \in DOMAIN source : source[q].key \in Nat /\ source[q].key =< source[iter].key
  BY <1>1, <1>2, <1>4, HeapFacts DEF Follows
<1>6. \A e \in Entries(source) : e.key =< source[iter].key
  BY SMTT(30), <1>5 DEF Entries
<1> QED
  BY Zenon, <1>1, <1>6

\* clone ends.
LEMMA CloneEndStep ==
  ASSUME SkipInv, CloneEnd
  PROVE  SkipInv'
<1>1. /\ pc = "clone" /\ pc' = "idle" /\ iter' = Null
      /\ UNCHANGED <<nodes, length, height, call, cur, level, updates, ret>>
  BY Zenon DEF CloneEnd, theList
<1>2. SkipType'
  BY Zenon, <1>1 DEF SkipInv, SkipType, Searching
<1>3. ListInv'
  BY Zenon, <1>1 DEF SkipInv, ListInv
<1> QED
  BY Zenon, <1>1, <1>2, <1>3 DEF SkipInv, FindInv, DisposeInv, CloneInv, Searching

\* dispose keeps some of the nodes.
LEMMA KeptHeap ==
  ASSUME NEW ns, IsHeap(ns), IsFiniteSet(DOMAIN ns), NEW D \in SUBSET DOMAIN ns, HeadNode \in D,
         NEW ms, ms = [p \in D |-> ns[p]]
  PROVE  IsHeap(ms) /\ IsFiniteSet(DOMAIN ms) /\ DOMAIN ms = D /\ \A p \in D : ms[p] = ns[p]
<1>1. DOMAIN ms = D /\ \A p \in D : ms[p] = ns[p] /\ ms[p] \in Node
  BY Zenon DEF IsHeap
<1>2. ms \in [D -> Node]
  BY Zenon, <1>1
<1>3. IsFiniteSet(D)
  BY Zenon, FS_Subset
<1>4. IsHeap(ms)
  BY Zenon, <1>1, <1>2 DEF IsHeap
<1> QED
  BY Zenon, <1>1, <1>3, <1>4

\* What dispose has still to free: all nodes from current on, in order.
LEMMA DisposeOrder ==
  ASSUME SkipInv, pc = "dispose"
  PROVE  /\ IsHeap(nodes) /\ cur \in DOMAIN nodes /\ NextOf(nodes, cur, 0) = nodes[cur].nexts[0]
         /\ Follows(nodes, 0, cur, nodes[cur].nexts[0])
         /\ \A p \in DOMAIN nodes \ {HeadNode} :
              nodes[cur].key =< nodes[p].key /\ Follows(nodes, 0, p, nodes[p].nexts[0])
<1>1. IsHeap(nodes) /\ cur \in DOMAIN nodes
  BY Zenon DEF SkipInv, SkipType, DisposeInv
<1>2. At(nodes, 0) = DOMAIN nodes
  BY Zenon, <1>1, AllAtZero
<1>3. NextOf(nodes, cur, 0) = nodes[cur].nexts[0]
  BY Zenon, <1>1, <1>2 DEF At, NextOf
<1>4. CASE cur = HeadNode
  <2>1. \A p \in DOMAIN nodes : Follows(nodes, 0, p, nodes[p].nexts[0])
    BY Zenon, <1>2, <1>4 DEF SkipInv, DisposeInv, Linked
  <2>2. \A p \in DOMAIN nodes \ {HeadNode} : nodes[cur].key =< nodes[p].key
    BY SMTT(30), <1>1, <1>4, HeapFacts
  <2> QED
    BY Zenon, <1>1, <1>3, <2>1, <2>2
<1>5. CASE cur # HeadNode
  <2>1. \A p \in DOMAIN nodes \ {HeadNode} :
          nodes[cur].key =< nodes[p].key /\ Follows(nodes, 0, p, nodes[p].nexts[0])
    BY Zenon, <1>5 DEF SkipInv, DisposeInv
  <2> QED
    BY Zenon, <1>1, <1>3, <1>5, <2>1
<1> QED
  BY Zenon, <1>4, <1>5

\* The loop of dispose frees one node.
LEMMA DisposeNextStep ==
  ASSUME SkipInv, DisposeNext
  PROVE  SkipInv'
<1> DEFINE n == nodes[cur].nexts[0]
           D == (DOMAIN nodes \ {cur}) \cup {HeadNode}
<1>1. /\ pc = "dispose" /\ pc' = "dispose" /\ NextOf(nodes, cur, 0) # Null
      /\ nodes' = Freed /\ cur' = NextOf(nodes, cur, 0)
      /\ UNCHANGED <<length, height, source, iter, call, level, updates, ret>>
  BY Zenon DEF DisposeNext, copying
<1>2. /\ IsHeap(nodes) /\ cur \in DOMAIN nodes /\ cur' = n /\ n # Null /\ Follows(nodes, 0, cur, n)
      /\ \A p \in DOMAIN nodes \ {HeadNode} :
           nodes[cur].key =< nodes[p].key /\ Follows(nodes, 0, p, nodes[p].nexts[0])
  BY Zenon, <1>1, DisposeOrder
<1>3. At(nodes, 0) = DOMAIN nodes /\ HeadNode \in DOMAIN nodes
  BY Zenon, <1>2, AllAtZero, HeapFacts
<1>4. nodes' = [p \in D |-> nodes[p]] /\ D \in SUBSET DOMAIN nodes /\ HeadNode \in D
  BY Zenon, <1>1, <1>3 DEF Freed
<1>5. /\ IsHeap(nodes') /\ IsFiniteSet(DOMAIN nodes') /\ DOMAIN nodes' = D
      /\ \A p \in D : nodes'[p] = nodes[p]
  <2> HIDE DEF D
  <2>1. IsFiniteSet(DOMAIN nodes)
    BY Zenon DEF SkipInv, SkipType
  <2> QED
    BY Zenon, <1>2, <1>4, <2>1, KeptHeap
<1>6. \A p \in DOMAIN nodes : nodes[p].key \in Nat /\ (nodes[p].key = nodes[cur].key => p = cur)
  BY Zenon, <1>2, HeapFacts
<1>7. /\ n \in DOMAIN nodes /\ nodes[cur].key < nodes[n].key
      /\ \A q \in DOMAIN nodes : nodes[cur].key < nodes[q].key => nodes[n].key =< nodes[q].key
  BY Zenon, <1>2, <1>3 DEF Follows
<1>8. n # HeadNode /\ n # cur
  BY <1>2, <1>6, <1>7, HeapFacts
<1>9. n \in D \ {HeadNode} /\ n \in Addresses
  BY Zenon, <1>2, <1>7, <1>8 DEF IsHeap
<1>10. At(nodes', 0) = D
  BY Zenon, <1>5, AllAtZero
<1>11. ASSUME NEW p \in D \ {HeadNode}
       PROVE  nodes[n].key =< nodes[p].key /\ Follows(nodes', 0, p, nodes'[p].nexts[0])
  <2>1. p \in DOMAIN nodes \ {HeadNode} /\ p # cur
    BY Zenon, <1>11
  <2>2. nodes[cur].key < nodes[p].key
    BY <1>2, <1>6, <2>1
  <2>3. nodes[n].key =< nodes[p].key
    BY Zenon, <1>7, <2>1, <2>2
  <2> DEFINE m == nodes[p].nexts[0]
  <2>4. Follows(nodes, 0, p, m)
    BY Zenon, <1>2, <2>1
  <2>5. m # Null => m \in DOMAIN nodes /\ m # cur /\ nodes[p].key < nodes[m].key
    BY SMTT(30), <1>3, <1>6, <2>1, <2>2, <2>4 DEF Follows
  <2>6. /\ \A q \in DOMAIN nodes : nodes[p].key < nodes[q].key => m # Null /\ nodes[m].key =< nodes[q].key
    BY Zenon, <1>3, <2>4 DEF Follows
  <2>7. nodes'[p].nexts[0] = m /\ nodes'[p].key = nodes[p].key
    BY Zenon, <1>5
  <2> HIDE DEF m
  <2>8. m # Null => m \in D
    BY Zenon, <2>5
  <2> QED
    BY Zenon, <1>4, <1>5, <1>10, <2>3, <2>5, <2>6, <2>7, <2>8 DEF Follows
<1>12. SkipType'
  BY ZenonT(30), <1>1, <1>2, <1>5, <1>9 DEF SkipInv, SkipType, Searching
<1>13. DisposeInv'
  <2> HIDE DEF D, n
  <2> QED
    BY Zenon, <1>2, <1>5, <1>8, <1>9, <1>11 DEF DisposeInv
<1> QED
  BY Zenon, <1>1, <1>12, <1>13 DEF SkipInv, ListInv, FindInv, CloneInv, Searching

\* dispose has freed every node but the head.
LEMMA DisposeEnds ==
  ASSUME SkipInv, DisposeEnd
  PROVE  nodes' = NoNodes
<1>1. /\ pc = "dispose" /\ NextOf(nodes, cur, 0) = Null /\ nodes' = [Freed EXCEPT ![HeadNode] = Dummy]
  BY Zenon DEF DisposeEnd
<1>2. /\ IsHeap(nodes) /\ cur \in DOMAIN nodes /\ Follows(nodes, 0, cur, Null)
      /\ \A p \in DOMAIN nodes \ {HeadNode} : nodes[cur].key =< nodes[p].key
  BY Zenon, <1>1, DisposeOrder
<1>3. At(nodes, 0) = DOMAIN nodes
  BY Zenon, <1>2, AllAtZero
<1>4. \A p \in DOMAIN nodes : ~ (nodes[cur].key < nodes[p].key)
  BY Zenon, <1>2, <1>3 DEF Follows
<1>5. \A p \in DOMAIN nodes : nodes[p].key \in Nat /\ (nodes[p].key = nodes[cur].key => p = cur)
  BY Zenon, <1>2, HeapFacts
<1>6. \A p \in DOMAIN nodes \ {HeadNode} : p = cur
  BY <1>2, <1>4, <1>5
<1>7. (DOMAIN nodes \ {cur}) \cup {HeadNode} = {HeadNode}
  BY Zenon, <1>6
<1>8. Freed = [p \in {HeadNode} |-> nodes[p]]
  BY Zenon, <1>7 DEF Freed
<1> QED
  BY Zenon, <1>1, <1>8 DEF NoNodes

\* dispose ends, and clear makes the list a new one.
LEMMA DisposeEndStep ==
  ASSUME SkipInv, DisposeEnd
  PROVE  SkipInv'
<1>1. /\ pc = "dispose" /\ pc' = "idle" /\ nodes' = NoNodes /\ length' = 0 /\ height' = 0
      /\ UNCHANGED <<source, iter, call, cur, level, updates, ret>>
  BY Zenon, DisposeEnds DEF DisposeEnd, copying
<1>2. SkipType'
  BY SMTT(30), <1>1, EmptyList, HeightAssumption DEF SkipInv, SkipType, Searching
<1>3. ListInv'
  BY Zenon, <1>1, EmptyList DEF ListInv
<1> QED
  BY <1>1, <1>2, <1>3 DEF SkipInv, FindInv, DisposeInv, CloneInv, Searching

\* Every step keeps the inductive invariant.
LEMMA StepSkip == SkipInv /\ [Next]_vars => SkipInv'
<1> SUFFICES ASSUME SkipInv, [Next]_vars PROVE SkipInv'
  BY Zenon
<1>1. CASE Invoke
  BY Zenon, <1>1, CallStep, ClearStep, CloneStep DEF Invoke
<1>2. CASE Forward \/ Down \/ Apply \/ DisposeNext \/ DisposeEnd
  BY Zenon, <1>2, ForwardStep, DownStep, ApplyStep, DisposeNextStep, DisposeEndStep
<1>3. CASE (\E h \in 0..MaxHeight : CloneNext(h)) \/ CloneEnd
  BY Zenon, <1>3, CloneNextStep, CloneEndStep
<1>4. CASE UNCHANGED vars
  <2>1. UNCHANGED <<nodes, length, height, call, pc, cur, level, updates, source, iter, ret>>
    BY Zenon, <1>4 DEF vars
  <2>2. SkipType' /\ ListInv'
    BY SMTT(30), <2>1 DEF SkipInv, SkipType, ListInv, Searching
  <2>3. FindInv' /\ DisposeInv'
    BY ZenonT(30), <2>1 DEF SkipInv, FindInv, DisposeInv, Searching
  <2>4. CloneInv'
    BY Zenon, <2>1 DEF SkipInv, CloneInv, Searching
  <2> QED
    BY Zenon, <2>2, <2>3, <2>4 DEF SkipInv
<1> QED
  BY Zenon, <1>1, <1>2, <1>3, <1>4 DEF Next

\* SkipInv says what the properties say.
LEMMA SkipInvSuffices == SkipInv => ListsAreNested /\ SearchFindsEntries
<1> SUFFICES ASSUME SkipInv PROVE ListsAreNested /\ SearchFindsEntries
  BY Zenon
<1>1. IsHeap(nodes) /\ height \in 0..MaxHeight
  BY Zenon DEF SkipInv, SkipType
<1>2. ASSUME pc # "dispose"
      PROVE  /\ \A i \in 0..MaxHeight : HeadNode \in At(nodes, i) /\ Linked(nodes, i)
             /\ \A p \in DOMAIN nodes \ {HeadNode} : \E h \in 0..height : DOMAIN nodes[p].nexts = 0..h
             /\ length = Cardinality(DOMAIN nodes \ {HeadNode})
  <2>1. /\ Nested(nodes) /\ length = Cardinality(DOMAIN nodes \ {HeadNode})
        /\ \A p \in DOMAIN nodes \ {HeadNode} : DOMAIN nodes[p].nexts \subseteq 0..height
    BY Zenon, <1>2 DEF SkipInv, ListInv
  <2>2. ASSUME NEW p \in DOMAIN nodes \ {HeadNode} PROVE \E h \in 0..height : DOMAIN nodes[p].nexts = 0..h
    <3>1. PICK h \in 0..MaxHeight : DOMAIN nodes[p].nexts = 0..h
      BY Zenon, <1>1, NodeHeights
    <3>2. h \in 0..height
      BY <2>1, <3>1
    <3> QED
      BY Zenon, <3>1, <3>2
  <2> QED
    BY Zenon, <1>1, <2>1, <2>2, AllAtZero DEF Nested
<1>3. ASSUME pc = "apply"
      PROVE  /\ \A i \in 0..MaxHeight : LastBefore(nodes, i, updates[i], call.key)
             /\ \A p \in DOMAIN nodes : nodes[p].key = call.key <=> Found /\ p = Hit
  <2>1. \A i \in 0..MaxHeight : LastBefore(nodes, i, updates[i], call.key)
    BY Zenon, <1>3, SearchEnds
  <2>2. \A p \in DOMAIN nodes : nodes[p].key = call.key => Found /\ p = Hit
    BY Zenon, <1>3, SearchMisses
  <2>3. Found => nodes[Hit].key = call.key
    BY Zenon DEF Found
  <2> QED
    BY Zenon, <2>1, <2>2, <2>3
<1> QED
  BY Zenon, <1>2, <1>3 DEF ListsAreNested, SearchFindsEntries

(***************************************************************************)
(* The list at each height is exactly the nodes that are at least that     *)
(* high, in the order of their keys, none is lost or dangling, and height_ *)
(* and length_ bound and count them: for every maximal height, whatever    *)
(* gen_height returns and the allocator reuses, after any sequence of      *)
(* get, insert, remove, clear and clone (list.rs).                         *)
(***************************************************************************)
THEOREM SkipListNesting == Spec => []ListsAreNested
BY InitSkip, StepSkip, SkipInvSuffices, PTL DEF Spec

(***************************************************************************)
(* get_lower_bound_and_updates sets the update at every height to the node *)
(* that insert and remove must relink there, and finds the node of the key *)
(* exactly if there is one.                                                *)
(***************************************************************************)
THEOREM SkipListSearch == Spec => []SearchFindsEntries
BY InitSkip, StepSkip, SkipInvSuffices, PTL DEF Spec

(***************************************************************************)
(* The list is a map: what insert, remove, clear and clone leave, and what *)
(* get, insert and remove return, is what they would on a set of entries.  *)
(***************************************************************************)
THEOREM SkipListMap == Spec => ActsLikeMap
<1> DEFINE A == /\ pc = "apply" =>
                     /\ Entries(nodes') = Result(call, Entries(nodes))
                     /\ {ret'} \ {None} = {e.val : e \in {x \in Entries(nodes) : x.key = call.key}}
                /\ pc = "dispose" /\ pc' = "idle" => Entries(nodes') = {}
                /\ pc = "clone" /\ pc' = "idle" => Entries(nodes') = Entries(source)
<1>1. SkipInv /\ [Next]_vars => [A]_vars
  <2> SUFFICES ASSUME SkipInv, Next PROVE A
    BY Zenon
  <2>1. pc = "apply" => Apply
    BY Zenon DEF Next, Invoke, Get, Remove, Insert, Clear, Clone, Forward, Down, DisposeNext, DisposeEnd,
           CloneNext, CloneEnd
  <2>2. pc = "dispose" /\ pc' = "idle" => DisposeEnd
    BY Zenon DEF Next, Invoke, Get, Remove, Insert, Clear, Clone, Forward, Down, DisposeNext,
           CloneNext, CloneEnd, Apply, ReturnValue, ReplaceValue, Link, Unlink, NothingToRemove
  <2>3. pc = "clone" /\ pc' = "idle" => CloneEnd
    BY Zenon DEF Next, Invoke, Get, Remove, Insert, Clear, Clone, Forward, Down, DisposeNext, DisposeEnd,
           CloneNext, StartSearch, Apply, ReturnValue, ReplaceValue, Link, Unlink, NothingToRemove
  <2>4. CASE pc = "apply"
    BY Zenon, <2>1, <2>4, ApplyEntries DEF Bound
  <2>5. CASE pc = "dispose" /\ pc' = "idle"
    BY Zenon, <2>2, <2>5, DisposeEnds, EmptyList
  <2>6. CASE pc = "clone" /\ pc' = "idle"
    <3>1. nodes' = nodes
      BY Zenon, <2>3, <2>6 DEF CloneEnd, theList
    <3> QED
      BY Zenon, <2>3, <2>6, <3>1, CloneEnds
  <2> QED
    BY Zenon, <2>4, <2>5, <2>6
<1> QED
  BY <1>1, InitSkip, StepSkip, PTL DEF Spec, ActsLikeMap
------------------------------------------------------------------------------
(***************************************************************************)
(* A table that ends before a key does not cover it; nor does one that     *)
(* starts after it.                                                        *)
(***************************************************************************)
LEMMA EndsBefore ==
  ASSUME NEW r, NEW k, Before(r.max, k)
  PROVE  ~Covers(r, k)
BY Zenon DEF Covers, NotAfter

\* Nor does a table that starts after the key.
LEMMA StartsAfter ==
  ASSUME NEW r, NEW k, Before(k, r.min)
  PROVE  ~Covers(r, k)
BY Zenon DEF Covers, NotAfter

(***************************************************************************)
(* In a level, all tables before one that starts before the key end before *)
(* the key, and all tables after one that starts after the key start after *)
(* it too.                                                                 *)
(***************************************************************************)
LEMMA LevelOrder ==
  ASSUME IsLevel(readers), NEW k \in SearchKeys,
         NEW i \in 1..Len(readers), NEW j \in 1..Len(readers), i < j
  PROVE  /\ Before(readers[j].min, k) => Before(readers[i].max, k)
         /\ Before(k, readers[i].min) => Before(k, readers[j].min)
<1>1. Before(readers[i].max, readers[j].min)
  BY Zenon DEF IsLevel
<1>2. /\ readers[i].min \in SearchKeys /\ readers[i].max \in SearchKeys
      /\ readers[j].min \in SearchKeys /\ NotAfter(readers[i].min, readers[i].max)
  BY Zenon DEF IsLevel
<1>3. Before(readers[j].min, k) => Before(readers[i].max, k)
  BY Zenon, <1>1, <1>2, OrderAssumption
<1>4. Before(k, readers[i].min) => Before(k, readers[i].max)
  BY Zenon, <1>2, OrderAssumption DEF NotAfter
<1>5. Before(k, readers[i].min) => Before(k, readers[j].min)
  BY <1>1, <1>2, <1>4, OrderAssumption
<1> QED
  BY Zenon, <1>3, <1>5

(***************************************************************************)
(* Every step of a search keeps the inductive invariant.                   *)
(***************************************************************************)
LEMMA SearchStepInv == SearchInv /\ [Search]_allVars => SearchInv'
<1> SUFFICES ASSUME SearchInv, [Search]_allVars PROVE SearchInv'
  OBVIOUS
<1>1. ASSUME NEW k \in SearchKeys, BeginSearch(k), UNCHANGED readers PROVE SearchInv'
  <2>1. Len(readers) \in Nat
    BY Zenon DEF SearchInv, IsLevel
  <2> QED
    BY SMTT(30), <1>1, <2>1 DEF SearchInv, SearchIsComplete, BeginSearch, IsLevel
<1>2. ASSUME Halve, UNCHANGED readers PROVE SearchInv'
  <2>1. /\ spc = "halve" /\ left < right /\ left \in Nat /\ right \in Nat
        /\ right <= Len(readers) /\ 1 <= left /\ Len(readers) \in Nat
        /\ sought \in SearchKeys /\ IsLevel(readers) /\ res = <<>>
    BY Zenon, <1>2 DEF Halve, SearchInv, IsLevel
  <2>2. Middle \in Nat /\ left < Middle /\ Middle <= right
    BY SMTT(30), <2>1 DEF Middle
  <2>3. CASE Before(readers[Middle].min, sought)
    <3>1. left' = Middle /\ right' = right
      BY Zenon, <1>2, <2>3 DEF Halve
    <3>2. \A i \in 1..Len(readers) : i < Middle => Before(readers[i].max, sought)
      BY SMTT(30), <2>1, <2>2, <2>3, LevelOrder
    <3> QED
      BY SMTT(30), <1>2, <2>1, <2>2, <3>1, <3>2 DEF Halve, SearchInv, SearchIsComplete
  <2>4. CASE ~Before(readers[Middle].min, sought)
    <3>1. left' = left /\ right' = Middle - 1
      BY Zenon, <1>2, <2>4 DEF Halve
    <3> QED
      BY SMTT(30), <1>2, <2>1, <2>2, <3>1 DEF Halve, SearchInv, SearchIsComplete
  <2> QED
    BY Zenon, <2>3, <2>4
<1>3. ASSUME StartScan, UNCHANGED readers PROVE SearchInv'
  <2>1. \A i \in 1..Len(readers) : i < left => ~Covers(readers[i], sought)
    BY Zenon, <1>3, EndsBefore DEF StartScan, SearchInv
  <2> QED
    BY SMTT(30), <1>3, <2>1 DEF StartScan, SearchInv, SearchIsComplete
<1>4. ASSUME ScanReader, UNCHANGED readers PROVE SearchInv'
  <2>1. /\ spc = "scan" /\ scan \in Nat /\ 1 <= scan /\ scan <= Len(readers)
        /\ Len(readers) \in Nat /\ IsLevel(readers) /\ sought \in SearchKeys
        /\ res \in Seq(Nat) /\ scan \in 1..Len(readers)
    BY SMTT(30), <1>4 DEF ScanReader, SearchInv, IsLevel
  <2>2. /\ \A i \in 1..Len(readers) : i < scan =>
             (Covers(readers[i], sought) <=> \E j \in 1..Len(res) : res[j] = i)
        /\ \A j \in 1..Len(res) : res[j] < scan
    BY Zenon, <2>1 DEF SearchInv
  <2>3. CASE Covers(readers[scan], sought)
    <3>1. res' = Append(res, scan) /\ scan' = scan + 1 /\ spc' = "scan"
      BY Zenon, <1>4, <2>1, <2>3 DEF ScanReader
    <3>2. /\ res' \in Seq(Nat) /\ Len(res') = Len(res) + 1 /\ res'[Len(res) + 1] = scan
          /\ \A j \in 1..Len(res) : res'[j] = res[j]
      BY <2>1, <3>1
    <3>a. /\ Len(res) \in Nat
          /\ \A j \in 1..Len(res) : res[j] \in Nat
          /\ \A j \in 1..Len(res') : j \in 1..Len(res) \/ j = Len(res) + 1
          /\ \A j \in 1..Len(res) : j \in 1..Len(res')
      BY SMTT(30), <2>1, <3>2
    <3>3. \A i \in 1..Len(readers) : i < scan + 1 =>
             (Covers(readers[i], sought) <=> \E j \in 1..Len(res') : res'[j] = i)
      <4> SUFFICES ASSUME NEW i \in 1..Len(readers), i < scan + 1
                   PROVE  Covers(readers[i], sought) <=> \E j \in 1..Len(res') : res'[j] = i
        BY Zenon
      <4>1. CASE i = scan
        BY SMTT(30), <4>1, <2>1, <2>3, <3>2
      <4>2. CASE i < scan
        <5>1. Covers(readers[i], sought) <=> \E j \in 1..Len(res) : res[j] = i
          BY Zenon, <4>2, <2>2
        <5>2. (\E j \in 1..Len(res) : res[j] = i) => \E j \in 1..Len(res') : res'[j] = i
          BY Zenon, <3>2, <3>a
        <5>3. ASSUME NEW j \in 1..Len(res'), res'[j] = i PROVE \E n \in 1..Len(res) : res[n] = i
          <6>1. i # scan
            BY <4>2, <2>1
          <6>2. j # Len(res) + 1
            BY Zenon, <6>1, <5>3, <3>2
          <6>3. j \in 1..Len(res)
            BY Zenon, <6>2, <3>a
          <6> QED
            BY Zenon, <6>3, <5>3, <3>2
        <5> QED
          BY Zenon, <5>1, <5>2, <5>3
      <4> QED
        BY <4>1, <4>2, <2>1
    <3>4. \A j \in 1..Len(res') : res'[j] < scan + 1
      <4>1. ASSUME NEW j \in 1..Len(res) PROVE res'[j] < scan + 1
        <5>1. res'[j] = res[j] /\ res[j] \in Nat /\ res[j] < scan
          BY Zenon, <2>2, <3>2, <3>a
        <5> QED
          BY <5>1, <2>1
      <4>2. res'[Len(res) + 1] < scan + 1
        BY SMTT(30), <2>1, <3>2
      <4> QED
        BY Zenon, <4>1, <4>2, <3>a
    <3> QED
      BY SMTT(30), <1>4, <2>1, <3>1, <3>2, <3>3, <3>4 DEF ScanReader, SearchInv, SearchIsComplete
  <2>4. CASE ~Covers(readers[scan], sought) /\ Before(sought, readers[scan].min)
    <3>1. res' = res /\ scan' = scan /\ spc' = "found"
      BY Zenon, <1>4, <2>1, <2>4 DEF ScanReader
    <3>2. \A i \in 1..Len(readers) : i > scan => ~Covers(readers[i], sought)
      BY Zenon, <2>1, <2>4, LevelOrder, StartsAfter
    <3>3. \A i \in 1..Len(readers) :
             Covers(readers[i], sought) <=> \E j \in 1..Len(res) : res[j] = i
      <4> SUFFICES ASSUME NEW i \in 1..Len(readers)
                   PROVE  Covers(readers[i], sought) <=> \E j \in 1..Len(res) : res[j] = i
        BY Zenon
      <4>1. CASE i < scan
        BY Zenon, <4>1, <2>2
      <4>2. CASE i >= scan
        BY SMTT(30), <4>2, <2>1, <2>2, <2>4, <3>2
      <4> QED
        BY <4>1, <4>2, <2>1
    <3> QED
      BY Zenon, <1>4, <2>1, <3>1, <3>3 DEF ScanReader, SearchInv, SearchIsComplete
  <2>5. CASE ~Covers(readers[scan], sought) /\ ~Before(sought, readers[scan].min)
    <3>1. res' = res /\ scan' = scan + 1 /\ spc' = "scan"
      BY Zenon, <1>4, <2>1, <2>5 DEF ScanReader
    <3>2. \A i \in 1..Len(readers) : i < scan + 1 =>
             (Covers(readers[i], sought) <=> \E j \in 1..Len(res) : res[j] = i)
      <4> SUFFICES ASSUME NEW i \in 1..Len(readers), i < scan + 1
                   PROVE  Covers(readers[i], sought) <=> \E j \in 1..Len(res) : res[j] = i
        BY Zenon
      <4>1. CASE i = scan
        BY Zenon, <4>1, <2>1, <2>2, <2>5
      <4>2. CASE i < scan
        BY <4>2, <2>2
      <4> QED
        BY <4>1, <4>2, <2>1
    <3>3. \A j \in 1..Len(res) : res[j] < scan + 1
      <4>1. \A j \in 1..Len(res) : res[j] \in Nat
        BY <2>1
      <4> QED
        BY <4>1, <2>1, <2>2
    <3> QED
      BY SMTT(30), <1>4, <2>1, <3>1, <3>2, <3>3 DEF ScanReader, SearchInv, SearchIsComplete
  <2> QED
    BY Zenon, <2>3, <2>4, <2>5
<1>5. ASSUME EndScan, UNCHANGED readers PROVE SearchInv'
  <2>1. Len(readers) \in Nat
    BY Zenon DEF SearchInv, IsLevel
  <2> QED
    BY SMTT(30), <1>5, <2>1 DEF EndScan, SearchInv, SearchIsComplete
<1>6. ASSUME EndSearch, UNCHANGED readers PROVE SearchInv'
  <2>1. AnyKey \in SearchKeys
    BY Zenon DEF AnyKey, SearchInv
  <2> QED
    BY SMTT(30), <1>6, <2>1 DEF EndSearch, SearchInv, SearchIsComplete
<1>7. ASSUME ChangeLevel PROVE SearchInv'
  BY Zenon, <1>7 DEF ChangeLevel, SearchInv, SearchIsComplete, searchVars
<1>8. ASSUME UNCHANGED allVars PROVE SearchInv'
  BY Zenon, <1>8 DEF allVars, searchVars, SearchInv, SearchIsComplete
<1> QED
  BY Zenon, <1>1, <1>2, <1>3, <1>4, <1>5, <1>6, <1>7, <1>8 DEF Search, SearchStep

(***************************************************************************)
(* search_readers never misses a table that can hold the key it looks for. *)
(***************************************************************************)
THEOREM SearchCompleteness == SearchSpec => []SearchIsComplete
<1>1. SearchInit /\ SearchKeys # {} /\ IsLevel(readers) => SearchInv
  BY DEF SearchInit, AnyKey, SearchInv, SearchIsComplete, IsLevel
<1>2. SearchInv => SearchIsComplete
  BY Zenon DEF SearchInv
<1> QED
  BY <1>1, <1>2, SearchStepInv, PTL DEF SearchSpec
------------------------------------------------------------------------------
(***************************************************************************)
(* A nonempty set of natural numbers contains its Min.                     *)
(***************************************************************************)
LEMMA MinOfNats ==
  ASSUME NEW S \in SUBSET Nat, S # {}
  PROVE  Min(S) \in S /\ \A y \in S : Min(S) <= y
<1>1. PICK x \in S : \A y \in S : ~ (<<y, x>> \in OpToRel(<, Nat))
  BY Zenon, NatLessThanWellFounded, WFMin
<1>2. \A y \in S : x <= y
  <2> SUFFICES ASSUME NEW y \in S, y < x PROVE FALSE
    OBVIOUS
  <2>1. <<y, x>> \in OpToRel(<, Nat)
    BY Zenon DEF OpToRel
  <2> QED
    BY Zenon, <2>1, <1>1
<1> QED
  BY Zenon, <1>1, <1>2 DEF Min

(***************************************************************************)
(* The elements of a byte string are integers.                             *)
(***************************************************************************)
LEMMA BytesAreIntegers ==
  ASSUME NEW s \in Seq(Byte), NEW j \in 1..Len(s)
  PROVE  s[j] \in Int
<1>1. s[j] \in Byte
  OBVIOUS
<1> QED
  BY <1>1, MaxByteAssumption DEF Byte

(***************************************************************************)
(* What raising a byte does: RaisedAt(a, i) is a string greater than a.    *)
(***************************************************************************)
LEMMA RaisedIsGreater ==
  ASSUME NEW a \in Seq(Byte), NEW i \in 1..Len(a), a[i] < MaxByte
  PROVE  /\ RaisedAt(a, i) \in Seq(Byte)
         /\ Len(RaisedAt(a, i)) = i
         /\ Less(a, RaisedAt(a, i))
<1>1. \A j \in 1..i : a[j] \in Byte
  OBVIOUS
<1>2. \A j \in 1..i : RaisedAt(a, i)[j] \in Byte
  BY <1>1, MaxByteAssumption DEF RaisedAt, Byte
<1>3. RaisedAt(a, i) \in Seq(Byte) /\ Len(RaisedAt(a, i)) = i
  BY <1>2 DEF RaisedAt
<1>4. LessAt(a, RaisedAt(a, i), i)
  BY <1>3, <1>1 DEF LessAt, RaisedAt, Byte
<1> QED
  BY <1>3, <1>4 DEF Less

(***************************************************************************)
(* The key of an index entry is at least the last key of its block,        *)
(* whatever the second argument: this also covers the last block, whose    *)
(* separator is found between its last key and find_short_succ of it.      *)
(***************************************************************************)
THEOREM SeparatorFollowsBlock ==
  ASSUME NEW a \in Seq(Byte), NEW b \in Seq(Byte)
  PROVE  LessEq(a, find_shortest_sep(a, b))
<1>1. CASE a = b
  BY Zenon, <1>1 DEF find_shortest_sep, LessEq
<1>2. CASE a # b /\ Raisable(a, b) = {}
  <2>1. 0 \in Byte
    BY MaxByteAssumption DEF Byte
  <2>2. Append(a, 0) \in Seq(Byte) /\ Len(Append(a, 0)) = Len(a) + 1
    BY <2>1
  <2>3. LessAt(a, Append(a, 0), Len(a) + 1)
    BY <2>2 DEF LessAt
  <2> QED
    BY <1>2, <2>2, <2>3 DEF find_shortest_sep, LessEq, Less
<1>3. CASE a # b /\ Raisable(a, b) # {}
  <2>0. Raisable(a, b) \in SUBSET Nat
    BY DEF Raisable
  <2>1. Min(Raisable(a, b)) \in Raisable(a, b)
    BY Zenon, <1>3, <2>0, MinOfNats
  <2>2. Less(a, RaisedAt(a, Min(Raisable(a, b))))
    BY Zenon, <2>1, RaisedIsGreater DEF Raisable
  <2> QED
    BY Zenon, <1>3, <2>2 DEF find_shortest_sep, LessEq
<1> QED
  BY Zenon, <1>1, <1>2, <1>3

(***************************************************************************)
(* The key of an index entry is smaller than the first key of the next     *)
(* block, provided that key has no zero byte.  The request parser accepts  *)
(* no such key (parser.rs, key_parser), so an index seek for a key of the  *)
(* next block never stops at this one.  Without the proviso the function   *)
(* fails: between a and Append(a, 0) it returns the latter.                *)
(***************************************************************************)
THEOREM SeparatorPrecedesNext ==
  ASSUME NEW a \in Seq(Byte), NEW b \in Seq(Byte), Less(a, b),
         \A i \in 1..Len(b) : b[i] # 0
  PROVE  Less(find_shortest_sep(a, b), b)
<1>1. PICK w \in 1..Len(b) : LessAt(a, b, w)
  BY Zenon DEF Less
<1>2. a # b
  <2>1. b[w] \in Byte
    OBVIOUS
  <2>2. b[w] \in Int /\ ~ (b[w] < b[w])
    BY <2>1, MaxByteAssumption DEF Byte
  <2>3. CASE w <= Len(a)
    BY Zenon, <1>1, <2>2, <2>3 DEF LessAt
  <2>4. CASE w > Len(a)
    BY <2>4
  <2> QED
    BY <2>3, <2>4
<1>3. CASE Raisable(a, b) = {}
  <2>1. Append(a, 0) \in Seq(Byte) /\ Len(Append(a, 0)) = Len(a) + 1
    BY MaxByteAssumption DEF Byte
  <2>2. \A j \in 1..Len(a) : Append(a, 0)[j] = a[j]
    OBVIOUS
  <2>3. Append(a, 0)[Len(a) + 1] = 0
    OBVIOUS
  <2>4. b[w] \in Nat /\ b[w] > 0
    <3>1. b[w] \in Byte
      OBVIOUS
    <3>2. b[w] # 0
      BY Zenon
    <3> QED
      BY <3>1, <3>2, MaxByteAssumption DEF Byte
  <2>5. LessAt(Append(a, 0), b, w)
    BY <1>1, <2>1, <2>2, <2>3, <2>4 DEF LessAt
  <2> QED
    BY Zenon, <1>2, <1>3, <2>5 DEF find_shortest_sep, Less
<1>4. CASE Raisable(a, b) # {}
  <2> DEFINE i == Min(Raisable(a, b))
  <2>0. Raisable(a, b) \in SUBSET Nat
    BY DEF Raisable
  <2>1. i \in Raisable(a, b)
    BY Zenon, <1>4, <2>0, MinOfNats
  <2> HIDE DEF i
  <2>2. i \in 1..Len(a) /\ i <= Len(b) /\ a[i] + 1 < b[i] /\ a[i] < MaxByte
    BY Zenon, <2>1 DEF Raisable
  <2>3. \A j \in 1..Len(a) : a[j] \in Int
    BY Zenon, BytesAreIntegers
  <2>4. \A j \in 1..Len(b) : b[j] \in Int
    BY Zenon, BytesAreIntegers
  <2>5. w <= i /\ w <= Len(a)
    BY <1>1, <2>2, <2>3, <2>4 DEF LessAt
  <2>6. Len(RaisedAt(a, i)) = i
    BY Zenon, <2>2, RaisedIsGreater
  <2>7. \A j \in 1..i : RaisedAt(a, i)[j] = IF j = i THEN a[j] + 1 ELSE a[j]
    BY Zenon, <2>2 DEF RaisedAt
  <2>8. LessAt(RaisedAt(a, i), b, w)
    <3>1. w \in 1..Len(b) /\ w <= i + 1
      BY <2>5, <2>2
    <3>2. \A j \in 1..(w - 1) : RaisedAt(a, i)[j] = b[j]
      BY <1>1, <2>5, <2>7, <2>2 DEF LessAt
    <3>3. RaisedAt(a, i)[w] < b[w]
      BY <1>1, <2>5, <2>7, <2>2, <2>3, <2>4 DEF LessAt
    <3> QED
      BY Zenon, <3>1, <3>2, <3>3, <2>6 DEF LessAt
  <2> QED
    BY Zenon, <1>2, <1>4, <2>8 DEF find_shortest_sep, Less, i
<1> QED
  BY Zenon, <1>3, <1>4
==============================================================================
