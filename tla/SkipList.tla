------------------------------ MODULE SkipList -------------------------------
(***************************************************************************)
(* The skip list behind the memtables: nodes on the heap that are linked   *)
(* at several heights through raw pointers.  Its users hold a RwLock, so   *)
(* one operation runs at a time; the loops that follow pointers are taken  *)
(* step by step.                                                           *)
(***************************************************************************)
EXTENDS Integers, FiniteSets

CONSTANTS Keys,       \* K, as integers: only their order matters
          Vals,       \* V (without a destructor)
          MaxHeight,  \* max_height_
          None,       \* Option::None
          Addresses,  \* what the allocator may return
          Null,       \* the null pointer, also an update that was not set
          HeadNode    \* the address of head_

ASSUME HeightAssumption == MaxHeight \in Nat
ASSUME SkipKeysAssumption == Keys \subseteq Nat \ {0} /\ None \notin Vals
ASSUME AddressAssumption == Null \notin Addresses /\ HeadNode \notin Addresses /\ Null # HeadNode

VARIABLES nodes,    \* the nodes on the heap
          length,   \* length_
          height,   \* height_
          call,     \* the operation that runs, and its arguments
          pc,       \* where it is
          cur,      \* current_ptr of get_lower_bound and current of dispose
          level,    \* i of get_lower_bound
          updates,
          source,   \* the nodes of the list that clone() copies
          iter,     \* clone()'s SkipListIter, Null if no clone() runs
          ret       \* what the last operation returned

vars == <<nodes, length, height, call, pc, cur, level, updates, source, iter, ret>>
theList == <<nodes, length, height>>
copying == <<source, iter>>

Call(op, k, v, h) == [op |-> op, key |-> k, val |-> v, height |-> h]

\* allocate_dummy.  (Key and value of the head are uninitialised; no code
\* reads them.  The properties take its key to be below all others.)
Dummy == [key |-> 0, val |-> None, nexts |-> [i \in 0..MaxHeight |-> Null]]
NoNodes == [p \in {HeadNode} |-> Dummy]

\* SkipListNode::next_mut: no pointer above the node's own height
NextOf(ns, p, i) == IF i \in DOMAIN ns[p].nexts THEN ns[p].nexts[i] ELSE Null

\* new, new_with_height_generator
Init ==
  /\ nodes = NoNodes /\ length = 0 /\ height = 0
  /\ call = Call("new", 0, None, 0) /\ pc = "idle" /\ ret = None
  /\ cur = HeadNode /\ level = 0 /\ updates = [i \in 0..MaxHeight |-> Null]
  /\ source = NoNodes /\ iter = Null
------------------------------------------------------------------------------
\* get_lower_bound and get_lower_bound_and_updates, up to their loops: only
\* the updates above height_ are set.  (get has none, and uses none.)
StartSearch(c, h) ==
  /\ call' = c /\ pc' = "search" /\ cur' = HeadNode /\ level' = h
  /\ updates' = [i \in 0..MaxHeight |-> IF i > h THEN HeadNode ELSE Null]

Ahead == NextOf(nodes, cur, level)
Behind(n) == n # Null /\ nodes[n].key < call.key

\* The inner loop goes on to the next node,
Forward ==
  /\ pc = "search" /\ Behind(Ahead)
  /\ cur' = Ahead
  /\ UNCHANGED <<theList, copying, call, pc, level, updates, ret>>

\* Mutant of Down: the update is the node at which this height began.
DownLate ==
  /\ pc = "search" /\ ~Behind(Ahead)
  /\ updates' = [updates EXCEPT ![level] = IF level < height THEN @ ELSE cur]
  /\ IF level = 0 THEN pc' = "apply" /\ level' = 0 ELSE pc' = pc /\ level' = level - 1
  /\ UNCHANGED <<theList, copying, call, cur, ret>>

\* or the outer loop goes down from the last node before the key.
Down ==
  /\ pc = "search" /\ ~Behind(Ahead)
  /\ updates' = [updates EXCEPT ![level] = cur]
  /\ IF level = 0 THEN pc' = "apply" /\ level' = 0 ELSE pc' = pc /\ level' = level - 1
  /\ UNCHANGED <<theList, copying, call, cur, ret>>

\* What the search found, and whether it is the node of the key.
Hit == NextOf(nodes, cur, 0)
Found == Hit # Null /\ nodes[Hit].key = call.key

\* clone()'s loop goes on after an insert.
Return == pc' = (IF iter = Null THEN "idle" ELSE "clone") /\ UNCHANGED <<call, cur, level, updates, copying>>
------------------------------------------------------------------------------
Get(k) ==
  /\ pc = "idle"
  /\ StartSearch(Call("get", k, None, 0), height)
  /\ ret' = None /\ UNCHANGED <<theList, copying>>

ReturnValue ==
  /\ pc = "apply" /\ call.op = "get"
  /\ ret' = IF Found THEN nodes[Hit].val ELSE None
  /\ Return /\ UNCHANGED theList

\* gen_height is called first, for an old key as well.
Insert(k, v, h) ==
  /\ pc = "idle"
  /\ StartSearch(Call("insert", k, v, h), height)
  /\ ret' = None /\ UNCHANGED <<theList, copying>>

\* insert, for an old key: its node keeps its height.
ReplaceValue ==
  /\ pc = "apply" /\ call.op = "insert" /\ Found
  /\ nodes' = [nodes EXCEPT ![Hit].val = call.val] /\ ret' = nodes[Hit].val
  /\ Return /\ UNCHANGED <<length, height>>

\* The nodes once the updates point to the new node n,
LinkedTo(n) ==
  [p \in DOMAIN nodes \cup {n} |->
     IF p = n
     THEN [key |-> call.key, val |-> call.val,
           nexts |-> [i \in 0..call.height |-> NextOf(nodes, updates[i], i)]]
     ELSE [nodes[p] EXCEPT !.nexts =
             [i \in DOMAIN @ |-> IF i =< call.height /\ updates[i] = p THEN n ELSE @[i]]]]

\* Mutant of Link: height_ is not raised.
LinkLow ==
  /\ pc = "apply" /\ call.op = "insert" /\ ~Found
  /\ \E n \in Addresses \ DOMAIN nodes : nodes' = LinkedTo(n)
  /\ length' = length + 1 /\ UNCHANGED height
  /\ ret' = None /\ Return

\* insert, for a new key: allocate a node and link it.
Link ==
  /\ pc = "apply" /\ call.op = "insert" /\ ~Found
  /\ \E n \in Addresses \ DOMAIN nodes : nodes' = LinkedTo(n)
  /\ length' = length + 1 /\ height' = IF call.height > height THEN call.height ELSE height
  /\ ret' = None /\ Return

Remove(k) ==
  /\ pc = "idle"
  /\ StartSearch(Call("remove", k, None, 0), height)
  /\ ret' = None /\ UNCHANGED <<theList, copying>>

\* and once they point past node n, which is freed.
UnlinkedFrom(n) ==
  [p \in DOMAIN nodes \ {n} |->
     [nodes[p] EXCEPT !.nexts =
        [i \in DOMAIN @ |-> IF i \in DOMAIN nodes[n].nexts /\ updates[i] = p
                            THEN nodes[n].nexts[i] ELSE @[i]]]]

\* remove, for a key that is there; height_ is not lowered.
Unlink ==
  /\ pc = "apply" /\ call.op = "remove" /\ Found
  /\ nodes' = UnlinkedFrom(Hit) /\ length' = length - 1 /\ UNCHANGED height
  /\ ret' = nodes[Hit].val /\ Return

NothingToRemove ==
  /\ pc = "apply" /\ call.op = "remove" /\ ~Found
  /\ ret' = None /\ Return /\ UNCHANGED theList
------------------------------------------------------------------------------
\* clear, which begins with dispose
Clear ==
  /\ pc = "idle"
  /\ call' = Call("clear", 0, None, 0) /\ pc' = "dispose" /\ cur' = HeadNode /\ ret' = None
  /\ UNCHANGED <<theList, copying, level, updates>>

\* The nodes after current_ptr is freed; the head never is.
Freed == [p \in (DOMAIN nodes \ {cur}) \cup {HeadNode} |-> nodes[p]]

\* The loop of dispose frees a node when it has read its next pointer.
DisposeNext ==
  /\ pc = "dispose" /\ NextOf(nodes, cur, 0) # Null
  /\ nodes' = Freed /\ cur' = NextOf(nodes, cur, 0)
  /\ UNCHANGED <<length, height, copying, call, pc, level, updates, ret>>

\* The end of dispose and the rest of clear: a node that dispose has missed
\* stays on the heap.
DisposeEnd ==
  /\ pc = "dispose" /\ NextOf(nodes, cur, 0) = Null
  /\ nodes' = [Freed EXCEPT ![HeadNode] = Dummy] /\ length' = 0 /\ height' = 0
  /\ pc' = "idle"
  /\ UNCHANGED <<copying, call, cur, level, updates, ret>>

\* clone.  insert_ of DataManager goes on with the clone and clears the old
\* list.
Clone ==
  /\ pc = "idle"
  /\ source' = nodes /\ nodes' = NoNodes /\ length' = 0 /\ height' = 0
  /\ iter' = HeadNode /\ pc' = "clone"
  /\ call' = Call("clone", 0, None, 0) /\ ret' = None
  /\ UNCHANGED <<cur, level, updates>>

\* Its loop: SkipListIter::next, and an insert with a height of its own.
CloneNext(h) ==
  LET n == NextOf(source, iter, 0)
  IN  /\ pc = "clone" /\ n # Null
      /\ iter' = n /\ StartSearch(Call("insert", source[n].key, source[n].val, h), height)
      /\ UNCHANGED <<theList, source, ret>>

\* Mutant of CloneEnd: the iterator stops before the last node.
CloneEndEarly ==
  /\ pc = "clone"
  /\ LET n == NextOf(source, iter, 0) IN n # Null => NextOf(source, n, 0) = Null
  /\ pc' = "idle" /\ iter' = Null /\ source' = NoNodes
  /\ UNCHANGED <<theList, call, cur, level, updates, ret>>

CloneEnd ==
  /\ pc = "clone" /\ NextOf(source, iter, 0) = Null
  /\ pc' = "idle" /\ iter' = Null /\ source' = NoNodes
  /\ UNCHANGED <<theList, call, cur, level, updates, ret>>
------------------------------------------------------------------------------
Invoke ==
  \/ \E k \in Keys : Get(k) \/ Remove(k)
  \/ \E k \in Keys, v \in Vals, h \in 0..MaxHeight : Insert(k, v, h)
  \/ Clear
  \/ Clone

Apply == ReturnValue \/ ReplaceValue \/ Link \/ Unlink \/ NothingToRemove

Next ==
  \/ Invoke
  \/ Forward \/ Down \/ Apply
  \/ DisposeNext \/ DisposeEnd
  \/ (\E h \in 0..MaxHeight : CloneNext(h)) \/ CloneEnd

Spec == Init /\ [][Next]_vars
------------------------------------------------------------------------------
(* Properties *)

\* The nodes that are linked at height i, the head among them.
At(ns, i) == {p \in DOMAIN ns : i \in DOMAIN ns[p].nexts}

\* Node n (or the end, if it is Null) follows p at height i.
Follows(ns, i, p, n) ==
  /\ n # Null => n \in At(ns, i) /\ ns[p].key < ns[n].key
  /\ \A q \in At(ns, i) : ns[p].key < ns[q].key => n # Null /\ ns[n].key =< ns[q].key

Linked(ns, i) == \A p \in At(ns, i) : Follows(ns, i, p, ns[p].nexts[i])

(***************************************************************************)
(* The list at height i is exactly the nodes that are at least that high,  *)
(* in the order of their keys: insert and remove relink every height at    *)
(* the right predecessor, whatever gen_height returns.  So no list holds a *)
(* node that was freed, no node on the heap is lost, height_ is an upper   *)
(* bound on their heights and length_ counts them.  dispose, which frees   *)
(* the nodes that others still point to, has freed all of them by the end. *)
(***************************************************************************)
ListsAreNested ==
  pc # "dispose" =>
    /\ \A i \in 0..MaxHeight : HeadNode \in At(nodes, i) /\ Linked(nodes, i)
    /\ \A p \in DOMAIN nodes \ {HeadNode} : \E h \in 0..height : DOMAIN nodes[p].nexts = 0..h
    /\ length = Cardinality(DOMAIN nodes \ {HeadNode})

\* Node u is the last one before key k at height i.
LastBefore(ns, i, u, k) ==
  /\ u \in At(ns, i) /\ ns[u].key < k
  /\ \A q \in At(ns, i) : ns[q].key < k => ns[q].key =< ns[u].key

(***************************************************************************)
(* When the loops of get_lower_bound_and_updates end, there is an update   *)
(* at every height, it is the node to relink there and it is high enough   *)
(* (its pointers are read unchecked); and the search has found the node of *)
(* the key if there is one.                                                *)
(***************************************************************************)
SearchFindsEntries ==
  pc = "apply" =>
    /\ \A i \in 0..MaxHeight : LastBefore(nodes, i, updates[i], call.key)
    /\ \A p \in DOMAIN nodes : nodes[p].key = call.key <=> Found /\ p = Hit

Entries(ns) == {[key |-> ns[p].key, val |-> ns[p].val] : p \in DOMAIN ns \ {HeadNode}}

\* What an operation makes of a map's entries.
Result(c, es) ==
  LET others == {e \in es : e.key # c.key}
  IN  CASE c.op = "insert" -> others \cup {[key |-> c.key, val |-> c.val]}
        [] c.op = "remove" -> others
        [] OTHER           -> es

(***************************************************************************)
(* The list is a map: insert binds its key, remove unbinds it, both leave  *)
(* every other key alone and they and get return the value the key had;    *)
(* clear leaves nothing, and a clone, whose nodes have other addresses and *)
(* heights, has the same entries (get, insert, remove, clear, clone).      *)
(***************************************************************************)
ActsLikeMap ==
  [][ /\ pc = "apply" =>
           /\ Entries(nodes') = Result(call, Entries(nodes))
           /\ {ret'} \ {None} = {e.val : e \in {x \in Entries(nodes) : x.key = call.key}}
      /\ pc = "dispose" /\ pc' = "idle" => Entries(nodes') = {}
      /\ pc = "clone" /\ pc' = "idle" => Entries(nodes') = Entries(source) ]_vars
------------------------------------------------------------------------------
(***************************************************************************)
(* The inductive invariant.                                                *)
(***************************************************************************)
Node == [key : Nat, val : Vals \cup {None},
         nexts : UNION {[0..h -> Addresses \cup {Null}] : h \in 0..MaxHeight}]

\* A head and nodes with different keys.
IsHeap(ns) ==
  /\ ns \in [DOMAIN ns -> Node]
  /\ HeadNode \in DOMAIN ns /\ DOMAIN ns \subseteq Addresses \cup {HeadNode}
  /\ ns[HeadNode].key = 0 /\ DOMAIN ns[HeadNode].nexts = 0..MaxHeight
  /\ \A p \in DOMAIN ns \ {HeadNode} : ns[p].key \in Keys /\ ns[p].val \in Vals
  /\ \A p, q \in DOMAIN ns : ns[p].key = ns[q].key => p = q

Nested(ns) == \A i \in 0..MaxHeight : Linked(ns, i)

Searching == pc \in {"search", "apply"}

SkipType ==
  /\ IsHeap(nodes) /\ IsFiniteSet(DOMAIN nodes) /\ length \in Nat /\ height \in 0..MaxHeight
  /\ call \in [op : {"new", "get", "insert", "remove", "clear", "clone"}, key : Keys \cup {0},
               val : Vals \cup {None}, height : 0..MaxHeight]
  /\ Searching => /\ call.op \in {"get", "insert", "remove"} /\ call.key \in Keys
                  /\ call.op = "insert" => call.val \in Vals
  /\ pc \in {"idle", "search", "apply", "dispose", "clone"}
  /\ cur \in Addresses \cup {HeadNode} /\ level \in 0..MaxHeight
  /\ updates \in [0..MaxHeight -> Addresses \cup {HeadNode, Null}]
  /\ iter \in Addresses \cup {HeadNode, Null} /\ ret \in Vals \cup {None}

\* The lists, between two searches and during one.
ListInv ==
  pc # "dispose" =>
    /\ Nested(nodes)
    /\ \A p \in DOMAIN nodes \ {HeadNode} : DOMAIN nodes[p].nexts \subseteq 0..height
    /\ length = Cardinality(DOMAIN nodes \ {HeadNode})

\* A search has passed only nodes before the key, and has the updates of the
\* heights above its own.
FindInv ==
  Searching =>
    /\ level =< height /\ cur \in At(nodes, level) /\ nodes[cur].key < call.key
    /\ \A i \in 0..MaxHeight : i > level => LastBefore(nodes, i, updates[i], call.key)
    /\ pc = "apply" => level = 0 /\ LastBefore(nodes, 0, updates[0], call.key) /\ updates[0] = cur

\* dispose has freed the nodes before current, and no other.
DisposeInv ==
  pc = "dispose" =>
    /\ cur \in DOMAIN nodes
    /\ cur = HeadNode => Linked(nodes, 0)
    /\ cur # HeadNode =>
         \A p \in DOMAIN nodes \ {HeadNode} :
           nodes[cur].key =< nodes[p].key /\ Follows(nodes, 0, p, nodes[p].nexts[0])

\* clone() has copied the entries up to its iterator's.
CloneInv ==
  /\ pc = "clone" => iter # Null
  /\ pc \in {"idle", "dispose"} => iter = Null
  /\ iter # Null =>
       /\ IsHeap(source) /\ Linked(source, 0) /\ iter \in DOMAIN source
       /\ pc = "clone" => Entries(nodes) = {e \in Entries(source) : e.key =< source[iter].key}
       /\ Searching =>
            /\ iter # HeadNode /\ call.op = "insert"
            /\ call.key = source[iter].key /\ call.val = source[iter].val
            /\ Entries(nodes) = {e \in Entries(source) : e.key < source[iter].key}

SkipInv == SkipType /\ ListInv /\ FindInv /\ DisposeInv /\ CloneInv
==============================================================================
