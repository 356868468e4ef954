---------------------------- MODULE TablesProofs -----------------------------
(***************************************************************************)
(* TablesProofs proves TableLaws, the facts about tables, lookups,         *)
(* replayed logs and finite sets on which the proofs about DataManager     *)
(* rest.                                                                   *)
(***************************************************************************)
EXTENDS TableLaws, FiniteSetTheorems, TLAPS

(***************************************************************************)
(* Max and Min of a nonempty finite set of integers belong to it and bound *)
(* it.  (The least set of integers without a largest element, in the       *)
(* well-founded order of inclusion, would stay without one after removing  *)
(* an element.)                                                            *)
(***************************************************************************)
LEMMA FiniteSetHasMax ==
  ASSUME NEW S \in SUBSET Int, IsFiniteSet(S), S # {}
  PROVE  \E x \in S : \A y \in S : x >= y
<1> DEFINE Bad == {T \in FiniteSubsetsOf(Int) : T # {} /\ ~ \E x \in T : \A y \in T : x >= y}
<1>1. SUFFICES ASSUME Bad # {} PROVE FALSE
  BY Zenon DEF FiniteSubsetsOf
<1>2. PICK T \in Bad : \A U \in Bad : ~ (<<U, T>> \in StrictSubsetOrdering(Int))
  <2> HIDE DEF Bad
  <2>1. Bad \subseteq FiniteSubsetsOf(Int)
    BY Zenon DEF Bad
  <2> QED
    BY Zenon, <1>1, <2>1, FS_StrictSubsetOrderingWellFounded, WFMin
<1>3. PICK a \in T : TRUE
  BY Zenon
<1> DEFINE U == T \ {a}
<1>4. T \in SUBSET Int /\ IsFiniteSet(T)
  BY Zenon DEF FiniteSubsetsOf
<1>5. U \in SUBSET Int /\ IsFiniteSet(U) /\ U # T /\ U \subseteq T
  BY Zenon, <1>4, <1>3, FS_RemoveElement
<1>6. <<U, T>> \in StrictSubsetOrdering(Int)
  BY Zenon, <1>4, <1>5 DEF StrictSubsetOrdering
<1>7. U \notin Bad
  BY Zenon, <1>2, <1>6
<1>8. CASE U = {}
  <2>1. T = {a}
    BY Zenon, <1>3, <1>8
  <2> QED
    BY <2>1, <1>4
<1>9. CASE U # {}
  <2>1. PICK m \in U : \A y \in U : m >= y
    BY Zenon, <1>7, <1>5, <1>9 DEF FiniteSubsetsOf
  <2>2. \A y \in T : y \in U \/ y = a
    BY Zenon
  <2>3. a \in Int /\ m \in Int /\ m \in T
    BY Zenon, <1>3, <1>4, <2>1
  <2>4. CASE m >= a
    BY Zenon, <2>1, <2>2, <2>3, <2>4
  <2>5. CASE a > m
    <3>1. \A y \in T : a >= y
      BY <2>1, <2>2, <2>3, <2>5, <1>4
    <3> QED
      BY Zenon, <3>1, <1>3
  <2> QED
    BY <2>3, <2>4, <2>5
<1> QED
  BY Zenon, <1>8, <1>9

\* Max of a finite nonempty set of integers is its largest element.
LEMMA MaxProperties ==
  ASSUME NEW S \in SUBSET Int, IsFiniteSet(S), S # {}
  PROVE  Max(S) \in S /\ \A y \in S : y =< Max(S)
BY Zenon, FiniteSetHasMax DEF Max

\* The same for a set of positions of a sequence.
LEMMA MaxIndex ==
  ASSUME NEW n \in Nat, NEW S \in SUBSET (1..n), S # {}
  PROVE  Max(S) \in S /\ Max(S) \in 1..n /\ \A y \in S : y =< Max(S)
<1>1. IsFiniteSet(1..n)
  BY FS_Interval
<1>2. IsFiniteSet(S)
  BY Zenon, <1>1, FS_Subset
<1>3. S \in SUBSET Int
  OBVIOUS
<1>4. Max(S) \in S /\ \A y \in S : y =< Max(S)
  BY Zenon, <1>2, <1>3, MaxProperties
<1> QED
  BY Zenon, <1>4

\* Min of a finite nonempty set of integers is its smallest element.
LEMMA MinProperties ==
  ASSUME NEW S \in SUBSET Int, IsFiniteSet(S), S # {}
  PROVE  Min(S) \in S /\ \A y \in S : Min(S) =< y
<1> DEFINE neg == [x \in S |-> -x]
           N   == {-x : x \in S}
<1>1. neg \in Surjection(S, N)
  BY Zenon DEF Surjection
<1>2. N \in SUBSET Int /\ N # {} /\ IsFiniteSet(N)
  <2>1. N \in SUBSET Int /\ N # {}
    <3>1. \A x \in S : -x \in Int
      OBVIOUS
    <3> QED
      BY Zenon, <3>1
  <2> HIDE DEF neg, N
  <2> QED
    BY Zenon, <1>1, <2>1, FS_Surjection
<1>3. PICK m \in N : \A y \in N : m >= y
  <2> HIDE DEF N
  <2> QED
    BY Zenon, <1>2, FiniteSetHasMax
<1>4. PICK x \in S : m = -x
  BY Zenon
<1>5. ASSUME NEW y \in S PROVE x =< y
  <2>1. -y \in N /\ x \in Int /\ y \in Int
    BY Zenon
  <2> HIDE DEF N, neg
  <2>2. -x >= -y
    BY Zenon, <1>3, <1>4, <2>1
  <2> QED
    BY <2>1, <2>2
<1> QED
  BY Zenon, <1>5 DEF Min

(***************************************************************************)
(* Tables.                                                                 *)
(***************************************************************************)
LEMMA KeysOfProperties ==
  ASSUME NEW t \in Table
  PROVE  /\ KeysOf(t) \in SUBSET Int /\ IsFiniteSet(KeysOf(t))
         /\ KeysOf(t) # {} => MinKey(t) \in Int
<1>1. KeysOf(t) \in SUBSET Keys
  BY Zenon DEF KeysOf
<1>2. IsFiniteSet(KeysOf(t)) /\ KeysOf(t) \in SUBSET Int
  BY Zenon, <1>1, KeysAssumption, FS_Subset
<1> QED
  BY Zenon, <1>2, MinProperties DEF MinKey

\* A lookup in the immutable memtables (MemtableList::get) yields an entry.
LEMMA NewestType ==
  ASSUME NEW s \in Seq(Table), NEW k \in Keys
  PROVE  Newest(s, k) \in Vals \cup {Tombstone, Absent}
<1>1. Len(s) \in Nat /\ Holders(s, k) \in SUBSET (1..Len(s))
  BY DEF Holders
<1>2. Holders(s, k) # {} => Max(Holders(s, k)) \in 1..Len(s)
  BY Zenon, <1>1, MaxIndex
<1>3. Holders(s, k) # {} => s[Max(Holders(s, k))] \in Table
  BY <1>2
<1> QED
  BY Zenon, <1>3 DEF Newest, Table

\* Each file size_compaction cuts from the merged entries is a table,
LEMMA PartType ==
  ASSUME NEW t \in Table, NEW size, NEW n
  PROVE  Part(t, size, n) \in Table
BY Zenon DEF Part, Table

\* and there are finitely many of them.
LEMMA PartCountType ==
  ASSUME NEW t \in Table, NEW size \in Nat \ {0}
  PROVE  PartCount(t, size) \in Nat
<1>1. Cardinality(KeysOf(t)) \in Nat
  BY Zenon, KeysOfProperties, FS_CardinalityType
<1>2. ASSUME NEW a \in Nat PROVE (a + size - 1) \div size \in Nat
  OBVIOUS
<1> QED
  BY Zenon, <1>1, <1>2 DEF PartCount

(***************************************************************************)
(* Replaying a log: WALSeg::to_skiplist inserts the records one by one.    *)
(***************************************************************************)
LEMMA ReplayType ==
  ASSUME NEW recs \in Seq(Record)
  PROVE  Replay(recs) \in Table
<1> SUFFICES ASSUME NEW k \in Keys, WritesTo(recs, k) # {}
             PROVE  recs[Max(WritesTo(recs, k))].val \in Vals \cup {Tombstone}
  BY Zenon DEF Replay, Table
<1>1. Len(recs) \in Nat /\ WritesTo(recs, k) \in SUBSET (1..Len(recs))
  BY DEF WritesTo
<1>2. Max(WritesTo(recs, k)) \in 1..Len(recs)
  BY Zenon, <1>1, MaxIndex
<1>3. recs[Max(WritesTo(recs, k))] \in Record
  BY <1>2
<1> QED
  BY Zenon, <1>3 DEF Record

\* An empty WAL segment is an empty memtable.
LEMMA ReplayEmpty == Replay(<<>>) = EmptyTable
BY DEF Replay, EmptyTable, WritesTo

\* WAL::append followed by a replay is a replay followed by Memtable::insert.
LEMMA ReplayAppend ==
  ASSUME NEW recs \in Seq(Record), NEW r \in Record
  PROVE  Replay(Append(recs, r)) = [Replay(recs) EXCEPT ![r.key] = r.val]
<1> DEFINE new == Append(recs, r)
<1>1. new \in Seq(Record) /\ Len(new) = Len(recs) + 1 /\ new[Len(recs) + 1] = r
      /\ \A i \in 1..Len(recs) : new[i] = recs[i]
  OBVIOUS
<1>2. ASSUME NEW k \in Keys
      PROVE  Replay(new)[k] = [Replay(recs) EXCEPT ![r.key] = r.val][k]
  <2>1. CASE k # r.key
    <3>1. WritesTo(new, k) = WritesTo(recs, k)
      BY <1>1, <2>1 DEF WritesTo
    <3>2. Len(recs) \in Nat /\ WritesTo(recs, k) \in SUBSET (1..Len(recs))
      BY DEF WritesTo
    <3>3. WritesTo(recs, k) # {} => Max(WritesTo(recs, k)) \in 1..Len(recs)
      BY Zenon, <3>2, MaxIndex
    <3> QED
      BY Zenon, <1>1, <2>1, <3>1, <3>3 DEF Replay
  <2>2. CASE k = r.key
    <3> DEFINE W == WritesTo(new, k)
    <3>1. W \in SUBSET (1..(Len(recs) + 1)) /\ Len(recs) + 1 \in W
      BY <1>1, <2>2 DEF WritesTo
    <3>2. Max(W) = Len(recs) + 1
      <4> HIDE DEF W
      <4>1. Len(recs) + 1 \in Nat
        OBVIOUS
      <4>2. Max(W) \in 1..(Len(recs) + 1) /\ \A y \in W : y =< Max(W)
        BY Zenon, <3>1, <4>1, MaxIndex
      <4> QED
        BY <3>1, <4>1, <4>2
    <3> QED
      BY Zenon, <1>1, <2>2, <3>1, <3>2 DEF Replay
  <2> QED
    BY Zenon, <2>1, <2>2
<1>3. r.key \in Keys
  BY Zenon DEF Record
<1> QED
  BY Zenon, <1>2, <1>3 DEF Replay
(***************************************************************************)
(* Key ranges.                                                             *)
(***************************************************************************)
\* TableReader::min_key and max_key are keys of the table and enclose it.
LEMMA RangeProperties ==
  ASSUME NEW t \in Table, KeysOf(t) # {}
  PROVE  /\ MinKey(t) \in KeysOf(t) /\ MaxKey(t) \in KeysOf(t)
         /\ MinKey(t) \in Int /\ MaxKey(t) \in Int
         /\ \A k \in KeysOf(t) : k \in Int /\ MinKey(t) =< k /\ k =< MaxKey(t)
<1>1. KeysOf(t) \in SUBSET Int /\ IsFiniteSet(KeysOf(t))
  BY Zenon, KeysOfProperties
<1>2. MinKey(t) \in KeysOf(t) /\ \A k \in KeysOf(t) : MinKey(t) =< k
  BY Zenon, <1>1, MinProperties DEF MinKey
<1>3. MaxKey(t) \in KeysOf(t) /\ \A k \in KeysOf(t) : k =< MaxKey(t)
  BY Zenon, <1>1, MaxProperties DEF MaxKey
<1> QED
  BY Zenon, <1>1, <1>2, <1>3

\* Tables with disjoint ranges share no key.
LEMMA ApartShareNoKey ==
  ASSUME NEW t \in Table, NEW u \in Table, Apart(t, u), NEW k \in Keys, t[k] # Absent
  PROVE  u[k] = Absent
<1> SUFFICES ASSUME u[k] # Absent PROVE FALSE
  BY Zenon
<1>1. k \in KeysOf(t) /\ k \in KeysOf(u)
  BY Zenon DEF KeysOf
<1>2. k \in Int /\ MinKey(t) \in Int /\ MaxKey(t) \in Int /\ MinKey(t) =< k /\ k =< MaxKey(t)
  BY Zenon, <1>1, RangeProperties
<1>3. MinKey(u) \in Int /\ MaxKey(u) \in Int /\ MinKey(u) =< k /\ k =< MaxKey(u)
  BY Zenon, <1>1, RangeProperties
<1> QED
  BY <1>2, <1>3 DEF Apart

(***************************************************************************)
(* Looking a key up in levels of tables: which table answers.              *)
(***************************************************************************)
\* Of some files, the newest one,
LEMMA NewestFile ==
  ASSUME NEW fs, NumberSet(fs), NEW H, H \subseteq fs, H # {}
  PROVE  /\ Max(H) \in H /\ \A g \in fs : g > Max(H) => g \notin H
         /\ \A f \in H : (\A g \in H : ~ (g > f)) => Max(H) = f
<1>1. H \in SUBSET Int /\ fs \in SUBSET Int
  BY DEF NumberSet
<1>2. IsFiniteSet(H)
  BY Zenon, FS_Subset DEF NumberSet
<1>3. Max(H) \in H /\ \A g \in H : g =< Max(H)
  BY Zenon, <1>1, <1>2, MaxProperties
<1> DEFINE m == Max(H)
<1>4. ASSUME NEW g \in fs, g > m, g \in H PROVE FALSE
  <2>1. g \in Int /\ m \in Int /\ g =< m
    BY Zenon, <1>1, <1>3, <1>4
  <2> HIDE DEF m
  <2> QED
    BY <2>1, <1>4
<1>5. ASSUME NEW f \in H, \A g \in H : ~ (g > f) PROVE m = f
  <2>1. f \in Int /\ m \in Int /\ f =< m /\ ~ (m > f)
    BY Zenon, <1>1, <1>3, <1>5
  <2> HIDE DEF m
  <2> QED
    BY <2>1
<1> QED
  BY Zenon, <1>3, <1>4, <1>5

\* and of some levels, the lowest one.
LEMMA FirstNumber ==
  ASSUME NEW D, NumberSet(D), NEW H, H \subseteq D, NEW l \in H, \A m \in H : ~ (m < l)
  PROVE  Min(H) = l
<1>1. H \in SUBSET Int
  BY DEF NumberSet
<1>2. IsFiniteSet(H)
  BY Zenon, FS_Subset DEF NumberSet
<1> DEFINE n == Min(H)
<1>3. n \in H /\ \A g \in H : n =< g
  BY Zenon, <1>1, <1>2, MinProperties
<1>4. l \in Int /\ n \in Int /\ n =< l /\ ~ (n < l)
  BY Zenon, <1>1, <1>3
<1> HIDE DEF n
<1>5. n = l
  BY <1>4
<1> QED
  BY Zenon, <1>5 DEF n

\* A level none of whose tables has the key,
LEMMA LevelMiss ==
  ASSUME NEW s, NEW l, NEW fs, NEW k, \A f \in fs : s[f][k] = Absent
  PROVE  LevelLookup(s, l, fs, k) = Absent
BY Zenon DEF LevelLookup

\* level 0, where the newest of the tables that have it answers,
LEMMA LevelZeroHit ==
  ASSUME NEW fs, NumberSet(fs), NEW s, NEW k, NEW f \in fs, s[f][k] # Absent,
         \A g \in fs : g > f => s[g][k] = Absent
  PROVE  LevelLookup(s, 0, fs, k) = s[f][k]
<1> DEFINE H == {g \in fs : s[g][k] # Absent}
<1>1. H \subseteq fs /\ f \in H /\ \A g \in H : ~ (g > f)
  BY Zenon
<1>4. Max(H) = f
  <2> HIDE DEF H
  <2> QED
    BY Zenon, <1>1, NewestFile
<1>5. LevelLookup(s, 0, fs, k) = IF H = {} THEN Absent ELSE s[Max(H)][k]
  BY Zenon DEF LevelLookup
<1> HIDE DEF H
<1> QED
  BY Zenon, <1>1, <1>4, <1>5

\* and another level, where at most one table has it.
LEMMA LevelSortedHit ==
  ASSUME NEW fs, NEW s, NEW k \in Keys, NEW l, l # 0, NEW f \in fs, \A g \in fs : s[g] \in Table,
         SortedOn(s, fs), s[f][k] # Absent
  PROVE  LevelLookup(s, l, fs, k) = s[f][k]
<1> DEFINE H == {g \in fs : s[g][k] # Absent}
<1>1. \A g \in fs : g # f => s[g][k] = Absent
  BY Zenon, ApartShareNoKey DEF SortedOn
<1>2. H = {f}
  BY Zenon, <1>1
<1>3. MinKey(s[f]) \in Int
  <2>1. k \in KeysOf(s[f])
    BY Zenon DEF KeysOf
  <2> QED
    BY Zenon, <2>1, RangeProperties
<1>4. (CHOOSE x \in H : \A g \in H : MinKey(s[x]) =< MinKey(s[g])) = f
  BY <1>2, <1>3
<1> QED
  BY Zenon, <1>2, <1>4 DEF LevelLookup

\* In both cases it is the entry of one of the tables.
LEMMA LevelHit ==
  ASSUME NEW fs, NumberSet(fs), NEW s, NEW k \in Keys, NEW l,
         \A g \in fs : s[g] \in Table, l # 0 => SortedOn(s, fs), NEW h \in fs, s[h][k] # Absent
  PROVE  \E f \in fs : /\ s[f][k] # Absent /\ LevelLookup(s, l, fs, k) = s[f][k]
                       /\ l = 0 => \A g \in fs : g > f => s[g][k] = Absent
<1>1. CASE l # 0
  <2>1. LevelLookup(s, l, fs, k) = s[h][k]
    BY <1>1, LevelSortedHit
  <2> QED
    BY Zenon, <1>1, <2>1
<1>2. CASE l = 0
  <2> DEFINE H == {g \in fs : s[g][k] # Absent}
  <2>1. H \subseteq fs /\ h \in H /\ \A g \in H : s[g][k] # Absent
    BY Zenon
  <2>2. Max(H) \in H /\ \A g \in fs : g > Max(H) => g \notin H
    <3> HIDE DEF H
    <3> QED
      BY Zenon, <2>1, NewestFile
  <2>4. \A g \in fs : g > Max(H) => s[g][k] = Absent
    BY Zenon, <2>2
  <2>5. Max(H) \in fs /\ s[Max(H)][k] # Absent
    BY Zenon, <2>1, <2>2
  <2> HIDE DEF H
  <2>6. LevelLookup(s, 0, fs, k) = s[Max(H)][k]
    BY <2>4, <2>5, LevelZeroHit
  <2> QED
    BY Zenon, <1>2, <2>4, <2>5, <2>6
<1> QED
  BY Zenon, <1>1, <1>2

\* The lowest level that has the key answers.
LEMMA LookupHit ==
  ASSUME NEW lv, NumberSet(DOMAIN lv), NEW s, NEW k, NEW l \in DOMAIN lv,
         LevelLookup(s, l, lv[l], k) # Absent,
         \A m \in DOMAIN lv : m < l => LevelLookup(s, m, lv[m], k) = Absent
  PROVE  Lookup(s, lv, k) = LevelLookup(s, l, lv[l], k)
<1> DEFINE hit   == [m \in DOMAIN lv |-> LevelLookup(s, m, lv[m], k)]
           found == {m \in DOMAIN lv : hit[m] # Absent}
<1>1. found \subseteq DOMAIN lv /\ l \in found /\ \A m \in found : ~ (m < l)
  BY Zenon
<1>2. Min(found) = l
  <2> HIDE DEF found, hit
  <2> QED
    BY Zenon, <1>1, FirstNumber
<1>3. hit[l] = LevelLookup(s, l, lv[l], k) /\ Lookup(s, lv, k) = hit[Min(found)]
  <2>1. Lookup(s, lv, k) = IF found = {} THEN Absent ELSE hit[Min(found)]
    BY Zenon DEF Lookup
  <2> QED
    BY Zenon, <2>1, <1>1
<1> QED
  BY Zenon, <1>2, <1>3

\* A key that no level has is absent.
LEMMA LookupMiss ==
  ASSUME NEW lv, NEW s, NEW k, \A m \in DOMAIN lv : LevelLookup(s, m, lv[m], k) = Absent
  PROVE  Lookup(s, lv, k) = Absent
BY Zenon DEF Lookup

\* What is looked up depends on the answers of the levels only,
LEMMA LookupByLevels ==
  ASSUME NEW lv, NEW lw, NEW s, NEW u, NEW k, DOMAIN lw = DOMAIN lv,
         \A m \in DOMAIN lv : LevelLookup(u, m, lw[m], k) = LevelLookup(s, m, lv[m], k)
  PROVE  Lookup(u, lw, k) = Lookup(s, lv, k)
<1> DEFINE hit == [m \in DOMAIN lv |-> LevelLookup(s, m, lv[m], k)]
           hot == [m \in DOMAIN lw |-> LevelLookup(u, m, lw[m], k)]
<1>1. hit = hot
  BY Zenon
<1>2. /\ Lookup(s, lv, k) = LET found == {m \in DOMAIN lv : hit[m] # Absent}
                            IN  IF found = {} THEN Absent ELSE hit[Min(found)]
      /\ Lookup(u, lw, k) = LET found == {m \in DOMAIN lw : hot[m] # Absent}
                            IN  IF found = {} THEN Absent ELSE hot[Min(found)]
  BY Zenon DEF Lookup
<1> HIDE DEF hit, hot
<1> QED
  BY <1>1, <1>2

\* level by level,
LEMMA LookupAtOneLevel ==
  ASSUME NEW lv, NEW lw, NEW s, NEW k, DOMAIN lw = DOMAIN lv, NEW l,
         \A m \in DOMAIN lv : m # l => lw[m] = lv[m],
         LevelLookup(s, l, lw[l], k) = LevelLookup(s, l, lv[l], k)
  PROVE  Lookup(s, lw, k) = Lookup(s, lv, k)
<1>1. \A m \in DOMAIN lv : LevelLookup(s, m, lw[m], k) = LevelLookup(s, m, lv[m], k)
  BY Zenon
<1> QED
  BY <1>1, LookupByLevels

\* and on the tables of those levels only.
LEMMA LevelLookupFrame ==
  ASSUME NEW fs, NumberSet(fs), NEW s, NEW u, NEW l, NEW k \in Keys,
         \A f \in fs : s[f] \in Table, \A f \in fs : u[f] = s[f], l # 0 => SortedOn(s, fs)
  PROVE  LevelLookup(u, l, fs, k) = LevelLookup(s, l, fs, k)
<1>1. CASE \A f \in fs : s[f][k] = Absent
  <2>1. \A f \in fs : u[f][k] = Absent
    BY Zenon, <1>1
  <2> QED
    BY <1>1, <2>1, LevelMiss
<1>2. CASE \E f \in fs : s[f][k] # Absent
  <2>1. PICK f \in fs : /\ s[f][k] # Absent /\ LevelLookup(s, l, fs, k) = s[f][k]
                        /\ l = 0 => \A g \in fs : g > f => s[g][k] = Absent
    BY <1>2, LevelHit
  <2>2. CASE l = 0
    <3>1. u[f][k] # Absent /\ \A g \in fs : g > f => u[g][k] = Absent
      BY Zenon, <2>1, <2>2
    <3>2. LevelLookup(u, 0, fs, k) = u[f][k]
      BY <3>1, LevelZeroHit
    <3> QED
      BY Zenon, <2>1, <2>2, <3>2
  <2>3. CASE l # 0
    <3>1. SortedOn(u, fs) /\ (\A g \in fs : u[g] \in Table) /\ u[f][k] # Absent
      BY Zenon, <2>1, <2>3 DEF SortedOn
    <3>2. LevelLookup(u, l, fs, k) = u[f][k]
      BY <2>3, <3>1, LevelSortedHit
    <3> QED
      BY Zenon, <2>1, <3>2
  <2> QED
    BY Zenon, <2>2, <2>3
<1> QED
  BY Zenon, <1>1, <1>2

(***************************************************************************)
(* A lookup depends on the tables of the files on the levels only.         *)
(***************************************************************************)
LEMMA SortedFrame ==
  ASSUME NEW s, NEW u, NEW lv, NEW lw, DOMAIN lw = DOMAIN lv, Sorted(s, lv),
         \A l \in DOMAIN lv : l # 0 => lw[l] \subseteq lv[l],
         \A l \in DOMAIN lv : \A f \in lv[l] : u[f] = s[f]
  PROVE  Sorted(u, lw)
<1> SUFFICES ASSUME NEW l \in DOMAIN lv, l # 0, NEW f \in lw[l], NEW g \in lw[l], f # g
             PROVE  Apart(u[f], u[g])
  BY Zenon DEF Sorted, SortedOn
<1>1. f \in lv[l] /\ g \in lv[l]
  BY Zenon
<1>2. Apart(s[f], s[g]) /\ u[f] = s[f] /\ u[g] = s[g]
  BY Zenon, <1>1 DEF Sorted, SortedOn
<1> QED
  BY Zenon, <1>2

\* A lookup depends only on the files of its levels.
LEMMA LookupFrame ==
  ASSUME NEW s, NEW u, NEW lv, Leveled(s, lv), Sorted(s, lv), NEW k \in Keys,
         \A l \in DOMAIN lv : \A f \in lv[l] : u[f] = s[f]
  PROVE  Lookup(u, lv, k) = Lookup(s, lv, k)
<1>1. ASSUME NEW l \in DOMAIN lv PROVE LevelLookup(u, l, lv[l], k) = LevelLookup(s, l, lv[l], k)
  <2> DEFINE fs == lv[l]
  <2>1. /\ NumberSet(fs) /\ (\A f \in fs : s[f] \in Table) /\ (\A f \in fs : u[f] = s[f])
        /\ l # 0 => SortedOn(s, fs)
    BY Zenon DEF Leveled, Sorted
  <2> HIDE DEF fs
  <2>2. LevelLookup(u, l, fs, k) = LevelLookup(s, l, fs, k)
    BY <2>1, LevelLookupFrame
  <2> QED
    BY Zenon, <2>2 DEF fs
<1> QED
  BY <1>1, LookupByLevels

(***************************************************************************)
(* SstableReader::add: tables that are newer than all of level 0 hide what *)
(* was there before, and nothing else.                                     *)
(***************************************************************************)
LEMMA AddNewest ==
  ASSUME NEW s, NEW lv, NEW lw, NEW new, Adds(s, lv, lw, new), NEW k \in Keys
  PROVE  /\ (\A g \in new : s[g][k] = Absent) => Lookup(s, lw, k) = Lookup(s, lv, k)
         /\ \A g \in new : s[g][k] # Absent /\ (\A h \in new : h > g => s[h][k] = Absent) =>
              Lookup(s, lw, k) = s[g][k]
<1> /\ Leveled(s, lv) /\ 0 \in DOMAIN lv /\ NumberSet(new)
    /\ \A f \in lv[0], g \in new : f < g
    /\ DOMAIN lw = DOMAIN lv /\ lw[0] = lv[0] \cup new
    /\ \A m \in DOMAIN lv : m # 0 => lw[m] = lv[m]
  BY Zenon DEF Adds
<1>1. ASSUME \A g \in new : s[g][k] = Absent PROVE Lookup(s, lw, k) = Lookup(s, lv, k)
  <2> DEFINE H == {f \in lv[0] : s[f][k] # Absent}
             I == {f \in lw[0] : s[f][k] # Absent}
  <2>1. H = I
    BY Zenon, <1>1
  <2>2. /\ LevelLookup(s, 0, lv[0], k) = IF H = {} THEN Absent ELSE s[Max(H)][k]
        /\ LevelLookup(s, 0, lw[0], k) = IF I = {} THEN Absent ELSE s[Max(I)][k]
    BY Zenon DEF LevelLookup
  <2> HIDE DEF H, I
  <2>3. LevelLookup(s, 0, lw[0], k) = LevelLookup(s, 0, lv[0], k)
    BY <2>1, <2>2
  <2> QED
    BY <2>3, LookupAtOneLevel
<1>2. ASSUME NEW g \in new, s[g][k] # Absent, \A h \in new : h > g => s[h][k] = Absent
      PROVE  Lookup(s, lw, k) = s[g][k]
  <2> DEFINE fs == lw[0]
  <2>1. NumberSet(fs) /\ NumberSet(lv[0])
    <3>1. NumberSet(lv[0]) /\ NumberSet(new)
      BY Zenon DEF Leveled
    <3> QED
      BY Zenon, <3>1, FS_Union DEF NumberSet
  <2>2. g \in fs /\ \A h \in fs : h > g => s[h][k] = Absent
    <3>1. ASSUME NEW h \in lv[0], h > g PROVE FALSE
      <4>1. h \in Nat /\ g \in Nat /\ h < g
        BY Zenon, <2>1 DEF NumberSet
      <4> QED
        BY <4>1, <3>1
    <3> QED
      BY Zenon, <1>2, <3>1
  <2> HIDE DEF fs
  <2>3. LevelLookup(s, 0, fs, k) = s[g][k]
    BY <1>2, <2>1, <2>2, LevelZeroHit
  <2>4. ASSUME NEW m \in DOMAIN lw, m < 0 PROVE FALSE
    <3>1. m \in Nat
      BY Zenon DEF Leveled, NumberSet
    <3> QED
      BY <2>4, <3>1
  <2>5. LevelLookup(s, 0, lw[0], k) = s[g][k] /\ NumberSet(DOMAIN lw)
    BY Zenon, <2>3 DEF fs, Leveled
  <2> QED
    BY <1>2, <2>4, <2>5, LookupHit
<1> QED
  BY Zenon, <1>1, <1>2

(***************************************************************************)
(* Splitting a table (size_compaction's TableBuilders).  The rank of a key *)
(* grows with the key and takes every value below the number of keys.      *)
(***************************************************************************)
RankIn(S, k) == Cardinality({x \in S : x < k})

\* The rank of a key is below the number of keys,
LEMMA RankType ==
  ASSUME NEW S \in SUBSET Int, IsFiniteSet(S), NEW k \in Int
  PROVE  /\ IsFiniteSet({x \in S : x < k}) /\ RankIn(S, k) \in Nat
         /\ k \in S => RankIn(S, k) < Cardinality(S)
<1> DEFINE B == {x \in S : x < k}
<1>1. B \subseteq S /\ k \notin B
  OBVIOUS
<1>2. IsFiniteSet(B) /\ Cardinality(B) \in Nat /\ Cardinality(S) \in Nat
  <2> HIDE DEF B
  <2> QED
    BY Zenon, <1>1, FS_Subset, FS_CardinalityType
<1>3. k \in S => Cardinality(B) < Cardinality(S)
  <2> HIDE DEF B
  <2>1. k \in S => Cardinality(B) =< Cardinality(S) /\ Cardinality(B) # Cardinality(S)
    BY Zenon, <1>1, FS_Subset
  <2> QED
    BY <1>2, <2>1
<1> QED
  BY Zenon, <1>2, <1>3 DEF RankIn

\* grows with the key,
LEMMA RankGrows ==
  ASSUME NEW S \in SUBSET Int, IsFiniteSet(S), NEW j \in S, NEW k \in Int, j < k
  PROVE  RankIn(S, j) < RankIn(S, k)
<1> DEFINE A == {x \in S : x < j}
           B == {x \in S : x < k}
<1>1. A \subseteq B /\ j \in B /\ j \notin A
  <2>1. \A x \in S : x < j => x < k
    OBVIOUS
  <2>2. ~ (j < j)
    OBVIOUS
  <2> QED
    BY Zenon, <2>1, <2>2
<1>2. IsFiniteSet(A) /\ IsFiniteSet(B) /\ Cardinality(A) \in Nat /\ Cardinality(B) \in Nat
  BY Zenon, RankType DEF RankIn
<1> HIDE DEF A, B
<1>3. Cardinality(A) =< Cardinality(B) /\ Cardinality(A) # Cardinality(B)
  BY Zenon, <1>1, <1>2, FS_Subset
<1>4. Cardinality(A) < Cardinality(B)
  BY <1>2, <1>3
<1> QED
  BY Zenon, <1>4 DEF RankIn, A, B

\* and every smaller number is the rank of some key.
LEMMA RankOnto ==
  ASSUME NEW S \in SUBSET Int, IsFiniteSet(S), NEW r \in Nat, r < Cardinality(S)
  PROVE  \E k \in S : RankIn(S, k) = r
<1> DEFINE T == {k \in S : RankIn(S, k) >= r}
<1>1. Cardinality(S) \in Nat /\ S # {}
  BY FS_CardinalityType, FS_EmptySet
<1>2. Max(S) \in S /\ \A y \in S : y =< Max(S)
  BY Zenon, <1>1, MaxProperties
<1> DEFINE top == Max(S)
<1>3. RankIn(S, top) = Cardinality(S) - 1
  <2>1. {x \in S : x < top} = S \ {top}
    <3>1. top \in Int /\ \A x \in S : x \in Int /\ x =< top
      BY Zenon, <1>2
    <3> HIDE DEF top
    <3>2. \A x \in S : x < top <=> x # top
      BY <3>1
    <3> QED
      BY Zenon, <3>2
  <2>2. Cardinality(S \ {top}) = Cardinality(S) - 1
    BY Zenon, <1>2, FS_RemoveElement
  <2> QED
    BY Zenon, <2>1, <2>2 DEF RankIn
<1>4. top \in T
  <2>1. Cardinality(S) - 1 >= r
    BY <1>1
  <2> HIDE DEF top
  <2> QED
    BY Zenon, <1>2, <1>3, <2>1 DEF top
<1> HIDE DEF top
<1>5. T \in SUBSET Int /\ T # {} /\ T \subseteq S
  BY Zenon, <1>4
<1>6. Min(T) \in T /\ \A y \in T : Min(T) =< y
  <2> HIDE DEF T
  <2>1. IsFiniteSet(T)
    BY Zenon, <1>5, FS_Subset
  <2> QED
    BY Zenon, <1>5, <2>1, MinProperties
<1> DEFINE k == Min(T)
<1>7. k \in S /\ k \in Int /\ RankIn(S, k) >= r /\ \A y \in S : RankIn(S, y) >= r => k =< y
  BY Zenon, <1>5, <1>6
<1> HIDE DEF T, k
<1>8. RankIn(S, k) \in Nat
  BY Zenon, <1>7, RankType
<1>9. ASSUME RankIn(S, k) > r PROVE FALSE
  <2> DEFINE P == {x \in S : x < k}
             p == Max(P)
  <2>1. P \in SUBSET Int /\ IsFiniteSet(P)
    BY Zenon, <1>7, RankType
  <2>2. P # {}
    <3> SUFFICES ASSUME P = {} PROVE FALSE
      BY Zenon
    <3>1. RankIn(S, k) = Cardinality(P)
      BY Zenon DEF RankIn
    <3>2. RankIn(S, k) = 0
      BY Zenon, <3>1, FS_EmptySet
    <3> QED
      BY <3>2, <1>9
  <2>3. p \in P /\ \A y \in P : y =< p
    <3> HIDE DEF P
    <3> QED
      BY Zenon, <2>1, <2>2, MaxProperties
  <2>4. p \in S /\ p \in Int /\ p < k
    BY Zenon, <2>1, <2>3
  <2>5. {x \in S : x < p} = P \ {p}
    <3>1. \A x \in S : x \in P <=> x < k
      BY Zenon
    <3> HIDE DEF p, P
    <3>2. \A x \in S : x < p <=> x \in P /\ x # p
      BY <1>7, <2>3, <2>4, <3>1
    <3>3. P \subseteq S
      BY Zenon DEF P
    <3> QED
      BY Zenon, <3>2, <3>3
  <2>6. Cardinality(P \ {p}) = Cardinality(P) - 1
    <3> HIDE DEF P, p
    <3> QED
      BY Zenon, <2>1, <2>3, FS_RemoveElement
  <2>7. RankIn(S, p) = RankIn(S, k) - 1
    BY Zenon, <2>5, <2>6 DEF RankIn
  <2> HIDE DEF P, p
  <2>8. RankIn(S, p) >= r
    BY <1>8, <1>9, <2>7
  <2>9. k =< p
    BY Zenon, <1>7, <2>4, <2>8
  <2> QED
    BY <1>7, <2>4, <2>9
<1>10. RankIn(S, k) = r
  BY <1>7, <1>8, <1>9
<1> QED
  BY Zenon, <1>7, <1>10

\* Division with remainder: the quotient is determined by its bounds.
LEMMA Quotient ==
  ASSUME NEW a \in Nat, NEW size \in Nat \ {0}
  PROVE  /\ a \div size \in Nat
         /\ size * (a \div size) =< a /\ a < size * (a \div size) + size
OBVIOUS

\* Division: the quotient,
LEMMA QuotientOf ==
  ASSUME NEW a \in Nat, NEW size \in Nat \ {0}, NEW q \in Nat, size * q =< a, a < size * q + size
  PROVE  a \div size = q
OBVIOUS

\* which grows with the dividend,
LEMMA QuotientGrows ==
  ASSUME NEW a \in Nat, NEW b \in Nat, a =< b, NEW size \in Nat \ {0}
  PROVE  a \div size =< b \div size
OBVIOUS

\* and the number of parts that hold c elements.
LEMMA PartCountCovers ==
  ASSUME NEW c \in Nat, NEW size \in Nat \ {0}, NEW r \in Nat, r < c
  PROVE  (r \div size) + 1 \in 1..((c + size - 1) \div size)
<1> DEFINE q == r \div size
           p == (c + size - 1) \div size
<1>1. q \in Nat /\ size * q =< r
  BY Zenon, Quotient
<1>2. c + size - 1 \in Nat
  OBVIOUS
<1>3. p \in Nat /\ c + size - 1 < size * p + size
  BY Zenon, <1>2, Quotient
<1> HIDE DEF p, q
<1>4. size * q < size * p
  BY <1>1, <1>3
<1>5. q < p
  BY <1>1, <1>3, <1>4
<1> QED
  BY <1>1, <1>3, <1>5 DEF p, q

\* Every entry of the merged tables is in one of the parts,
LEMMA PartOfKey ==
  ASSUME NEW t \in Table, NEW size \in Nat \ {0}, NEW k \in KeysOf(t)
  PROVE  \E n \in 1..PartCount(t, size) : Part(t, size, n)[k] = t[k]
<1> DEFINE S == KeysOf(t)
           r == Rank(t, k)
           q == r \div size
<1>1. S \in SUBSET Int /\ IsFiniteSet(S) /\ k \in Int /\ k \in S
  BY Zenon, KeysOfProperties
<1>2. r = RankIn(S, k) /\ Cardinality(S) \in Nat
  BY Zenon, <1>1, FS_CardinalityType DEF Rank, RankIn
<1>3. r \in Nat /\ r < Cardinality(S)
  <2> HIDE DEF S, r
  <2> QED
    BY Zenon, <1>1, <1>2, RankType
<1>4. q + 1 \in 1..PartCount(t, size)
  <2> HIDE DEF r
  <2> QED
    BY Zenon, <1>2, <1>3, PartCountCovers DEF PartCount
<1>5. q \in Nat
  <2> HIDE DEF r
  <2> QED
    BY Zenon, <1>3, Quotient
<1>6. q = (q + 1) - 1
  <2> HIDE DEF q
  <2> QED
    BY <1>5
<1>7. Part(t, size, q + 1)[k] = t[k]
  <2>1. k \in Keys /\ t[k] # Absent
    BY Zenon DEF KeysOf
  <2> HIDE DEF r
  <2> QED
    BY Zenon, <1>6, <2>1 DEF Part, r
<1> QED
  BY Zenon, <1>4, <1>7

\* a part has only entries of the merged tables,
LEMMA PartEntries ==
  ASSUME NEW t, NEW size, NEW n, NEW k \in KeysOf(Part(t, size, n))
  PROVE  k \in KeysOf(t) /\ Part(t, size, n)[k] = t[k] /\ Rank(t, k) \div size = n - 1
BY Zenon DEF Part, KeysOf

\* no part is empty,
LEMMA PartHasKeys ==
  ASSUME NEW t \in Table, NEW size \in Nat \ {0}, NEW n \in 1..PartCount(t, size)
  PROVE  KeysOf(Part(t, size, n)) # {}
<1> DEFINE S == KeysOf(t)
           c == Cardinality(S)
           p == (c + size - 1) \div size
           r == size * (n - 1)
<1>1. S \in SUBSET Int /\ IsFiniteSet(S) /\ c \in Nat
  BY Zenon, KeysOfProperties, FS_CardinalityType
<1>2. c + size - 1 \in Nat
  <2> HIDE DEF c
  <2> QED
    BY <1>1
<1>3. p \in Nat /\ size * p =< c + size - 1 /\ n \in 1..p
  <2> HIDE DEF c
  <2>1. p \in Nat /\ size * p =< c + size - 1
    BY Zenon, <1>2, Quotient
  <2> QED
    BY Zenon, <2>1 DEF PartCount, c
<1> HIDE DEF p, c, S
<1>4. n \in Nat /\ n - 1 \in Nat /\ r \in Nat
  BY <1>3
<1>5. size * n =< size * p /\ size * n = r + size
  BY <1>3, <1>4
<1>6. r < c
  BY <1>1, <1>3, <1>4, <1>5
<1>7. r \div size = n - 1
  <2> DEFINE q == n - 1
  <2>1. q \in Nat /\ size * q =< r /\ r < size * q + size
    BY <1>4
  <2> HIDE DEF q, r
  <2>2. r \div size = q
    BY Zenon, <1>4, <2>1, QuotientOf
  <2> QED
    BY Zenon, <2>2 DEF q
<1> HIDE DEF r
<1>8. PICK k \in S : RankIn(S, k) = r
  BY Zenon, <1>1, <1>4, <1>6, RankOnto DEF c
<1>9. k \in Keys /\ t[k] # Absent /\ Rank(t, k) \div size = n - 1
  BY Zenon, <1>7, <1>8 DEF S, KeysOf, Rank, RankIn
<1>10. Part(t, size, n)[k] # Absent
  BY Zenon, <1>9 DEF Part
<1> QED
  BY Zenon, <1>9, <1>10 DEF KeysOf

\* and the parts follow one another.
LEMMA PartsInOrder ==
  ASSUME NEW t \in Table, NEW size \in Nat \ {0}, NEW m \in Nat, NEW n \in Nat, m < n,
         KeysOf(Part(t, size, m)) # {}, KeysOf(Part(t, size, n)) # {}
  PROVE  MaxKey(Part(t, size, m)) < MinKey(Part(t, size, n))
<1> DEFINE S == KeysOf(t)
           j == MaxKey(Part(t, size, m))
           k == MinKey(Part(t, size, n))
<1>1. S \in SUBSET Int /\ IsFiniteSet(S)
  BY Zenon, KeysOfProperties
<1>2. Part(t, size, m) \in Table /\ Part(t, size, n) \in Table
  BY Zenon, PartType
<1>3. j \in KeysOf(Part(t, size, m)) /\ k \in KeysOf(Part(t, size, n))
  BY Zenon, <1>2, RangeProperties
<1>4. j \in S /\ k \in S /\ Rank(t, j) \div size = m - 1 /\ Rank(t, k) \div size = n - 1
  <2> HIDE DEF j, k
  <2> QED
    BY <1>3, PartEntries
<1> HIDE DEF j, k, S
<1>5. j \in Int /\ k \in Int
  BY Zenon, <1>1, <1>4
<1>6. RankIn(S, j) \in Nat /\ RankIn(S, k) \in Nat
  BY Zenon, <1>1, <1>5, RankType
<1>7. RankIn(S, j) \div size < RankIn(S, k) \div size
  BY SMTT(30), <1>4, <1>6 DEF S, Rank, RankIn
<1>8. ~ (RankIn(S, k) =< RankIn(S, j))
  <2> SUFFICES ASSUME RankIn(S, k) =< RankIn(S, j) PROVE FALSE
    BY Zenon
  <2>1. RankIn(S, k) \div size =< RankIn(S, j) \div size
    BY Zenon, <1>6, QuotientGrows
  <2>2. RankIn(S, k) \div size \in Nat /\ RankIn(S, j) \div size \in Nat
    BY Zenon, <1>6, Quotient
  <2> QED
    BY SMTT(30), <1>7, <2>1, <2>2
<1>9. ~ (k < j) /\ k # j
  <2>1. k < j => RankIn(S, k) < RankIn(S, j)
    BY Zenon, <1>1, <1>4, <1>5, RankGrows
  <2> QED
    BY SMTT(30), <1>6, <1>8, <2>1
<1>10. j < k
  BY <1>5, <1>9
<1> QED
  BY Zenon, <1>10 DEF j, k

(***************************************************************************)
(* size_compaction.  The entries of level l are merged over those of the   *)
(* next level n: a lookup that level l answered is answered by level n.    *)
(***************************************************************************)
LEMMA FirstHit ==
  ASSUME NEW lv, NumberSet(DOMAIN lv), NEW s, NEW k, NEW i \in DOMAIN lv,
         LevelLookup(s, i, lv[i], k) # Absent
  PROVE  \E l \in DOMAIN lv :
           /\ LevelLookup(s, l, lv[l], k) # Absent
           /\ \A m \in DOMAIN lv : m < l => LevelLookup(s, m, lv[m], k) = Absent
<1> DEFINE H == {m \in DOMAIN lv : LevelLookup(s, m, lv[m], k) # Absent}
           l == Min(H)
<1>1. H \subseteq DOMAIN lv /\ i \in H
  BY Zenon
<1>2. l \in H /\ \A m \in DOMAIN lv : m < l => m \notin H
  <2> HIDE DEF H
  <2>1. H \in SUBSET Int /\ DOMAIN lv \in SUBSET Int
    BY <1>1 DEF NumberSet
  <2>2. IsFiniteSet(H)
    BY Zenon, <1>1, FS_Subset DEF NumberSet
  <2>3. l \in H /\ \A m \in H : l =< m
    BY Zenon, <1>1, <2>1, <2>2, MinProperties
  <2>4. ASSUME NEW m \in DOMAIN lv, m < l, m \in H PROVE FALSE
    <3>1. m \in Int /\ l \in Int /\ l =< m
      BY Zenon, <2>1, <2>3, <2>4
    <3> HIDE DEF l
    <3> QED
      BY <2>4, <3>1
  <2> QED
    BY Zenon, <2>3, <2>4
<1> QED
  BY Zenon, <1>2

\* What levels l and n answer together.
BothLookup(s, l, fs0, n, fs1, k) ==
  IF LevelLookup(s, l, fs0, k) # Absent THEN LevelLookup(s, l, fs0, k) ELSE LevelLookup(s, n, fs1, k)

SameElsewhere(s, u, lv, lw, l, n, k) ==
  \A i \in DOMAIN lv : i # l /\ i # n => LevelLookup(u, i, lw[i], k) = LevelLookup(s, i, lv[i], k)

\* Level l is emptied into level n.
Pushes(s, u, lv, lw, l, n, k) ==
  /\ NumberSet(DOMAIN lv) /\ DOMAIN lw = DOMAIN lv
  /\ l \in DOMAIN lv /\ n \in DOMAIN lv /\ NextAfter(DOMAIN lv, l, n)
  /\ SameElsewhere(s, u, lv, lw, l, n, k)
  /\ LevelLookup(u, l, lw[l], k) = Absent
  /\ LevelLookup(u, n, lw[n], k) = BothLookup(s, l, lv[l], n, lv[n], k)

\* Moving the newest entry of a key from a level to the next one changes no lookup.
LEMMA PushDown ==
  ASSUME NEW s, NEW u, NEW lv, NEW lw, NEW l, NEW n, NEW k, Pushes(s, u, lv, lw, l, n, k)
  PROVE  Lookup(u, lw, k) = Lookup(s, lv, k)
<1> /\ NumberSet(DOMAIN lv) /\ DOMAIN lw = DOMAIN lv
    /\ l \in DOMAIN lv /\ n \in DOMAIN lv /\ NextAfter(DOMAIN lv, l, n)
    /\ SameElsewhere(s, u, lv, lw, l, n, k)
    /\ LevelLookup(u, l, lw[l], k) = Absent
    /\ LevelLookup(u, n, lw[n], k) = BothLookup(s, l, lv[l], n, lv[n], k)
  BY Zenon DEF Pushes
<1> USE DEF NextAfter, BothLookup, SameElsewhere
<1>1. DOMAIN lv \in SUBSET Nat
  BY Zenon DEF NumberSet
<1>2. CASE \A i \in DOMAIN lv : LevelLookup(s, i, lv[i], k) = Absent
  <2>1. LevelLookup(u, n, lw[n], k) = Absent
    BY Zenon, <1>2
  <2>2. \A i \in DOMAIN lw : LevelLookup(u, i, lw[i], k) = Absent
    BY Zenon, <1>2, <2>1
  <2> QED
    BY SMTT(30), <1>2, <2>2, LookupMiss
<1>3. CASE \E i \in DOMAIN lv : LevelLookup(s, i, lv[i], k) # Absent
  <2>1. PICK i \in DOMAIN lv :
          /\ LevelLookup(s, i, lv[i], k) # Absent
          /\ \A m \in DOMAIN lv : m < i => LevelLookup(s, m, lv[m], k) = Absent
    BY <1>3, FirstHit
  <2>2. Lookup(s, lv, k) = LevelLookup(s, i, lv[i], k)
    BY ZenonT(30), <2>1, LookupHit
  <2>3. /\ i \in Nat /\ l \in Nat /\ n \in Nat
        /\ \A m \in DOMAIN lv : m \in Nat
    BY Zenon, <1>1
  <2>4. CASE i = l
    <3>1. LevelLookup(u, n, lw[n], k) = LevelLookup(s, l, lv[l], k)
      BY Zenon, <2>1, <2>4
    <3>2. ASSUME NEW m \in DOMAIN lw, m < n PROVE LevelLookup(u, m, lw[m], k) = Absent
      <4>1. m \in DOMAIN lv /\ (m < l \/ m = l)
        BY Zenon, <3>2
      <4>2. m < l => m # l /\ m # n
        BY <4>1, <2>3
      <4> QED
        BY Zenon, <4>1, <4>2, <2>1, <2>4
    <3>3. LevelLookup(u, n, lw[n], k) # Absent /\ n \in DOMAIN lw
      BY Zenon, <3>1, <2>1, <2>4
    <3>4. Lookup(u, lw, k) = LevelLookup(u, n, lw[n], k)
      BY ZenonT(30), <3>2, <3>3, LookupHit
    <3> QED
      BY Zenon, <2>2, <2>4, <3>1, <3>4
  <2>5. CASE i # l
    <3>1. LevelLookup(u, i, lw[i], k) = LevelLookup(s, i, lv[i], k)
      <4>1. CASE i = n
        BY Zenon, <2>1, <4>1
      <4> QED
        BY Zenon, <4>1, <2>5
    <3>2. ASSUME NEW m \in DOMAIN lw, m < i PROVE LevelLookup(u, m, lw[m], k) = Absent
      <4>1. m \in DOMAIN lv /\ LevelLookup(s, m, lv[m], k) = Absent
        BY Zenon, <2>1, <3>2
      <4>2. CASE m = n
        <5>1. l < i
          BY <2>3, <3>2, <4>2
        <5> QED
          BY Zenon, <5>1, <4>1, <4>2, <2>1
      <4> QED
        BY Zenon, <4>1, <4>2
    <3>3. LevelLookup(u, i, lw[i], k) # Absent /\ i \in DOMAIN lw
      BY Zenon, <3>1, <2>1
    <3>4. Lookup(u, lw, k) = LevelLookup(u, i, lw[i], k)
      BY ZenonT(30), <3>2, <3>3, LookupHit
    <3> QED
      BY Zenon, <2>2, <3>1, <3>4
  <2> QED
    BY Zenon, <2>4, <2>5
<1> QED
  BY Zenon, <1>2, <1>3

\* Table t has keys of the given tables only.
MadeOf(s, t, fs, gs) ==
  \A x \in KeysOf(t) : (\E g \in fs : x \in KeysOf(s[g])) \/ (\E g \in gs : x \in KeysOf(s[g]))

\* get_other_readers takes every table that overlaps the range of level l,
\* so that the new tables fit between those that stay.
LEMMA NewTablesFit ==
  ASSUME NEW s, NEW fs0, NEW fs1, Keyed(s, fs0), Keyed(s, fs1), SortedOn(s, fs1),
         NEW lo \in Int, NEW hi \in Int, Within(s, fs0, lo, hi),
         NEW in1, in1 = Overlapping(s, fs1, lo, hi),
         NEW t \in Table, KeysOf(t) # {}, MadeOf(s, t, fs0, in1),
         NEW g \in fs1, g \notin in1
  PROVE  Apart(s[g], t)
<1> USE DEF Within, Overlapping, MadeOf
<1>1. /\ s[g] \in Table /\ KeysOf(s[g]) # {}
      /\ \A h \in in1 : h \in fs1 /\ s[h] \in Table /\ KeysOf(s[h]) # {} /\ Apart(s[h], s[g])
                        /\ MinKey(s[h]) =< hi /\ MaxKey(s[h]) >= lo
  BY Zenon DEF Keyed, SortedOn
<1>2. MinKey(s[g]) \in Int /\ MaxKey(s[g]) \in Int /\ MinKey(s[g]) =< MaxKey(s[g])
  BY Zenon, <1>1, RangeProperties
<1>3. MinKey(t) \in KeysOf(t) /\ MaxKey(t) \in KeysOf(t)
  BY Zenon, RangeProperties
<1>4. ~ (MinKey(s[g]) =< hi) \/ ~ (MaxKey(s[g]) >= lo)
  BY Zenon
<1>5. CASE ~ (MinKey(s[g]) =< hi)
  <2>1. ASSUME NEW x \in KeysOf(t) PROVE x < MinKey(s[g])
    <3>1. CASE \E f \in fs0 : x \in KeysOf(s[f])
      <4>1. x =< hi /\ x \in Int
        <5>1. x =< hi
          BY Zenon, <3>1
        <5>2. x \in Int
          BY Zenon, RangeProperties
        <5> QED
          BY Zenon, <5>1, <5>2
      <4> QED
        BY SMTT(30), <1>2, <1>5, <4>1
    <3>2. CASE \E h \in in1 : x \in KeysOf(s[h])
      <4>1. PICK h \in in1 : x \in KeysOf(s[h])
        BY Zenon, <3>2
      <4>2. /\ Apart(s[h], s[g]) /\ MinKey(s[h]) =< hi /\ s[h] \in Table
        BY Zenon, <1>1
      <4>3. MinKey(s[h]) \in Int /\ MaxKey(s[h]) \in Int /\ x \in Int /\ x =< MaxKey(s[h])
        BY Zenon, <4>1, <4>2, RangeProperties
      <4> QED
        BY <1>2, <1>5, <4>2, <4>3 DEF Apart
    <3> QED
      BY Zenon, <3>1, <3>2
  <2> QED
    BY Zenon, <1>3, <2>1 DEF Apart
<1>6. CASE ~ (MaxKey(s[g]) >= lo)
  <2>1. ASSUME NEW x \in KeysOf(t) PROVE MaxKey(s[g]) < x
    <3>1. CASE \E f \in fs0 : x \in KeysOf(s[f])
      <4>1. lo =< x /\ x \in Int
        <5>1. lo =< x
          BY Zenon, <3>1
        <5>2. x \in Int
          BY RangeProperties
        <5> QED
          BY Zenon, <5>1, <5>2
      <4> QED
        BY SMTT(30), <1>2, <1>6, <4>1
    <3>2. CASE \E h \in in1 : x \in KeysOf(s[h])
      <4>1. PICK h \in in1 : x \in KeysOf(s[h])
        BY <3>2
      <4>2. /\ Apart(s[h], s[g]) /\ MaxKey(s[h]) >= lo /\ s[h] \in Table
        BY Zenon, <1>1
      <4>3. MinKey(s[h]) \in Int /\ MaxKey(s[h]) \in Int /\ x \in Int /\ MinKey(s[h]) =< x
        BY Zenon, <4>1, <4>2, RangeProperties
      <4> QED
        BY SMTT(30), <1>2, <1>6, <4>2, <4>3 DEF Apart
    <3> QED
      BY Zenon, <3>1, <3>2
  <2> QED
    BY Zenon, <1>3, <2>1 DEF Apart
<1> QED
  BY Zenon, <1>4, <1>5, <1>6

\* What the Merger returns for a key, level n returns for it afterwards.
LEMMA MergedLookup ==
  ASSUME NEW s, NEW u, NEW l, NEW n, n # 0, NEW fs0, NEW fs1, NEW in1, in1 \subseteq fs1,
         NumberSet(fs0), Keyed(s, fs0), Keyed(s, fs1), l # 0 => SortedOn(s, fs0), SortedOn(s, fs1),
         NEW out, NEW fs2, fs2 = (fs1 \ in1) \cup out, Keyed(u, fs2), SortedOn(u, fs2),
         \A f \in fs1 : u[f] = s[f],
         NEW k \in Keys, NEW t, t = MergeOf(s, l, n, fs0, in1), SplitInto(u, out, t)
  PROVE  LevelLookup(u, n, fs2, k) = BothLookup(s, l, fs0, n, fs1, k)
<1> USE DEF BothLookup
<1> DEFINE e == t[k]
<1>5. e = IF {f \in fs0 : s[f][k] # Absent} # {} THEN LevelLookup(s, l, fs0, k)
          ELSE LevelLookup(s, n, in1, k)
  BY Zenon DEF MergeOf
<1>6. /\ \A f \in out : u[f][k] # Absent => u[f][k] = e
      /\ e # Absent => \E f \in out : u[f][k] = e
  BY Zenon DEF SplitInto
<1> HIDE DEF e
<1>1. /\ \A f \in fs0 : s[f] \in Table
      /\ \A f \in fs1 : s[f] \in Table
      /\ \A f \in in1 : s[f] \in Table
      /\ \A f \in fs2 : u[f] \in Table
      /\ SortedOn(s, in1)
  BY Zenon DEF Keyed, SortedOn
<1>2. ASSUME e # Absent PROVE LevelLookup(u, n, fs2, k) = e
  <2>1. PICK f \in out : u[f][k] = e
    BY Zenon, <1>2, <1>6
  <2>2. f \in fs2 /\ u[f][k] # Absent
    BY Zenon, <1>2, <2>1
  <2>3. LevelLookup(u, n, fs2, k) = u[f][k]
    BY <1>1, <2>2, LevelSortedHit
  <2> QED
    BY Zenon, <2>1, <2>3
<1>3. CASE \E f \in fs0 : s[f][k] # Absent
  <2>1. e = LevelLookup(s, l, fs0, k)
    BY Zenon, <1>3, <1>5
  <2>2. LevelLookup(s, l, fs0, k) # Absent
    BY SMTT(30), <1>1, <1>3, LevelHit
  <2> QED
    BY Zenon, <1>2, <2>1, <2>2
<1>4. CASE \A f \in fs0 : s[f][k] = Absent
  <2>1. e = LevelLookup(s, n, in1, k)
    BY Zenon, <1>4, <1>5
  <2>2. LevelLookup(s, l, fs0, k) = Absent
    BY Zenon, <1>4, LevelMiss
  <2>3. CASE \E f \in in1 : s[f][k] # Absent
    <3>1. PICK f \in in1 : s[f][k] # Absent
      BY Zenon, <2>3
    <3>2. LevelLookup(s, n, in1, k) = s[f][k]
      BY <1>1, <3>1, LevelSortedHit
    <3>3. LevelLookup(s, n, fs1, k) = s[f][k]
      BY <1>1, <3>1, LevelSortedHit
    <3> QED
      BY Zenon, <1>2, <2>1, <2>2, <3>1, <3>2, <3>3
  <2>4. CASE \A f \in in1 : s[f][k] = Absent
    <3>1. LevelLookup(s, n, in1, k) = Absent
      BY Zenon, <2>4, LevelMiss
    <3>2. \A f \in out : u[f][k] = Absent
      BY Zenon, <1>6, <2>1, <3>1
    <3>3. CASE \E f \in fs1 : s[f][k] # Absent
      <4>1. PICK f \in fs1 : s[f][k] # Absent
        BY Zenon, <3>3
      <4>2. f \in fs2 /\ u[f][k] # Absent /\ u[f] = s[f]
        BY Zenon, <2>4, <4>1
      <4>3. LevelLookup(s, n, fs1, k) = s[f][k]
        BY SMTT(30), <1>1, <4>1, LevelSortedHit
      <4>4. LevelLookup(u, n, fs2, k) = u[f][k]
        BY <1>1, <4>2, LevelSortedHit
      <4> QED
        BY Zenon, <2>2, <4>2, <4>3, <4>4
    <3>4. CASE \A f \in fs1 : s[f][k] = Absent
      <4>1. \A f \in fs2 : u[f][k] = Absent
        BY Zenon, <3>2, <3>4
      <4>2. LevelLookup(s, n, fs1, k) = Absent
        BY Zenon, <3>4, LevelMiss
      <4>3. LevelLookup(u, n, fs2, k) = Absent
        BY Zenon, <4>1, LevelMiss
      <4> QED
        BY Zenon, <2>2, <4>2, <4>3
    <3> QED
      BY Zenon, <3>3, <3>4
  <2> QED
    BY Zenon, <2>3, <2>4
<1> QED
  BY Zenon, <1>3, <1>4

\* The outputs of a merge are sorted and hold what was merged.
LEMMA OutputTables ==
  ASSUME NEW t \in Table, NEW size \in Nat \ {0}, NEW next, NEW u, NEW out, Outputs(u, t, size, next, out)
  PROVE  NumberSet(out) /\ Keyed(u, out) /\ SortedOn(u, out) /\ SplitInto(u, out, t)
<1> USE DEF Outputs
<1>1. PartCount(t, size) \in Nat
  BY Zenon, PartCountType
<1>2. /\ \A f \in out : f \in Nat /\ f - next + 1 \in 1..PartCount(t, size) /\ f - next + 1 \in Nat
      /\ \A n \in 1..PartCount(t, size) : n + next - 1 \in out /\ (n + next - 1) - next + 1 = n
  BY <1>1
<1>3. NumberSet(out)
  <2>1. IsFiniteSet(next..(next + PartCount(t, size) - 1))
    BY <1>1, FS_Interval
  <2> QED
    BY Zenon, <1>2, <2>1 DEF NumberSet
<1>4. \A f \in out : u[f] \in Table /\ KeysOf(u[f]) # {}
  BY <1>2, PartType, PartHasKeys
<1>5. ASSUME NEW f \in out, NEW g \in out, f # g PROVE Apart(u[f], u[g])
  <2> DEFINE m == f - next + 1
             n == g - next + 1
  <2>1. m \in Nat /\ n \in Nat /\ (m < n \/ n < m)
    BY <1>2, <1>5
  <2>2. u[f] = Part(t, size, m) /\ u[g] = Part(t, size, n)
    BY Zenon
  <2>3. KeysOf(Part(t, size, m)) # {} /\ KeysOf(Part(t, size, n)) # {}
    BY Zenon, <1>4, <2>2
  <2> HIDE DEF m, n
  <2>4. \/ MaxKey(Part(t, size, m)) < MinKey(Part(t, size, n))
        \/ MaxKey(Part(t, size, n)) < MinKey(Part(t, size, m))
    BY Zenon, <2>1, <2>3, PartsInOrder
  <2> QED
    BY Zenon, <2>2, <2>4 DEF Apart
<1>6. ASSUME NEW f \in out, NEW k \in Keys, u[f][k] # Absent PROVE u[f][k] = t[k]
  <2>1. k \in KeysOf(Part(t, size, f - next + 1))
    BY Zenon, <1>6 DEF KeysOf
  <2> QED
    BY <2>1, PartEntries
<1>7. ASSUME NEW k \in Keys, t[k] # Absent PROVE \E f \in out : u[f][k] = t[k]
  <2>1. k \in KeysOf(t)
    BY Zenon, <1>7 DEF KeysOf
  <2>2. PICK n \in 1..PartCount(t, size) : Part(t, size, n)[k] = t[k]
    BY Zenon, <2>1, PartOfKey
  <2>3. n + next - 1 \in out /\ u[n + next - 1] = Part(t, size, n)
    BY Zenon, <1>2
  <2> QED
    BY Zenon, <2>2, <2>3
<1> QED
  BY Zenon, <1>3, <1>4, <1>5, <1>6, <1>7 DEF Keyed, SortedOn, SplitInto

\* They take the place of the tables of the next level that were merged.
LEMMA OutputsFit ==
  ASSUME NEW s, NEW u, NEW fs0, NEW fs1, Keyed(s, fs0), Keyed(s, fs1), SortedOn(s, fs1),
         NEW lo \in Int, NEW hi \in Int, Within(s, fs0, lo, hi),
         NEW in1, in1 = Overlapping(s, fs1, lo, hi),
         NEW out, Keyed(u, out), SortedOn(u, out), \A f \in out : MadeOf(s, u[f], fs0, in1),
         \A f \in fs1 : u[f] = s[f],
         NEW fs2, fs2 = (fs1 \ in1) \cup out
  PROVE  Keyed(u, fs2) /\ SortedOn(u, fs2)
<1>1. ASSUME NEW f \in out, NEW g \in fs1, g \notin in1 PROVE Apart(s[g], u[f])
  <2>1. u[f] \in Table /\ KeysOf(u[f]) # {}
    BY Zenon DEF Keyed
  <2> QED
    BY <1>1, <2>1, NewTablesFit
<1>2. Keyed(u, fs2)
  BY Zenon DEF Keyed, Overlapping
<1>3. ASSUME NEW f \in fs2, NEW g \in fs2, f # g PROVE Apart(u[f], u[g])
  <2>1. CASE f \in out /\ g \in out
    BY Zenon, <1>3, <2>1 DEF SortedOn
  <2>2. CASE f \in out /\ g \notin out
    <3>1. Apart(s[g], u[f]) /\ u[g] = s[g]
      BY Zenon, <1>1, <2>2
    <3> QED
      BY Zenon, <3>1 DEF Apart
  <2>3. CASE f \notin out /\ g \in out
    <3>1. Apart(s[f], u[g]) /\ u[f] = s[f]
      BY Zenon, <1>1, <2>3
    <3> QED
      BY Zenon, <3>1 DEF Apart
  <2>4. CASE f \notin out /\ g \notin out
    <3>1. f \in fs1 /\ g \in fs1 /\ u[f] = s[f] /\ u[g] = s[g]
      BY Zenon, <2>4
    <3> QED
      BY Zenon, <1>3, <3>1 DEF SortedOn
  <2> QED
    BY Zenon, <2>1, <2>2, <2>3, <2>4
<1> QED
  BY Zenon, <1>2, <1>3 DEF SortedOn

\* A whole size_compaction: level l moves into the next one, n, and no lookup
\* can tell.
LEMMA MergeIsMadeOf ==
  ASSUME NEW s, NEW l, NEW n, NEW fs0, NEW in1, NEW t, t = MergeOf(s, l, n, fs0, in1), NEW x \in KeysOf(t)
  PROVE  (\E g \in fs0 : x \in KeysOf(s[g])) \/ (\E g \in in1 : x \in KeysOf(s[g]))
<1>1. x \in Keys /\ t[x] # Absent
  BY Zenon DEF KeysOf
<1>2. t[x] = IF {f \in fs0 : s[f][x] # Absent} # {} THEN LevelLookup(s, l, fs0, x)
             ELSE LevelLookup(s, n, in1, x)
  BY Zenon, <1>1 DEF MergeOf
<1>3. CASE {f \in fs0 : s[f][x] # Absent} # {}
  BY Zenon, <1>1, <1>3 DEF KeysOf
<1>4. CASE {f \in fs0 : s[f][x] # Absent} = {}
  <2>1. LevelLookup(s, n, in1, x) # Absent
    BY Zenon, <1>1, <1>2, <1>4
  <2>2. \E g \in in1 : s[g][x] # Absent
    BY Zenon, <2>1, LevelMiss
  <2> QED
    BY Zenon, <1>1, <2>2 DEF KeysOf
<1> QED
  BY Zenon, <1>3, <1>4

\* A compaction changes no lookup and leaves sorted levels sorted.
LEMMA Compaction ==
  ASSUME NEW s, NEW u, NEW lv, NEW lw, NEW l, NEW n, NEW lo, NEW hi, NEW in1, NEW t, NEW out,
         Merges(s, lv, l, n, lo, hi, in1, t), Replaces(s, u, lv, lw, l, n, in1, out),
         NEW size \in Nat \ {0}, NEW next, Outputs(u, t, size, next, out)
  PROVE  Sorted(u, lw) /\ \A k \in Keys : Lookup(u, lw, k) = Lookup(s, lv, k)
<1> DEFINE fs0 == lv[l]
           fs1 == lv[n]
           fs2 == lw[n]
<1>0. /\ l \in DOMAIN lv /\ n \in DOMAIN lv /\ l # n /\ n # 0 /\ NextAfter(DOMAIN lv, l, n)
      /\ lo \in Int /\ hi \in Int /\ t \in Table /\ DOMAIN lw = DOMAIN lv /\ lw[l] = {}
  BY Zenon DEF Merges, Replaces
<1>1. Keyed(u, out) /\ SortedOn(u, out) /\ SplitInto(u, out, t)
  BY Zenon, <1>0, OutputTables
<1>2. /\ NumberSet(fs0) /\ Keyed(s, fs0) /\ Keyed(s, fs1) /\ SortedOn(s, fs1) /\ (l # 0 => SortedOn(s, fs0))
      /\ (\A f \in fs1 : u[f] = s[f]) /\ fs2 = (fs1 \ in1) \cup out /\ in1 \subseteq fs1
      /\ in1 = Overlapping(s, fs1, lo, hi) /\ Within(s, fs0, lo, hi) /\ t = MergeOf(s, l, n, fs0, in1)
  BY Zenon DEF Merges, Replaces, Leveled, Sorted, Overlapping
<1>3. \A f \in out : MadeOf(s, u[f], fs0, in1)
  <2>1. ASSUME NEW f \in out, NEW x \in KeysOf(u[f]) PROVE x \in KeysOf(t)
    BY Zenon, <1>1 DEF KeysOf, SplitInto
  <2>2. \A x \in KeysOf(t) : (\E g \in fs0 : x \in KeysOf(s[g])) \/ (\E g \in in1 : x \in KeysOf(s[g]))
    <3> HIDE DEF fs0, fs1, fs2
    <3> QED
      BY SMTT(30), <1>2, MergeIsMadeOf
  <2> QED
    BY Zenon, <2>1, <2>2 DEF MadeOf
<1>4. Keyed(u, fs2) /\ SortedOn(u, fs2)
  <2> HIDE DEF fs0, fs1, fs2
  <2> QED
    BY Zenon, <1>0, <1>1, <1>2, <1>3, OutputsFit
<1>5. Sorted(u, lw)
  <2>1. ASSUME NEW i \in DOMAIN lv, i # 0, i # l, i # n PROVE SortedOn(u, lw[i])
    <3>1. SortedOn(s, lv[i]) /\ lw[i] = lv[i] /\ \A f \in lv[i] : u[f] = s[f]
      BY Zenon, <2>1 DEF Merges, Replaces, Sorted
    <3> QED
      BY Zenon, <3>1 DEF SortedOn
  <2>2. SortedOn(u, {})
    BY Zenon DEF SortedOn
  <2> QED
    BY Zenon, <1>0, <1>4, <2>1, <2>2 DEF Sorted
<1>6. ASSUME NEW k \in Keys PROVE Lookup(u, lw, k) = Lookup(s, lv, k)
  <2>1. SameElsewhere(s, u, lv, lw, l, n, k)
    <3>1. ASSUME NEW i \in DOMAIN lv, i # l, i # n
          PROVE  LevelLookup(u, i, lw[i], k) = LevelLookup(s, i, lv[i], k)
      <4> DEFINE fs == lv[i]
      <4>1. /\ NumberSet(fs) /\ (\A f \in fs : s[f] \in Table) /\ (\A f \in fs : u[f] = s[f])
            /\ (i # 0 => SortedOn(s, fs)) /\ lw[i] = fs
        BY Zenon, <3>1 DEF Merges, Replaces, Leveled, Sorted
      <4> HIDE DEF fs
      <4>2. LevelLookup(u, i, fs, k) = LevelLookup(s, i, fs, k)
        BY <4>1, LevelLookupFrame
      <4> QED
        BY Zenon, <4>1, <4>2 DEF fs
    <3> QED
      BY Zenon, <3>1 DEF SameElsewhere
  <2>2. LevelLookup(u, l, lw[l], k) = Absent
    BY Zenon, <1>0, LevelMiss
  <2>3. LevelLookup(u, n, fs2, k) = BothLookup(s, l, fs0, n, fs1, k)
    <3> HIDE DEF fs0, fs1, fs2
    <3> QED
      BY SMTT(30), <1>0, <1>1, <1>2, <1>4, MergedLookup
  <2>4. NumberSet(DOMAIN lv)
    BY Zenon DEF Merges, Leveled
  <2>5. Pushes(s, u, lv, lw, l, n, k)
    BY Zenon, <1>0, <2>1, <2>2, <2>3, <2>4 DEF Pushes
  <2> QED
    BY <2>5, PushDown
<1> QED
  BY Zenon, <1>5, <1>6

\* A segment that has records gives a table that has keys.
LEMMA ReplayHasKeys ==
  ASSUME NEW recs \in Seq(Record), recs # <<>>
  PROVE  KeysOf(Replay(recs)) # {}
<1> DEFINE k == recs[1].key
           W == WritesTo(recs, k)
<1>1. Len(recs) \in Nat /\ 1 \in 1..Len(recs)
  OBVIOUS
<1>2. k \in Keys /\ 1 \in W /\ W \in SUBSET (1..Len(recs))
  <2>1. recs[1] \in Record
    BY <1>1
  <2> QED
    BY Zenon, <1>1, <2>1 DEF WritesTo, Record
<1> HIDE DEF W
<1>3. Max(W) \in 1..Len(recs)
  BY Zenon, <1>1, <1>2, MaxIndex
<1>4. recs[Max(W)].val # Absent
  <2>1. recs[Max(W)] \in Record
    BY <1>3
  <2> QED
    BY Zenon, <2>1, ValsAssumption DEF Record
<1>5. Replay(recs)[k] # Absent
  BY Zenon, <1>2, <1>4 DEF Replay, W
<1> QED
  BY Zenon, <1>2, <1>5 DEF KeysOf

(***************************************************************************)
(* Lookups in a sequence of tables, the last one being the newest.         *)
(***************************************************************************)
LEMMA NewestHit ==
  ASSUME NEW s, Len(s) \in Nat, NEW k, NEW i, HitAt(s, Len(s), k, i)
  PROVE  Newest(s, k) = s[i][k]
<1>1. Holders(s, k) \in SUBSET (1..Len(s)) /\ i \in Holders(s, k)
  BY Zenon DEF Holders, HitAt
<1>2. Max(Holders(s, k)) \in Holders(s, k) /\ i =< Max(Holders(s, k)) /\ Max(Holders(s, k)) \in 1..Len(s)
  BY Zenon, <1>1, MaxIndex
<1>3. i \in 1..Len(s)
  BY Zenon DEF HitAt
<1>4. Max(Holders(s, k)) = i
  BY <1>2, <1>3 DEF Holders, HitAt
<1> QED
  BY Zenon, <1>1, <1>4 DEF Newest

\* No table of the sequence holds the key,
LEMMA NewestMiss ==
  ASSUME NEW s, NEW k, \A j \in 1..Len(s) : s[j][k] = Absent
  PROVE  Newest(s, k) = Absent
BY Zenon DEF Newest, Holders

\* or one is the newest that does.
LEMMA NewestCases ==
  ASSUME NEW s, Len(s) \in Nat, NEW k
  PROVE  \/ \A j \in 1..Len(s) : s[j][k] = Absent
         \/ \E i : HitAt(s, Len(s), k, i)
<1>1. CASE Holders(s, k) = {}
  BY Zenon, <1>1 DEF Holders
<1>2. CASE Holders(s, k) # {}
  <2> DEFINE i == Max(Holders(s, k))
  <2>1. Holders(s, k) \in SUBSET (1..Len(s))
    BY Zenon DEF Holders
  <2>2. i \in Holders(s, k) /\ i \in 1..Len(s) /\ \A y \in Holders(s, k) : y =< i
    BY Zenon, <1>2, <2>1, MaxIndex
  <2> HIDE DEF i
  <2>3. s[i][k] # Absent
    BY Zenon, <2>2 DEF Holders
  <2>4. ASSUME NEW j \in 1..Len(s), i < j PROVE s[j][k] = Absent
    BY <2>2, <2>4 DEF Holders
  <2>5. HitAt(s, Len(s), k, i)
    BY Zenon, <2>2, <2>3, <2>4 DEF HitAt
  <2> QED
    BY Zenon, <2>5
<1> QED
  BY Zenon, <1>1, <1>2

\* A lookup ends in the last table or is one in the tables before it.
LEMMA NewestAppend ==
  ASSUME NEW s, NEW u, Len(s) \in Nat, Len(u) = Len(s) + 1, \A j \in 1..Len(s) : u[j] = s[j], NEW k
  PROVE  Newest(u, k) = IF u[Len(u)][k] # Absent THEN u[Len(u)][k] ELSE Newest(s, k)
<1>1. CASE u[Len(u)][k] # Absent
  <2>1. HitAt(u, Len(u), k, Len(u))
    BY <1>1 DEF HitAt
  <2> QED
    BY <1>1, <2>1, NewestHit
<1>2. CASE u[Len(u)][k] = Absent
  <2>1. CASE \A j \in 1..Len(s) : s[j][k] = Absent
    <3>1. \A j \in 1..Len(u) : j \in 1..Len(s) \/ j = Len(u)
      OBVIOUS
    <3>2. \A j \in 1..Len(u) : u[j][k] = Absent
      BY Zenon, <1>2, <2>1, <3>1
    <3>3. Newest(u, k) = Absent /\ Newest(s, k) = Absent
      BY Zenon, <2>1, <3>2, NewestMiss
    <3> QED
      BY Zenon, <1>2, <3>3
  <2>2. ASSUME NEW i, HitAt(s, Len(s), k, i)
        PROVE  Newest(u, k) = Newest(s, k)
    <3>1. i \in 1..Len(s) /\ i \in 1..Len(u) /\ u[i] = s[i] /\ s[i][k] # Absent
      BY <2>2 DEF HitAt
    <3>2. ASSUME NEW j \in 1..Len(u), i < j PROVE u[j][k] = Absent
      <4>1. CASE j = Len(u)
        BY Zenon, <1>2, <4>1
      <4>2. CASE j \in 1..Len(s)
        BY Zenon, <2>2, <3>2, <4>2 DEF HitAt
      <4> QED
        BY <4>1, <4>2
    <3>3. HitAt(u, Len(u), k, i)
      BY Zenon, <3>1, <3>2 DEF HitAt
    <3>4. Newest(u, k) = u[i][k]
      BY <3>3, NewestHit
    <3>5. Newest(s, k) = s[i][k]
      BY <2>2, NewestHit
    <3> QED
      BY Zenon, <3>1, <3>4, <3>5
  <2> QED
    BY Zenon, <1>2, <2>1, <2>2, NewestCases
<1> QED
  BY Zenon, <1>1, <1>2

\* Dropping the oldest tables drops only what no newer one hides.
LEMMA NewestSuffix ==
  ASSUME NEW s, NEW u, NEW n, SuffixOf(s, u, n), NEW k
  PROVE  DropsOldest(s, u, n, k)
<1> USE DEF DropsOldest
<1>0. /\ n \in Nat /\ Len(s) \in Nat /\ Len(u) \in Nat /\ Len(s) = Len(u) + n
      /\ \A j \in 1..Len(u) : u[j] = s[n + j]
  BY Zenon DEF SuffixOf
<1>1. CASE \A j \in 1..Len(u) : u[j][k] = Absent
  <2>1. Newest(u, k) = Absent
    BY Zenon, <1>1, NewestMiss
  <2>2. CASE \A j \in 1..Len(s) : s[j][k] = Absent
    BY Zenon, <2>1, <2>2, NewestMiss
  <2>3. ASSUME NEW i, HitAt(s, Len(s), k, i)
        PROVE  i \in 1..n /\ Newest(s, k) = s[i][k]
    <3>1. Newest(s, k) = s[i][k]
      BY <1>0, <2>3, NewestHit
    <3>2. i \in 1..Len(s) /\ s[i][k] # Absent
      BY Zenon, <2>3 DEF HitAt
    <3>3. ASSUME i > n PROVE FALSE
      <4>1. i - n \in 1..Len(u) /\ n + (i - n) = i
        BY <1>0, <3>2, <3>3
      <4> QED
        BY Zenon, <1>0, <1>1, <3>2, <4>1
    <3>4. i \in 1..n
      BY <1>0, <3>2, <3>3
    <3> QED
      BY Zenon, <3>1, <3>4
  <2> QED
    BY Zenon, <1>0, <2>1, <2>2, <2>3, NewestCases
<1>2. ASSUME NEW i, HitAt(u, Len(u), k, i)
      PROVE  Newest(u, k) # Absent /\ Newest(s, k) = Newest(u, k)
  <2>1. i \in 1..Len(u) /\ u[i][k] # Absent /\ u[i] = s[n + i] /\ n + i \in 1..Len(s)
    BY <1>0, <1>2 DEF HitAt
  <2>2. ASSUME NEW j \in 1..Len(s), n + i < j PROVE s[j][k] = Absent
    <3>1. j - n \in 1..Len(u) /\ i < j - n /\ n + (j - n) = j
      BY <1>0, <2>1, <2>2
    <3> QED
      BY Zenon, <1>0, <1>2, <3>1 DEF HitAt
  <2>3. HitAt(s, Len(s), k, n + i)
    BY Zenon, <1>0, <2>1, <2>2 DEF HitAt
  <2>4. Newest(s, k) = s[n + i][k]
    BY SMTT(30), <1>0, <2>3, NewestHit
  <2>5. Newest(u, k) = u[i][k]
    BY <1>0, <1>2, NewestHit
  <2> QED
    BY Zenon, <2>1, <2>4, <2>5
<1> QED
  BY Zenon, <1>0, <1>1, <1>2, NewestCases

\* A table without the key can be left out.
LEMMA NewestRemove ==
  ASSUME NEW s, NEW u, NEW n \in 1..Len(s), Len(s) \in Nat, Len(u) = Len(s) - 1,
         \A j \in 1..Len(u) : u[j] = IF j < n THEN s[j] ELSE s[j + 1], NEW k, s[n][k] = Absent
  PROVE  Newest(u, k) = Newest(s, k)
<1>0. Len(u) \in Nat
  OBVIOUS
<1> DEFINE at(j) == IF j < n THEN j ELSE j + 1
<1>1. \A j \in 1..Len(u) : at(j) \in 1..Len(s) /\ u[j] = s[at(j)]
  OBVIOUS
<1>2. \A i \in 1..Len(s) : i # n => \E j \in 1..Len(u) : at(j) = i
  <2>1. ASSUME NEW i \in 1..Len(s), i # n PROVE \E j \in 1..Len(u) : at(j) = i
    <3>1. CASE i < n
      BY <3>1
    <3>2. CASE i > n
      <4>1. i - 1 \in 1..Len(u) /\ at(i - 1) = i
        BY <3>2
      <4> QED
        BY Zenon, <4>1
    <3> QED
      BY <2>1, <3>1, <3>2
  <2> QED
    BY Zenon, <2>1
<1>3. \A i, j \in 1..Len(u) : i < j <=> at(i) < at(j)
  OBVIOUS
<1> HIDE DEF at
<1>4. CASE \A j \in 1..Len(u) : u[j][k] = Absent
  <2>1. ASSUME NEW i \in 1..Len(s), i # n PROVE s[i][k] = Absent
    <3>1. PICK j \in 1..Len(u) : at(j) = i
      BY Zenon, <1>2, <2>1
    <3> QED
      BY Zenon, <1>1, <1>4, <3>1
  <2>2. \A i \in 1..Len(s) : s[i][k] = Absent
    BY Zenon, <2>1
  <2> QED
    BY Zenon, <1>4, <2>2, NewestMiss
<1>5. ASSUME NEW i, HitAt(u, Len(u), k, i)
      PROVE  Newest(u, k) = Newest(s, k)
  <2>1. i \in 1..Len(u) /\ u[i][k] # Absent /\ u[i] = s[at(i)] /\ at(i) \in 1..Len(s)
    BY Zenon, <1>1, <1>5 DEF HitAt
  <2>2. ASSUME NEW j \in 1..Len(s), at(i) < j PROVE s[j][k] = Absent
    <3>1. CASE j = n
      BY Zenon, <3>1
    <3>2. CASE j # n
      <4>1. PICK m \in 1..Len(u) : at(m) = j
        BY Zenon, <1>2, <3>2
      <4>2. i < m
        BY Zenon, <1>3, <2>1, <2>2, <4>1
      <4> QED
        BY Zenon, <1>1, <1>5, <4>1, <4>2 DEF HitAt
    <3> QED
      BY Zenon, <3>1, <3>2
  <2>3. HitAt(s, Len(s), k, at(i))
    BY Zenon, <2>1, <2>2 DEF HitAt
  <2>4. Newest(s, k) = s[at(i)][k]
    BY <2>3, NewestHit
  <2>5. Newest(u, k) = u[i][k]
    BY <1>0, <1>5, NewestHit
  <2> QED
    BY Zenon, <2>1, <2>4, <2>5
<1> QED
  BY Zenon, <1>0, <1>4, <1>5, NewestCases

(***************************************************************************)
(* The laws hold.                                                          *)
(***************************************************************************)
LEMMA FiniteSetLaws == FiniteLaw /\ IntervalLaw /\ ImageLaw
<1>1. FiniteLaw
  BY Zenon, FS_EmptySet, FS_Singleton, FS_Subset, FS_Union DEF FiniteLaw
<1>2. IntervalLaw
  BY Zenon, FS_Interval DEF IntervalLaw
<1>3. ImageLaw
  <2>1. SUFFICES ASSUME NEW S, NEW T, NEW f, IsFiniteSet(S), \A y \in T : \E x \in S : f[x] = y
                 PROVE  IsFiniteSet(T)
    BY Zenon DEF ImageLaw
  <2> DEFINE U == {x \in S : f[x] \in T}
             g == [x \in U |-> f[x]]
  <2>2. IsFiniteSet(U)
    BY Zenon, <2>1, FS_Subset
  <2>3. g \in Surjection(U, T)
    BY Zenon, <2>1 DEF Surjection
  <2> QED
    <3> HIDE DEF U, g
    <3> QED
      BY Zenon, <2>2, <2>3, FS_Surjection
<1> QED
  BY Zenon, <1>1, <1>2, <1>3

\* The facts about finite sets, tables, replayed segments and lookups from
\* which the theorems about DataManager follow.
THEOREM TablesObeyLaws == TableLaws
<1>1. MaxLaw
  BY Zenon, MaxProperties DEF MaxLaw
<1>2. MinLaw
  BY Zenon, MinProperties DEF MinLaw
<1>3. KeysOfLaw
  BY Zenon, KeysOfProperties DEF KeysOfLaw
<1>4. PartTypeLaw
  BY Zenon, PartType, PartCountType DEF PartTypeLaw
<1>5. ReplayTypeLaw
  BY Zenon, ReplayType DEF ReplayTypeLaw
<1>6. ReplayEmptyLaw
  BY Zenon, ReplayEmpty DEF ReplayEmptyLaw
<1>7. ReplayAppendLaw
  BY Zenon, ReplayAppend DEF ReplayAppendLaw
<1>8. ReplayHasKeysLaw
  BY Zenon, ReplayHasKeys DEF ReplayHasKeysLaw
<1>9. NewestTypeLaw
  BY Zenon, NewestType DEF NewestTypeLaw
<1>10. NewestHitLaw
  BY Zenon, NewestHit DEF NewestHitLaw
<1>11. NewestMissLaw
  BY Zenon, NewestMiss DEF NewestMissLaw
<1>12. NewestCasesLaw
  BY Zenon, NewestCases DEF NewestCasesLaw
<1>13. NewestAppendLaw
  BY NewestAppend DEF NewestAppendLaw
<1>14. NewestSuffixLaw
  BY Zenon, NewestSuffix DEF NewestSuffixLaw
<1>15. NewestRemoveLaw
  BY NewestRemove DEF NewestRemoveLaw
<1>16. SortedFrameLaw
  BY Zenon, SortedFrame DEF SortedFrameLaw
<1>17. LookupFrameLaw
  BY LookupFrame DEF LookupFrameLaw
<1>18. AddNewestLaw
  BY Zenon, AddNewest DEF AddNewestLaw
<1>19. OutputTablesLaw
  BY Zenon, OutputTables DEF OutputTablesLaw
<1>20. CompactionLaw
  BY Compaction DEF CompactionLaw
<1> QED
  BY Zenon, FiniteSetLaws, <1>1, <1>2, <1>3, <1>4, <1>5, <1>6, <1>7, <1>8, <1>9, <1>10, <1>11, <1>12, <1>13, <1>14,
     <1>15, <1>16, <1>17, <1>18, <1>19, <1>20 DEF TableLaws
==============================================================================
