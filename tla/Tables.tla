------------------------------- MODULE Tables --------------------------------
(***************************************************************************)
(* The tables of the LSM tree and the ways mirdb reads, merges and splits  *)
(* them.  A memtable (a skip list) and an SSTable are both a finite map    *)
(* from keys to serialised Option<StorePayload>s: a value, or Tombstone    *)
(* for a serialised None, or Absent when the table has no entry.           *)
(***************************************************************************)
EXTENDS Integers, Sequences, FiniteSets, FiniteSetsExt

CONSTANTS Keys,       \* StoreKeys, as integers: only their order matters
          Vals,       \* StorePayloads
          Tombstone,  \* the serialised None that remove() inserts
          Absent      \* Option::None

ASSUME KeysAssumption == Keys \subseteq Int /\ IsFiniteSet(Keys)
ASSUME ValsAssumption == Tombstone \notin Vals /\ Absent \notin Vals /\ Tombstone # Absent

Table == [Keys -> Vals \cup {Tombstone, Absent}]

EmptyTable == [k \in Keys |-> Absent]

KeysOf(t) == {k \in Keys : t[k] # Absent}

\* TableReader::min_key, max_key
MinKey(t) == Min(KeysOf(t))
MaxKey(t) == Max(KeysOf(t))

\* The positions of a sequence of tables that hold key k.
Holders(s, k) == {i \in 1..Len(s) : s[i][k] # Absent}

\* Lookup in a sequence of tables whose last element is the newest: the
\* immutable memtables and level 0 are searched newest first.
Newest(s, k) == IF Holders(s, k) = {} THEN Absent ELSE s[Max(Holders(s, k))][k]

\* DataManager::get and remove see a tombstone as no value.
Decode(e) == IF e = Tombstone THEN Absent ELSE e

Record == [key : Keys, val : Vals \cup {Tombstone}]

\* WALSeg::to_skiplist: a record overwrites the earlier ones of its key.
WritesTo(recs, k) == {i \in 1..Len(recs) : recs[i].key = k}

Replay(recs) ==
  [k \in Keys |-> IF WritesTo(recs, k) = {} THEN Absent ELSE recs[Max(WritesTo(recs, k))].val]

\* size_compaction starts a new table once the current one has reached
\* sst_max_size (counted in entries): n-th part of table t.
Rank(t, k) == Cardinality({x \in KeysOf(t) : x < k})

Part(t, size, n) ==
  [k \in Keys |-> IF t[k] # Absent /\ Rank(t, k) \div size = n - 1 THEN t[k] ELSE Absent]

PartCount(t, size) == (Cardinality(KeysOf(t)) + size - 1) \div size
==============================================================================
