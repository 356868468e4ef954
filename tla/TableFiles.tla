----------------------------- MODULE TableFiles -----------------------------
(***************************************************************************)
(* The files of a mirdb server, byte by byte: a segment of the write-ahead *)
(* log, the SSTables of level 0 and the SSTables of level 1, through       *)
(* appends, crashes, flushes, compactions, lookups and iterations.         *)
(* DataManager has the concurrency of these operations and sees a table as *)
(* a map; here they run one at a time and a table is the blocks that its   *)
(* builder wrote.                                                          *)
(***************************************************************************)
EXTENDS SSTable, WALSegment, SearchReaders, SequencesExt

CONSTANTS KeyBytes,   \* the keys: a sequence of byte strings in ascending order
          MaxLog,     \* bound: records in the log segment
          MaxWrites   \* bound: appended records

VARIABLES log,      \* the bytes of the segment file
          logged,   \* the acknowledged records in it: also the contents of the memtable
          pending,  \* the record whose append the crash interrupted
          level0,   \* its readers, oldest first
          latest,   \* per key the value of the last acknowledged write, or None
          mode,     \* up, down, iterate
          table,    \* the reader that is iterated over
          opened,   \* the entries it should have
          it,       \* the TableIter
          call,     \* its last call, and the parity of its calls
          writes    \* number of appends

store == <<log, logged, pending, level0, latest, writes>>
iter == <<table, opened, it, call>>
vars == <<store, readers, searchVars, mode, iter>>

Keys == 1..Len(KeyBytes)
KeyOf(bytes) == CHOOSE k \in Keys : KeyBytes[k] = bytes

\* Sorted contents of a map from keys to values: what its iterator yields.
EntriesOf(map) ==
  LET ks == SetToSortSeq({k \in Keys : map[k] # None}, <)
  IN  [i \in 1..Len(ks) |-> [key |-> ks[i], val |-> map[ks[i]]]]

InBytes(entries) == [i \in 1..Len(entries) |-> [entries[i] EXCEPT !.key = KeyBytes[@]]]

\* WALSeg::to_skiplist: later records overwrite earlier ones.
to_skiplist(recs) ==
  [k \in Keys |-> LET ws == {i \in 1..Len(recs) : recs[i].key = KeyBytes[k]}
                  IN  IF ws = {} THEN None ELSE recs[Max(ws)].val[1]]

skiplist_to_sstable(map) == BuiltTable(InBytes(EntriesOf(map)))

NoMap == [k \in Keys |-> None]
NoTable == [blocks |-> <<>>]

\* The position of a TableIter among the entries of its table.
IterPos ==
  LET before(b) == Cardinality(DOMAIN table.blocks[b].entries)
      blocks == IF it.block = 0 THEN {} ELSE 1..(it.block - 1)
  IN  IF mode # "iterate" THEN 0
      ELSE IF it.block = 0 THEN (IF AtEnd(table.index, it.index) THEN Len(opened) ELSE 0)
      ELSE MapThenSumSet(before, blocks)
             + Cardinality({o \in DOMAIN table.blocks[it.block].entries : o <= it.data.cur})

IterItem ==
  IF mode = "iterate" /\ TableValid(table, it)
  THEN [key |-> KeyOf(it.data.key), val |-> TableCurrentV(table, it)]
  ELSE None

Cursor == INSTANCE Cursor
  WITH CursorKeys <- Keys, Nothing <- None, entries <- opened, pos <- IterPos, item <- IterItem

Init ==
  \* a level 1 left by earlier compactions
  /\ \E S \in SUBSET Keys :
       /\ latest = [k \in Keys |-> IF k \in S THEN 0 ELSE None]
       /\ readers = IF S = {} THEN <<>> ELSE Compacted(<<skiplist_to_sstable(latest)>>)
  /\ log = <<>> /\ logged = <<>> /\ pending = <<>> /\ level0 = <<>> /\ writes = 0
  /\ SearchInit
  /\ mode = "up" /\ table = NoTable /\ opened = <<>> /\ it = NewTableIter
  /\ call = Cursor!NewCall

Idle == mode = "up" /\ spc = "idle"

-----------------------------------------------------------------------------
(***************************************************************************)
(* The write path                                                          *)
(***************************************************************************)

\* The record of the next write: its value is its number.
NextRecord(k) == [key |-> KeyBytes[k], val |-> <<writes + 1>>]
BytesOf(rec) == RecordBytes(rec.key, rec.val)

CanAppend == Idle /\ Len(logged) < MaxLog /\ writes < MaxWrites

WALAppend(k) ==
  /\ CanAppend
  /\ log' = log \o BytesOf(NextRecord(k))
  /\ logged' = Append(logged, NextRecord(k))
  /\ latest' = [latest EXCEPT ![k] = writes + 1]
  /\ writes' = writes + 1
  /\ UNCHANGED <<pending, level0, readers, searchVars, mode, iter>>

\* A crash during write_all leaves any prefix of the record in the file.
CrashInAppend(k) ==
  /\ CanAppend
  /\ \E n \in 0..Len(BytesOf(NextRecord(k))) :
       log' = log \o SubSeq(BytesOf(NextRecord(k)), 1, n)
  /\ pending' = <<NextRecord(k)>>
  /\ writes' = writes + 1
  /\ mode' = "down"
  /\ UNCHANGED <<logged, level0, latest, readers, searchVars, iter>>

\* DataManager::redo builds a level 0 table from the segment; a panic there
\* ends the process, and the next start meets the same segment.
Restart ==
  /\ mode = "down" /\ Replayed(log) # Panic
  /\ level0' = IF Replayed(log) = <<>> THEN level0
               ELSE Append(level0, skiplist_to_sstable(to_skiplist(Replayed(log))))
  /\ latest' = [k \in Keys |-> LET v == to_skiplist(Replayed(log))[k]
                               IN  IF v = None THEN latest[k] ELSE v]
  /\ log' = <<>> /\ logged' = <<>> /\ pending' = <<>> /\ mode' = "up"
  /\ UNCHANGED <<writes, readers, searchVars, iter>>

\* minor_compaction: the memtable becomes a table of level 0, the segment goes.
Flush ==
  /\ Idle /\ logged # <<>>
  /\ level0' = Append(level0, skiplist_to_sstable(to_skiplist(logged)))
  /\ log' = <<>> /\ logged' = <<>>
  /\ UNCHANGED <<pending, latest, writes, readers, searchVars, mode, iter>>

\* Mutant of get_other_readers: only the tables inside the key range.
get_inner_readers(lo, hi, rs) == SelectSeq(rs, LAMBDA r : ~Less(r.min, lo) /\ ~Less(hi, r.max))

\* get_other_readers: the tables whose key range meets the one from lo to hi.
\* take_while is a filter here, as the readers are sorted.
get_other_readers(lo, hi, rs) == SelectSeq(rs, LAMBDA r : ~Less(hi, r.min) /\ ~Less(r.max, lo))

ByMinKey(r, s) == Less(r.min, s.min)

\* The key sought or bounding tables, in the order of bytes.
LeastKey(S) == CHOOSE a \in S : \A b \in S : LessEq(a, b)
GreatestKey(S) == CHOOSE a \in S : \A b \in S : LessEq(b, a)

\* size_compaction of level 0 (major_compaction): all its tables, newest
\* first, and those of level 1 that overlap them are merged into level 1.
Compact ==
  /\ Idle /\ level0 # <<>>
  /\ LET lo == LeastKey({level0[i].min : i \in 1..Len(level0)})
         hi == GreatestKey({level0[i].max : i \in 1..Len(level0)})
         inputs1 == get_other_readers(lo, hi, readers)
         out == Compacted(Reverse(level0) \o inputs1)
     IN  readers' = SortSeq(SelectSeq(readers, LAMBDA r : r \notin ToSet(inputs1)) \o out, ByMinKey)
  /\ level0' = <<>>
  /\ UNCHANGED <<log, logged, pending, latest, writes, searchVars, mode, iter>>

-----------------------------------------------------------------------------
(***************************************************************************)
(* The read path: SstableReader::get with empty memtables                  *)
(***************************************************************************)

\* Level 0, newest table first.
Level0Get(k, fp) ==
  LET holders == {i \in 1..Len(level0) : TableGet(level0[i], KeyBytes[k], fp) # None}
  IN  IF holders = {} THEN None ELSE TableGet(level0[Max(holders)], KeyBytes[k], fp)

\* Level 1 is searched when level 0 has no entry.
Lookup(k) ==
  /\ mode = "up" /\ logged = <<>> /\ Level0Get(k, TRUE) = None
  /\ BeginSearch(KeyBytes[k])
  /\ UNCHANGED <<store, readers, mode, iter>>

LookupStep ==
  /\ SearchStep \/ EndSearch
  /\ UNCHANGED <<store, readers, mode, iter>>

\* The first of the readers found that has an entry.
ResultOf(fp) ==
  LET holders == {j \in 1..Len(res) : TableGet(readers[res[j]], sought, fp) # None}
  IN  IF holders = {} THEN None ELSE TableGet(readers[res[Min(holders)]], sought, fp)

-----------------------------------------------------------------------------
(***************************************************************************)
(* An iteration over a table of level 1 by one caller.                     *)
(***************************************************************************)
OpenIter ==
  /\ Idle /\ logged = <<>> /\ level0 = <<>>
  /\ \E i \in 1..Len(readers) :
       /\ table' = readers[i]
       /\ opened' = EntriesOf([k \in Keys |-> IF Less(KeyBytes[k], readers[i].min)
                                                 \/ Less(readers[i].max, KeyBytes[k])
                                              THEN None ELSE latest[k]])
  /\ it' = NewTableIter /\ call' = Cursor!NewCall /\ mode' = "iterate"
  \* nothing else is read until the iterator is dropped
  /\ readers' = <<>> /\ latest' = NoMap
  /\ UNCHANGED <<log, logged, pending, level0, writes, searchVars>>

IterStep(name, new) ==
  /\ mode = "iterate"
  /\ it' = new /\ call' = Cursor!Calls(name)
  /\ UNCHANGED <<store, readers, searchVars, mode, table, opened>>

IterAdvance == IterStep("advance", TableAdvance(table, it).s)

\* Without a data block, after reset() or a seek past the end, prev() would
\* start from an old offset of the index iterator; its one caller, Merger,
\* only calls it right after an advance() that returned true.
IterPrev == it.block # 0 /\ IterStep("prev", TablePrev(table, it).s)

IterReset == IterStep("reset", TableReset(it))

IterSeek(k) == IterStep("seek", TableSeek(table, it, KeyBytes[k]))

Next ==
  \/ \E k \in Keys : WALAppend(k) \/ CrashInAppend(k)
  \/ Restart \/ Flush \/ Compact
  \/ \E k \in Keys : Lookup(k)
  \/ LookupStep
  \/ OpenIter \/ IterAdvance \/ IterPrev \/ IterReset
  \/ \E k \in Keys : IterSeek(k)

Spec == Init /\ [][Next]_vars

-----------------------------------------------------------------------------
(***************************************************************************)
(* The segment replays to the acknowledged records.  After a crash in the  *)
(* middle of an append it replays to them, to them and the record that was *)
(* being written, or not at all: a torn record is never read as another    *)
(* one (WALSegIter::next has no checksum).                                 *)
(***************************************************************************)
TornRecordIsNotMisread ==
  Replayed(log) \in {logged} \cup
    (IF mode = "down" THEN {logged \o pending, Panic} ELSE {})

(***************************************************************************)
(* The tables of level 1 stay in order with disjoint key ranges, which the *)
(* binary search of search_readers needs: size_compaction merges every     *)
(* table of the next level that meets the range of its inputs, and writes  *)
(* what it merged in tables that meet none of those it left alone.         *)
(***************************************************************************)
CompactionKeepsLevel == IsLevel(readers)

(***************************************************************************)
(* A get returns the value of the last write, through a flush, a replay of *)
(* the log, compactions, the index and data blocks and the search of the   *)
(* levels: from level 0 when it has the key, else from the tables of level *)
(* 1 that search_readers found.  A false positive of a table's filter      *)
(* changes nothing.                                                        *)
(***************************************************************************)
GetReturnsLatest ==
  \A fp \in BOOLEAN :
    /\ Idle /\ logged = <<>> =>
         \A k \in Keys : Level0Get(k, fp) \in {None, latest[k]}
    /\ spc = "found" => ResultOf(fp) = latest[KeyOf(sought)]

(***************************************************************************)
(* A TableIter moves through the entries of its table like a cursor, over  *)
(* block boundaries, restart points and shared prefixes, in both           *)
(* directions and after seeks: Merger relies on advance and prev being     *)
(* inverse.  prev() is called on an entry only, not after a reset or a     *)
(* seek past the last entry (IterPrev).                                    *)
(***************************************************************************)
IteratesLikeCursor == Cursor!CursorSpec
==============================================================================
