------------------------------ MODULE SSTable -------------------------------
(***************************************************************************)
(* SSTable files: TableBuilder writes sorted entries into data blocks and  *)
(* an index block, TableReader looks a key up, TableIter walks the table,  *)
(* and Merger walks several tables as one.                                 *)
(*                                                                         *)
(* A table is [blocks, index, filter, min, max]: a block handle, the value *)
(* of an index entry, is the position of the block in the file; the cuckoo *)
(* filter is the set of keys added to it, and may hold others.  The footer *)
(* and the meta block only carry these fields from the writer to the       *)
(* reader, and the block cache, whose keys name the reader and the         *)
(* offset, only saves reading a block again.  No read fails.               *)
(***************************************************************************)
EXTENDS Block

CONSTANTS None,         \* Option::None
          SstMaxBytes   \* Options::sst_max_size

ValueLen == 1    \* the bytes of a value
HandleLen == 2   \* the bytes of a BlockHandle: two varints

NewTable == [blocks |-> <<>>, data |-> NewBlock, index |-> NewBlock, total |-> 0,
             filter |-> {}, min |-> None, max |-> None]

write_data_block(t, next_key) ==
  [t EXCEPT !.blocks = Append(@, Flushed(t.data)),
            !.index = Added(@, find_shortest_sep(t.data.last_key, next_key),
                            Len(t.blocks) + 1, HandleLen),
            !.data = NewBlock]

\* TableBuilder::add
TableAdded(t, k, v) ==
  LET u == IF size_estimate(t.data) > BlockSize THEN write_data_block(t, k) ELSE t
  IN  [u EXCEPT !.data = Added(@, k, v, ValueLen), !.filter = @ \cup {k},
                !.total = @ + Len(k) + ValueLen,
                !.min = IF @ = None THEN k ELSE @, !.max = k]

\* TableReader::new: the footer leads to the meta block and the index block.
OpenTable(file) == [blocks |-> file.blocks, index |-> file.index, filter |-> file.meta.filter,
                    min |-> file.meta.min, max |-> file.meta.max]

\* TableBuilder::flush writes the last data block, the meta block, the index
\* block and the footer; then the file is opened.
TableFlushed(t) ==
  LET u == write_data_block(t, find_short_succ(t.data.last_key))
  IN  OpenTable([blocks |-> u.blocks, index |-> Flushed(u.index),
                 meta |-> [max |-> u.max, min |-> u.min, filter |-> u.filter]])

\* TableReader::read_block: from the cache or from the file, the block at a handle.
read_block(t, bh) == t.blocks[bh]

RECURSIVE BuiltFrom(_, _, _)
BuiltFrom(entries, i, t) ==
  IF i > Len(entries) THEN t
  ELSE BuiltFrom(entries, i + 1, TableAdded(t, entries[i].key, entries[i].val))

\* skiplist_to_sstable, of the entries of a nonempty map in the order of its iterator.
BuiltTable(entries) == TableFlushed(BuiltFrom(entries, 1, NewTable))

-----------------------------------------------------------------------------
(***************************************************************************)
(* TableIter: block 0 is data_block = None.                                *)
(***************************************************************************)
NewTableIter == [index |-> NewIter, data |-> NewIter, block |-> 0]

TableReset(it) == [index |-> Reset(it.index), data |-> Reset(it.data), block |-> 0]

TableValid(t, it) == it.block # 0 /\ Valid(read_block(t, it.block), it.data)

TableCurrentV(t, it) == current_v(read_block(t, it.block), it.data)

RECURSIVE TableAdvance(_, _)
TableAdvance(t, it) ==
  LET d == IF it.block = 0 THEN Step(FALSE, it.data) ELSE Advance(read_block(t, it.block), it.data)
      i == Advance(t.index, it.index)
  IN  IF d.ok THEN Step(TRUE, [it EXCEPT !.data = d.s])
      ELSE IF ~i.ok THEN Step(FALSE, [it EXCEPT !.data = d.s, !.index = i.s])
      ELSE TableAdvance(t, [index |-> i.s, data |-> NewIter, block |-> current_v(t.index, i.s)])

TablePrev(t, it) ==
  LET d == IF it.block = 0 THEN Step(FALSE, it.data) ELSE Prev(read_block(t, it.block), it.data)
      i == Prev(t.index, it.index)
      b == current_v(t.index, i.s)
  IN  IF d.ok THEN Step(TRUE, [it EXCEPT !.data = d.s])
      ELSE IF ~i.ok THEN Step(FALSE, TableReset([it EXCEPT !.data = d.s, !.index = i.s]))
      ELSE Step(TRUE, [index |-> i.s, data |-> seek_to_last(read_block(t, b), NewIter), block |-> b])

TableSeek(t, it, k) ==
  LET r == TableReset(it)
      i == Seek(t.index, r.index, k)
      b == current_v(t.index, i)
  IN  IF ~Valid(t.index, i) THEN [r EXCEPT !.index = i]
      ELSE [index |-> i, data |-> Seek(read_block(t, b), NewIter, k), block |-> b]

-----------------------------------------------------------------------------
\* Mutant of TableGet: the last key of the table is taken to be outside.
TableGetBelowMax(t, k, fp) ==
  LET it == TableSeek(t, NewTableIter, k)
  IN  IF Less(k, t.min) \/ ~Less(k, t.max) \/ (k \notin t.filter /\ ~fp) THEN None
      ELSE IF TableValid(t, it) /\ it.data.key = k THEN TableCurrentV(t, it)
      ELSE None

\* TableReader::get; fp: the filter holds k although it was not added.
TableGet(t, k, fp) ==
  LET it == TableSeek(t, NewTableIter, k)
  IN  IF Less(k, t.min) \/ Less(t.max, k) \/ (k \notin t.filter /\ ~fp) THEN None
      ELSE IF TableValid(t, it) /\ it.data.key = k THEN TableCurrentV(t, it)
      ELSE None

-----------------------------------------------------------------------------
\* Mutant of MergeStep: an iterator at the same key as an earlier one moves back.
MergeStepKeepsEqual(ts, r, j, a) ==
  LET moved == [r.its EXCEPT ![j] = a.s]
      back(i) == [moved EXCEPT ![i] = TablePrev(ts[i], @).s]
  IN  IF ~a.ok THEN [its |-> moved, i |-> r.i]
      ELSE IF r.i = 0 THEN [its |-> moved, i |-> j]
      ELSE IF Less(a.s.data.key, r.its[r.i].data.key) THEN [its |-> back(r.i), i |-> j]
      ELSE [its |-> back(j), i |-> r.i]

(***************************************************************************)
(* Merger::advance over the tables ts, newest first, at the j-th iterator. *)
(* r has the iterators and the one, r.i, at the smallest key so far (0:    *)
(* none yet); a is what advance leaves of the j-th.  Of the two the one at *)
(* the greater key moves back.  At the same key both stay: the entry of    *)
(* the earlier one is taken, that of the other skipped.                    *)
(***************************************************************************)
MergeStep(ts, r, j, a) ==
  LET moved == [r.its EXCEPT ![j] = a.s]
      pk == r.its[r.i].data.key
      nk == a.s.data.key
      back(i) == [moved EXCEPT ![i] = TablePrev(ts[i], @).s]
  IN  CASE ~a.ok -> [its |-> moved, i |-> r.i]
        [] a.ok /\ r.i = 0 -> [its |-> moved, i |-> j]
        [] a.ok /\ r.i # 0 /\ Less(nk, pk) -> [its |-> back(r.i), i |-> j]
        [] a.ok /\ r.i # 0 /\ Less(pk, nk) -> [its |-> back(j), i |-> r.i]
        [] a.ok /\ r.i # 0 /\ nk = pk -> [its |-> moved, i |-> r.i]

RECURSIVE MergeFrom(_, _, _)
MergeFrom(ts, r, j) ==
  IF j > Len(ts) THEN r
  ELSE MergeFrom(ts, MergeStep(ts, r, j, TableAdvance(ts[j], r.its[j])), j + 1)

\* Merger::advance
MergerAdvance(ts, its) == MergeFrom(ts, [its |-> its, i |-> 0], 1)

\* The entry that the merger is at goes into the open table, or into a new one.
WithEntry(ts, m, t) ==
  TableAdded(IF t = None THEN NewTable ELSE t,
             m.its[m.i].data.key, TableCurrentV(ts[m.i], m.its[m.i]))

\* A table that has reached sst_max_size is finished.
Cut(t, out) ==
  IF t.total >= SstMaxBytes THEN [table |-> None, out |-> Append(out, TableFlushed(t))]
  ELSE [table |-> t, out |-> out]

\* The loop of size_compaction, with the merger at m: c has the finished
\* tables and the open one.
RECURSIVE CompactedFrom(_, _, _)
CompactedFrom(ts, m, c) ==
  IF m.i # 0
  THEN CompactedFrom(ts, MergerAdvance(ts, m.its), Cut(WithEntry(ts, m, c.table), c.out))
  ELSE IF c.table = None THEN c.out
  ELSE Append(c.out, TableFlushed(c.table))

Compacted(ts) ==
  CompactedFrom(ts, MergerAdvance(ts, [i \in 1..Len(ts) |-> NewTableIter]),
                [table |-> None, out |-> <<>>])
==============================================================================
