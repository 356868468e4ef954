------------------------------- MODULE Block --------------------------------
(***************************************************************************)
(* A block of an SSTable: how BlockBuilder lays out its entries with       *)
(* shared key prefixes and restart points, and how BlockIter walks and     *)
(* searches them.                                                          *)
(*                                                                         *)
(* A block is [entries, size, restarts]: the entries by the offset of      *)
(* their first byte, the offset of the restart array (restarts_offset) and *)
(* the restart points.  The three lengths at the head of an entry take one *)
(* byte each (varints below 128).  The compression, the checksum and the   *)
(* encoding of the integers are left out: a block is read back as it was   *)
(* written.  An entry that starts at an offset where none was written, or  *)
(* a failed assert, has no value: TLC stops with an error there.           *)
(***************************************************************************)
EXTENDS Separator, TLC

CONSTANTS RestartInterval,  \* Options::block_restart_interval
          BlockSize         \* Options::block_size

\* A fresh builder estimates 8 bytes.  With less, every table starts with an
\* empty block, on which prev() ends in seek_to_last's assertion; test_seek,
\* which opens such a table, only seeks.
ASSUME BlockAssumption == RestartInterval \in Nat \ {0} /\ BlockSize \in Nat /\ BlockSize >= 8

HeadLen == 3

NewBlock == [entries |-> <<>>, size |-> 0, restarts |-> <<0>>, restart_count |-> 0,
             last_key |-> <<>>]

size_estimate(b) == b.size + 4 * Len(b.restarts) + 4

SharedPrefix(a, k) == Max({n \in 0..Min({Len(a), Len(k)}) : SubSeq(a, 1, n) = SubSeq(k, 1, n)})

\* An entry: how much of the previous key it reuses, the rest of its key,
\* its value, and where its value and the next entry start.
Entry(at, shared, k, v, vlen) ==
  LET rest == SubSeq(k, shared + 1, Len(k))
      val_offset == at + HeadLen + Len(rest)
  IN  [shared |-> shared, rest |-> rest, val |-> v, val_offset |-> val_offset,
       next |-> val_offset + vlen]

\* BlockBuilder::add, of a value of vlen bytes: the keys must come in order.
Added(b, k, v, vlen) ==
  LET full == b.restart_count >= RestartInterval
      shared == IF full THEN 0 ELSE SharedPrefix(b.last_key, k)
      e == Entry(b.size, shared, k, v, vlen)
  IN  IF b.size > 0 /\ Less(k, b.last_key) THEN Assert(FALSE, "BlockBuilder::add") ELSE
      [entries |-> (b.size :> e) @@ b.entries,
       size |-> e.next,
       restarts |-> IF full THEN Append(b.restarts, b.size) ELSE b.restarts,
       restart_count |-> IF full THEN 1 ELSE b.restart_count + 1,
       last_key |-> k]

\* BlockBuilder::flush: what a reader finds again.
Flushed(b) == [entries |-> b.entries, size |-> b.size, restarts |-> b.restarts]

-----------------------------------------------------------------------------
(***************************************************************************)
(* BlockIter                                                               *)
(***************************************************************************)

\* BlockIterState::new
NewIter == [key |-> <<>>, cur |-> 0, next |-> 0, val |-> 0, ridx |-> 0]

\* BlockIterState::reset leaves the current offset.
Reset(s) == [NewIter EXCEPT !.cur = s.cur]

restart_count(b) == Len(b.restarts)

get_restart_point_offset(b, idx) == b.restarts[idx + 1]

Valid(b, s) == s.key # <<>> /\ s.val > 0 /\ s.val <= b.size

\* parse_entry_and_advance and assemble_key, at the next offset.
Parsed(b, s) ==
  LET e == b.entries[s.next]
  IN  [s EXCEPT !.key = SubSeq(s.key, 1, Min({e.shared, Len(s.key)})) \o e.rest,
                !.val = e.val_offset, !.next = e.next]

seek_to_restart_point(b, s, idx) ==
  LET off == get_restart_point_offset(b, idx)
      t == Parsed(b, [s EXCEPT !.next = off, !.cur = off, !.ridx = idx])
  IN  IF b.entries[off].shared = 0 /\ Valid(b, t) THEN t
      ELSE Assert(FALSE, "seek_to_restart_point")

AtEnd(b, s) == s.next >= b.size

\* advance: the restart index follows to the last restart point before the entry.
Advanced(b, s) ==
  IF AtEnd(b, s) THEN [s EXCEPT !.key = <<>>]
  ELSE LET passed == {i \in s.ridx..(restart_count(b) - 1) :
                        i = s.ridx \/ get_restart_point_offset(b, i) < s.next}
       IN  [Parsed(b, s) EXCEPT !.cur = s.next, !.ridx = Max(passed)]

\* What a step of an iterator leaves, and whether it returned true.
Step(ok, s) == [ok |-> ok, s |-> s]

Advance(b, s) == Step(~AtEnd(b, s), Advanced(b, s))

RECURSIVE AdvancedTo(_, _, _)
AdvancedTo(b, s, off) ==
  LET t == Advanced(b, s) IN IF t.next >= off THEN t ELSE AdvancedTo(b, t, off)

\* Mutant of Prev: stops at a restart point that is the current entry.
PrevBelowRestart(b, s) ==
  IF s.cur = 0 THEN Step(FALSE, Reset(s))
  ELSE LET before == {i \in 0..s.ridx : get_restart_point_offset(b, i) <= s.cur}
           back == [s EXCEPT !.ridx = Max(before),
                             !.next = get_restart_point_offset(b, Max(before))]
       IN  Step(TRUE, AdvancedTo(b, back, s.cur))

\* prev: back to a restart point before the current entry, then forward.
Prev(b, s) ==
  IF s.cur = 0 THEN Step(FALSE, Reset(s))
  ELSE LET before == {i \in 0..s.ridx : get_restart_point_offset(b, i) < s.cur}
           back == [s EXCEPT !.ridx = Max(before),
                             !.next = get_restart_point_offset(b, Max(before))]
       IN  Step(TRUE, AdvancedTo(b, back, s.cur))

\* The binary search of seek over the restart points left..right.
RECURSIVE SearchRestarts(_, _, _, _, _)
SearchRestarts(b, s, left, right, to) ==
  IF left >= right THEN [s EXCEPT !.ridx = left, !.next = get_restart_point_offset(b, left)]
  ELSE LET m == (left + right + 1) \div 2
           t == seek_to_restart_point(b, s, m)
       IN  IF Less(t.key, to) THEN SearchRestarts(b, t, m, right, to)
           ELSE SearchRestarts(b, t, left, m - 1, to)

RECURSIVE AdvancedToKey(_, _, _)
AdvancedToKey(b, s, to) ==
  LET t == Advanced(b, s)
  IN  IF AtEnd(b, s) \/ ~Less(t.key, to) THEN t ELSE AdvancedToKey(b, t, to)

Seek(b, s, to) == AdvancedToKey(b, SearchRestarts(b, Reset(s), 0, restart_count(b) - 1, to), to)

RECURSIVE AdvancedToLast(_, _)
AdvancedToLast(b, s) == IF AtEnd(b, s) THEN s ELSE AdvancedToLast(b, Advanced(b, s))

seek_to_last(b, s) == AdvancedToLast(b, seek_to_restart_point(b, s, restart_count(b) - 1))

\* current_v: the bytes between the value's offset and the next entry.
current_v(b, s) ==
  (CHOOSE e \in {b.entries[o] : o \in DOMAIN b.entries} :
     e.val_offset = s.val /\ e.next = s.next).val
==============================================================================
