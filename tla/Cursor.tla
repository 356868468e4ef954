------------------------------- MODULE Cursor -------------------------------
(***************************************************************************)
(* What an SsIterator over a table promises: a position in the sorted      *)
(* sequence of the table's entries, before the first (0), on one of them,  *)
(* or past the last.                                                       *)
(***************************************************************************)
EXTENDS Integers, Sequences, FiniteSets

CONSTANTS CursorKeys,      \* the keys, as integers
          Nothing          \* Option::None

VARIABLES entries,  \* [key, val] records in ascending order of their keys
          pos,      \* the number of entries up to the current one
          item,     \* current_kv()
          call      \* the last call and the parity of the calls: a call that should
                    \* move and does not is no stutter

cursorVars == <<entries, pos, item, call>>

Calls(name) == [name |-> name, odd |-> ~call.odd]
NewCall == [name |-> "new", odd |-> FALSE]

CursorInit == entries = <<>> /\ pos = 0 /\ item = Nothing /\ call = NewCall

\* A new iterator, on any table.
OpenCursor == pos' = 0 /\ item' = Nothing /\ call' = NewCall

At(p) == pos' = p /\ item' = entries[p] /\ UNCHANGED entries
Off(p) == pos' = p /\ item' = Nothing /\ UNCHANGED entries

AdvanceCursor ==
  /\ call' = Calls("advance")
  /\ IF pos < Len(entries) THEN At(pos + 1) ELSE Off(pos)

PrevCursor ==
  /\ call' = Calls("prev")
  /\ IF pos > 1 THEN At(pos - 1) ELSE Off(0)

ResetCursor == call' = Calls("reset") /\ Off(0)

\* A seek finds the key; without it, it stops at the next entry or before it.
SeekCursor(k) ==
  /\ call' = Calls("seek")
  /\ LET before == Cardinality({i \in 1..Len(entries) : entries[i].key < k})
     IN  IF \E i \in 1..Len(entries) : entries[i].key = k THEN At(before + 1)
         ELSE Off(before) \/ (before < Len(entries) /\ At(before + 1))

CursorNext ==
  OpenCursor \/ AdvanceCursor \/ PrevCursor \/ ResetCursor \/ \E k \in CursorKeys : SeekCursor(k)

CursorSpec == CursorInit /\ [][CursorNext]_cursorVars
==============================================================================
