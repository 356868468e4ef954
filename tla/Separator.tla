----------------------------- MODULE Separator ------------------------------
(***************************************************************************)
(* Byte strings in the order of Rust's slices, and the keys that the index *)
(* block of an SSTable stores between two data blocks.                     *)
(***************************************************************************)
EXTENDS Integers, Sequences, FiniteSetsExt

CONSTANT MaxByte    \* the largest byte: 0xff

ASSUME MaxByteAssumption == MaxByte \in Nat \ {0}

Byte == 0..MaxByte

\* a < b for slices of bytes: they agree up to position i, where a ends or is smaller.
LessAt(a, b, i) ==
  /\ i \in 1..Len(b)
  /\ i <= Len(a) + 1
  /\ \A j \in 1..(i - 1) : a[j] = b[j]
  /\ i <= Len(a) => a[i] < b[i]

Less(a, b) == \E i \in 1..Len(b) : LessAt(a, b, i)

LessEq(a, b) == a = b \/ Less(a, b)

\* The positions where the byte of a can be raised and stays below that of b.
Raisable(a, b) ==
  {i \in 1..Len(a) : i <= Len(b) /\ a[i] < MaxByte /\ a[i] + 1 < b[i]}

\* The prefix a[0..=i] with its last byte raised by one.
RaisedAt(a, i) == [j \in 1..i |-> IF j = i THEN a[j] + 1 ELSE a[j]]

(***************************************************************************)
(* find_shortest_sep: the loop over the common prefix stops at the first   *)
(* difference, and the second at the first position that can be raised; as *)
(* equal bytes cannot be, that is the first one of all.                    *)
(***************************************************************************)
find_shortest_sep(a, b) ==
  IF a = b THEN a
  ELSE IF Raisable(a, b) = {} THEN Append(a, 0)
  ELSE RaisedAt(a, Min(Raisable(a, b)))

\* find_short_succ: raise the first byte that is not the largest, drop the rest.
find_short_succ(a) ==
  LET C == {i \in 1..Len(a) : a[i] # MaxByte}
  IN  IF C = {} THEN Append(a, MaxByte) ELSE RaisedAt(a, Min(C))
==============================================================================
