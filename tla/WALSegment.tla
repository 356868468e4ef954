----------------------------- MODULE WALSegment -----------------------------
(***************************************************************************)
(* The bytes of a segment of the write-ahead log: how WALSeg::append       *)
(* writes a record and how WALSegIter reads the segment back.              *)
(***************************************************************************)
EXTENDS Separator

CONSTANT Panic    \* the reading thread panics

Base == MaxByte + 1

\* snap's compress_vec: the length of the data, then (for short data) the data itself.
compress_vec(s) == <<Len(s)>> \o s

decompress_vec(c) == IF c # <<>> /\ Head(c) = Len(c) - 1 THEN Tail(c) ELSE Panic

\* u32::encode_fixed and decode_fixed: four bytes, the lowest first.
encode_fixed(n) == <<n % Base, (n \div Base) % Base, (n \div Base^2) % Base, (n \div Base^3) % Base>>

decode_fixed(b) == b[1] + b[2] * Base + b[3] * Base^2 + b[4] * Base^3

padding(len) == (4 - len) % 8

\* Mutant of RecordBytes: no padding.
RecordBytesUnpadded(k, v) ==
  LET key_buf == compress_vec(k)
      value_buf == compress_vec(v)
      size == Len(key_buf) + Len(value_buf)
  IN  encode_fixed(size) \o encode_fixed(Len(key_buf)) \o key_buf \o value_buf

\* WALSeg::append: the buffer written for key k and value v.
RecordBytes(k, v) ==
  LET key_buf == compress_vec(k)
      value_buf == compress_vec(v)
      size == Len(key_buf) + Len(value_buf)
  IN  encode_fixed(size) \o encode_fixed(Len(key_buf)) \o key_buf \o value_buf
        \o [i \in 1..padding(size) |-> 0]

\* A slice of the mapped file that ends at byte n.
InFile(file, n) == n <= Len(file)

\* Head of the iteration and the rest of it: a panic anywhere ends the replay.
Then(key, val, rest) ==
  IF key = Panic \/ val = Panic \/ rest = Panic THEN Panic ELSE <<[key |-> key, val |-> val]>> \o rest

\* WALSegIter::next until it returns None, from an offset on.
RECURSIVE ReplayFrom(_, _)
ReplayFrom(file, offset) ==
  LET size == decode_fixed(SubSeq(file, offset + 1, offset + 4))
      key_size == decode_fixed(SubSeq(file, offset + 5, offset + 8))
      data == SubSeq(file, offset + 9, offset + 8 + size)
  IN  IF offset >= Len(file) THEN <<>>
      ELSE IF ~InFile(file, offset + 4) THEN Panic
      ELSE IF size = 0 THEN <<>>
      ELSE IF ~InFile(file, offset + 8) \/ ~InFile(file, offset + 8 + size) \/ key_size > size
      THEN Panic
      ELSE Then(decompress_vec(SubSeq(data, 1, key_size)),
                decompress_vec(SubSeq(data, key_size + 1, size)),
                ReplayFrom(file, offset + 8 + size + padding(size)))

Replayed(file) == ReplayFrom(file, 0)
==============================================================================
