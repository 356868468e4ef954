------------------------------ MODULE TableLaws -------------------------------
(***************************************************************************)
(* What the proofs about DataManager use of finite sets, tables and lookups *)
(* in them.  TablesProofs proves TableLaws; the lemmas about the engine    *)
(* take it as their hypothesis, so that their obligations do not carry all *)
(* the facts it rests on.                                                  *)
(***************************************************************************)
EXTENDS Tables

(***************************************************************************)
(* Finite sets.                                                            *)
(***************************************************************************)
FiniteLaw ==
  /\ IsFiniteSet({}) /\ \A x : IsFiniteSet({x})
  /\ \A S : IsFiniteSet(S) => \A T \in SUBSET S : IsFiniteSet(T)
  /\ \A S, T : IsFiniteSet(S) /\ IsFiniteSet(T) => IsFiniteSet(S \cup T)

IntervalLaw == \A a, b \in Int : IsFiniteSet(a..b)

\* The image of a finite set is finite.
ImageLaw ==
  \A S, T, f : IsFiniteSet(S) /\ (\A y \in T : \E x \in S : f[x] = y) => IsFiniteSet(T)

MaxLaw ==
  \A S \in SUBSET Int : IsFiniteSet(S) /\ S # {} => Max(S) \in S /\ \A y \in S : y =< Max(S)

MinLaw ==
  \A S \in SUBSET Int : IsFiniteSet(S) /\ S # {} => Min(S) \in S /\ \A y \in S : Min(S) =< y

(***************************************************************************)
(* What the operators of Tables return.                                    *)
(***************************************************************************)
KeysOfLaw ==
  \A t \in Table :
    /\ KeysOf(t) \in SUBSET Int /\ IsFiniteSet(KeysOf(t))
    /\ KeysOf(t) # {} => MinKey(t) \in Int

PartTypeLaw ==
  /\ \A t \in Table : \A size, n : Part(t, size, n) \in Table
  /\ \A t \in Table, size \in Nat \ {0} : PartCount(t, size) \in Nat

ReplayTypeLaw == \A recs \in Seq(Record) : Replay(recs) \in Table

ReplayEmptyLaw == Replay(<<>>) = EmptyTable

ReplayAppendLaw ==
  \A recs \in Seq(Record), r \in Record :
    Replay(Append(recs, r)) = [Replay(recs) EXCEPT ![r.key] = r.val]

\* A segment that has records gives a table that has keys.
ReplayHasKeysLaw == \A recs \in Seq(Record) : recs # <<>> => KeysOf(Replay(recs)) # {}

(***************************************************************************)
(* Lookups in a sequence of tables, the last one being the newest.         *)
(***************************************************************************)
\* Position i is where a lookup of k in the first n tables of s ends.
HitAt(s, n, k, i) ==
  i \in 1..n /\ s[i][k] # Absent /\ \A j \in 1..n : i < j => s[j][k] = Absent

NewestTypeLaw == \A s \in Seq(Table), k \in Keys : Newest(s, k) \in Vals \cup {Tombstone, Absent}

NewestHitLaw ==
  \A s, k, i : Len(s) \in Nat /\ HitAt(s, Len(s), k, i) => Newest(s, k) = s[i][k]

NewestMissLaw ==
  \A s, k : (\A j \in 1..Len(s) : s[j][k] = Absent) => Newest(s, k) = Absent

NewestCasesLaw ==
  \A s, k : Len(s) \in Nat =>
    \/ \A j \in 1..Len(s) : s[j][k] = Absent
    \/ \E i : HitAt(s, Len(s), k, i)

\* A lookup ends in the last table or is one in the tables before it.
NewestAppendLaw ==
  \A s, u, k :
    Len(s) \in Nat /\ Len(u) = Len(s) + 1 /\ (\A j \in 1..Len(s) : u[j] = s[j]) =>
      Newest(u, k) = IF u[Len(u)][k] # Absent THEN u[Len(u)][k] ELSE Newest(s, k)

\* Dropping the n oldest tables matters only to a lookup that ends in them.
SuffixOf(s, u, n) ==
  /\ n \in Nat /\ Len(s) \in Nat /\ Len(u) \in Nat /\ Len(s) = Len(u) + n
  /\ \A j \in 1..Len(u) : u[j] = s[n + j]

DropsOldest(s, u, n, k) ==
  \/ Newest(u, k) # Absent /\ Newest(s, k) = Newest(u, k)
  \/ Newest(u, k) = Absent /\ Newest(s, k) = Absent
  \/ Newest(u, k) = Absent /\ \E i \in 1..n : HitAt(s, Len(s), k, i) /\ Newest(s, k) = s[i][k]

NewestSuffixLaw == \A s, u, n, k : SuffixOf(s, u, n) => DropsOldest(s, u, n, k)

\* A table without the key can be left out.
NewestRemoveLaw ==
  \A s, u, n, k :
    /\ Len(s) \in Nat /\ n \in 1..Len(s) /\ Len(u) = Len(s) - 1
    /\ \A j \in 1..Len(u) : u[j] = IF j < n THEN s[j] ELSE s[j + 1]
    /\ s[n][k] = Absent
    => Newest(u, k) = Newest(s, k)

(***************************************************************************)
(* Looking a key up in levels of tables (SstableReader::get).  s holds the *)
(* tables, lv says which of them are on which level; LevelLookup and       *)
(* Lookup are LevelGet and ReadersGet of DataManager with the tables as a  *)
(* parameter, so that lookups before and after a step can be compared.     *)
(***************************************************************************)
LevelLookup(s, l, fs, k) ==
  LET H == {f \in fs : s[f][k] # Absent}
  IN  IF H = {} THEN Absent
      ELSE IF l = 0 THEN s[Max(H)][k]
      ELSE s[CHOOSE f \in H : \A g \in H : MinKey(s[f]) =< MinKey(s[g])][k]

Lookup(s, lv, k) ==
  LET hit   == [l \in DOMAIN lv |-> LevelLookup(s, l, lv[l], k)]
      found == {l \in DOMAIN lv : hit[l] # Absent}
  IN  IF found = {} THEN Absent ELSE hit[Min(found)]

\* A finite set of file or level numbers.
NumberSet(fs) == fs \in SUBSET Nat /\ IsFiniteSet(fs)

Apart(t, u) == MaxKey(t) < MinKey(u) \/ MaxKey(u) < MinKey(t)

SortedOn(s, fs) == \A f, g \in fs : f # g => Apart(s[f], s[g])

\* lv are levels of tables in s; above level 0 they are sorted.
Leveled(s, lv) ==
  /\ NumberSet(DOMAIN lv)
  /\ \A l \in DOMAIN lv : NumberSet(lv[l]) /\ \A f \in lv[l] : s[f] \in Table

Sorted(s, lv) == \A l \in DOMAIN lv : l # 0 => SortedOn(s, lv[l])

\* Levels stay sorted when files leave them and the others keep their tables.
SortedFrameLaw ==
  \A s, u, lv, lw :
    /\ DOMAIN lw = DOMAIN lv /\ Sorted(s, lv)
    /\ \A l \in DOMAIN lv : \A f \in lv[l] : u[f] = s[f]
    /\ \A l \in DOMAIN lv : l # 0 => lw[l] \subseteq lv[l]
    => Sorted(u, lw)

LookupFrameLaw ==
  \A s, u, lv :
    /\ Leveled(s, lv) /\ Sorted(s, lv)
    /\ \A l \in DOMAIN lv : \A f \in lv[l] : u[f] = s[f]
    => \A k \in Keys : Lookup(u, lv, k) = Lookup(s, lv, k)

\* SstableReader::add: tables that are newer than all of level 0 hide what
\* was there before, and nothing else.
Adds(s, lv, lw, new) ==
  /\ Leveled(s, lv) /\ 0 \in DOMAIN lv /\ NumberSet(new)
  /\ \A f \in lv[0], g \in new : f < g
  /\ DOMAIN lw = DOMAIN lv /\ lw[0] = lv[0] \cup new
  /\ \A m \in DOMAIN lv : m # 0 => lw[m] = lv[m]

AddNewestLaw ==
  \A s, lv, lw, new : Adds(s, lv, lw, new) => \A k \in Keys :
    /\ (\A g \in new : s[g][k] = Absent) => Lookup(s, lw, k) = Lookup(s, lv, k)
    /\ \A g \in new : s[g][k] # Absent /\ (\A h \in new : h > g => s[h][k] = Absent) =>
         Lookup(s, lw, k) = s[g][k]

(***************************************************************************)
(* size_compaction.                                                        *)
(***************************************************************************)
Keyed(s, fs) == \A f \in fs : s[f] \in Table /\ KeysOf(s[f]) # {}

\* The keys of some tables lie in a range; the tables that overlap a range.
Within(s, fs, lo, hi) == \A f \in fs : \A x \in KeysOf(s[f]) : lo =< x /\ x =< hi

Overlapping(s, fs, lo, hi) == {f \in fs : MinKey(s[f]) =< hi /\ MaxKey(s[f]) >= lo}

\* The Merger's table, and the tables it is split into.
MergeOf(s, l, n, fs0, in1) ==
  [k \in Keys |-> IF {f \in fs0 : s[f][k] # Absent} # {} THEN LevelLookup(s, l, fs0, k)
                  ELSE LevelLookup(s, n, in1, k)]

SplitInto(u, out, t) ==
  /\ \A f \in out : \A k \in Keys : u[f][k] # Absent => u[f][k] = t[k]
  /\ \A k \in Keys : t[k] # Absent => \E f \in out : u[f][k] = t[k]

\* The tables size_compaction writes: none is empty, their ranges do not
\* overlap, and together they are the merged table.
Outputs(u, t, size, next, out) ==
  /\ next \in Nat /\ out = next..(next + PartCount(t, size) - 1)
  /\ \A f \in out : u[f] = Part(t, size, f - next + 1)

OutputTablesLaw ==
  \A t \in Table, size \in Nat \ {0} : \A next, u, out : Outputs(u, t, size, next, out) =>
    NumberSet(out) /\ Keyed(u, out) /\ SortedOn(u, out) /\ SplitInto(u, out, t)

\* What size_compaction starts from: levels l and n, which are next to each
\* other, the tables of level n that overlap those of level l, and the merge t,
NextAfter(D, l, n) == l < n /\ \A i \in D : i < n => i < l \/ i = l

Merges(s, lv, l, n, lo, hi, in1, t) ==
  /\ Leveled(s, lv) /\ Sorted(s, lv)
  /\ l \in DOMAIN lv /\ n \in DOMAIN lv /\ NextAfter(DOMAIN lv, l, n) /\ n # 0 /\ l # n
  /\ Keyed(s, lv[l]) /\ Keyed(s, lv[n])
  /\ lo \in Int /\ hi \in Int /\ Within(s, lv[l], lo, hi) /\ in1 = Overlapping(s, lv[n], lo, hi)
  /\ t \in Table /\ t = MergeOf(s, l, n, lv[l], in1)

\* and what it leaves: the parts of the merge in the place of its inputs.
Replaces(s, u, lv, lw, l, n, in1, out) ==
  /\ DOMAIN lw = DOMAIN lv
  /\ \A i \in DOMAIN lv : \A f \in lv[i] : u[f] = s[f]
  /\ lw[l] = {} /\ lw[n] = (lv[n] \ in1) \cup out
  /\ \A i \in DOMAIN lv : i # l /\ i # n => lw[i] = lv[i]

\* A compaction changes no lookup and leaves sorted levels sorted.
CompactionLaw ==
  \A s, u, lv, lw, l, n, lo, hi, in1, t, out :
    Merges(s, lv, l, n, lo, hi, in1, t) /\ Replaces(s, u, lv, lw, l, n, in1, out) =>
      \A size \in Nat \ {0} : \A next : Outputs(u, t, size, next, out) =>
        Sorted(u, lw) /\ \A k \in Keys : Lookup(u, lw, k) = Lookup(s, lv, k)

TableLaws ==
  /\ FiniteLaw /\ IntervalLaw /\ ImageLaw /\ MaxLaw /\ MinLaw
  /\ KeysOfLaw /\ PartTypeLaw
  /\ ReplayTypeLaw /\ ReplayEmptyLaw /\ ReplayAppendLaw /\ ReplayHasKeysLaw
  /\ NewestTypeLaw /\ NewestHitLaw /\ NewestMissLaw /\ NewestCasesLaw
  /\ NewestAppendLaw /\ NewestSuffixLaw /\ NewestRemoveLaw
  /\ SortedFrameLaw /\ LookupFrameLaw /\ AddNewestLaw /\ OutputTablesLaw /\ CompactionLaw
==============================================================================
