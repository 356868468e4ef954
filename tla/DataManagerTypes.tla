--------------------------- MODULE DataManagerTypes ---------------------------
(***************************************************************************)
(* Every step of DataManager preserves Control and TypeOK, given that the  *)
(* files it refers to exist; and the lemmas that the other proofs about    *)
(* DataManager share: what a state's levels look like and what each step   *)
(* changes.                                                                *)
(***************************************************************************)
EXTENDS DataManagerInv, TableLaws, TLAPS

USE DEF Threads

\* Sequences: what Append, Tail, SubSeq and \o return.
LEMMA AppendToSeq ==
  ASSUME NEW S, NEW s \in Seq(S), NEW e \in S
  PROVE  /\ Append(s, e) \in Seq(S) /\ Len(Append(s, e)) = Len(s) + 1
         /\ Append(s, e)[Len(s) + 1] = e /\ \A i \in 1..Len(s) : Append(s, e)[i] = s[i]
OBVIOUS

\* Tail: consume, which removes the oldest.
LEMMA TailOfSeq ==
  ASSUME NEW S, NEW s \in Seq(S), s # <<>>
  PROVE  /\ Tail(s) \in Seq(S) /\ Len(Tail(s)) = Len(s) - 1
         /\ \A i \in 1..Len(Tail(s)) : Tail(s)[i] = s[i + 1]
OBVIOUS

\* SubSeq: what is left of a queue.
LEMMA SliceOfSeq ==
  ASSUME NEW S, NEW s \in Seq(S), NEW m \in 1..(Len(s) + 1), NEW n \in 0..Len(s), m <= n + 1
  PROVE  /\ SubSeq(s, m, n) \in Seq(S) /\ Len(SubSeq(s, m, n)) = n - m + 1
         /\ \A i \in 1..(n - m + 1) : SubSeq(s, m, n)[i] = s[m + i - 1]
OBVIOUS

\* Two queues, one after the other.
LEMMA JoinOfSeqs ==
  ASSUME NEW S, NEW s \in Seq(S), NEW t \in Seq(S)
  PROVE  /\ Len(s \o t) = Len(s) + Len(t)
         /\ \A i \in 1..(Len(s) + Len(t)) : (s \o t)[i] = IF i =< Len(s) THEN s[i] ELSE t[i - Len(s)]
OBVIOUS

\* Sequences are equal if their lengths and elements are.
LEMMA SeqsAreEqual ==
  ASSUME NEW S, NEW s \in Seq(S), NEW t \in Seq(S), Len(s) = Len(t), \A i \in 1..Len(s) : s[i] = t[i]
  PROVE  s = t
OBVIOUS

\* The empty sequence.
LEMMA EmptySequence ==
  ASSUME NEW S, NEW s \in Seq(S), Len(s) = 0
  PROVE  s = <<>>
OBVIOUS

\* A level size_compaction may work on has a next one.
LEMMA NextLevel ==
  ASSUME NEW l \in Levels, l < MaxLevel - 1
  PROVE  l + 1 \in Levels
<1>1. MaxLevel \in Nat
  BY Zenon, OptionsAssumption
<1> QED
  BY <1>1 DEF Levels

\* redo still has segments to delete unless it deletes the last one.
LEMMA TailNotEmpty ==
  ASSUME NEW S, NEW s \in Seq(S), s # <<>>, Len(s) # 1
  PROVE  Tail(s) # <<>>
<1>1. Len(s) \in Nat \ {0}
  OBVIOUS
<1>2. Len(Tail(s)) = Len(s) - 1 /\ Tail(s) \in Seq(S)
  BY Zenon, TailOfSeq
<1>3. Len(Tail(s)) # 0
  BY <1>1, <1>2
<1>4. Len(<<>>) = 0
  BY Zenon
<1> QED
  BY Zenon, <1>3, <1>4

(***************************************************************************)
(* Every step preserves Control.                                           *)
(***************************************************************************)
LEMMA ControlStep ==
  ASSUME TypeOK, Control, Next
  PROVE  Control'
<1> USE DEF Control, Quiet, MinorInRange, OneWalHolder, JobLevels, ServerCompacts,
            RequestShape, RedoHasLog, Redoing,
            TypeOK, MemoryType, DiskType, RequestType, MinorType, MajorType, NoMinor, NoJob, Pending, memory, disk, requests, majors, bounds
<1>1. ASSUME NEW op \in {"get", "remove"}, NEW k \in Keys, GetFromMemtables(op, k) PROVE Control'
  BY SMTT(30), <1>1 DEF GetFromMemtables, Found, Decode, Request, Entry
<1>2. ASSUME NEW k \in Keys, NEW v \in Vals, Insert(k, v) PROVE Control'
  BY Zenon, <1>2 DEF Insert, WalAppend, Entry, WalLocked, Request
<1>3. ASSUME GetFromReaders PROVE Control'
  BY SMTT(30), <1>3 DEF GetFromReaders, Found, Decode, Request, Entry
<1>4. ASSUME Remove PROVE Control'
  BY Zenon, <1>4 DEF Remove, WalAppend, WalLocked, Entry, Request
<1>5. ASSUME MemInsert PROVE Control'
  BY SMTT(60), <1>5 DEF MemInsert
<1>6. ASSUME NewSeg PROVE Control'
  BY Zenon, <1>6 DEF NewSeg
<1>7. ASSUME MinorCount PROVE Control'
  BY <1>7 DEF MinorCount
<1>8. ASSUME MinorLock PROVE Control'
  BY <1>8 DEF MinorLock, WalLocked
<1>9. ASSUME MinorBuild PROVE Control'
  BY <1>9 DEF MinorBuild
<1>10. ASSUME MinorAdd PROVE Control'
  BY <1>10 DEF MinorAdd
<1>11. ASSUME MinorFlush PROVE Control'
  BY <1>11 DEF MinorFlush
<1>12. ASSUME MinorConsumeSeg PROVE Control'
  <2>1. /\ minor'.done = minor.done + 1 /\ minor'.count = minor.count
        /\ minor'.pc = IF minor.done + 1 = minor.count THEN "consume" ELSE "build"
    BY Zenon, <1>12 DEF MinorConsumeSeg
  <2>2. minor.pc = "seg" /\ minor.done < minor.count /\ minor.count \in 1..Len(imm) /\ phase = "up"
    BY <1>12 DEF MinorConsumeSeg
  <2>3. MinorInRange'
    BY SMTT(30), <1>12, <2>1, <2>2 DEF MinorConsumeSeg
  <2> QED
    BY <1>12, <2>1, <2>2, <2>3 DEF MinorConsumeSeg
<1>13. ASSUME MinorConsume PROVE Control'
  BY SMTT(30), <1>13 DEF MinorConsume
<1>14. ASSUME NEW t \in Threads, MajorPick(t) PROVE Control'
  <2>1. PICK l \in Levels : l < MaxLevel - 1 /\ job' = [job EXCEPT ![t] = [NoJob EXCEPT !.level = l]]
    BY Zenon, <1>14 DEF MajorPick
  <2>2. l + 1 \in Levels
    BY Zenon, <2>1, NextLevel
  <2>3. job'[t] = [level |-> l, in0 |-> {}, in1 |-> {}, out |-> {}]
    BY Zenon, <2>1
  <2>4. JobLevels'
    BY SMTT(30), <1>14, <2>1, <2>2, <2>3 DEF MajorPick
  <2> QED
    BY SMTT(30), <1>14, <2>4 DEF MajorPick
<1>15. ASSUME NEW t \in Threads, MajorMerge(t) PROVE Control'
  <2>1. /\ majorPc[t] = "picked" /\ majorPc' = [majorPc EXCEPT ![t] = "merged"]
        /\ UNCHANGED <<phase, mem, imm, wal, requests, minor, bounds>>
    BY Zenon, <1>15 DEF MajorMerge
  <2>2. job' = [job EXCEPT ![t] = [level |-> job[t].level, in0 |-> levels[job[t].level],
                                   in1 |-> NextInputs(job[t].level),
                                   out |-> NewTables(job[t].level)]]
    BY Zenon, <1>15 DEF MajorMerge
  <2>3. JobLevels'
    BY SMTT(30), <2>1, <2>2
  <2> QED
    BY SMTT(30), <2>1, <2>3
<1>16. ASSUME NEW t \in Threads, MajorRemove0(t) PROVE Control'
  BY SMTT(30), <1>16 DEF MajorRemove0, MajorRemove
<1>17. ASSUME NEW t \in Threads, MajorRemove1(t) PROVE Control'
  BY SMTT(30), <1>17 DEF MajorRemove1, MajorRemove
<1>18. ASSUME NEW t \in Threads, MajorFlush(t) PROVE Control'
  BY SMTT(30), <1>18 DEF MajorFlush
<1>19. ASSUME NEW t \in Threads, MajorUnlink(t) PROVE Control'
  BY SMTT(30), <1>19 DEF MajorUnlink
<1>20. ASSUME NEW t \in Threads, MajorUnlinkFails(t) PROVE Control'
  BY SMTT(30), <1>20 DEF MajorUnlinkFails
<1>21. ASSUME NEW t \in Threads, MajorAdd(t) PROVE Control'
  BY SMTT(30), <1>21 DEF MajorAdd
<1>22. ASSUME NEW t \in Threads, MajorPanics(t) PROVE Control'
  BY SMTT(30), <1>22 DEF MajorPanics, Die
<1>23. ASSUME Crash PROVE Control'
  BY SMTT(30), <1>23 DEF Crash, Die
<1>24. ASSUME DropEmptySeg PROVE Control'
  BY Zenon, <1>24 DEF DropEmptySeg
<1>25. ASSUME Restart PROVE Control'
  BY SMTT(30), <1>25 DEF Restart
<1>26. ASSUME RestartFails PROVE Control'
  BY <1>26 DEF RestartFails
<1>27. ASSUME RedoBuild PROVE Control'
  BY SMTT(30), <1>27 DEF RedoBuild
<1>28. ASSUME RedoAdd PROVE Control'
  BY SMTT(30), <1>28 DEF RedoAdd
<1>29. ASSUME RedoFlush PROVE Control'
  BY SMTT(30), <1>29 DEF RedoFlush
<1>30. ASSUME RedoDelete PROVE Control'
  <2>1. Len(wal) # 1 => Tail(wal) # <<>>
    BY ZenonT(30), <1>30, TailNotEmpty DEF RedoDelete
  <2> QED
    BY ZenonT(30), <1>30, <2>1 DEF RedoDelete
<1> QED
  BY Zenon, <1>1, <1>2, <1>3, <1>4, <1>5, <1>6, <1>7, <1>8, <1>9, <1>10, <1>11, <1>12, <1>13, <1>14, <1>15, <1>16, <1>17, <1>18, <1>19, <1>20, <1>21, <1>22, <1>23, <1>24, <1>25, <1>26, <1>27, <1>28, <1>29, <1>30
     DEF Next, ServerStep, MinorStep, MajorStep, RestartStep
(***************************************************************************)
(* What lookups and merges return, as long as the files they read exist.   *)
(***************************************************************************)
LEMMA LevelGetType ==
  ASSUME TableLaws, TypeOK, IsFiniteSet(DOMAIN sst), NEW l, NEW fs \in SUBSET DOMAIN sst, NEW k \in Keys
  PROVE  LevelGet(l, fs, k) \in Vals \cup {Tombstone, Absent}
<1> DEFINE H == Holding(fs, k)
<1>1. H \in SUBSET DOMAIN sst
  BY Zenon DEF Holding
<1>2. H \in SUBSET Int /\ IsFiniteSet(H)
  BY <1>1 DEF TypeOK, DiskType, TableLaws, FiniteLaw
<1>3. \A f \in H : /\ sst[f] \in Table /\ sst[f][k] \in Vals \cup {Tombstone, Absent}
                   /\ KeysOf(sst[f]) # {}
  BY Zenon, <1>1 DEF TypeOK, DiskType, Table, Holding, KeysOf
<1> DEFINE Lowest(f) == \A g \in H : MinKey(sst[f]) =< MinKey(sst[g])
<1>4. H # {} => Max(H) \in H
  <2> HIDE DEF H
  <2> QED
    BY Zenon, <1>2 DEF TableLaws, MaxLaw
<1>5. H # {} => \E f \in H : Lowest(f)
  <2> DEFINE M == {MinKey(sst[f]) : f \in H}
             h == [f \in H |-> MinKey(sst[f])]
  <2>1. \A y \in M : \E f \in H : h[f] = y
    BY Zenon
  <2>2. \A f \in H : MinKey(sst[f]) \in Int
    BY Zenon, <1>3 DEF TableLaws, KeysOfLaw
  <2>3. M \in SUBSET Int /\ (H # {} => M # {})
    BY Zenon, <2>2
  <2>4. IsFiniteSet(M)
    <3> HIDE DEF h, H, M
    <3> QED
      BY Zenon, <2>1, <1>2 DEF TableLaws, ImageLaw
  <2>5. H # {} => Min(M) \in M /\ \A y \in M : Min(M) =< y
    <3> HIDE DEF H, M
    <3> QED
      BY Zenon, <2>3, <2>4 DEF TableLaws, MinLaw
  <2> QED
    BY Zenon, <2>5
<1>6. H # {} => (CHOOSE f \in H : Lowest(f)) \in H
  BY Zenon, <1>5
<1> QED
  BY Zenon, <1>3, <1>4, <1>6 DEF LevelGet

\* SstableReader::get yields an entry,
LEMMA ReadersGetType ==
  ASSUME TableLaws, TypeOK, IsFiniteSet(DOMAIN sst),
         NEW lv \in LevelFiles, Named(lv) \subseteq DOMAIN sst, NEW k \in Keys
  PROVE  ReadersGet(lv, k) \in Vals \cup {Tombstone, Absent}
<1> DEFINE hit   == [l \in Levels |-> LevelGet(l, lv[l], k)]
           found == {l \in Levels : hit[l] # Absent}
<1>1. \A l \in Levels : lv[l] \in SUBSET DOMAIN sst
  BY Zenon DEF Named, LevelFiles
<1>2. \A l \in Levels : hit[l] \in Vals \cup {Tombstone, Absent}
  BY Zenon, <1>1, LevelGetType
<1>3. Levels \in SUBSET Int /\ IsFiniteSet(Levels)
  BY OptionsAssumption DEF Levels, TableLaws, IntervalLaw
<1>4. found \in SUBSET Levels /\ found \in SUBSET Int /\ IsFiniteSet(found)
  BY Zenon, <1>3 DEF TableLaws, FiniteLaw
<1>5. found # {} => Min(found) \in Levels
  <2> HIDE DEF found
  <2> QED
    BY Zenon, <1>4 DEF TableLaws, MinLaw
<1> QED
  BY Zenon, <1>2, <1>5 DEF ReadersGet

\* the Merger over the inputs of size_compaction a table,
LEMMA MergedType ==
  ASSUME TableLaws, TypeOK, IsFiniteSet(DOMAIN sst), NEW l,
         NEW in0 \in SUBSET DOMAIN sst, NEW in1 \in SUBSET DOMAIN sst
  PROVE  Merged(l, in0, in1) \in Table
BY Zenon, LevelGetType DEF Merged, Table

\* and a lookup in the memtables an entry.
LEMMA MemGetType ==
  ASSUME TableLaws, TypeOK, NEW k \in Keys
  PROVE  MemGet(k) \in Vals \cup {Tombstone, Absent}
BY ZenonT(30) DEF MemGet, TypeOK, MemoryType, Table, TableLaws, NewestTypeLaw

(***************************************************************************)
(* Every step preserves TypeOK: one lemma per part.                        *)
(***************************************************************************)
LEMMA RequestTypeStep ==
  ASSUME TableLaws, TypeOK, Control, Files, Next
  PROVE  RequestType'
<1> USE DEF TypeOK, RequestType, Request, Pending, memory, disk, requests, majors, bounds
<1>a. MaxWrites \in Nat /\ MaxCrashes \in Nat
  BY Zenon, OptionsAssumption
<1>1. ASSUME NEW op \in {"get", "remove"}, NEW k \in Keys, GetFromMemtables(op, k) PROVE RequestType'
  BY <1>1, MemGetType, ValsAssumption DEF GetFromMemtables, Found, Decode
<1>2. ASSUME NEW k \in Keys, NEW v \in Vals, Insert(k, v) PROVE RequestType'
  BY <1>2, <1>a DEF Insert, WalAppend
<1>3. ASSUME GetFromReaders PROVE RequestType'
  <2>1. req \in Request /\ req.key \in Keys
    BY Zenon, <1>3 DEF GetFromReaders
  <2>2. Named(levels) \subseteq DOMAIN sst /\ IsFiniteSet(DOMAIN sst) /\ levels \in LevelFiles
    BY Zenon DEF Files, ReferencedFilesExist, MemoryType
  <2>3. ReadersGet(levels, req.key) \in Vals \cup {Tombstone, Absent}
    BY Zenon, <2>1, <2>2, ReadersGetType
  <2> QED
    BY Zenon, <1>3, <2>1, <2>3, ValsAssumption DEF GetFromReaders, Found, Decode
<1>4. ASSUME Remove PROVE RequestType'
  BY <1>4, <1>a DEF Remove, WalAppend, Control, RequestShape
<1>5. ASSUME MemInsert PROVE RequestType'
  BY Zenon, <1>5 DEF MemInsert
<1>6. ASSUME NewSeg PROVE RequestType'
  BY Zenon, <1>6 DEF NewSeg
<1>7. ASSUME NEW t \in Threads, MajorPick(t) PROVE RequestType'
  BY Zenon, <1>7 DEF MajorPick
<1>8. ASSUME NEW t \in Threads, MajorFlush(t) PROVE RequestType'
  BY Zenon, <1>8 DEF MajorFlush, Control, ServerCompacts
<1>9. ASSUME NEW t \in Threads, MajorUnlinkFails(t) PROVE RequestType'
  BY Zenon, <1>9 DEF MajorUnlinkFails, Control, ServerCompacts
<1>10. ASSUME NEW t \in Threads, MajorPanics(t) PROVE RequestType'
  BY Zenon, <1>10 DEF MajorPanics, Die
<1>11. ASSUME Crash PROVE RequestType'
  BY <1>11, <1>a DEF Crash, Die
<1>12. ASSUME MinorCount \/ MinorLock \/ MinorBuild \/ MinorAdd \/ MinorFlush \/
              MinorConsumeSeg \/ MinorConsume \/ DropEmptySeg \/ Restart \/ RestartFails \/
              RedoBuild \/ RedoAdd \/ RedoFlush \/ RedoDelete
       PROVE  RequestType'
  <2>1. UNCHANGED <<requests, bounds>>
    BY Zenon, <1>12
       DEF MinorCount, MinorLock, MinorBuild, MinorAdd, MinorFlush, MinorConsumeSeg, MinorConsume,
           DropEmptySeg, Restart, RestartFails, RedoBuild, RedoAdd, RedoFlush, RedoDelete
  <2> QED
    BY Zenon, <2>1
<1>13. ASSUME NEW t \in Threads, MajorMerge(t) \/ MajorRemove0(t) \/ MajorRemove1(t) \/
              MajorUnlink(t) \/ MajorAdd(t)
       PROVE  RequestType'
  <2>1. UNCHANGED <<requests, bounds>>
    BY Zenon, <1>13 DEF MajorMerge, MajorRemove0, MajorRemove, MajorRemove1, MajorUnlink, MajorAdd
  <2> QED
    BY Zenon, <2>1
<1> QED
  BY Zenon, <1>1, <1>2, <1>3, <1>4, <1>5, <1>6, <1>7, <1>8, <1>9, <1>10, <1>11, <1>12, <1>13
     DEF Next, ServerStep, MinorStep, MajorStep, RestartStep

\* Every step keeps the state of the minor compaction thread typed,
LEMMA MinorTypeStep ==
  ASSUME TypeOK, Next
  PROVE  MinorType'
<1> USE DEF TypeOK, MemoryType, MinorType, NoMinor, memory, disk, requests, majors, bounds
<1>1. ASSUME MinorCount PROVE MinorType'
  <2>1. minor' = [pc |-> "lock", count |-> Len(imm), done |-> 0, file |-> 0]
    BY Zenon, <1>1 DEF MinorCount
  <2>2. Len(imm) \in Nat
    OBVIOUS
  <2> QED
    BY Zenon, <2>1, <2>2
<1>2. ASSUME MinorLock PROVE MinorType'
  BY Zenon, <1>2 DEF MinorLock
<1>3. ASSUME MinorBuild PROVE MinorType'
  BY Zenon, <1>3 DEF MinorBuild
<1>4. ASSUME MinorAdd PROVE MinorType'
  BY Zenon, <1>4 DEF MinorAdd
<1>5. ASSUME MinorFlush PROVE MinorType'
  BY Zenon, <1>5 DEF MinorFlush
<1>6. ASSUME MinorConsumeSeg PROVE MinorType'
  <2>1. minor' = [pc |-> IF minor.done + 1 = minor.count THEN "consume" ELSE "build",
                  count |-> minor.count, done |-> minor.done + 1, file |-> minor.file]
    BY Zenon, <1>6 DEF MinorConsumeSeg
  <2> QED
    BY <2>1
<1>7. ASSUME MinorConsume PROVE MinorType'
  BY Zenon, <1>7 DEF MinorConsume
<1>8. ASSUME NEW t \in Threads, MajorPanics(t) PROVE MinorType'
  BY <1>8 DEF MajorPanics, Die
<1>9. ASSUME Crash PROVE MinorType'
  <2>1. minor' = NoMinor
    BY Zenon, <1>9 DEF Crash, Die
  <2> QED
    BY <2>1
<1>10. ASSUME GetFromReaders \/ Remove \/ MemInsert \/ NewSeg \/ DropEmptySeg \/ Restart \/
              RestartFails \/ RedoBuild \/ RedoAdd \/ RedoFlush \/ RedoDelete
       PROVE  MinorType'
  <2>1. UNCHANGED minor
    BY Zenon, <1>10
       DEF GetFromReaders, Remove, WalAppend, MemInsert, NewSeg, DropEmptySeg, Restart,
           RestartFails, RedoBuild, RedoAdd, RedoFlush, RedoDelete
  <2> QED
    BY Zenon, <2>1
<1>11. ASSUME NEW t \in Threads, MajorPick(t) \/ MajorMerge(t) \/ MajorRemove0(t) \/
              MajorRemove1(t) \/ MajorFlush(t) \/ MajorUnlink(t) \/ MajorUnlinkFails(t) \/
              MajorAdd(t)
       PROVE  MinorType'
  <2>1. UNCHANGED minor
    BY Zenon, <1>11
       DEF MajorPick, MajorMerge, MajorRemove0, MajorRemove, MajorRemove1, MajorFlush,
           MajorUnlink, MajorUnlinkFails, MajorAdd
  <2> QED
    BY Zenon, <2>1
<1>12. ASSUME NEW op \in {"get", "remove"}, NEW k \in Keys, GetFromMemtables(op, k) PROVE MinorType'
  <2>1. UNCHANGED minor
    BY Zenon, <1>12 DEF GetFromMemtables
  <2> QED
    BY Zenon, <2>1
<1>13. ASSUME NEW k \in Keys, NEW v \in Vals, Insert(k, v) PROVE MinorType'
  <2>1. UNCHANGED minor
    BY Zenon, <1>13 DEF Insert, WalAppend
  <2> QED
    BY Zenon, <2>1
<1> QED
  BY Zenon, <1>1, <1>2, <1>3, <1>4, <1>5, <1>6, <1>7, <1>8, <1>9, <1>10, <1>11, <1>12, <1>13
     DEF Next, ServerStep, MinorStep, MajorStep, RestartStep

\* that of the two runs of major_compaction,
LEMMA MajorTypeStep ==
  ASSUME TypeOK, Control, Next
  PROVE  MajorType'
<1> USE DEF TypeOK, MajorType, NoJob, memory, disk, requests, majors, bounds
<1>1. ASSUME NEW t \in Threads, MajorPick(t) PROVE MajorType'
  BY SMTT(30), <1>1 DEF MajorPick
<1>2. ASSUME NEW t \in Threads, MajorMerge(t) PROVE MajorType'
  <2>1. /\ majorPc' = [majorPc EXCEPT ![t] = "merged"]
        /\ levels[job[t].level] \in SUBSET Nat /\ levels[job[t].level + 1] \in SUBSET Nat
    BY Zenon, <1>2 DEF MajorMerge, MemoryType, LevelFiles, Control, JobLevels
  <2>2. NextInputs(job[t].level) \in SUBSET Nat
    BY Zenon, <2>1 DEF NextInputs, OtherReaders
  <2>3. NewTables(job[t].level) \in SUBSET Nat
    BY DEF NewTables, MemoryType
  <2> QED
    BY SMTT(30), <1>2, <2>1, <2>2, <2>3 DEF MajorMerge
<1>3. ASSUME NEW t \in Threads, MajorRemove0(t) PROVE MajorType'
  BY Zenon, <1>3 DEF MajorRemove0, MajorRemove
<1>4. ASSUME NEW t \in Threads, MajorRemove1(t) PROVE MajorType'
  BY Zenon, <1>4 DEF MajorRemove1, MajorRemove
<1>5. ASSUME NEW t \in Threads, MajorFlush(t) PROVE MajorType'
  <2>1. /\ majorPc' \in [Threads -> {"idle", "picked", "merged", "flush0", "unlink0", "remove1",
                                   "flush1", "unlink1", "add", "flush2", "dead"}]
    BY Zenon, <1>5 DEF MajorFlush
  <2>2. job' = job \/ job' = [job EXCEPT ![t] = NoJob]
    BY Zenon, <1>5 DEF MajorFlush
  <2>3. 0 \in Levels
    BY OptionsAssumption DEF Levels
  <2> QED
    BY <2>1, <2>2, <2>3
<1>6. ASSUME NEW t \in Threads, MajorUnlink(t) PROVE MajorType'
  BY Zenon, <1>6 DEF MajorUnlink
<1>7. ASSUME NEW t \in Threads, MajorUnlinkFails(t) PROVE MajorType'
  BY <1>7, OptionsAssumption DEF MajorUnlinkFails, Levels
<1>8. ASSUME NEW t \in Threads, MajorAdd(t) PROVE MajorType'
  BY SMTT(30), <1>8 DEF MajorAdd
<1>9. ASSUME NEW t \in Threads, MajorPanics(t) PROVE MajorType'
  BY <1>9, OptionsAssumption DEF MajorPanics, Die, Levels
<1>10. ASSUME Crash PROVE MajorType'
  BY <1>10, OptionsAssumption DEF Crash, Die, Levels
<1>11. ASSUME GetFromReaders \/ Remove \/ MemInsert \/ NewSeg \/ MinorCount \/ MinorLock \/
              MinorBuild \/ MinorAdd \/ MinorFlush \/ MinorConsumeSeg \/ MinorConsume \/
              DropEmptySeg \/ Restart \/ RestartFails \/ RedoBuild \/ RedoAdd \/ RedoFlush \/
              RedoDelete
       PROVE  MajorType'
  <2>1. UNCHANGED majors
    BY Zenon, <1>11
       DEF GetFromReaders, Remove, WalAppend, MemInsert, NewSeg, MinorCount, MinorLock,
           MinorBuild, MinorAdd, MinorFlush, MinorConsumeSeg, MinorConsume, DropEmptySeg, Restart,
           RestartFails, RedoBuild, RedoAdd, RedoFlush, RedoDelete
  <2> QED
    BY <2>1
<1>12. ASSUME NEW op \in {"get", "remove"}, NEW k \in Keys, GetFromMemtables(op, k) PROVE MajorType'
  <2>1. UNCHANGED majors
    BY <1>12 DEF GetFromMemtables
  <2> QED
    BY <2>1
<1>13. ASSUME NEW k \in Keys, NEW v \in Vals, Insert(k, v) PROVE MajorType'
  <2>1. UNCHANGED majors
    BY <1>13 DEF Insert, WalAppend
  <2> QED
    BY <2>1
<1> QED
  BY Zenon, <1>1, <1>2, <1>3, <1>4, <1>5, <1>6, <1>7, <1>8, <1>9, <1>10, <1>11, <1>12, <1>13
     DEF Next, ServerStep, MinorStep, MajorStep, RestartStep

\* What size_compaction merges is a table, cut into finitely many files.
LEMMA MergedInputsType ==
  ASSUME TableLaws, TypeOK, Control, Files, NEW t \in Threads, majorPc[t] = "picked"
  PROVE  /\ MergedInputs(job[t].level) \in Table
         /\ PartCount(MergedInputs(job[t].level), SstMaxSize) \in Nat
<1> DEFINE l == job[t].level
<1>1. l \in Levels /\ l + 1 \in Levels
  BY Zenon DEF TypeOK, MajorType, Control, JobLevels
<1>2. levels[l] \in SUBSET DOMAIN sst /\ levels[l + 1] \in SUBSET DOMAIN sst
  BY <1>1 DEF Files, ReferencedFilesExist, Named, TypeOK, MemoryType, LevelFiles
<1>3. NextInputs(l) \in SUBSET DOMAIN sst
  BY Zenon, <1>2 DEF NextInputs, OtherReaders
<1>4. MergedInputs(l) \in Table
  BY Zenon, <1>2, <1>3, MergedType DEF MergedInputs, Files
<1>5. SstMaxSize \in Nat \ {0}
  BY Zenon, OptionsAssumption
<1> QED
  BY <1>4, <1>5 DEF TableLaws, PartTypeLaw

\* Every step keeps memtables, readers and the next file number typed,
LEMMA MemoryTypeStep ==
  ASSUME TableLaws, TypeOK, Control, Files, Next
  PROVE  MemoryType'
<1> USE DEF TypeOK, MemoryType, memory, disk, requests, majors, bounds
<1>1. ASSUME MemInsert PROVE MemoryType'
  <2>1. req \in Request /\ Entry(req) \in Vals \cup {Tombstone}
    BY <1>1 DEF MemInsert, RequestType, Pending, Control, RequestShape
  <2>2. [mem EXCEPT ![req.key] = Entry(req)] \in Table
    BY Zenon, <2>1 DEF Table
  <2>3. EmptyTable \in Table
    BY Zenon DEF EmptyTable, Table
  <2>4. \/ imm' = Append(imm, [mem EXCEPT ![req.key] = Entry(req)]) /\ mem' = EmptyTable
        \/ imm' = imm /\ mem' = [mem EXCEPT ![req.key] = Entry(req)]
    BY <1>1 DEF MemInsert
  <2>5. mem' \in Table /\ imm' \in Seq(Table)
    BY <2>2, <2>3, <2>4, AppendToSeq
  <2>6. UNCHANGED <<phase, levels, nextFile, redoFiles>>
    BY <1>1 DEF MemInsert
  <2> QED
    BY <2>5, <2>6
<1>2. ASSUME MinorBuild PROVE MemoryType'
  BY <1>2 DEF MinorBuild
<1>3. ASSUME MinorAdd PROVE MemoryType'
  BY Zenon, <1>3 DEF MinorAdd, LevelFiles, MinorType
<1>4. ASSUME MinorConsume PROVE MemoryType'
  <2>1. minor.count \in 1..Len(imm)
    BY Zenon, <1>4 DEF MinorConsume, Control, MinorInRange
  <2>2. SubSeq(imm, minor.count + 1, Len(imm)) \in Seq(Table)
    BY SMTT(30), <2>1
  <2> QED
    BY Zenon, <1>4, <2>2 DEF MinorConsume
<1>5. ASSUME NEW t \in Threads, MajorMerge(t) PROVE MemoryType'
  BY <1>5, MergedInputsType DEF MajorMerge
<1>6. ASSUME NEW t \in Threads, MajorRemove0(t) PROVE MemoryType'
  BY Zenon, <1>6 DEF MajorRemove0, MajorRemove, LevelFiles
<1>7. ASSUME NEW t \in Threads, MajorRemove1(t) PROVE MemoryType'
  BY Zenon, <1>7 DEF MajorRemove1, MajorRemove, LevelFiles
<1>8. ASSUME NEW t \in Threads, MajorAdd(t) PROVE MemoryType'
  BY Zenon, <1>8 DEF MajorAdd, LevelFiles, MajorType
<1>9. ASSUME NEW t \in Threads, MajorPanics(t) PROVE MemoryType'
  <2>1. EmptyTable \in Table /\ NoFiles \in LevelFiles /\ <<>> \in Seq(Table)
    BY DEF EmptyTable, Table, NoFiles, LevelFiles
  <2>2. CASE Die("down")
    BY Zenon, <2>1, <2>2 DEF Die
  <2>3. CASE UNCHANGED <<phase, memory, redoFiles>>
    BY <2>3
  <2> QED
    BY <1>9, <2>2, <2>3 DEF MajorPanics
<1>10. ASSUME Crash PROVE MemoryType'
  <2>1. EmptyTable \in Table /\ NoFiles \in LevelFiles /\ <<>> \in Seq(Table)
    BY DEF EmptyTable, Table, NoFiles, LevelFiles
  <2>2. CASE Die("down")
    BY Zenon, <2>1, <2>2 DEF Die
  <2>3. CASE Die("torn")
    BY Zenon, <2>1, <2>3 DEF Die
  <2> QED
    BY Zenon, <1>10, <2>2, <2>3 DEF Crash
<1>11. ASSUME Restart PROVE MemoryType'
  <2>1. manifest \in LevelFiles /\ Named(manifest) \subseteq DOMAIN sst
    BY Zenon, <1>11 DEF Restart, Loadable, DiskType
  <2>2. Named(manifest) \in SUBSET Int /\ Named(manifest) \in SUBSET Nat /\ IsFiniteSet(Named(manifest))
    BY <2>1 DEF DiskType, Files, TableLaws, FiniteLaw
  <2>3. Named(manifest) # {} => Max(Named(manifest)) \in Nat
    BY Zenon, <2>2 DEF TableLaws, MaxLaw
  <2>4. NextFileNumber(manifest) \in Nat
    BY <2>3 DEF NextFileNumber
  <2> QED
    BY Zenon, <1>11, <2>1, <2>4 DEF Restart
<1>12. ASSUME RestartFails PROVE MemoryType'
  BY Zenon, <1>12 DEF RestartFails
<1>13. ASSUME RedoBuild PROVE MemoryType'
  BY <1>13 DEF RedoBuild, DiskType
<1>14. ASSUME RedoAdd PROVE MemoryType'
  BY Zenon, <1>14 DEF RedoAdd, LevelFiles
<1>15. ASSUME RedoFlush PROVE MemoryType'
  BY Zenon, <1>15 DEF RedoFlush
<1>16. ASSUME RedoDelete PROVE MemoryType'
  BY Zenon, <1>16 DEF RedoDelete
<1>17. ASSUME GetFromReaders \/ Remove \/ NewSeg \/ MinorCount \/ MinorLock \/ MinorFlush \/
              MinorConsumeSeg \/ DropEmptySeg
       PROVE  MemoryType'
  <2>1. UNCHANGED <<phase, memory, redoFiles>>
    BY Zenon, <1>17
       DEF GetFromReaders, Remove, WalAppend, NewSeg, MinorCount, MinorLock, MinorFlush,
           MinorConsumeSeg, DropEmptySeg
  <2> QED
    BY Zenon, <2>1
<1>18. ASSUME NEW t \in Threads, MajorPick(t) \/ MajorFlush(t) \/ MajorUnlink(t) \/
              MajorUnlinkFails(t)
       PROVE  MemoryType'
  <2>1. UNCHANGED <<phase, memory, redoFiles>>
    BY Zenon, <1>18 DEF MajorPick, MajorFlush, MajorUnlink, MajorUnlinkFails
  <2> QED
    BY Zenon, <2>1
<1>19. ASSUME NEW op \in {"get", "remove"}, NEW k \in Keys, GetFromMemtables(op, k) PROVE MemoryType'
  <2>1. UNCHANGED <<phase, memory, redoFiles>>
    BY Zenon, <1>19 DEF GetFromMemtables
  <2> QED
    BY Zenon, <2>1
<1>20. ASSUME NEW k \in Keys, NEW v \in Vals, Insert(k, v) PROVE MemoryType'
  <2>1. UNCHANGED <<phase, memory, redoFiles>>
    BY Zenon, <1>20 DEF Insert, WalAppend
  <2> QED
    BY Zenon, <2>1
<1> QED
  BY <1>1, <1>2, <1>3, <1>4, <1>5, <1>6, <1>7, <1>8, <1>9, <1>10, <1>11, <1>12, <1>13, <1>14,
     <1>15, <1>16, <1>17, <1>18, <1>19, <1>20
     DEF Next, ServerStep, MinorStep, MajorStep, RestartStep

\* and the WAL, the SSTables and the manifest on disk.
LEMMA DiskTypeStep ==
  ASSUME TableLaws, TypeOK, Control, Files, Next
  PROVE  DiskType'
<1> USE DEF TypeOK, DiskType, MemoryType, memory, disk, requests, majors, bounds
<1>1. ASSUME NEW k \in Keys, NEW v \in Vals, Insert(k, v) PROVE DiskType'
  <2> DEFINE r    == [op |-> "insert", key |-> k, val |-> v]
             rec  == [key |-> r.key, val |-> Entry(r)]
             segs == IF wal = <<>> THEN <<<<>>>> ELSE wal
  <2>1. rec \in Record
    BY Zenon, <1>1 DEF Entry, Record
  <2>2. segs \in Seq(Seq(Record)) /\ Len(segs) \in 1..Len(segs)
    OBVIOUS
  <2>3. Append(segs[Len(segs)], rec) \in Seq(Record)
    BY <2>1, <2>2
  <2>4. [segs EXCEPT ![Len(segs)] = Append(@, rec)] \in Seq(Seq(Record))
    BY <2>2, <2>3
  <2> QED
    BY Zenon, <1>1, <2>4 DEF Insert, WalAppend
<1>2. ASSUME Remove PROVE DiskType'
  <2> DEFINE r    == req
             rec  == [key |-> r.key, val |-> Entry(r)]
             segs == IF wal = <<>> THEN <<<<>>>> ELSE wal
  <2>1. rec \in Record
    BY Zenon, <1>2 DEF Remove, RequestType, Pending, Request, Control, RequestShape, Entry, Record
  <2>2. segs \in Seq(Seq(Record)) /\ Len(segs) \in 1..Len(segs)
    OBVIOUS
  <2>3. Append(segs[Len(segs)], rec) \in Seq(Record)
    BY <2>1, <2>2
  <2>4. [segs EXCEPT ![Len(segs)] = Append(@, rec)] \in Seq(Seq(Record))
    BY <2>2, <2>3
  <2> QED
    BY Zenon, <1>2, <2>4 DEF Remove, WalAppend
<1>3. ASSUME NewSeg PROVE DiskType'
  BY <1>3 DEF NewSeg
<1>4. ASSUME MinorBuild PROVE DiskType'
  <2>1. minor.done + 1 \in 1..Len(imm)
    BY <1>4 DEF MinorBuild, Control, MinorInRange, MinorType
  <2>2. imm[minor.done + 1] \in Table
    BY <2>1
  <2> QED
    BY Zenon, <1>4, <2>2 DEF MinorBuild
<1>5. ASSUME MinorAdd PROVE DiskType'
  BY Zenon, <1>5 DEF MinorAdd
<1>6. ASSUME MinorFlush PROVE DiskType'
  BY Zenon, <1>6 DEF MinorFlush
<1>7. ASSUME MinorConsumeSeg PROVE DiskType'
  BY SMTT(30), <1>7 DEF MinorConsumeSeg
<1>8. ASSUME NEW t \in Threads, MajorMerge(t) PROVE DiskType'
  <2>1. MergedInputs(job[t].level) \in Table
    BY Zenon, <1>8, MergedInputsType DEF MajorMerge
  <2>2. \A n : Part(MergedInputs(job[t].level), SstMaxSize, n) \in Table
    BY Zenon, <2>1 DEF TableLaws, PartTypeLaw
  <2>3. NewTables(job[t].level) \in SUBSET Nat
    BY SMTT(30) DEF NewTables
  <2>4. UNCHANGED <<wal, manifest>>
    BY Zenon, <1>8 DEF MajorMerge
  <2> QED
    BY Zenon, <1>8, <2>2, <2>3, <2>4 DEF MajorMerge
<1>9. ASSUME NEW t \in Threads, MajorRemove0(t) PROVE DiskType'
  BY Zenon, <1>9 DEF MajorRemove0, MajorRemove
<1>10. ASSUME NEW t \in Threads, MajorRemove1(t) PROVE DiskType'
  BY Zenon, <1>10 DEF MajorRemove1, MajorRemove
<1>11. ASSUME NEW t \in Threads, MajorFlush(t) PROVE DiskType'
  BY Zenon, <1>11 DEF MajorFlush
<1>12. ASSUME NEW t \in Threads, MajorUnlink(t) PROVE DiskType'
  BY Zenon, <1>12 DEF MajorUnlink
<1>13. ASSUME NEW t \in Threads, MajorUnlinkFails(t) PROVE DiskType'
  <2>1. PICK gone \in SUBSET DOMAIN sst : sst' = [f \in DOMAIN sst \ gone |-> sst[f]]
    BY Zenon, <1>13 DEF MajorUnlinkFails
  <2>2. UNCHANGED <<wal, manifest>>
    BY Zenon, <1>13 DEF MajorUnlinkFails
  <2> QED
    BY Zenon, <2>1, <2>2
<1>14. ASSUME NEW t \in Threads, MajorAdd(t) PROVE DiskType'
  BY Zenon, <1>14 DEF MajorAdd
<1>15. ASSUME DropEmptySeg PROVE DiskType'
  <2>1. PICK i \in 1..Len(wal) : wal' = SubSeq(wal, 1, i - 1) \o SubSeq(wal, i + 1, Len(wal))
    BY Zenon, <1>15 DEF DropEmptySeg
  <2>2. SubSeq(wal, 1, i - 1) \in Seq(Seq(Record)) /\ SubSeq(wal, i + 1, Len(wal)) \in Seq(Seq(Record))
    OBVIOUS
  <2>3. wal' \in Seq(Seq(Record))
    BY SMTT(30), <2>1, <2>2
  <2> QED
    BY Zenon, <1>15, <2>3 DEF DropEmptySeg
<1>16. ASSUME RedoBuild PROVE DiskType'
  <2>1. \A i \in 1..Len(wal) : Replay(wal[i]) \in Table
    BY DEF TableLaws, ReplayTypeLaw
  <2>2. redoFiles' = nextFile..(nextFile + Len(wal) - 1) /\ redoFiles' \in SUBSET Nat
    BY <1>16 DEF RedoBuild
  <2>3. ASSUME NEW f \in redoFiles' PROVE Replay(wal[f - nextFile + 1]) \in Table
    <3>1. f - nextFile + 1 \in 1..Len(wal)
      BY <2>2
    <3> QED
      BY Zenon, <3>1, <2>1
  <2> QED
    BY Zenon, <1>16, <2>2, <2>3 DEF RedoBuild
<1>17. ASSUME RedoAdd PROVE DiskType'
  BY Zenon, <1>17 DEF RedoAdd
<1>18. ASSUME RedoFlush PROVE DiskType'
  BY Zenon, <1>18 DEF RedoFlush
<1>19. ASSUME RedoDelete PROVE DiskType'
  <2>1. Tail(wal) \in Seq(Seq(Record))
    BY Zenon, <1>19, TailOfSeq DEF RedoDelete, Control, RedoHasLog, Redoing
  <2> QED
    BY Zenon, <1>19, <2>1 DEF RedoDelete
<1>20. ASSUME GetFromReaders \/ MemInsert \/ MinorCount \/ MinorLock \/ MinorConsume \/
              Crash \/ Restart \/ RestartFails
       PROVE  DiskType'
  <2>1. UNCHANGED disk
    BY Zenon, <1>20
       DEF GetFromReaders, MemInsert, MinorCount, MinorLock, MinorConsume, Crash, Die, Restart,
           RestartFails
  <2> QED
    BY Zenon, <2>1
<1>21. ASSUME NEW t \in Threads, MajorPick(t) \/ MajorPanics(t)
       PROVE  DiskType'
  <2>1. UNCHANGED disk
    BY Zenon, <1>21 DEF MajorPick, MajorPanics, Die
  <2> QED
    BY Zenon, <2>1
<1>22. ASSUME NEW op \in {"get", "remove"}, NEW k \in Keys, GetFromMemtables(op, k) PROVE DiskType'
  <2>1. UNCHANGED disk
    BY Zenon, <1>22 DEF GetFromMemtables
  <2> QED
    BY Zenon, <2>1
<1> QED
  BY Zenon, <1>1, <1>2, <1>3, <1>4, <1>5, <1>6, <1>7, <1>8, <1>9, <1>10, <1>11, <1>12, <1>13, <1>14,
     <1>15, <1>16, <1>17, <1>18, <1>19, <1>20, <1>21, <1>22
     DEF Next, ServerStep, MinorStep, MajorStep, RestartStep

\* Together: TypeOK is preserved where Control and Files hold.
LEMMA TypeStep ==
  ASSUME TableLaws, TypeOK, Control, Files, Next
  PROVE  TypeOK'
BY Zenon, RequestTypeStep, MinorTypeStep, MajorTypeStep, MemoryTypeStep, DiskTypeStep DEF TypeOK

------------------------------------------------------------------------------
\* The files a manifest names are the files of its levels.
LEMMA NamedFiles ==
  ASSUME NEW lv \in LevelFiles
  PROVE  Named(lv) \in SUBSET Nat /\ \A l \in Levels : lv[l] \subseteq Named(lv)
BY Zenon DEF Named, LevelFiles

\* All numbers in use are below next_file_number_.
LEMMA UsedNumbers ==
  ASSUME TypeOK, Files, Running
  PROVE  /\ \A f \in Named(levels) \cup redoFiles : f \in Nat /\ f < nextFile
         /\ \A t \in Threads : \A f \in InputsOf(t) \cup job[t].out : f \in Nat /\ f < nextFile
<1>1. Named(levels) \in SUBSET Nat
  BY Zenon, NamedFiles DEF TypeOK, MemoryType
<1>2. redoFiles \in SUBSET Nat
  BY Zenon DEF TypeOK, MemoryType
<1>3. \A t \in Threads : InputsOf(t) \in SUBSET Nat /\ job[t].out \in SUBSET Nat
  BY Zenon DEF TypeOK, MajorType, InputsOf
<1> QED
  BY Zenon, <1>1, <1>2, <1>3 DEF Files, FileNumbersBelowNext

\* minor_compaction has flushed no more memtables than there are.
LEMMA MinorDoneInRange ==
  ASSUME TypeOK, Control
  PROVE  minor.done \in 0..Len(imm)
BY SMTT(30) DEF TypeOK, MemoryType, MinorType, Control, MinorInRange, NoMinor

(***************************************************************************)
(* Mirror is LogMirrorsMemtables.                                          *)
(***************************************************************************)
LEMMA MirrorImpliesLogMirrors ==
  ASSUME TableLaws, TypeOK, Control, Mirror
  PROVE  LogMirrorsMemtables
<1> DEFINE Fresh == wal = <<>> /\ imm = <<>> /\ mem = EmptyTable /\ server \notin {"appended", "newseg"}
<1>1. SUFFICES ASSUME phase = "up", ~Fresh
      PROVE  \/ server = "newseg" /\ mem = EmptyTable /\ Logged = Unflushed
             \/ server # "newseg" /\ Logged = Append(Unflushed, MemAfterWrite)
  BY Zenon DEF LogMirrorsMemtables
<1>2. imm \in Seq(Table) /\ Len(imm) \in Nat /\ minor.done \in 0..Len(imm)
  BY MinorDoneInRange DEF TypeOK, MemoryType
<1>3. Unflushed \in Seq(Table) /\ Len(Unflushed) = Flushable
      /\ \A i \in 1..Flushable : Unflushed[i] = imm[minor.done + i]
  BY <1>2 DEF Unflushed, Flushable
<1>4. wal \in Seq(Seq(Record)) /\ Len(wal) \in Nat /\ Flushable \in Nat
  BY <1>2 DEF TypeOK, DiskType, Flushable
<1>5. \A i \in 1..Len(wal) : Replay(wal[i]) \in Table
  BY <1>4 DEF TableLaws, ReplayTypeLaw
<1>6. Logged \in Seq(Table) /\ Len(Logged) = Len(wal) /\ \A i \in 1..Len(wal) : Logged[i] = Replay(wal[i])
  BY <1>4, <1>5 DEF Logged
<1>7. CASE server = "newseg"
  <2>1. mem = EmptyTable /\ Len(wal) = Flushable /\ SegmentsMirrorImm
    BY Zenon, <1>1, <1>7 DEF Mirror
  <2>2. \A i \in 1..Len(Logged) : Logged[i] = Unflushed[i]
    BY Zenon, <1>3, <1>6, <2>1 DEF SegmentsMirrorImm
  <2>3. Logged = Unflushed
    BY Zenon, <1>3, <1>6, <2>1, <2>2, SeqsAreEqual
  <2> QED
    BY Zenon, <1>7, <2>1, <2>3
<1>8. CASE server # "newseg"
  <2>1. Len(wal) = Flushable + 1 /\ SegmentsMirrorImm /\ Replay(wal[Len(wal)]) = MemAfterWrite
    BY Zenon, <1>1, <1>8 DEF Mirror
  <2> DEFINE both == Append(Unflushed, MemAfterWrite)
  <2>2. MemAfterWrite \in Table
    BY <1>4, <1>5, <2>1
  <2>3. both \in Seq(Table) /\ Len(both) = Flushable + 1 /\ both[Flushable + 1] = MemAfterWrite
        /\ \A i \in 1..Flushable : both[i] = Unflushed[i]
    BY <1>3, <1>4, <2>2, AppendToSeq
  <2>4. ASSUME NEW i \in 1..Len(Logged) PROVE Logged[i] = both[i]
    <3>1. i \in 1..Flushable \/ i = Flushable + 1
      BY <1>4, <1>6, <2>1
    <3> QED
      BY <1>3, <1>6, <2>1, <2>3, <3>1 DEF SegmentsMirrorImm
  <2>5. Logged = both
    <3> HIDE DEF both
    <3> QED
      BY Zenon, <1>6, <2>1, <2>3, <2>4, SeqsAreEqual
  <2> QED
    BY Zenon, <1>8, <2>5
<1> QED
  BY Zenon, <1>7, <1>8

\* SortedFrameLaw and AddNewestLaw, for given levels.
LEMMA SortedKept ==
  ASSUME TableLaws, NEW s, NEW u, NEW lv, NEW lw, DOMAIN lw = DOMAIN lv, Sorted(s, lv),
         \A l \in DOMAIN lv : l # 0 => lw[l] \subseteq lv[l],
         \A l \in DOMAIN lv : \A f \in lv[l] : u[f] = s[f]
  PROVE  Sorted(u, lw)
<1>1. SortedFrameLaw
  BY Zenon DEF TableLaws
<1> QED
  BY Zenon, <1>1 DEF SortedFrameLaw

\* AddNewestLaw: files that are added to level 0 hide older entries.
LEMMA NewestAdded ==
  ASSUME TableLaws, NEW s, NEW lv, NEW lw, NEW new, Adds(s, lv, lw, new), NEW k \in Keys
  PROVE  /\ (\A g \in new : s[g][k] = Absent) => Lookup(s, lw, k) = Lookup(s, lv, k)
         /\ \A g \in new : s[g][k] # Absent /\ (\A h \in new : h > g => s[h][k] = Absent) =>
              Lookup(s, lw, k) = s[g][k]
<1>1. AddNewestLaw
  BY Zenon DEF TableLaws
<1> QED
  BY SMTT(30), <1>1 DEF AddNewestLaw

\* A step from a state in which the invariants hold.
SoundStep == ~ClientMajor /\ IndInv /\ Data /\ Next /\ IndInv'

\* Reading the key of the request after a step.
LEMMA PrimedCurrent ==
  ASSUME NEW k, req'.key = k
  PROVE  Current(req.key)' = Current(k)' /\ MemGet(req.key)' = MemGet(k)'
<1>1. MemGet(req.key)' = MemGet(k)'
  BY Zenon DEF MemGet, Newest, Holders
<1>2. ReadersGet(Visible, req.key)' = ReadersGet(Visible, k)'
  BY DEF ReadersGet, LevelGet, Holding
<1> QED
  BY Zenon, <1>1, <1>2 DEF Current, Decode

\* The engine's levels, whose number is one of its options.
LEMMA LevelNumbers ==
  ASSUME TableLaws
  PROVE  NumberSet(Levels) /\ 0 \in Levels
<1>1. MaxLevel \in Nat \ {0}
  BY Zenon, OptionsAssumption
<1>2. IsFiniteSet(0..(MaxLevel - 1))
  BY <1>1 DEF TableLaws, IntervalLaw
<1>3. 0..(MaxLevel - 1) \in SUBSET Nat /\ 0 \in 0..(MaxLevel - 1)
  BY <1>1
<1> QED
  BY Zenon, <1>2, <1>3 DEF NumberSet, Levels

\* Levels whose lookups Lookup describes.
Readable(lv) ==
  /\ DOMAIN lv = Levels /\ Leveled(sst, lv) /\ Sorted(sst, lv)
  /\ \A k \in Keys : ReadersGet(lv, k) = Lookup(sst, lv, k)

\* Levels whose files exist and are disjoint are read as Lookup says.
LEMMA LevelsAreReadable ==
  ASSUME TableLaws, TypeOK, IsFiniteSet(DOMAIN sst),
         NEW lv \in LevelFiles, Named(lv) \subseteq DOMAIN sst, Disjoint(lv)
  PROVE  Readable(lv)
<1>1. DOMAIN lv = Levels
  BY Zenon DEF LevelFiles
<1>2. \A l \in Levels : NumberSet(lv[l])
  <2>1. ASSUME NEW l \in Levels PROVE NumberSet(lv[l])
    <3>1. lv[l] \subseteq DOMAIN sst /\ lv[l] \in SUBSET Nat
      BY Zenon DEF Named, LevelFiles
    <3> QED
      BY Zenon, <3>1 DEF NumberSet, TableLaws, FiniteLaw
  <2> QED
    BY Zenon, <2>1
<1>3. \A l \in Levels : \A f \in lv[l] : sst[f] \in Table
  BY Zenon DEF TypeOK, DiskType, Named
<1>4. Leveled(sst, lv)
  BY Zenon, <1>1, <1>2, <1>3, LevelNumbers DEF Leveled
<1>5. Sorted(sst, lv)
  BY Zenon, <1>1 DEF Disjoint, Sorted, SortedOn, Apart
<1>6. \A k \in Keys : ReadersGet(lv, k) = Lookup(sst, lv, k)
  <2> TAKE k \in Keys
  <2>1. \A l, fs : LevelGet(l, fs, k) = LevelLookup(sst, l, fs, k)
    BY Zenon DEF LevelGet, Holding, LevelLookup
  <2>2. [l \in Levels |-> LevelGet(l, lv[l], k)] = [l \in DOMAIN lv |-> LevelLookup(sst, l, lv[l], k)]
    BY Zenon, <1>1, <2>1
  <2> QED
    BY <1>1, <2>2 DEF ReadersGet, Lookup
<1> QED
  BY Zenon, <1>1, <1>4, <1>5, <1>6 DEF Readable

\* The levels a commit leaves behind.
CommitShape ==
  BgPc \notin {"idle", "dead"} =>
    /\ AfterCommit \in LevelFiles /\ BgJob.level \in Levels /\ BgJob.level + 1 \in Levels
    /\ AfterCommit[BgJob.level] = levels[BgJob.level] \ BgJob.in0
    /\ AfterCommit[BgJob.level + 1] = (levels[BgJob.level + 1] \ BgJob.in1) \cup BgJob.out
    /\ \A l \in Levels : l # BgJob.level /\ l # BgJob.level + 1 => AfterCommit[l] = levels[l]

\* A commit leaves the inputs out of two levels and adds the outputs to one.
LEMMA AfterCommitLevels == TypeOK /\ Control => CommitShape
<1> SUFFICES ASSUME TypeOK, Control, BgPc \notin {"idle", "dead"}
             PROVE  /\ AfterCommit \in LevelFiles /\ BgJob.level \in Levels /\ BgJob.level + 1 \in Levels
                    /\ AfterCommit[BgJob.level] = levels[BgJob.level] \ BgJob.in0
                    /\ AfterCommit[BgJob.level + 1] = (levels[BgJob.level + 1] \ BgJob.in1) \cup BgJob.out
                    /\ \A l \in Levels : l # BgJob.level /\ l # BgJob.level + 1 => AfterCommit[l] = levels[l]
  BY Zenon DEF CommitShape
<1>1. /\ levels \in LevelFiles
      /\ BgJob.level \in Levels /\ BgJob.level + 1 \in Levels
      /\ BgJob.in0 \in SUBSET Nat /\ BgJob.in1 \in SUBSET Nat /\ BgJob.out \in SUBSET Nat
  BY Zenon DEF TypeOK, MemoryType, MajorType, Control, JobLevels, BgPc, BgJob
<1>2. BgJob.level \in Int
  BY <1>1 DEF Levels
<1>3. BgJob.level # BgJob.level + 1
  BY <1>2
<1> QED
  BY Zenon, <1>1, <1>3 DEF AfterCommit, LevelFiles

\* What the readers find is levels as AfterCommit leaves them.
Shape ==
  /\ Readable(levels) /\ Readable(Visible)
  /\ manifest # Torn => Readable(manifest)
  /\ Merging => Readable(AfterCommit)
  /\ Visible = IF Committing("background") THEN AfterCommit ELSE levels

\* What a reader sees next: during a commit, the levels it will leave.
LEMMA VisibleIs ==
  ASSUME TypeOK, Control, Files, InputsAreThere, OneReadersWriter
  PROVE  Visible = IF Committing("background") THEN AfterCommit ELSE levels
<1>1. ~Committing("server")
  BY Zenon DEF OneReadersWriter, Committing
<1>2. CASE ~Committing("background")
  BY Zenon, <1>1, <1>2 DEF Visible
<1>3. CASE Committing("background")
  <2>1. (CHOOSE t \in Threads : Committing(t)) = "background"
    BY Zenon, <1>1, <1>3
  <2> DEFINE pc == majorPc["background"]
             j  == job["background"]
             ok0 == pc \in {"flush0", "unlink0"} => j.in0 \subseteq DOMAIN sst
             ok1 == pc \notin {"add", "flush2"} => j.in1 \subseteq DOMAIN sst
  <2>2. ok0 /\ ok1
    BY Zenon, <1>3 DEF Committing, InputsAreThere, BgPc, BgJob
  <2>3. Visible = [levels EXCEPT
                    ![j.level] = @ \ j.in0,
                    ![j.level + 1] = IF ~ok0 THEN @ ELSE (@ \ j.in1) \cup IF ok1 THEN j.out ELSE {}]
    BY Zenon, <1>3, <2>1 DEF Visible
  <2>4. Visible = AfterCommit
    <3> HIDE DEF ok0, ok1
    <3> QED
      BY Zenon, <2>2, <2>3 DEF AfterCommit, BgJob
  <2> QED
    BY Zenon, <1>3, <2>4
<1> QED
  BY Zenon, <1>2, <1>3

\* The levels of the readers, of the manifest and of a commit are sorted.
LEMMA StateShape ==
  /\ TableLaws /\ TypeOK /\ Control /\ Files
  /\ InputsAreThere /\ RangesAreDisjoint /\ OneReadersWriter
  => Shape
<1> SUFFICES ASSUME TableLaws, TypeOK, Control, Files, InputsAreThere, RangesAreDisjoint, OneReadersWriter
             PROVE  Shape
  BY Zenon
<1>1. levels \in LevelFiles /\ Named(levels) \subseteq DOMAIN sst /\ IsFiniteSet(DOMAIN sst)
  BY Zenon DEF TypeOK, MemoryType, Files, ReferencedFilesExist
<1>2. Readable(levels)
  BY Zenon, <1>1, LevelsAreReadable DEF RangesAreDisjoint
<1>3. ASSUME manifest # Torn PROVE Readable(manifest)
  BY Zenon, <1>1, <1>3, LevelsAreReadable
     DEF RangesAreDisjoint, TypeOK, DiskType, Files, ReferencedFilesExist
<1>4. ASSUME Merging PROVE Readable(AfterCommit)
  <2>1. BgPc \notin {"idle", "dead"}
    BY Zenon, <1>4 DEF Merging, Committing, BgPc
  <2>2. BgJob.out \subseteq DOMAIN sst
    <3>1. CASE BgPc = "flush2"
      <4>1. levels[BgJob.level + 1] \subseteq Named(levels)
        BY Zenon, <2>1, AfterCommitLevels DEF CommitShape, Named
      <4> QED
        BY Zenon, <1>1, <3>1, <4>1 DEF InputsAreThere
    <3>2. CASE BgPc # "flush2"
      BY Zenon, <1>4, <3>2 DEF Files, OutputsAreFresh, Unadded, Merging, Committing, BgPc, BgJob
    <3> QED
      BY Zenon, <3>1, <3>2
  <2>3. Named(AfterCommit) \subseteq DOMAIN sst
    <3>1. ASSUME NEW l \in Levels PROVE AfterCommit[l] \subseteq levels[l] \cup BgJob.out
      BY Zenon, <2>1, AfterCommitLevels DEF CommitShape
    <3> QED
      BY Zenon, <1>1, <2>2, <3>1 DEF Named
  <2> QED
    BY Zenon, <1>1, <1>4, <2>1, <2>3, AfterCommitLevels, LevelsAreReadable DEF RangesAreDisjoint, CommitShape
<1>5. Visible = IF Committing("background") THEN AfterCommit ELSE levels
  BY Zenon, VisibleIs
<1>6. Readable(Visible)
  BY Zenon, <1>2, <1>4, <1>5 DEF Merging
<1> QED
  BY Zenon, <1>2, <1>3, <1>4, <1>5, <1>6 DEF Shape

\* size_compaction merges every file of its level and every file of the next
\* one that overlaps them, so its outputs fit and hold all there is.
LEMMA KeysInRange ==
  ASSUME TableLaws, TypeOK, TablesHaveKeys, NEW fs, fs \subseteq DOMAIN sst, fs # {}
  PROVE  /\ Min(KeysIn(fs)) \in Int /\ Max(KeysIn(fs)) \in Int
         /\ Within(sst, fs, Min(KeysIn(fs)), Max(KeysIn(fs)))
<1> DEFINE S == KeysIn(fs)
<1>1. \A f \in fs : KeysOf(sst[f]) \in SUBSET Keys /\ KeysOf(sst[f]) # {}
  BY Zenon DEF KeysOf, TablesHaveKeys
<1>2. S \in SUBSET Keys /\ S # {} /\ \A f \in fs : KeysOf(sst[f]) \subseteq S
  BY <1>1 DEF KeysIn
<1> HIDE DEF S
<1>3. IsFiniteSet(S) /\ S \in SUBSET Int
  BY Zenon, <1>2, KeysAssumption DEF TableLaws, FiniteLaw
<1>4. Min(S) \in S /\ Max(S) \in S /\ \A x \in S : Min(S) =< x /\ x =< Max(S)
  BY Zenon, <1>2, <1>3 DEF TableLaws, MinLaw, MaxLaw
<1>5. Min(S) \in Int /\ Max(S) \in Int
  BY Zenon, <1>3, <1>4
<1>6. Within(sst, fs, Min(S), Max(S))
  BY Zenon, <1>2, <1>4 DEF Within
<1> QED
  BY Zenon, <1>5, <1>6 DEF S

\* The files of a level exist and hold keys.
LEMMA LevelsAreKeyed ==
  ASSUME TypeOK, Files, TablesHaveKeys, NEW l \in Levels
  PROVE  levels[l] \subseteq DOMAIN sst /\ Keyed(sst, levels[l])
<1>1. levels[l] \subseteq DOMAIN sst
  BY Zenon DEF Files, ReferencedFilesExist, Named
<1> QED
  BY Zenon, <1>1 DEF Keyed, TablesHaveKeys, TypeOK, DiskType

\* A merge changes no lookup: the outputs hold what the inputs held (major_compaction).
LEMMA MergeStep ==
  ASSUME TableLaws, TypeOK, Control, Files, TablesHaveKeys, Shape, MajorMerge("background")
  PROVE  /\ Sorted(sst', AfterCommit') /\ Keyed(sst', BgJob'.out)
         /\ \A k \in Keys : Lookup(sst', AfterCommit', k) = Lookup(sst, levels, k)
<1> DEFINE l == BgJob.level
           n == l + 1
           in1 == NextInputs(l)
           t   == MergedInputs(l)
           out == NewTables(l)
           lo  == Min(KeysIn(levels[l]))
           hi  == Max(KeysIn(levels[l]))
           lw  == AfterCommit'
<1>1. /\ majorPc["background"] = "picked" /\ levels[l] # {} /\ levels' = levels
      /\ sst' = [f \in DOMAIN sst \cup out |->
                   IF f \in out THEN Part(t, SstMaxSize, f - nextFile + 1) ELSE sst[f]]
      /\ job' = [job EXCEPT !["background"] = [level |-> l, in0 |-> levels[l], in1 |-> in1, out |-> out]]
  BY Zenon DEF MajorMerge, BgJob
<1>2. BgJob' = [level |-> l, in0 |-> levels[l], in1 |-> in1, out |-> out]
  BY Zenon, <1>1 DEF BgJob, TypeOK, MajorType
<1>3. levels \in LevelFiles /\ l \in Levels /\ n \in Levels /\ nextFile \in Nat
  BY Zenon, <1>1 DEF TypeOK, MemoryType, MajorType, Control, JobLevels, BgJob
<1>4. n # 0 /\ l # n /\ NextAfter(Levels, l, n)
  BY <1>3 DEF Levels, NextAfter
<1>5. /\ DOMAIN lw = Levels /\ lw[l] = {} /\ lw[n] = (levels[n] \ in1) \cup out
      /\ \A i \in Levels : i # l /\ i # n => lw[i] = levels[i]
  <2>1. lw = [levels EXCEPT ![l] = @ \ levels[l], ![n] = (@ \ in1) \cup out]
    BY Zenon, <1>1, <1>2 DEF AfterCommit
  <2> HIDE DEF lw, l, n, in1, out
  <2> QED
    BY Zenon, <1>3, <1>4, <2>1 DEF LevelFiles
<1>6. Keyed(sst, levels[l]) /\ Keyed(sst, levels[n]) /\ levels[l] \subseteq DOMAIN sst
  BY Zenon, <1>3, LevelsAreKeyed
<1>7. lo \in Int /\ hi \in Int /\ Within(sst, levels[l], lo, hi)
  BY Zenon, <1>1, <1>6, KeysInRange
<1>8. in1 = Overlapping(sst, levels[n], lo, hi)
  BY Zenon DEF NextInputs, OtherReaders, Overlapping
<1>9. t \in Table /\ t = MergeOf(sst, l, n, levels[l], in1) /\ PartCount(t, SstMaxSize) \in Nat
  BY Zenon, <1>1, MergedInputsType DEF MergedInputs, Merged, MergeOf, LevelGet, LevelLookup, Holding, BgJob
<1>10. Outputs(sst', t, SstMaxSize, nextFile, out) /\ SstMaxSize \in Nat \ {0}
  <2>1. out = nextFile..(nextFile + PartCount(t, SstMaxSize) - 1)
    BY Zenon DEF NewTables
  <2>2. \A f \in out : sst'[f] = Part(t, SstMaxSize, f - nextFile + 1)
    <3> HIDE DEF out, t
    <3> QED
      BY Zenon, <1>1
  <2> QED
    BY Zenon, <1>3, <2>1, <2>2, OptionsAssumption DEF Outputs
<1>11. \A i \in Levels : \A f \in levels[i] : sst'[f] = sst[f]
  <2>1. ASSUME NEW i \in Levels, NEW f \in levels[i] PROVE f \in DOMAIN sst /\ f \notin out
    <3>1. f \in Named(levels)
      BY Zenon DEF Named
    <3>2. phase = "up"
      BY Zenon, <1>1 DEF Control, Quiet
    <3>3. f \in Nat /\ f < nextFile
      BY Zenon, <3>1, <3>2, UsedNumbers DEF Running
    <3>4. f \in DOMAIN sst
      BY Zenon, <3>1 DEF Files, ReferencedFilesExist
    <3> QED
      BY <1>3, <1>9, <3>3, <3>4 DEF NewTables
  <2> HIDE DEF out, t
  <2> QED
    BY Zenon, <1>1, <2>1
<1>12. Leveled(sst, levels) /\ Sorted(sst, levels) /\ DOMAIN levels = Levels
  BY Zenon DEF Shape, Readable
<1> HIDE DEF l, n, in1, t, out, lo, hi, lw
<1>13. Sorted(sst', lw) /\ \A k \in Keys : Lookup(sst', lw, k) = Lookup(sst, levels, k)
  <2>1. Merges(sst, levels, l, n, lo, hi, in1, t)
    BY Zenon, <1>3, <1>4, <1>6, <1>7, <1>8, <1>9, <1>12 DEF Merges
  <2>2. Replaces(sst, sst', levels, lw, l, n, in1, out)
    BY Zenon, <1>5, <1>11, <1>12 DEF Replaces
  <2> QED
    BY <1>10, <2>1, <2>2 DEF TableLaws, CompactionLaw
<1>14. Keyed(sst', BgJob'.out)
  BY Zenon, <1>2, <1>9, <1>10 DEF TableLaws, OutputTablesLaw
<1> QED
  BY Zenon, <1>13, <1>14 DEF lw

(***************************************************************************)
(* Steps.  Without client requests only the background thread compacts,    *)
(* and the files it deletes are there.                                     *)
(***************************************************************************)
BgStep ==
  \/ MajorPick("background") \/ MajorMerge("background") \/ MajorRemove0("background")
  \/ MajorRemove1("background") \/ MajorFlush("background") \/ MajorUnlink("background")
  \/ MajorAdd("background") \/ MajorPanics("background")

\* Every major compaction is the background thread's.
LEMMA OneCompactor ==
  ASSUME ~ClientMajor, InputsAreThere, OneReadersWriter, NEW t \in Threads, MajorStep(t)
  PROVE  BgStep
<1>1. t = "background"
  <2> SUFFICES ASSUME t = "server" PROVE FALSE
    BY Zenon
  <2>1. majorPc["server"] = "idle"
    BY Zenon DEF OneReadersWriter
  <2> QED
    BY Zenon, <2>1 DEF MajorStep, MajorPick, MajorMerge, MajorRemove0, MajorRemove1, MajorRemove,
       MajorFlush, MajorUnlink, MajorUnlinkFails, MajorAdd, MajorPanics
<1>2. ~MajorUnlinkFails("background")
  BY Zenon DEF MajorUnlinkFails, Inputs, InputsAreThere, BgPc, BgJob
<1> QED
  BY Zenon, <1>1, <1>2 DEF MajorStep, BgStep

\* So every step is one of these.
LEMMA Steps ==
  ASSUME SoundStep
  PROVE  ServerStep \/ MinorStep \/ BgStep \/ Crash \/ RestartStep
BY Zenon, OneCompactor DEF SoundStep, Data, Next

\* What the server does leaves the files and the compactions alone;
LEMMA ServerFrame ==
  ASSUME ServerStep
  PROVE  UNCHANGED <<phase, levels, nextFile, sst, manifest, minor, majorPc, job, redoFiles>>
BY Zenon DEF ServerStep, GetFromMemtables, Insert, WalAppend, GetFromReaders, Remove, MemInsert, NewSeg,
   memory, disk, majors

\* so do most steps of minor_compaction;
LEMMA MinorFrame ==
  ASSUME MinorCount \/ MinorLock \/ MinorFlush \/ MinorConsumeSeg \/ MinorConsume
  PROVE  /\ UNCHANGED <<phase, mem, levels, nextFile, sst, requests, majorPc, job, redoFiles, writes>>
         /\ manifest' = manifest \/ (minor.pc = "flush" /\ manifest' = levels)
BY Zenon DEF MinorCount, MinorLock, MinorFlush, MinorConsumeSeg, MinorConsume, memory, disk, majors, bounds

\* What each step of a minor compaction does to its own state.
LEMMA MinorMoves ==
  ASSUME TypeOK, MinorStep
  PROVE  /\ MinorCount => minor' = [pc |-> "lock", count |-> Len(imm), done |-> 0, file |-> 0]
         /\ MinorLock => minor' = [minor EXCEPT !.pc = "build"] /\ minor'.pc = "build"
         /\ MinorBuild => minor'.pc = "add" /\ minor'.file = nextFile
         /\ MinorAdd => minor'.pc = "flush" /\ minor'.file = minor.file
         /\ MinorFlush => minor'.pc = "seg"
         /\ MinorConsumeSeg =>
              /\ minor'.pc = IF minor.done + 1 = minor.count THEN "consume" ELSE "build"
              /\ minor'.done = minor.done + 1
         /\ MinorConsume => minor' = NoMinor
         /\ MinorLock \/ MinorBuild \/ MinorAdd \/ MinorFlush => minor'.done = minor.done
         /\ ~MinorCount /\ ~MinorConsume => minor'.count = minor.count
<1> USE DEF TypeOK, MinorType
<1>1. MinorCount => minor' = [pc |-> "lock", count |-> Len(imm), done |-> 0, file |-> 0]
  BY Zenon DEF MinorCount, NoMinor
<1>2. MinorLock => minor' = [minor EXCEPT !.pc = "build"] /\ minor'.pc = "build" /\ minor'.done = minor.done
                   /\ minor'.count = minor.count
  BY Zenon DEF MinorLock
<1>3. MinorBuild => minor'.pc = "add" /\ minor'.file = nextFile /\ minor'.done = minor.done
                    /\ minor'.count = minor.count
  BY Zenon DEF MinorBuild
<1>4. MinorAdd => minor'.pc = "flush" /\ minor'.file = minor.file /\ minor'.done = minor.done
                  /\ minor'.count = minor.count
  BY Zenon DEF MinorAdd
<1>5. MinorFlush => minor'.pc = "seg" /\ minor'.done = minor.done /\ minor'.count = minor.count
  BY Zenon DEF MinorFlush
<1>6. MinorConsumeSeg =>
        /\ minor'.pc = IF minor.done + 1 = minor.count THEN "consume" ELSE "build"
        /\ minor'.done = minor.done + 1 /\ minor'.count = minor.count
  BY Zenon DEF MinorConsumeSeg
<1>7. MinorConsume => minor' = NoMinor
  BY Zenon DEF MinorConsume
<1> QED
  BY Zenon, <1>1, <1>2, <1>3, <1>4, <1>5, <1>6, <1>7 DEF MinorStep

\* and until redo is done nobody compacts.
LEMMA RestartFrame ==
  ASSUME Control, RestartStep
  PROVE  /\ phase # "up" /\ UNCHANGED <<mem, imm, requests, minor, majorPc, job>>
         /\ minor = NoMinor /\ BgPc = "idle" /\ majorPc["server"] = "idle" /\ server = "idle"
<1>1. phase # "up" /\ UNCHANGED <<mem, imm, requests, minor, majorPc, job>>
  BY Zenon DEF RestartStep, DropEmptySeg, Restart, RestartFails, RedoBuild, RedoAdd, RedoFlush, RedoDelete,
     memory, majors
<1> QED
  BY Zenon, <1>1 DEF Control, Quiet, BgPc

\* The background thread goes through size_compaction step by step.
LEMMA BgMoves ==
  ASSUME TypeOK, BgStep
  PROVE  /\ UNCHANGED <<phase, mem, imm, wal, requests, minor, redoFiles, bounds>>
         /\ MajorPick("background") =>
              /\ BgPc = "idle" /\ BgPc' = "picked" /\ BgJob'.in0 = {} /\ BgJob'.in1 = {} /\ BgJob'.out = {}
              /\ UNCHANGED <<levels, sst, manifest>>
         /\ MajorPanics("background") =>
              /\ BgPc = "picked" /\ BgPc' = "dead" /\ BgJob' = NoJob /\ UNCHANGED <<levels, sst, manifest>>
         /\ MajorMerge("background") => BgPc = "picked" /\ BgPc' = "merged" /\ UNCHANGED <<levels, manifest>>
         /\ MajorRemove0("background") =>
              /\ BgPc = "merged" /\ BgPc' = "flush0" /\ UNCHANGED <<sst, job>>
              /\ levels' = [levels EXCEPT ![BgJob.level] = @ \ BgJob.in0] /\ manifest' = Torn
              /\ minor.pc # "flush"
         /\ MajorRemove1("background") =>
              /\ BgPc = "remove1" /\ BgPc' = "flush1" /\ UNCHANGED <<sst, job>>
              /\ levels' = [levels EXCEPT ![BgJob.level + 1] = @ \ BgJob.in1] /\ manifest' = Torn
         /\ MajorFlush("background") =>
              /\ manifest' = levels /\ UNCHANGED <<levels, sst>>
              /\ \/ BgPc = "flush0" /\ BgPc' = "unlink0" /\ UNCHANGED job
                 \/ BgPc = "flush1" /\ BgPc' = "unlink1" /\ UNCHANGED job
                 \/ BgPc = "flush2" /\ BgPc' = "idle" /\ BgJob' = NoJob
         /\ MajorUnlink("background") =>
              /\ UNCHANGED <<levels, manifest, job>>
              /\ \E fs : /\ sst' = [f \in DOMAIN sst \ fs |-> sst[f]]
                         /\ \/ BgPc = "unlink0" /\ BgPc' = "remove1" /\ fs = BgJob.in0
                            \/ BgPc = "unlink1" /\ BgPc' = "add" /\ fs = BgJob.in1
         /\ MajorAdd("background") =>
              /\ BgPc = "add" /\ BgPc' = "flush2" /\ UNCHANGED <<sst, job>>
              /\ levels' = [levels EXCEPT ![BgJob.level + 1] = @ \cup BgJob.out] /\ manifest' = Torn
<1> USE DEF TypeOK, MajorType, BgPc, BgJob
<1>1. UNCHANGED <<phase, mem, imm, wal, requests, minor, redoFiles, bounds>>
  BY Zenon DEF BgStep, MajorPick, MajorMerge, MajorRemove0, MajorRemove1, MajorRemove, MajorFlush,
     MajorUnlink, MajorAdd, MajorPanics, memory, disk, requests
<1>2. ASSUME MajorPick("background")
      PROVE  /\ BgPc = "idle" /\ BgPc' = "picked" /\ BgJob'.in0 = {} /\ BgJob'.in1 = {} /\ BgJob'.out = {}
             /\ UNCHANGED <<levels, sst, manifest>>
  <2>1. PICK l \in Levels : job' = [job EXCEPT !["background"] = [NoJob EXCEPT !.level = l]]
    BY Zenon, <1>2 DEF MajorPick
  <2>2. job'["background"] = [level |-> l, in0 |-> {}, in1 |-> {}, out |-> {}]
    BY ZenonT(30), <2>1 DEF NoJob
  <2> QED
    BY <1>2, <2>2 DEF MajorPick, memory, disk
<1>3. ASSUME MajorPanics("background")
      PROVE  BgPc = "picked" /\ BgPc' = "dead" /\ BgJob' = NoJob /\ UNCHANGED <<levels, sst, manifest>>
  BY Zenon, <1>3 DEF MajorPanics, memory, disk
<1>4. ASSUME MajorMerge("background")
      PROVE  BgPc = "picked" /\ BgPc' = "merged" /\ UNCHANGED <<levels, manifest>>
  BY Zenon, <1>4 DEF MajorMerge
<1>5. ASSUME MajorRemove0("background")
      PROVE  /\ BgPc = "merged" /\ BgPc' = "flush0" /\ UNCHANGED <<sst, job>>
             /\ levels' = [levels EXCEPT ![BgJob.level] = @ \ BgJob.in0] /\ manifest' = Torn
             /\ minor.pc # "flush"
  BY Zenon, <1>5 DEF MajorRemove0, MajorRemove, ReadersWriteLocked
<1>6. ASSUME MajorRemove1("background")
      PROVE  /\ BgPc = "remove1" /\ BgPc' = "flush1" /\ UNCHANGED <<sst, job>>
             /\ levels' = [levels EXCEPT ![BgJob.level + 1] = @ \ BgJob.in1] /\ manifest' = Torn
  BY Zenon, <1>6 DEF MajorRemove1, MajorRemove
<1>7. ASSUME MajorFlush("background")
      PROVE  /\ manifest' = levels /\ UNCHANGED <<levels, sst>>
             /\ \/ BgPc = "flush0" /\ BgPc' = "unlink0" /\ UNCHANGED job
                \/ BgPc = "flush1" /\ BgPc' = "unlink1" /\ UNCHANGED job
                \/ BgPc = "flush2" /\ BgPc' = "idle" /\ BgJob' = NoJob
  BY Zenon, <1>7 DEF MajorFlush, memory
<1>8. ASSUME MajorUnlink("background")
      PROVE  /\ UNCHANGED <<levels, manifest, job>>
             /\ sst' = [f \in DOMAIN sst \ Inputs("background") |-> sst[f]]
             /\ \/ BgPc = "unlink0" /\ BgPc' = "remove1" /\ Inputs("background") = BgJob.in0
                \/ BgPc = "unlink1" /\ BgPc' = "add" /\ Inputs("background") = BgJob.in1
  BY Zenon, <1>8 DEF MajorUnlink, Inputs, memory
<1>9. ASSUME MajorAdd("background")
      PROVE  /\ BgPc = "add" /\ BgPc' = "flush2" /\ UNCHANGED <<sst, job>>
             /\ levels' = [levels EXCEPT ![BgJob.level + 1] = @ \cup BgJob.out] /\ manifest' = Torn
  BY Zenon, <1>9 DEF MajorAdd
<1> HIDE DEF BgPc, BgJob, TypeOK
<1> QED
  BY Zenon, <1>1, <1>2, <1>3, <1>4, <1>5, <1>6, <1>7, <1>8, <1>9
==============================================================================
