------------------------- MODULE DataManagerRefinement ------------------------
(***************************************************************************)
(* The theorems about DataManager, for all sets of keys and values, all    *)
(* options and any number of writes and crashes: its invariants, what a    *)
(* crash leaves, and that the engine implements KVStore.  The lemmas take  *)
(* TableLaws as a hypothesis; the theorems at the end discharge it.        *)
(***************************************************************************)
EXTENDS DataManagerData, DataManagerProofs, TablesProofs

USE DEF Threads

(***************************************************************************)
(* What a crash would leave.                                               *)
(***************************************************************************)
LEMMA UnflushedLookup ==
  ASSUME TableLaws, TypeOK, Control, FlushedAreReadable, phase = "up", NEW k \in Keys
  PROVE  (IF Newest(Unflushed, k) # Absent THEN Newest(Unflushed, k) ELSE ReadersGet(Visible, k))
         = (IF Newest(imm, k) # Absent THEN Newest(imm, k) ELSE ReadersGet(Visible, k))
<1>1. imm \in Seq(Table) /\ minor.done \in 0..Len(imm)
  BY Zenon, MinorDoneInRange DEF TypeOK, MemoryType
<1>2. DropsOldest(imm, Unflushed, minor.done, k)
  BY Zenon, <1>1, NewestOfSuffix DEF Unflushed
<1>3. ASSUME NEW i \in 1..minor.done, HitAt(imm, Len(imm), k, i)
      PROVE  imm[i][k] # Absent /\ ReadersGet(Visible, k) = imm[i][k]
  <2>1. i \in 1..Flushed
    BY FlushedInRange
  <2> QED
    BY Zenon, <1>3, <2>1, FlushedHit
<1> QED
  BY Zenon, <1>2, <1>3 DEF DropsOldest

\* Outside a rewrite the manifest is levels_.
LEMMA DiskIs == Files /\ Running => DiskLevels = levels
BY Zenon DEF Files, ManifestInSync, DiskLevels

\* The inductive invariant implies Durable.
LEMMA DurableState == TableLaws /\ IndInv /\ Data => Durable
<1> SUFFICES ASSUME TableLaws, IndInv, Data, phase = "up", manifest # Torn, ~CommitOpen, NEW k \in Keys
             PROVE  Recovered(k) = IF server = "appended" /\ req.key = k THEN Decode(Entry(req)) ELSE Current(k)
  BY Zenon DEF Durable
<1>1. TypeOK /\ Control /\ Files /\ Mirror /\ FlushedAreReadable /\ Shape
  BY Zenon, StateShape DEF IndInv, Data
<1>2. Visible = levels
  <2>1. ~Committing("background")
    BY Zenon DEF Data, OneReadersWriter, Committing, CommitOpen, BgPc
  <2> QED
    BY Zenon, <1>1, <2>1 DEF Shape
<1>3. DiskLevels = levels
  BY Zenon, <1>1, DiskIs DEF Running
<1> DEFINE disk0 == ReadersGet(levels, k)
           log == Newest(Logged, k)
<1>4. /\ Recovered(k) = Decode(IF log # Absent THEN log ELSE disk0)
      /\ Current(k) = Decode(IF MemGet(k) # Absent THEN MemGet(k) ELSE disk0)
  BY Zenon, <1>2, <1>3 DEF Recovered, Current
<1>5. (IF Newest(Unflushed, k) # Absent THEN Newest(Unflushed, k) ELSE disk0)
      = (IF Newest(imm, k) # Absent THEN Newest(imm, k) ELSE disk0)
  BY Zenon, <1>1, <1>2, UnflushedLookup
<1> HIDE DEF disk0
<1>6. CASE wal = <<>> /\ imm = <<>> /\ mem = EmptyTable /\ server \notin {"appended", "newseg"}
  <2>1. Len(Logged) = 0 /\ Len(imm) = 0
    BY Zenon, <1>1, <1>6, LoggedTables DEF LogShape
  <2>2. log = Absent /\ Newest(imm, k) = Absent
    BY <2>1 DEF TableLaws, NewestMissLaw
  <2>3. mem[k] = Absent
    BY Zenon, <1>6 DEF EmptyTable
  <2> QED
    BY Zenon, <1>4, <1>6, <2>2, <2>3 DEF MemGet
<1>7. CASE server = "newseg" /\ mem = EmptyTable /\ Logged = Unflushed
  <2>1. mem[k] = Absent
    BY Zenon, <1>7 DEF EmptyTable
  <2> QED
    BY Zenon, <1>4, <1>5, <1>7, <2>1 DEF MemGet
<1>8. CASE server # "newseg" /\ Logged = Append(Unflushed, MemAfterWrite)
  <2>1. log = IF MemAfterWrite[k] # Absent THEN MemAfterWrite[k] ELSE Newest(Unflushed, k)
    <3> DEFINE s == Unflushed
               u == Logged
    <3>1. Unflushed \in Seq(Table) /\ Len(Unflushed) \in Nat
      BY <1>1, MinorDoneInRange DEF Unflushed, TypeOK, MemoryType
    <3>2. Len(u) = Len(s) + 1 /\ Len(s) \in Nat /\ u[Len(u)] = MemAfterWrite /\ \A j \in 1..Len(s) : u[j] = s[j]
      BY SMTT(30), <1>8, <3>1, AppendToSeq
    <3> HIDE DEF s, u
    <3>3. Newest(u, k) = IF u[Len(u)][k] # Absent THEN u[Len(u)][k] ELSE Newest(s, k)
      BY Zenon, <3>2 DEF TableLaws, NewestAppendLaw
    <3> QED
      BY <3>2, <3>3 DEF s, u
  <2>2. CASE server = "appended" /\ req.key = k
    <3>1. MemAfterWrite[k] = Entry(req) /\ Entry(req) # Absent
      BY SMTT(30), <1>1, <2>2, ValsAssumption DEF MemAfterWrite, TypeOK, MemoryType, Table, Control, RequestShape
    <3> QED
      BY Zenon, <1>4, <2>1, <2>2, <3>1
  <2>3. CASE ~ (server = "appended" /\ req.key = k)
    <3>1. MemAfterWrite[k] = mem[k]
      BY SMTT(30), <1>1, <2>3 DEF MemAfterWrite, TypeOK, MemoryType, Table
    <3> QED
      BY Zenon, <1>4, <1>5, <2>1, <2>3, <3>1 DEF MemGet
  <2> QED
    BY Zenon, <2>2, <2>3
<1> QED
  BY Zenon, <1>1, <1>6, <1>7, <1>8, MirrorImpliesLogMirrors DEF LogMirrorsMemtables

------------------------------------------------------------------------------
(***************************************************************************)
(* The map a client observes, from one state to the next.                  *)
(***************************************************************************)
LEMMA RecoveredIs ==
  ASSUME NEW k
  PROVE  /\ Recovered(k) =
              Decode(IF Newest(Logged, k) # Absent THEN Newest(Logged, k) ELSE ReadersGet(DiskLevels, k))
         /\ Recovered(k)' =
              Decode(IF Newest(Logged, k)' # Absent THEN Newest(Logged, k)' ELSE ReadersGet(DiskLevels, k)')
BY Zenon DEF Recovered, Decode

\* WAL::new deletes only segments that hold nothing.
LEMMA DropEmptySegLog ==
  ASSUME TableLaws, TypeOK, TypeOK', DropEmptySeg, NEW k \in Keys
  PROVE  Newest(Logged, k)' = Newest(Logged, k)
<1>1. LogShape /\ LogShape' /\ wal \in Seq(Seq(Record))
  <2>1. LogShape /\ LogShape'
    BY LoggedTables, PTL
  <2> QED
    BY Zenon, <2>1 DEF TypeOK, DiskType
<1>2. PICK i \in 1..Len(wal) :
        wal[i] = <<>> /\ wal' = SubSeq(wal, 1, i - 1) \o SubSeq(wal, i + 1, Len(wal))
  BY Zenon DEF DropEmptySeg
<1> DEFINE a == SubSeq(wal, 1, i - 1)
           b == SubSeq(wal, i + 1, Len(wal))
           s == Logged
           u == Logged'
<1>3. Len(wal) \in Nat /\ i \in Int /\ 1 =< i /\ i =< Len(wal)
  OBVIOUS
<1>4. /\ a \in Seq(Seq(Record)) /\ Len(a) = i - 1 /\ \A j \in 1..(i - 1) : a[j] = wal[j]
      /\ b \in Seq(Seq(Record)) /\ Len(b) = Len(wal) - i /\ \A j \in 1..(Len(wal) - i) : b[j] = wal[i + j]
  <2>1. (\A j \in 1..(i - 1) : wal[j] \in Seq(Record)) /\ (\A j \in (i + 1)..Len(wal) : wal[j] \in Seq(Record))
    BY SMTT(30), <1>1, <1>3
  <2>2. /\ a \in Seq(Seq(Record)) /\ Len(a) = IF 1 =< i - 1 THEN (i - 1) - 1 + 1 ELSE 0
        /\ \A j \in 1..((i - 1) - 1 + 1) : a[j] = wal[1 + j - 1]
    BY SMTT(30), <1>3, <2>1, SliceOfSeq
  <2>3. /\ b \in Seq(Seq(Record)) /\ Len(b) = IF i + 1 =< Len(wal) THEN Len(wal) - (i + 1) + 1 ELSE 0
        /\ \A j \in 1..(Len(wal) - (i + 1) + 1) : b[j] = wal[(i + 1) + j - 1]
    BY <1>3, <2>1, SliceOfSeq
  <2> HIDE DEF a, b
  <2>4. Len(a) = i - 1 /\ Len(b) = Len(wal) - i
    BY SMTT(30), <1>3, <2>2, <2>3
  <2>5. ASSUME NEW j \in 1..(i - 1) PROVE a[j] = wal[j]
    <3>1. j \in 1..((i - 1) - 1 + 1) /\ 1 + j - 1 = j
      BY SMTT(30), <1>3
    <3> QED
      BY Zenon, <2>2, <3>1
  <2>6. ASSUME NEW j \in 1..(Len(wal) - i) PROVE b[j] = wal[i + j]
    <3>1. j \in 1..(Len(wal) - (i + 1) + 1) /\ (i + 1) + j - 1 = i + j
      BY <1>3
    <3> QED
      BY SMTT(30), <2>3, <3>1
  <2> QED
    BY Zenon, <2>2, <2>3, <2>4, <2>5, <2>6
<1>5. wal' = a \o b
  BY Zenon, <1>2
<1> HIDE DEF a, b
<1>6. /\ Len(wal') = Len(wal) - 1
      /\ \A j \in 1..(Len(wal) - 1) : wal'[j] = IF j < i THEN wal[j] ELSE wal[j + 1]
  <2>1. /\ Len(a \o b) = Len(a) + Len(b)
        /\ \A j \in 1..(Len(a) + Len(b)) : (a \o b)[j] = IF j =< Len(a) THEN a[j] ELSE b[j - Len(a)]
    BY Zenon, <1>4, JoinOfSeqs
  <2>2. ASSUME NEW j \in 1..(Len(wal) - 1) PROVE wal'[j] = IF j < i THEN wal[j] ELSE wal[j + 1]
    <3>1. j \in 1..(Len(a) + Len(b))
      BY SMTT(30), <1>3, <1>4
    <3>2. CASE j < i
      <4>1. j \in 1..(i - 1) /\ j =< Len(a)
        BY SMTT(30), <1>3, <1>4, <3>2
      <4> QED
        BY SMTT(30), <1>4, <1>5, <2>1, <3>1, <3>2, <4>1
    <3>3. CASE ~(j < i)
      <4>1. j - Len(a) \in 1..(Len(wal) - i) /\ ~(j =< Len(a)) /\ i + (j - Len(a)) = j + 1
        BY SMTT(30), <1>3, <1>4, <3>3
      <4>2. b[j - Len(a)] = wal[i + (j - Len(a))]
        BY <1>4, <4>1
      <4> QED
        BY SMTT(30), <1>5, <2>1, <3>1, <3>3, <4>1, <4>2
    <3> QED
      BY SMTT(30), <3>2, <3>3
  <2>3. Len(wal') = Len(wal) - 1
    BY SMTT(30), <1>3, <1>4, <1>5, <2>1
  <2> QED
    BY Zenon, <2>2, <2>3
<1>7. /\ Len(s) = Len(wal) /\ Len(u) = Len(wal') /\ Len(s) \in Nat
      /\ \A j \in 1..Len(wal) : s[j] = Replay(wal[j])
      /\ \A j \in 1..Len(wal') : u[j] = Replay(wal'[j])
  BY ZenonT(30), <1>1 DEF LogShape
<1>8. Newest(Logged, k)' = Newest(u, k)
  BY Zenon DEF Newest, Holders
<1> HIDE DEF s, u
<1>9. \A j \in 1..Len(u) : u[j] = IF j < i THEN s[j] ELSE s[j + 1]
  <2>1. ASSUME NEW j \in 1..Len(u) PROVE u[j] = IF j < i THEN s[j] ELSE s[j + 1]
    <3>1. j \in 1..Len(wal) /\ j + 1 \in 1..Len(wal) /\ j \in 1..(Len(wal) - 1) /\ j \in 1..Len(wal')
      BY SMTT(30), <1>3, <1>6, <1>7
    <3> QED
      BY Zenon, <1>6, <1>7, <3>1
  <2> QED
    BY <2>1
<1>10. s[i][k] = Absent
  BY SMTT(30), <1>2, <1>7 DEF EmptyTable, TableLaws, ReplayEmptyLaw
<1>11. i \in 1..Len(s) /\ Len(u) = Len(s) - 1
  BY Zenon, <1>6, <1>7
<1>12. Newest(u, k) = Newest(s, k)
  BY ZenonT(30), <1>7, <1>9, <1>10, <1>11 DEF TableLaws, NewestRemoveLaw
<1> QED
  BY Zenon, <1>8, <1>12 DEF s

\* The readers that a restart would open.
DiskShape == \A k \in Keys : ReadersGet(DiskLevels, k) = Lookup(sst, DiskLevels, k)

\* What a restarted process would read first is a sorted set of levels.
LEMMA DiskIsReadable == Shape => DiskShape
<1> SUFFICES ASSUME Shape, NEW k \in Keys PROVE ReadersGet(DiskLevels, k) = Lookup(sst, DiskLevels, k)
  BY Zenon DEF DiskShape
<1>1. CASE manifest = Torn
  <2>1. DiskLevels = levels
    BY Zenon, <1>1 DEF DiskLevels
  <2> QED
    BY Zenon, <2>1 DEF Shape, Readable
<1>2. CASE manifest # Torn
  <2>1. DiskLevels = manifest
    BY <1>2 DEF DiskLevels
  <2> QED
    BY Zenon, <1>2, <2>1 DEF Shape, Readable
<1> QED
  BY <1>1, <1>2

\* A restart shows what the crash has left.
LEMMA RestartView ==
  ASSUME TableLaws, SoundStep, Shape, Shape', RestartStep, NEW k \in Keys
  PROVE  phase # "up" /\ (IF phase' = "up" THEN Current(k)' ELSE Recovered(k)') = Recovered(k)
<1> ~ClientMajor /\ IndInv /\ Data /\ IndInv' /\ Next
  BY DEF SoundStep
<1> DEFINE log == Newest(Logged, k)
           log1 == Newest(Logged, k)'
           disk0 == Lookup(sst, DiskLevels, k)
           disk1 == Lookup(sst', DiskLevels', k)
<1>1. /\ TypeOK /\ Control /\ Files /\ TypeOK' /\ Control' /\ Files'
      /\ InputsAreThere /\ OneReadersWriter /\ RedoIsReadable
  BY DEF IndInv, Data
<1>2. DiskShape /\ DiskShape'
  BY DiskIsReadable, PTL
<1>3. /\ Recovered(k) = Decode(IF log # Absent THEN log ELSE disk0)
      /\ Recovered(k)' = Decode(IF log1 # Absent THEN log1 ELSE disk1)
  BY <1>2, RecoveredIs DEF DiskShape
<1>4. phase # "up" /\ UNCHANGED <<mem, imm, majorPc>> /\ BgPc = "idle"
  BY <1>1, RestartFrame
<1>5. Current(k)' = Decode(Lookup(sst', levels', k))
  <2>1. mem = EmptyTable /\ imm = <<>>
    BY <1>1, <1>4 DEF Control, Quiet
  <2>2. MemGet(k)' = Absent
    <3>1. mem[k] = Absent /\ Newest(imm, k) = Absent
      BY <2>1 DEF EmptyTable, TableLaws, NewestMissLaw
    <3> QED
      BY SMTT(30), <1>4, <3>1, MemGetKept DEF MemGet
  <2>3. ~Committing("background")'
    BY <1>4 DEF Committing, BgPc
  <2>4. ReadersGet(Visible, k)' = Lookup(sst', levels', k)
    BY Zenon, <2>3 DEF Shape, Readable
  <2>5. Current(k)' = Decode(IF MemGet(k)' # Absent THEN MemGet(k)' ELSE ReadersGet(Visible, k)')
    BY DEF Current, Decode
  <2> QED
    BY SMTT(30), <2>2, <2>4, <2>5
<1>6. (Running => DiskLevels = levels) /\ (Running' => DiskLevels' = levels')
  <2>1. (Running => DiskLevels = levels) /\ (Running => DiskLevels = levels)'
    BY <1>1, DiskIs, PTL
  <2> QED
    BY <2>1
<1>7. CASE DropEmptySeg
  <2>1. phase' # "up" /\ UNCHANGED <<levels, manifest, sst>>
    BY Zenon, <1>4, <1>7 DEF DropEmptySeg, memory
  <2>2. DiskLevels' = DiskLevels
    BY <2>1 DEF DiskLevels
  <2>3. log1 = log
    BY SMTT(30), <1>1, <1>7, DropEmptySegLog
  <2> QED
    BY Zenon, <1>3, <1>4, <2>1, <2>2, <2>3
<1>8. CASE RestartFails
  <2>1. phase' # "up" /\ UNCHANGED <<levels, manifest, sst, wal>>
    BY <1>8 DEF RestartFails, memory, disk
  <2>2. DiskLevels' = DiskLevels
    BY <2>1 DEF DiskLevels
  <2>3. log1 = log
    BY <2>1, SameLog
  <2> QED
    BY <1>3, <1>4, <2>1, <2>2, <2>3
<1>9. CASE Restart
  <2>1. manifest # Torn /\ levels' = manifest /\ UNCHANGED <<manifest, sst, wal>>
        /\ phase' = IF wal = <<>> THEN "up" ELSE "redo"
    BY Zenon, <1>9 DEF Restart, Loadable, disk
  <2>2. DiskLevels' = levels' /\ DiskLevels = levels'
    BY <2>1 DEF DiskLevels
  <2>3. log1 = log
    BY SMTT(30), <2>1, SameLog
  <2>4. CASE wal = <<>>
    <3>1. Len(Logged) = 0
      BY Zenon, <1>1, <2>4, LoggedTables DEF LogShape
    <3>2. log = Absent
      BY <3>1 DEF TableLaws, NewestMissLaw
    <3> QED
      BY SMTT(30), <1>3, <1>4, <1>5, <2>1, <2>2, <2>4, <3>2
  <2>5. CASE wal # <<>>
    BY <1>3, <1>4, <2>1, <2>2, <2>3, <2>5
  <2> QED
    BY <2>4, <2>5
<1>10. CASE RedoBuild
  <2>1. phase' # "up" /\ UNCHANGED <<levels, wal>> /\ Running /\ Running'
    BY Zenon, <1>10 DEF RedoBuild, Running
  <2>2. log1 = log
    BY <2>1, SameLog
  <2>3. \A f \in Named(levels) : sst'[f] = sst[f]
    BY Zenon, <1>1, TablesKept
  <2>4. Lookup(sst', levels, k) = Lookup(sst, levels, k)
    BY Zenon, <2>3, LookupKept DEF Shape
  <2> QED
    BY SMTT(30), <1>3, <1>4, <1>6, <2>1, <2>2, <2>4
<1>11. CASE RedoAdd
  <2>1. phase' # "up" /\ UNCHANGED <<sst, wal>> /\ Running /\ Running'
    BY <1>11 DEF RedoAdd, Running
  <2>2. log1 = log
    BY <2>1, SameLog
  <2>3. ReadersGet(levels, k)' = IF log # Absent THEN log ELSE ReadersGet(levels, k)
    BY Zenon, <1>1, <1>11, RedoAddReaders
  <2>4. ReadersGet(levels, k)' = disk1 /\ ReadersGet(levels, k) = disk0
    BY Zenon, <1>6, <2>1 DEF Shape, Readable
  <2> HIDE DEF log, log1, disk0, disk1
  <2> QED
    BY <1>3, <1>4, <2>1, <2>2, <2>3, <2>4
<1>12. CASE RedoFlush
  <2>1. phase' # "up" /\ UNCHANGED <<sst, wal, levels>> /\ Running /\ Running'
    BY <1>12 DEF RedoFlush, Running, memory
  <2>2. log1 = log
    BY Zenon, <2>1, SameLog
  <2> QED
    BY SMTT(30), <1>3, <1>4, <1>6, <2>1, <2>2
<1>13. CASE RedoDelete
  <2>1. UNCHANGED <<sst, levels>> /\ Running /\ Running' /\ phase = "redodelete"
    BY Zenon, <1>13 DEF RedoDelete, Running, memory
  <2>2. log1 # Absent => log1 = log
    BY <1>1, <1>13, RedoDeleteLog
  <2>3. log # Absent => log = disk0
    <3>1. log # Absent => ReadersGet(levels, k) = log
      BY <1>1, <2>1 DEF RedoIsReadable
    <3>2. ReadersGet(levels, k) = disk0
      BY Zenon, <1>6, <2>1 DEF Shape, Readable
    <3> QED
      BY <3>1, <3>2
  <2>4. disk1 = disk0 /\ Current(k)' = Decode(disk0)
    BY <1>5, <1>6, <2>1
  <2> HIDE DEF log, log1, disk0, disk1
  <2> QED
    BY <1>3, <1>4, <2>2, <2>3, <2>4
<1> QED
  BY Zenon, <1>7, <1>8, <1>9, <1>10, <1>11, <1>12, <1>13 DEF RestartStep

\* A crash outside a manifest rewrite and a commit leaves every completed
\* write, and the one that has reached the log.
LEMMA CrashView ==
  ASSUME TableLaws, ~CrashInFlush, ~CrashInCommit, IndInv, Data, Shape, Shape', Crash, NEW k \in Keys
  PROVE  Recovered(k)' =
           IF phase # "up" THEN Recovered(k)
           ELSE IF server = "appended" /\ req.key = k THEN Decode(Entry(req)) ELSE Current(k)
<1>1. manifest # Torn /\ ~CommitOpen /\ UNCHANGED <<manifest, sst, wal>>
  BY DEF Crash, disk
<1>2. DiskLevels' = DiskLevels
  BY <1>1 DEF DiskLevels
<1>3. DiskShape /\ DiskShape'
  BY DiskIsReadable, PTL
<1>4. ReadersGet(DiskLevels, k)' = ReadersGet(DiskLevels, k)
  BY <1>1, <1>2, <1>3 DEF DiskShape
<1>5. Recovered(k)' = Recovered(k)
  BY Zenon, <1>1, <1>4, SameLog, RecoveredIs
<1> QED
  BY <1>1, <1>5, DurableState DEF Durable

\* Apart from crashes only MemInsert changes the map.
LEMMA ViewStep ==
  ASSUME TableLaws, SoundStep, ~Crash
  PROVE  /\ ~MemInsert => View' = View
         /\ MemInsert => View' = [View EXCEPT ![req.key] = Decode(Entry(req))]
<1> ~ClientMajor /\ IndInv /\ Data /\ Next
  BY Zenon DEF SoundStep
<1>1. IndInv' /\ Shape /\ Shape'
  BY Zenon, ShapeStep DEF SoundStep
<1>2. /\ TypeOK /\ Control /\ Files /\ TypeOK' /\ Control' /\ InputsAreThere /\ MergeIsFaithful
      /\ OneReadersWriter /\ FlushedAreReadable
  BY <1>1 DEF IndInv, Data
<1> DEFINE Seen(k) == IF phase = "up" THEN Current(k) ELSE Recovered(k)
           Seen1(k) == IF phase' = "up" THEN Current(k)' ELSE Recovered(k)'
<1>3. View = [k \in Keys |-> Seen(k)] /\ View' = [k \in Keys |-> Seen1(k)]
  BY DEF View
<1>4. ASSUME NEW k \in Keys
      PROVE  Seen1(k) = IF MemInsert /\ k = req.key THEN Decode(Entry(req)) ELSE Seen(k)
  <2>1. CASE RestartStep
    <3>1. ~MemInsert
      BY SMTT(30), <1>2, <2>1, RestartFrame DEF MemInsert
    <3> QED
      BY SMTT(30), <1>1, <2>1, <3>1, RestartView
  <2>2. CASE ServerStep \/ MinorStep \/ BgStep
    <3>1. phase = "up" /\ phase' = "up"
      BY Zenon, <1>2, <2>2, UpSteps, ServerFrame, MinorFrame, BgMoves DEF MinorStep, MinorBuild, MinorAdd
    <3>2. Current(k)' = IF MemInsert /\ k = req.key THEN Decode(Entry(req)) ELSE Current(k)
      BY <1>1, <1>2, <3>1, CurrentStep
    <3> QED
      BY Zenon, <3>1, <3>2
  <2> QED
    BY <1>2, <2>1, <2>2, Steps
<1> HIDE DEF Seen, Seen1
<1>5. ASSUME ~MemInsert PROVE View' = View
  BY SMTT(30), <1>3, <1>4, <1>5
<1>6. ASSUME MemInsert PROVE View' = [View EXCEPT ![req.key] = Decode(Entry(req))]
  <2>1. req.key \in Keys
    BY Zenon, <1>2, <1>6 DEF MemInsert, TypeOK, RequestType, Pending, Request
  <2> QED
    BY <1>3, <1>4, <1>6, <2>1
<1> QED
  BY <1>5, <1>6

\* While the process is up, the abstract map is what a get would return.
LEMMA ViewIs ==
  ASSUME phase = "up", NEW k \in Keys
  PROVE  View[k] = Current(k)
BY DEF View

(***************************************************************************)
(* The requests.  Each step of the server thread is a step of KVStore.     *)
(***************************************************************************)
AbstractRequest(r) == IF r.op = "insert" THEN r ELSE [op |-> r.op, key |-> r.key]

\* The abstract request is the one the server thread is working on.
LEMMA Progress ==
  /\ InProgress = IF Pending THEN AbstractRequest(req) ELSE Nothing
  /\ InProgress' = IF Pending' THEN AbstractRequest(req') ELSE Nothing
BY DEF InProgress, AbstractRequest

\* Every request of a client is one of KVStore.
LEMMA AbstractRequests ==
  ASSUME NEW r \in Request, r.op = "insert" => r.val \in Vals
  PROVE  /\ AbstractRequest(r) \in KV!Requests /\ AbstractRequest(r) # Nothing
         /\ AbstractRequest(r).op = r.op /\ AbstractRequest(r).key = r.key
         /\ r.op = "insert" => AbstractRequest(r).val = r.val
<1>1. CASE r.op = "insert"
  BY Zenon, <1>1, NothingAssumption DEF AbstractRequest, KV!Requests, Request
<1>2. CASE r.op # "insert"
  <2>1. AbstractRequest(r) = [op |-> r.op, key |-> r.key]
    BY Zenon, <1>2 DEF AbstractRequest
  <2>2. r.op \in {"get", "remove"} /\ r.key \in Keys
    BY <1>2 DEF Request
  <2>3. [op |-> r.op, key |-> r.key] \in [op : {"get", "remove"}, key : Keys]
    BY <2>2
  <2>4. [op |-> r.op, key |-> r.key] # Nothing
    BY Zenon, <2>3, NothingAssumption
  <2> QED
    BY SMTT(30), <1>2, <2>1, <2>3, <2>4 DEF KV!Requests
<1> QED
  BY Zenon, <1>1, <1>2

\* A request that begins and returns nothing yet is Invoke.
LEMMA InvokeStep ==
  ASSUME NEW r \in KV!Requests, InProgress = Nothing, InProgress' = r, reply' = Nothing, View' = View
  PROVE  KV!Next
BY Zenon DEF KV!Next, KV!Invoke

\* A get or remove that finds no payload leaves the map alone.
LEMMA EffectOfRead ==
  ASSUME NEW r, r.op \in {"get", "remove"}, r.key \in Keys, r.op = "remove" => View[r.key] = Absent
  PROVE  KV!Effect(r) = View /\ KV!Result(r) = View[r.key]
<1>1. View = [k \in Keys |-> View[k]]
  BY DEF View
<1>2. CASE r.op = "remove"
  <2>1. KV!Effect(r) = [View EXCEPT ![r.key] = Absent]
    BY Zenon, <1>2 DEF KV!Effect
  <2> QED
    BY Zenon, <1>1, <1>2, <2>1 DEF KV!Result
<1>3. CASE r.op = "get"
  BY <1>3 DEF KV!Effect, KV!Result
<1> QED
  BY <1>2, <1>3

\* A step that leaves the request and the map alone is a stuttering step.
LEMMA SameRequest ==
  ASSUME UNCHANGED <<server, req, reply>>, View' = View
  PROVE  UNCHANGED KV!vars
<1>1. InProgress' = InProgress
  BY DEF InProgress, Pending
<1> QED
  BY Zenon, <1>1 DEF KV!vars

\* The insert into the memtable is the moment at which an insert takes effect.
LEMMA MemInsertServes ==
  ASSUME TableLaws, SoundStep, MemInsert
  PROVE  KV!Next
<1> ~ClientMajor /\ IndInv /\ Data /\ Next
  BY Zenon DEF SoundStep
<1>1. TypeOK /\ Control /\ ReadsAreCurrent
  BY Zenon DEF IndInv, Data
<1>2. /\ server = "appended" /\ server' \in {"idle", "newseg"}
      /\ reply' = (IF req.op = "insert" THEN Absent ELSE req.val) /\ req' = Nothing
  BY DEF MemInsert
<1>3. req \in Request /\ phase = "up" /\ req.op \in {"insert", "remove"} /\ Entry(req) \in Vals \cup {Tombstone}
  BY SMTT(30), <1>1, <1>2 DEF TypeOK, RequestType, Pending, Control, Quiet, RequestShape, Request
<1>4. req.key \in Keys /\ (req.op = "insert" => req.val \in Vals)
  BY <1>3, ValsAssumption DEF Request, Entry
<1> DEFINE r == AbstractRequest(req)
<1>5. /\ r \in KV!Requests /\ r # Nothing /\ r.op = req.op /\ r.key = req.key
      /\ req.op = "insert" => r.val = req.val
  BY Zenon, <1>3, <1>4, AbstractRequests
<1>6. InProgress = r /\ InProgress' = Nothing
  BY Zenon, <1>2, Progress DEF Pending
<1> HIDE DEF r
<1>7. View' = [View EXCEPT ![req.key] = Decode(Entry(req))]
  <2>1. ~Crash
    BY Zenon, <1>2 DEF Crash, Die, MemInsert
  <2> QED
    BY Zenon, <2>1, ViewStep
<1>8. CASE req.op = "insert"
  <2>1. KV!Effect(r) = [View EXCEPT ![r.key] = r.val] /\ KV!Result(r) = Absent
    BY Zenon, <1>5, <1>8 DEF KV!Effect, KV!Result
  <2>2. Decode(Entry(req)) = r.val
    BY <1>4, <1>5, <1>8, ValsAssumption DEF Entry, Decode
  <2> QED
    BY Zenon, <1>2, <1>5, <1>6, <1>7, <1>8, <2>1, <2>2 DEF KV!Next, KV!Serve
<1>9. CASE req.op = "remove"
  <2>1. KV!Effect(r) = [View EXCEPT ![r.key] = Absent] /\ KV!Result(r) = View[r.key]
    BY SMTT(30), <1>5, <1>9 DEF KV!Effect, KV!Result
  <2>2. Decode(Entry(req)) = Absent
    BY <1>9 DEF Entry, Decode
  <2>3. View[req.key] = req.val
    BY Zenon, <1>1, <1>2, <1>3, <1>4, <1>9, ViewIs DEF ReadsAreCurrent
  <2> QED
    BY Zenon, <1>2, <1>5, <1>6, <1>7, <1>9, <2>1, <2>2, <2>3 DEF KV!Next, KV!Serve
<1> QED
  BY SMTT(30), <1>3, <1>8, <1>9

\* Appending to the log begins an insert, and changes nothing that a get returns.
LEMMA InsertInvokes ==
  ASSUME TableLaws, SoundStep, NEW k \in Keys, NEW v \in Vals, Insert(k, v)
  PROVE  KV!Next
<1> ~ClientMajor /\ IndInv /\ Data /\ Next
  BY Zenon DEF SoundStep
<1> DEFINE r == [op |-> "insert", key |-> k, val |-> v]
<1>1. server = "idle" /\ server' = "appended" /\ req' = r /\ reply' = Nothing
  BY Zenon DEF Insert, WalAppend
<1>2. r \in KV!Requests
  BY Zenon DEF KV!Requests
<1>3. InProgress = Nothing /\ InProgress' = r
  BY SMTT(30), <1>1, Progress DEF Pending, AbstractRequest
<1>4. View' = View
  <2>1. ~Crash /\ ~MemInsert
    BY Zenon, <1>1 DEF Crash, Die, MemInsert
  <2> QED
    BY Zenon, <2>1, ViewStep
<1> HIDE DEF r
<1> QED
  BY Zenon, <1>1, <1>2, <1>3, <1>4, InvokeStep

\* A get or remove begins, and is answered at once if the memtables have the key.
LEMMA MemtablesServe ==
  ASSUME TableLaws, SoundStep, NEW op \in {"get", "remove"}, NEW k \in Keys, GetFromMemtables(op, k)
  PROVE  KV!Next
<1> ~ClientMajor /\ IndInv /\ Data /\ Next
  BY Zenon DEF SoundStep
<1> DEFINE c == [op |-> op, key |-> k, val |-> Absent]
           r == AbstractRequest(c)
<1>1. phase = "up" /\ server = "idle" /\ UNCHANGED phase
  BY Zenon DEF GetFromMemtables
<1>2. View' = View
  <2>1. ~Crash /\ ~MemInsert
    BY Zenon, <1>1 DEF Crash, Die, MemInsert
  <2> QED
    BY Zenon, <2>1, ViewStep
<1>3. c \in Request /\ c.op = op /\ c.key = k
  BY Zenon DEF Request
<1>4. r \in KV!Requests /\ r.op = op /\ r.key = k
  BY <1>3, AbstractRequests
<1>5. InProgress = Nothing
  BY Zenon, <1>1, Progress DEF Pending
<1>6. View[k] = Current(k)
  BY SMTT(30), <1>1, ViewIs
<1>7. ASSUME Pending', req'.op = op, req'.key = k, reply' = Nothing PROVE KV!Next
  <2>1. InProgress' = r
    BY SMTT(30), <1>7, Progress DEF AbstractRequest
  <2> HIDE DEF r
  <2> QED
    BY <1>2, <1>4, <1>5, <1>7, <2>1, InvokeStep
<1>8. CASE MemGet(k) = Absent
  <2>1. server' = "getsst" /\ req' = c /\ reply' = Nothing
    BY <1>8 DEF GetFromMemtables
  <2> QED
    BY Zenon, <1>3, <1>7, <2>1 DEF Pending
<1>9. CASE MemGet(k) # Absent
  <2>1. Found(c, MemGet(k))
    BY <1>9 DEF GetFromMemtables
  <2>2. Decode(MemGet(k)) = View[k]
    BY SMTT(30), <1>6, <1>9 DEF Current
  <2> HIDE DEF c, r
  <2>3. CASE server' = "append"
    <3>1. op = "remove" /\ req'.op = "remove" /\ req'.key = k /\ reply' = Nothing
      BY SMTT(30), <1>3, <2>1, <2>3, FoundCases
    <3> QED
      BY SMTT(30), <1>7, <2>3, <3>1 DEF Pending
  <2>4. CASE server' # "append"
    <3>1. server' = "idle" /\ reply' = View[k] /\ (op # "remove" \/ View[k] = Absent)
      BY <1>3, <2>1, <2>2, <2>4, FoundCases
    <3>2. InProgress' = Nothing
      BY SMTT(30), <3>1, Progress DEF Pending
    <3>3. KV!Effect(r) = View /\ KV!Result(r) = View[k]
      BY <1>4, <3>1, EffectOfRead
    <3> QED
      BY <1>2, <1>4, <1>5, <3>1, <3>2, <3>3 DEF KV!Next, KV!InvokeAndServe
  <2> QED
    BY SMTT(30), <2>3, <2>4
<1> QED
  BY Zenon, <1>8, <1>9

\* A get or remove that missed in the memtables is answered by the readers.
LEMMA ReadersServe ==
  ASSUME TableLaws, SoundStep, GetFromReaders
  PROVE  KV!Next \/ UNCHANGED KV!vars
<1> ~ClientMajor /\ IndInv /\ Data /\ Next
  BY DEF SoundStep
<1>1. TypeOK /\ Control /\ ReadsAreCurrent /\ OneReadersWriter /\ Shape
  BY StateShape DEF IndInv, Data
<1>2. server = "getsst" /\ Found(req, ReadersGet(levels, req.key))
  BY DEF GetFromReaders
<1>3. /\ req \in Request /\ phase = "up" /\ req.op \in {"get", "remove"} /\ req.key \in Keys
      /\ reply = Nothing
  BY <1>1, <1>2 DEF TypeOK, RequestType, Pending, Control, Quiet, RequestShape, Request, ReadsAreCurrent
<1>4. View' = View
  <2>1. ~MemInsert
    BY SMTT(30), <1>2 DEF MemInsert
  <2>2. ~Crash
    BY SMTT(30), <1>3 DEF Crash, Die, GetFromReaders
  <2> QED
    BY SMTT(30), <2>1, <2>2, ViewStep
<1> DEFINE e == ReadersGet(levels, req.key)
           r == AbstractRequest(req)
<1>5. Decode(e) = View[req.key]
  BY SMTT(30), <1>1, <1>3, ReadingReaders, ViewIs
<1>6. r # Nothing /\ r.op = req.op /\ r.key = req.key
  BY <1>3, AbstractRequests
<1>7. InProgress = r
  BY <1>2, Progress DEF Pending
<1>8. /\ \/ /\ req.op = "remove" /\ server' = "append" /\ reply' = Nothing
            /\ req'.op = "remove" /\ req'.key = req.key
         \/ /\ req.op # "remove" \/ Decode(e) = Absent
            /\ server' = "idle" /\ reply' = Decode(e)
  <2> HIDE DEF e
  <2> QED
    BY Zenon, <1>2, <1>3, FoundCases DEF e
<1>9. CASE server' = "append"
  <2>1. req'.op = req.op /\ req'.key = req.key /\ req.op = "remove" /\ reply' = reply
    BY SMTT(30), <1>3, <1>8, <1>9
  <2>2. InProgress' = InProgress
    BY SMTT(30), <1>2, <1>9, <2>1 DEF InProgress, Pending
  <2> QED
    BY Zenon, <1>4, <2>1, <2>2 DEF KV!vars
<1>10. CASE server' # "append"
  <2>1. server' = "idle" /\ reply' = View[req.key] /\ (req.op # "remove" \/ View[req.key] = Absent)
    BY <1>5, <1>8, <1>10
  <2>2. InProgress' = Nothing
    BY <2>1, Progress DEF Pending
  <2>3. KV!Effect(r) = View /\ KV!Result(r) = View[req.key]
    <3> HIDE DEF r
    <3> QED
      BY <1>3, <1>6, <2>1, EffectOfRead
  <2> HIDE DEF r
  <2> QED
    BY SMTT(30), <1>4, <1>6, <1>7, <2>1, <2>2, <2>3 DEF KV!Next, KV!Serve
<1> QED
  BY <1>9, <1>10

\* A crash decides about the request in progress, and about nothing else.
LEMMA CrashKeepsMap ==
  ASSUME TableLaws, SoundStep, ~CrashInFlush, ~CrashInCommit, Crash
  PROVE  KV!Next
<1> ~ClientMajor /\ IndInv /\ Data /\ Next
  BY Zenon DEF SoundStep
<1>1. IndInv' /\ Shape /\ Shape'
  BY Zenon, ShapeStep DEF SoundStep
<1>2. TypeOK /\ Control
  BY DEF IndInv
<1>3. phase' \in {"down", "torn"} /\ server' = "idle" /\ reply' = Nothing
  BY DEF Crash, Die
<1>4. InProgress' = Nothing
  BY <1>3, Progress DEF Pending
<1>5. View' = [k \in Keys |-> Recovered(k)']
  BY Zenon, <1>3 DEF View
<1> DEFINE Seen(k) == IF phase = "up" THEN Current(k) ELSE Recovered(k)
           logged == phase = "up" /\ server = "appended"
<1>6. View = [k \in Keys |-> Seen(k)]
  BY Zenon DEF View
<1>7. ASSUME NEW k \in Keys
      PROVE  Recovered(k)' = IF logged /\ req.key = k THEN Decode(Entry(req)) ELSE Seen(k)
  BY Zenon, <1>1, CrashView
<1> HIDE DEF Seen
<1>8. CASE ~logged
  <2>1. View' = View
    <3> HIDE DEF logged
    <3> QED
      BY Zenon, <1>5, <1>6, <1>7, <1>8
  <2> QED
    BY Zenon, <1>3, <1>4, <2>1 DEF KV!Next, KV!Crash
<1>9. CASE logged
  <2>1. /\ req \in Request /\ req.op \in {"insert", "remove"} /\ Entry(req) \in Vals \cup {Tombstone}
    BY Zenon, <1>2, <1>9 DEF TypeOK, RequestType, Pending, Control, RequestShape, Request
  <2>2. req.key \in Keys /\ (req.op = "insert" => req.val \in Vals)
    BY Zenon, <2>1, ValsAssumption DEF Request, Entry
  <2> DEFINE r == AbstractRequest(req)
  <2>3. r # Nothing /\ r.op = req.op /\ r.key = req.key /\ (req.op = "insert" => r.val = req.val)
    BY SMTT(30), <2>1, <2>2, AbstractRequests
  <2>4. InProgress = r
    BY Zenon, <1>9, Progress DEF Pending
  <2>5. View' = [View EXCEPT ![req.key] = Decode(Entry(req))]
    <3> HIDE DEF logged
    <3> QED
      BY SMTT(30), <1>5, <1>6, <1>7, <1>9, <2>2
  <2> HIDE DEF r
  <2>6. View' = KV!Effect(r)
    <3>1. CASE req.op = "insert"
      <4>1. KV!Effect(r) = [View EXCEPT ![r.key] = r.val]
        BY Zenon, <2>3, <3>1 DEF KV!Effect
      <4>2. Decode(Entry(req)) = r.val
        BY Zenon, <2>2, <2>3, <3>1, ValsAssumption DEF Entry, Decode
      <4> QED
        BY Zenon, <2>3, <2>5, <4>1, <4>2
    <3>2. CASE req.op = "remove"
      <4>1. KV!Effect(r) = [View EXCEPT ![r.key] = Absent]
        BY Zenon, <2>3, <3>2 DEF KV!Effect
      <4>2. Decode(Entry(req)) = Absent
        BY Zenon, <3>2 DEF Entry, Decode
      <4> QED
        BY <2>3, <2>5, <4>1, <4>2
    <3> QED
      BY Zenon, <2>1, <3>1, <3>2
  <2> QED
    BY Zenon, <1>3, <1>4, <2>3, <2>4, <2>6 DEF KV!Next, KV!Crash
<1> QED
  BY <1>8, <1>9

\* Every step of the engine is a step of the abstract map or a stutter.
LEMMA RefinementStep ==
  ASSUME TableLaws, ~ClientMajor, ~CrashInFlush, ~CrashInCommit, IndInv, Data, [Next]_vars, IndInv'
  PROVE  [KV!Next]_KV!vars
<1>1. CASE UNCHANGED vars
  <2>1. UNCHANGED <<server, req, reply, phase>>
    BY Zenon, <1>1 DEF vars, requests
  <2>2. View' = View
    <3>1. DiskLevels' = DiskLevels /\ sst' = sst
      BY Zenon, <1>1 DEF vars, memory, disk, DiskLevels
    <3>2. DiskShape /\ DiskShape'
      <4>1. Shape /\ Shape'
        BY Zenon, <1>1, StutterShape
      <4> QED
        BY <4>1, DiskIsReadable, PTL
    <3>3. \A k \in Keys : ReadersGet(DiskLevels, k)' = ReadersGet(DiskLevels, k)
      BY Zenon, <3>1, <3>2 DEF DiskShape
    <3>4. \A k \in Keys : Newest(Logged, k)' = Newest(Logged, k) /\ Current(k)' = Current(k)
      BY Zenon, <1>1, StutterReads
    <3>5. \A k \in Keys : Recovered(k)' = Recovered(k)
      BY Zenon, <3>3, <3>4, RecoveredIs
    <3> QED
      BY Zenon, <2>1, <3>4, <3>5 DEF View
  <2> QED
    BY SMTT(30), <2>1, <2>2, SameRequest
<1>2. CASE Next
  <2> SoundStep
    BY Zenon, <1>2 DEF SoundStep
  <2>0. TypeOK /\ Control /\ InputsAreThere /\ OneReadersWriter /\ ReadsAreCurrent
    BY Zenon DEF IndInv, Data
  <2>1. ASSUME UNCHANGED requests, ~Crash PROVE UNCHANGED KV!vars
    <3>1. UNCHANGED <<server, req, reply>> /\ ~MemInsert
      BY Zenon, <2>1 DEF requests, MemInsert
    <3> QED
      BY SMTT(30), <1>2, <2>1, <3>1, ViewStep, SameRequest
  <2>2. CASE Crash
    BY <1>2, <2>2, CrashKeepsMap
  <2>3. CASE (MinorStep \/ BgStep \/ RestartStep) /\ ~Crash
    <3>1. UNCHANGED requests
      BY Zenon, <2>0, <2>3, MinorFrame, BgMoves, RestartFrame DEF MinorStep, MinorBuild, MinorAdd
    <3> QED
      BY Zenon, <2>1, <2>3, <3>1
  <2>4. CASE Remove /\ ~Crash
    <3>1. server = "append" /\ server' = "appended" /\ req' = req /\ reply' = Nothing /\ ~MemInsert
      BY Zenon, <2>4 DEF Remove, WalAppend, MemInsert
    <3>2. reply = Nothing
      BY Zenon, <2>0, <3>1 DEF ReadsAreCurrent, Pending
    <3>3. InProgress' = InProgress
      BY Zenon, <3>1 DEF InProgress, Pending
    <3>4. View' = View
      BY SMTT(30), <1>2, <2>4, <3>1, ViewStep
    <3> QED
      BY Zenon, <3>1, <3>2, <3>3, <3>4 DEF KV!vars
  <2>5. CASE NewSeg /\ ~Crash
    <3>1. server = "newseg" /\ server' = "idle" /\ reply' = reply /\ ~MemInsert
      BY Zenon, <2>5 DEF NewSeg, MemInsert
    <3>2. InProgress' = InProgress
      BY Zenon, <3>1 DEF InProgress, Pending
    <3>3. View' = View
      BY Zenon, <1>2, <2>5, <3>1, ViewStep
    <3> QED
      BY Zenon, <3>1, <3>2, <3>3 DEF KV!vars
  <2>6. CASE MemInsert \/ GetFromReaders \/ (\E k \in Keys, v \in Vals : Insert(k, v))
             \/ \E op \in {"get", "remove"}, k \in Keys : GetFromMemtables(op, k)
    BY Zenon, <1>2, <2>6, MemInsertServes, ReadersServe, InsertInvokes, MemtablesServe
  <2> QED
    BY Zenon, <1>2, <2>0, <2>2, <2>3, <2>4, <2>5, <2>6, Steps DEF ServerStep
<1> QED
  BY Zenon, <1>1, <1>2

\* A new directory is an empty map.
LEMMA InitRefines == TableLaws /\ Init => KV!Init
<1> SUFFICES ASSUME TableLaws, Init PROVE KV!Init
  BY Zenon
<1>1. IndInv /\ Data
  BY InitIndInv, InitData
<1>2. Shape
  BY Zenon, <1>1, StateShape DEF IndInv, Data
<1>3. /\ phase = "up" /\ mem = EmptyTable /\ imm = <<>> /\ levels = NoFiles /\ server = "idle"
      /\ reply = Nothing /\ ~Committing("background")
  BY Zenon DEF Init, Committing
<1>4. ASSUME NEW k \in Keys PROVE Current(k) = Absent
  <2>1. MemGet(k) = Absent
    BY SMTT(30), <1>3 DEF MemGet, EmptyTable, TableLaws, NewestMissLaw
  <2>2. ReadersGet(NoFiles, k) = Absent
    BY Zenon DEF ReadersGet, LevelGet, Holding, NoFiles
  <2>3. Visible = NoFiles
    BY SMTT(30), <1>2, <1>3 DEF Shape
  <2> QED
    BY <2>1, <2>2, <2>3, ValsAssumption DEF Current, Decode
<1>5. View = [k \in Keys |-> Absent]
  BY SMTT(30), <1>3, <1>4 DEF View
<1>6. InProgress = Nothing
  BY Zenon, <1>3, Progress DEF Pending
<1> QED
  BY Zenon, <1>3, <1>5, <1>6 DEF KV!Init

(***************************************************************************)
(* The inductive invariant holds in every reachable state, for all keys,   *)
(* values, sizes and limits, with crashes at any point of insert_,         *)
(* minor_compaction, size_compaction and redo.                             *)
(***************************************************************************)
THEOREM Invariance == Spec => []IndInv
BY TablesObeyLaws, InitIndInv, StepIndInv, PTL DEF Spec

(***************************************************************************)
(* Types hold in every reachable state.  In particular every table that    *)
(* minor_compaction and size_compaction build comes from memtables and     *)
(* files that exist, so none of their unwrap()s on a missing one fires.    *)
(***************************************************************************)
THEOREM TypeCorrectness == Spec => []TypeOK
<1>1. IndInv => TypeOK
  BY SMTT(30) DEF IndInv
<1> QED
  BY <1>1, Invariance, PTL

(***************************************************************************)
(* WAL segments and memtables correspond one to one, whatever rotation     *)
(* (insert_) and flushing (minor_compaction) do, and across restarts.      *)
(***************************************************************************)
THEOREM LogCorrectness == Spec => []LogMirrorsMemtables
<1>1. IndInv => LogMirrorsMemtables
  BY Zenon, MirrorImpliesLogMirrors, TablesObeyLaws DEF IndInv
<1> QED
  BY <1>1, Invariance, PTL

(***************************************************************************)
(* Every SSTable that the manifest or a reader refers to exists, wherever  *)
(* the process crashes and even if two major compactions run at once.      *)
(***************************************************************************)
THEOREM NoDanglingFiles == Spec => []ReferencedFilesExist
<1>1. IndInv => ReferencedFilesExist
  BY Zenon DEF IndInv, Files
<1> QED
  BY <1>1, Invariance, PTL

(***************************************************************************)
(* File numbers are fresh and level 0 gets its files in number order.      *)
(***************************************************************************)
THEOREM FileNumbering == Spec => []FilesArePushedInOrder
<1>1. IndInv => FilesArePushedInOrder
  BY Zenon DEF IndInv, Files, FilesArePushedInOrder, FileNumbersBelowNext, MinorFileIsFresh,
         RedoFilesAreFresh, InputsOf, Running
<1> QED
  BY <1>1, Invariance, PTL

(***************************************************************************)
(* Unless clients request major compactions, what the tables hold is right *)
(* in every reachable state: levels are sorted, a merge in progress can    *)
(* replace its inputs, and flushed memtables and replayed segments are     *)
(* found by the readers before they are dropped.                           *)
(***************************************************************************)
THEOREM DataInvariance ==
  ASSUME ~ClientMajor
  PROVE  Spec => []Data
<1>1. IndInv /\ Data /\ [Next]_vars => (IndInv /\ Data)'
  <2> SUFFICES ASSUME IndInv, Data, [Next]_vars PROVE IndInv' /\ Data'
    BY Zenon
  <2>1. IndInv'
    BY Zenon, TablesObeyLaws, StepIndInv
  <2> QED
    BY SMTT(30), <2>1, TablesObeyLaws, DataStep
<1> QED
  BY <1>1, TablesObeyLaws, InitIndInv, InitData, PTL DEF Spec

(***************************************************************************)
(* The files of a level above 0 have disjoint key ranges, at every point   *)
(* of a flush, a compaction, a crash and a restart, as binary search       *)
(* (search_readers) and get_other_readers need: size_compaction has taken  *)
(* every overlapping file of the next level as an input.                   *)
(***************************************************************************)
THEOREM DisjointLevels ==
  ASSUME ~ClientMajor
  PROVE  Spec => []LevelsAreDisjoint
<1>1. IndInv /\ Data => LevelsAreDisjoint
  <2> SUFFICES ASSUME IndInv, Data PROVE LevelsAreDisjoint
    BY Zenon
  <2>1. Shape
    BY Zenon, TablesObeyLaws, StateShape DEF IndInv, Data
  <2>2. Disjoint(Visible)
    BY Zenon, <2>1 DEF Data, RangesAreDisjoint, Shape, Merging
  <2> QED
    BY Zenon, <2>2 DEF LevelsAreDisjoint, Disjoint
<1> QED
  BY <1>1, Invariance, DataInvariance, PTL

(***************************************************************************)
(* Outside a manifest rewrite and a commit, killing the process loses no   *)
(* completed write: redo rebuilds from the manifest and the WAL exactly    *)
(* what get returns.                                                       *)
(***************************************************************************)
THEOREM Durability ==
  ASSUME ~ClientMajor
  PROVE  Spec => []Durable
BY TablesObeyLaws, DurableState, Invariance, DataInvariance, PTL

(***************************************************************************)
(* The engine implements the abstract map for every set of keys and values *)
(* and every setting of its options, whatever the flushes and the          *)
(* background compactions do between two steps of a request and wherever   *)
(* the process crashes, save for the two places where a crash is known to  *)
(* lose data (a manifest being rewritten, a compaction's commit) and for   *)
(* compactions that clients request.                                       *)
(***************************************************************************)
THEOREM Refinement ==
  ASSUME ~ClientMajor, ~CrashInFlush, ~CrashInCommit
  PROVE  Spec => ImplementsKVStore
<1>1. IndInv /\ Data /\ [Next]_vars => [KV!Next]_KV!vars
  <2> SUFFICES ASSUME IndInv, Data, [Next]_vars PROVE [KV!Next]_KV!vars
    BY Zenon
  <2>1. IndInv'
    BY Zenon, TablesObeyLaws, StepIndInv
  <2> QED
    BY Zenon, <2>1, TablesObeyLaws, RefinementStep
<1> QED
  BY <1>1, TablesObeyLaws, InitRefines, Invariance, DataInvariance, PTL DEF Spec, ImplementsKVStore, KV!Spec
==============================================================================
