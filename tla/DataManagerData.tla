------------------------ MODULE DataManagerData ------------------------
(***************************************************************************)
(* Every step of DataManager preserves Data, what the tables hold: the     *)
(* readers return the same before and after a flush, a merge and a commit, *)
(* and a lookup finds the newest entry wherever it has been moved to.      *)
(***************************************************************************)
EXTENDS DataManagerTypes

USE DEF Threads

\* At most one thread is between two steps that write levels_ or the manifest.
LEMMA OneReadersWriterStep ==
  ASSUME SoundStep
  PROVE  OneReadersWriter'
<1> ~ClientMajor /\ TypeOK /\ Control /\ InputsAreThere /\ OneReadersWriter /\ Next
  BY Zenon DEF SoundStep, IndInv, Data
<1> USE DEF OneReadersWriter, BgPc, Committing
<1>1. CASE ServerStep
  BY Zenon, <1>1, ServerFrame
<1>2. CASE MinorStep
  <2>1. ASSUME MinorCount \/ MinorLock \/ MinorFlush \/ MinorConsumeSeg \/ MinorConsume PROVE OneReadersWriter'
    <3>1. UNCHANGED majorPc /\ (manifest' = manifest \/ (minor.pc = "flush" /\ manifest' = levels))
      BY Zenon, <2>1, MinorFrame
    <3>2. minor'.pc # "flush"
      BY <2>1, MinorMoves DEF MinorStep, NoMinor
    <3> QED
      BY Zenon, <3>1, <3>2
  <2>2. ASSUME MinorBuild PROVE OneReadersWriter'
    BY Zenon, <2>2 DEF MinorBuild, TypeOK, MinorType, majors
  <2>3. ASSUME MinorAdd PROVE OneReadersWriter'
    BY Zenon, <2>3 DEF MinorAdd, ReadersWriteLocked, majors
  <2> QED
    BY Zenon, <1>2, <2>1, <2>2, <2>3 DEF MinorStep
<1>3. CASE BgStep
  <2> USE DEF TypeOK, MajorType
  <2>1. ASSUME MajorPick("background") PROVE OneReadersWriter'
    BY Zenon, <2>1 DEF MajorPick, disk
  <2>2. ASSUME MajorMerge("background") PROVE OneReadersWriter'
    BY Zenon, <2>2 DEF MajorMerge
  <2>3. ASSUME MajorRemove0("background") PROVE OneReadersWriter'
    BY Zenon, <2>3 DEF MajorRemove0, MajorRemove, ReadersWriteLocked
  <2>4. ASSUME MajorRemove1("background") PROVE OneReadersWriter'
    BY Zenon, <2>4 DEF MajorRemove1, MajorRemove
  <2>5. ASSUME MajorFlush("background") PROVE OneReadersWriter'
    BY Zenon, <2>5 DEF MajorFlush
  <2>6. ASSUME MajorUnlink("background") PROVE OneReadersWriter'
    BY Zenon, <2>6 DEF MajorUnlink
  <2>7. ASSUME MajorAdd("background") PROVE OneReadersWriter'
    BY Zenon, <2>7 DEF MajorAdd
  <2>8. ASSUME MajorPanics("background") PROVE OneReadersWriter'
    BY Zenon, <2>8 DEF MajorPanics, disk
  <2> QED
    BY Zenon, <1>3, <2>1, <2>2, <2>3, <2>4, <2>5, <2>6, <2>7, <2>8 DEF BgStep
<1>4. CASE Crash
  BY Zenon, <1>4 DEF Crash, Die, NoMinor
<1>5. CASE RestartStep
  BY Zenon, <1>5, RestartFrame DEF NoMinor
<1> QED
  BY Zenon, <1>1, <1>2, <1>3, <1>4, <1>5, Steps

\* The inputs of a compaction are deleted by the compaction itself only.
LEMMA InputsAreThereStep ==
  ASSUME SoundStep
  PROVE  InputsAreThere'
<1> ~ClientMajor /\ TypeOK /\ Control /\ Files /\ InputsAreThere /\ OneReadersWriter /\ Next
  BY Zenon DEF SoundStep, IndInv, Data
<1>0. levels \in LevelFiles /\ (BgPc \notin {"idle", "dead"} => BgJob.level \in Levels /\ BgJob.level + 1 \in Levels)
  BY Zenon DEF TypeOK, MemoryType, MajorType, Control, JobLevels, BgPc, BgJob
<1>1. CASE ServerStep
  BY Zenon, <1>1, ServerFrame DEF InputsAreThere, BgPc, BgJob
<1>2. CASE MinorStep
  <2>1. ASSUME MinorCount \/ MinorLock \/ MinorFlush \/ MinorConsumeSeg \/ MinorConsume PROVE InputsAreThere'
    BY Zenon, <2>1, MinorFrame DEF InputsAreThere, BgPc, BgJob
  <2>2. ASSUME MinorBuild PROVE InputsAreThere'
    <3>1. UNCHANGED <<levels, majorPc, job>> /\ DOMAIN sst' = DOMAIN sst \cup {nextFile}
      BY Zenon, <2>2 DEF MinorBuild, majors
    <3> QED
      BY Zenon, <3>1 DEF InputsAreThere, BgPc, BgJob
  <2>3. ASSUME MinorAdd PROVE InputsAreThere'
    <3>1. UNCHANGED <<sst, majorPc, job>> /\ levels' = [levels EXCEPT ![0] = @ \cup {minor.file}]
      BY Zenon, <2>3 DEF MinorAdd, majors
    <3>2. BgPc' = BgPc /\ BgJob' = BgJob
      BY Zenon, <3>1 DEF BgPc, BgJob
    <3>3. \A l \in Levels : levels[l] \subseteq levels'[l]
      BY Zenon, <1>0, <3>1 DEF LevelFiles
    <3> QED
      BY Zenon, <1>0, <3>1, <3>2, <3>3 DEF InputsAreThere
  <2> QED
    BY Zenon, <1>2, <2>1, <2>2, <2>3 DEF MinorStep
<1>3. CASE BgStep
  <2>1. ASSUME MajorPick("background") PROVE InputsAreThere'
    BY Zenon, <1>3, <2>1, BgMoves DEF InputsAreThere
  <2>2. ASSUME MajorMerge("background") PROVE InputsAreThere'
    <3> DEFINE l == BgJob.level
    <3>1. /\ BgPc = "picked" /\ BgPc' = "merged"
      BY Zenon, <1>3, <2>2, BgMoves
    <3>2. /\ BgJob' = [level |-> l, in0 |-> levels[l], in1 |-> NextInputs(l), out |-> NewTables(l)]
          /\ DOMAIN sst \subseteq DOMAIN sst'
      BY Zenon, <2>2 DEF MajorMerge, BgJob, TypeOK, MajorType
    <3>3. /\ levels[l] \subseteq DOMAIN sst /\ levels[l + 1] \subseteq DOMAIN sst
          /\ levels[l] \cap levels[l + 1] = {}
      <4>1. l \in Levels /\ l + 1 \in Levels
        BY Zenon, <1>0, <3>1
      <4>2. l # l + 1
        BY <4>1 DEF Levels
      <4> QED
        BY Zenon, <4>1, <4>2 DEF Files, ReferencedFilesExist, Named, OneLevelEach
    <3>4. NextInputs(l) \subseteq levels[l + 1]
      BY Zenon DEF NextInputs, OtherReaders
    <3> HIDE DEF l
    <3> QED
      BY Zenon, <3>1, <3>2, <3>3, <3>4 DEF InputsAreThere
  <2>3. ASSUME MajorRemove0("background") PROVE InputsAreThere'
    <3>1. BgPc = "merged" /\ BgPc' = "flush0" /\ UNCHANGED sst /\ BgJob' = BgJob
      BY Zenon, <1>3, <2>3, BgMoves DEF BgJob
    <3> QED
      BY Zenon, <3>1 DEF InputsAreThere
  <2>4. ASSUME MajorRemove1("background") PROVE InputsAreThere'
    <3>1. BgPc = "remove1" /\ BgPc' = "flush1" /\ UNCHANGED sst /\ BgJob' = BgJob
      BY Zenon, <1>3, <2>4, BgMoves DEF BgJob
    <3> QED
      BY Zenon, <3>1 DEF InputsAreThere
  <2>5. ASSUME MajorFlush("background") PROVE InputsAreThere'
    <3>1. /\ UNCHANGED <<levels, sst>>
          /\ \/ BgPc = "flush0" /\ BgPc' = "unlink0" /\ BgJob' = BgJob
             \/ BgPc = "flush1" /\ BgPc' = "unlink1" /\ BgJob' = BgJob
             \/ BgPc = "flush2" /\ BgPc' = "idle" /\ BgJob' = NoJob
      BY Zenon, <1>3, <2>5, BgMoves DEF BgJob
    <3> QED
      BY <3>1 DEF InputsAreThere, NoJob
  <2>6. ASSUME MajorUnlink("background") PROVE InputsAreThere'
    <3>1. PICK fs : /\ DOMAIN sst' = DOMAIN sst \ fs /\ BgJob' = BgJob
                    /\ \/ BgPc = "unlink0" /\ BgPc' = "remove1" /\ fs = BgJob.in0
                       \/ BgPc = "unlink1" /\ BgPc' = "add" /\ fs = BgJob.in1
      BY Zenon, <1>3, <2>6, BgMoves DEF BgJob
    <3> QED
      BY Zenon, <3>1 DEF InputsAreThere
  <2>7. ASSUME MajorAdd("background") PROVE InputsAreThere'
    <3>1. /\ BgPc = "add" /\ BgPc' = "flush2" /\ UNCHANGED sst /\ BgJob' = BgJob
          /\ levels' = [levels EXCEPT ![BgJob.level + 1] = @ \cup BgJob.out]
      BY Zenon, <1>3, <2>7, BgMoves DEF BgJob
    <3>2. BgJob.out \subseteq levels'[BgJob.level + 1]
      BY Zenon, <1>0, <3>1 DEF LevelFiles
    <3> QED
      BY Zenon, <3>1, <3>2 DEF InputsAreThere
  <2>8. ASSUME MajorPanics("background") PROVE InputsAreThere'
    BY <1>3, <2>8, BgMoves DEF InputsAreThere, NoJob
  <2> QED
    BY Zenon, <1>3, <2>1, <2>2, <2>3, <2>4, <2>5, <2>6, <2>7, <2>8 DEF BgStep
<1>4. CASE Crash
  <2>1. majorPc' = [t \in Threads |-> "idle"] /\ job' = [t \in Threads |-> NoJob]
    BY Zenon, <1>4 DEF Crash, Die
  <2>2. BgPc' = "idle" /\ BgJob' = NoJob
    BY Zenon, <2>1 DEF BgPc, BgJob, Threads
  <2> QED
    BY <2>2 DEF InputsAreThere, NoJob
<1>5. CASE RestartStep
  <2>1. BgPc = "idle" /\ BgPc' = BgPc /\ BgJob' = BgJob
    BY Zenon, <1>5, RestartFrame DEF BgPc, BgJob
  <2> QED
    BY Zenon, <2>1 DEF InputsAreThere
<1> QED
  BY Zenon, <1>1, <1>2, <1>3, <1>4, <1>5, Steps

\* A memtable that is rotated has an entry, and so has every table built
\* from it, from a merge or from a segment.
LEMMA TablesHaveKeysStep ==
  ASSUME TableLaws, SoundStep, Shape
  PROVE  TablesHaveKeys'
<1> /\ ~ClientMajor /\ TypeOK /\ Control /\ Files
    /\ TablesHaveKeys /\ InputsAreThere /\ OneReadersWriter /\ Next
  BY Zenon DEF SoundStep, IndInv, Data
<1>0. imm \in Seq(Table) /\ Len(imm) \in Nat
  BY DEF TypeOK, MemoryType
<1>1. CASE ServerStep
  <2>1. UNCHANGED <<phase, sst>>
    BY Zenon, <1>1, ServerFrame
  <2>2. phase # "redo"
    BY Zenon, <1>1 DEF ServerStep, GetFromMemtables, Insert, GetFromReaders, Remove, MemInsert, NewSeg, Control, Quiet
  <2>3. \A i \in 1..Len(imm') : KeysOf(imm'[i]) # {}
    <3>1. ASSUME MemInsert PROVE \A i \in 1..Len(imm') : KeysOf(imm'[i]) # {}
      <4> DEFINE t == [mem EXCEPT ![req.key] = Entry(req)]
      <4>1. imm' = imm \/ imm' = Append(imm, t)
        BY Zenon, <3>1 DEF MemInsert
      <4>2. req.key \in Keys /\ Entry(req) # Absent /\ mem \in Table
        BY Zenon, <3>1, ValsAssumption DEF MemInsert, TypeOK, RequestType, Pending, Request, Control, RequestShape, MemoryType
      <4>3. t[req.key] # Absent
        BY Zenon, <4>2 DEF Table
      <4>4. KeysOf(t) # {}
        BY Zenon, <4>2, <4>3 DEF KeysOf
      <4>5. imm \in Seq(Table) /\ t \in Table
        <5>1. Entry(req) \in Vals \cup {Tombstone}
          BY Zenon, <3>1 DEF MemInsert, Control, RequestShape
        <5> QED
          BY Zenon, <1>0, <4>2, <5>1 DEF TypeOK, MemoryType, Table
      <4> HIDE DEF t
      <4>6. CASE imm' = Append(imm, t)
        <5>1. /\ Len(imm) \in Nat /\ Len(imm') = Len(imm) + 1 /\ imm'[Len(imm) + 1] = t
              /\ \A i \in 1..Len(imm) : imm'[i] = imm[i]
          BY <4>5, <4>6, AppendToSeq
        <5>2. ASSUME NEW i \in 1..Len(imm') PROVE i \in 1..Len(imm) \/ i = Len(imm) + 1
          BY <5>1
        <5> QED
          BY Zenon, <1>0, <4>4, <5>1, <5>2 DEF TablesHaveKeys
      <4> QED
        BY Zenon, <1>0, <4>1, <4>6 DEF TablesHaveKeys
    <3>2. ~MemInsert => UNCHANGED imm
      BY Zenon, <1>1 DEF ServerStep, GetFromMemtables, Insert, WalAppend, GetFromReaders, Remove, NewSeg, memory
    <3> QED
      BY Zenon, <3>1, <3>2 DEF TablesHaveKeys
  <2> QED
    BY Zenon, <2>1, <2>2, <2>3 DEF TablesHaveKeys
<1>2. CASE MinorStep
  <2>0. phase' = phase /\ phase # "redo"
    BY <1>2 DEF MinorStep, MinorCount, MinorLock, MinorBuild, MinorAdd, MinorFlush, MinorConsumeSeg, MinorConsume,
       Control, Quiet, NoMinor
  <2>1. ASSUME MinorCount \/ MinorLock \/ MinorAdd \/ MinorFlush \/ MinorConsumeSeg PROVE TablesHaveKeys'
    <3>1. UNCHANGED <<imm, sst>>
      BY Zenon, <2>1 DEF MinorCount, MinorLock, MinorAdd, MinorFlush, MinorConsumeSeg, memory, disk
    <3> QED
      BY Zenon, <2>0, <3>1 DEF TablesHaveKeys
  <2>2. ASSUME MinorBuild PROVE TablesHaveKeys'
    <3>1. /\ UNCHANGED imm
          /\ sst' = [f \in DOMAIN sst \cup {nextFile} |-> IF f = nextFile THEN imm[minor.done + 1] ELSE sst[f]]
      BY Zenon, <2>2 DEF MinorBuild
    <3>2. minor.done + 1 \in 1..Len(imm)
      BY <1>0, <2>2 DEF MinorBuild, Control, MinorInRange, TypeOK, MinorType
    <3> QED
      BY Zenon, <2>0, <3>1, <3>2 DEF TablesHaveKeys
  <2>3. ASSUME MinorConsume PROVE TablesHaveKeys'
    <3>1. imm' = SubSeq(imm, minor.count + 1, Len(imm)) /\ UNCHANGED sst
      BY Zenon, <2>3 DEF MinorConsume, disk
    <3>2. minor.count + 1 \in 1..(Len(imm) + 1) /\ minor.count \in Nat
      BY <1>0, <2>3 DEF MinorConsume, Control, MinorInRange, TypeOK, MinorType
    <3>3. /\ Len(imm') = Len(imm) - minor.count
          /\ \A i \in 1..Len(imm') : imm'[i] = imm[minor.count + i]
      BY SMTT(30), <1>0, <3>1, <3>2, SliceOfSeq
    <3>4. \A i \in 1..Len(imm') : minor.count + i \in 1..Len(imm)
      BY <1>0, <3>2, <3>3
    <3> QED
      BY Zenon, <2>0, <3>1, <3>3, <3>4 DEF TablesHaveKeys
  <2> QED
    BY Zenon, <1>2, <2>1, <2>2, <2>3 DEF MinorStep
<1>3. CASE BgStep
  <2>1. UNCHANGED <<phase, imm, wal>>
    BY Zenon, <1>3, BgMoves
  <2>2. \A f \in DOMAIN sst' : KeysOf(sst'[f]) # {}
    <3>1. ASSUME MajorMerge("background") PROVE \A f \in DOMAIN sst' : KeysOf(sst'[f]) # {}
      <4>1. Keyed(sst', BgJob'.out)
        BY Zenon, <3>1, MergeStep
      <4>2. BgJob'.out = NewTables(BgJob.level)
        BY Zenon, <3>1 DEF MajorMerge, BgJob, TypeOK, MajorType
      <4>3. /\ DOMAIN sst' = DOMAIN sst \cup NewTables(BgJob.level)
            /\ \A f \in DOMAIN sst' : f \notin NewTables(BgJob.level) => sst'[f] = sst[f]
        BY Zenon, <3>1 DEF MajorMerge, BgJob
      <4> QED
        BY Zenon, <4>1, <4>2, <4>3 DEF TablesHaveKeys, Keyed
    <3>2. ASSUME MajorUnlink("background") PROVE \A f \in DOMAIN sst' : KeysOf(sst'[f]) # {}
      BY Zenon, <3>2 DEF MajorUnlink, TablesHaveKeys
    <3>3. ASSUME ~MajorMerge("background"), ~MajorUnlink("background") PROVE UNCHANGED sst
      BY Zenon, <1>3, <3>3, BgMoves DEF BgStep
    <3> QED
      BY Zenon, <3>1, <3>2, <3>3 DEF TablesHaveKeys
  <2> QED
    BY Zenon, <2>1, <2>2 DEF TablesHaveKeys
<1>4. CASE Crash
  BY <1>4 DEF Crash, Die, TablesHaveKeys, disk
<1>5. CASE RestartStep
  <2>1. imm = <<>> /\ imm' = <<>>
    BY Zenon, <1>5, RestartFrame DEF Control, Quiet
  <2>2. ASSUME RedoBuild PROVE \A f \in DOMAIN sst' : KeysOf(sst'[f]) # {}
    <3>1. /\ phase = "redo" /\ redoFiles' = nextFile..(nextFile + Len(wal) - 1)
          /\ sst' = [f \in DOMAIN sst \cup redoFiles' |->
                       IF f \in redoFiles' THEN Replay(wal[f - nextFile + 1]) ELSE sst[f]]
      BY Zenon, <2>2 DEF RedoBuild
    <3>2. nextFile \in Nat /\ Len(wal) \in Nat /\ wal \in Seq(Seq(Record))
      BY DEF TypeOK, MemoryType, DiskType
    <3>3. ASSUME NEW f \in redoFiles' PROVE KeysOf(Replay(wal[f - nextFile + 1])) # {}
      <4>1. f - nextFile + 1 \in 1..Len(wal)
        BY <3>1, <3>2
      <4>2. wal[f - nextFile + 1] # <<>> /\ wal[f - nextFile + 1] \in Seq(Record)
        BY <3>1, <3>2, <4>1 DEF TablesHaveKeys
      <4> QED
        BY Zenon, <4>2 DEF TableLaws, ReplayHasKeysLaw
    <3> QED
      BY Zenon, <3>1, <3>3 DEF TablesHaveKeys
  <2>3. ~RedoBuild => UNCHANGED sst
    BY ZenonT(30), <1>5 DEF RestartStep, DropEmptySeg, Restart, RestartFails, RedoAdd, RedoFlush, RedoDelete, disk
  <2>4. phase' = "redo" => \A i \in 1..Len(wal') : wal'[i] # <<>>
    BY Zenon, <1>5 DEF RestartStep, DropEmptySeg, Restart, RestartFails, RedoBuild, RedoAdd, RedoFlush, RedoDelete, disk
  <2> QED
    BY Zenon, <2>1, <2>2, <2>3, <2>4 DEF TablesHaveKeys
<1> QED
  BY Zenon, <1>1, <1>2, <1>3, <1>4, <1>5, Steps

(***************************************************************************)
(* The steps of a commit do not change what it leaves behind.              *)
(***************************************************************************)
LEMMA SameLevels ==
  ASSUME NEW lv \in LevelFiles, NEW lw \in LevelFiles, \A l \in Levels : lw[l] = lv[l]
  PROVE  lw = lv
BY DEF LevelFiles

\* What a commit will leave is fixed when it begins.
LEMMA AfterCommitStays ==
  ASSUME TypeOK, Control, TypeOK', Control', BgStep,
         ~MajorPick("background"), ~MajorMerge("background"), ~MajorPanics("background"),
         BgPc' # "idle"
  PROVE  AfterCommit' = AfterCommit /\ BgPc \notin {"idle", "dead"} /\ BgJob' = BgJob
<1> DEFINE l == BgJob.level
<1>1. CommitShape /\ CommitShape'
  BY AfterCommitLevels, PTL
<1>2. levels \in LevelFiles
  BY Zenon DEF TypeOK, MemoryType
<1>3. CASE MajorRemove0("background") \/ MajorRemove1("background") \/ MajorAdd("background")
  <2>1. BgPc \notin {"idle", "dead"} /\ BgPc' \notin {"idle", "dead"} /\ BgJob' = BgJob
    BY Zenon, <1>3, BgMoves DEF BgJob
  <2>2. l \in Levels /\ l + 1 \in Levels /\ AfterCommit \in LevelFiles /\ AfterCommit' \in LevelFiles
    BY Zenon, <1>1, <2>1 DEF CommitShape
  <2>3. l # l + 1
    BY <2>2 DEF Levels
  <2>4. \A m \in Levels :
          levels'[m] = IF m = l THEN IF MajorRemove0("background") THEN levels[m] \ BgJob.in0 ELSE levels[m]
                       ELSE IF m = l + 1 THEN
                              IF MajorRemove1("background") THEN levels[m] \ BgJob.in1
                              ELSE IF MajorAdd("background") THEN levels[m] \cup BgJob.out ELSE levels[m]
                       ELSE levels[m]
    <3> HIDE DEF l
    <3>1. ASSUME MajorRemove0("background")
          PROVE  levels' = [levels EXCEPT ![l] = @ \ BgJob.in0] /\ ~MajorRemove1("background") /\ ~MajorAdd("background")
      BY Zenon, <3>1, BgMoves DEF l
    <3>2. ASSUME MajorRemove1("background")
          PROVE  levels' = [levels EXCEPT ![l + 1] = @ \ BgJob.in1] /\ ~MajorRemove0("background")
      BY Zenon, <3>2, BgMoves DEF l
    <3>3. ASSUME MajorAdd("background")
          PROVE  levels' = [levels EXCEPT ![l + 1] = @ \cup BgJob.out] /\ ~MajorRemove0("background")
                 /\ ~MajorRemove1("background")
      BY Zenon, <3>3, BgMoves DEF l
    <3> HIDE DEF BgStep
    <3> QED
      BY Zenon, <1>2, <1>3, <2>2, <2>3, <3>1, <3>2, <3>3 DEF LevelFiles
  <2>5. ASSUME NEW m \in Levels PROVE AfterCommit'[m] = AfterCommit[m]
    <3>1. CASE m = l
      BY Zenon, <1>1, <2>1, <2>2, <2>3, <2>4, <3>1 DEF CommitShape
    <3>2. CASE m = l + 1
      BY Zenon, <1>1, <2>1, <2>2, <2>3, <2>4, <3>2 DEF CommitShape
    <3>3. CASE m # l /\ m # l + 1
      BY Zenon, <1>1, <2>1, <2>2, <2>3, <2>4, <3>3 DEF CommitShape
    <3> QED
      BY Zenon, <3>1, <3>2, <3>3
  <2> QED
    BY Zenon, <2>1, <2>2, <2>5, SameLevels
<1>4. CASE MajorFlush("background") \/ MajorUnlink("background")
  <2>1. UNCHANGED <<levels, job>> /\ BgPc \notin {"idle", "dead"}
    BY Zenon, <1>4, BgMoves
  <2> QED
    BY Zenon, <2>1 DEF AfterCommit, BgJob
<1> QED
  BY Zenon, <1>3, <1>4 DEF BgStep

\* and in the end it is in place.
LEMMA CommitDone ==
  ASSUME TypeOK, Control, Files, InputsAreThere, BgPc = "flush2"
  PROVE  AfterCommit = levels
<1> DEFINE l == BgJob.level
<1>1. CommitShape
  BY Zenon, AfterCommitLevels
<1>2. l \in Levels /\ l + 1 \in Levels /\ AfterCommit \in LevelFiles /\ levels \in LevelFiles
  BY Zenon, <1>1 DEF CommitShape, TypeOK, MemoryType
<1>3. BgJob.in0 \cap Named(levels) = {} /\ BgJob.in1 \cap Named(levels) = {} /\ BgJob.out \subseteq levels[l + 1]
  BY Zenon DEF Files, RemovedInputsAreGone, Removed0, Removed1, InputsAreThere, BgPc, BgJob
<1>4. BgJob.in0 \cap levels[l] = {} /\ BgJob.in1 \cap levels[l + 1] = {}
  BY Zenon, <1>2, <1>3 DEF Named
<1>5. ASSUME NEW m \in Levels PROVE AfterCommit[m] = levels[m]
  BY Zenon, <1>1, <1>2, <1>3, <1>4 DEF CommitShape
<1> QED
  BY Zenon, <1>2, <1>5, SameLevels

(***************************************************************************)
(* No step changes or deletes a table that a reader has or that a commit   *)
(* is about to give it.                                                    *)
(***************************************************************************)
LEMMA NewNumbers ==
  ASSUME TypeOK, Control, Files, Running, NEW f \in Named(levels) \cup BgJob.out
  PROVE  f \in Nat /\ f < nextFile
BY Zenon, UsedNumbers DEF BgJob

\* A commit leaves only old files and its own outputs.
LEMMA NamedAfterCommit ==
  ASSUME TypeOK, Control, Merging
  PROVE  /\ Named(AfterCommit) \subseteq Named(levels) \cup BgJob.out /\ phase = "up"
         /\ BgPc \notin {"idle", "dead"}
         /\ \A l \in Levels : AfterCommit[l] \subseteq Named(AfterCommit)
<1>1. BgPc \notin {"idle", "dead"}
  BY Zenon DEF Merging, Committing, BgPc
<1>2. phase = "up"
  BY Zenon, <1>1 DEF Control, Quiet, BgPc
<1>3. ASSUME NEW l \in Levels PROVE AfterCommit[l] \subseteq levels[l] \cup BgJob.out
  BY Zenon, <1>1, AfterCommitLevels DEF CommitShape
<1> QED
  BY Zenon, <1>1, <1>2, <1>3 DEF Named

\* The tables of levels_, and those a commit will leave, keep their contents.
LEMMA TablesKept ==
  ASSUME TableLaws, SoundStep
  PROVE  /\ \A f \in Named(levels) : sst'[f] = sst[f]
         /\ Merging => \A f \in Named(AfterCommit) : sst'[f] = sst[f]
<1> ~ClientMajor /\ TypeOK /\ Control /\ Files /\ InputsAreThere /\ OneReadersWriter /\ Next
  BY Zenon DEF SoundStep, IndInv, Data
<1>1. Named(levels) \subseteq DOMAIN sst
  BY Zenon DEF Files, ReferencedFilesExist
<1>2. ASSUME MinorBuild
      PROVE  \A f \in Named(levels) \cup BgJob.out : sst'[f] = sst[f] \/ f \notin DOMAIN sst
  <2>1. /\ sst' = [f \in DOMAIN sst \cup {nextFile} |-> IF f = nextFile THEN imm[minor.done + 1] ELSE sst[f]]
        /\ Running
    BY <1>2 DEF MinorBuild, Control, Quiet, NoMinor, Running
  <2>2. nextFile \in Nat
    BY Zenon DEF TypeOK, MemoryType
  <2>3. \A f \in Named(levels) \cup BgJob.out : f # nextFile
    BY <2>1, <2>2, NewNumbers
  <2> QED
    BY Zenon, <2>1, <2>3
<1>3. ASSUME MajorMerge("background") PROVE \A f \in Named(levels) : sst'[f] = sst[f]
  <2> DEFINE new == NewTables(BgJob.level)
  <2>1. /\ \A f \in DOMAIN sst : f \notin new => sst'[f] = sst[f]
        /\ majorPc["background"] = "picked"
    BY Zenon, <1>3 DEF MajorMerge, BgJob
  <2>2. nextFile \in Nat /\ PartCount(MergedInputs(BgJob.level), SstMaxSize) \in Nat
    BY Zenon, <2>1, MergedInputsType DEF TypeOK, MemoryType, BgJob
  <2>3. Running
    BY Zenon, <2>1 DEF Control, Quiet, Running
  <2>4. \A f \in Named(levels) : f \notin new
    BY <2>2, <2>3, NewNumbers DEF NewTables
  <2> QED
    BY Zenon, <1>1, <2>1, <2>4
<1>4. ASSUME RedoBuild PROVE \A f \in Named(levels) : sst'[f] = sst[f]
  <2>1. /\ phase = "redo" /\ redoFiles' = nextFile..(nextFile + Len(wal) - 1)
        /\ sst' = [f \in DOMAIN sst \cup redoFiles' |->
                     IF f \in redoFiles' THEN Replay(wal[f - nextFile + 1]) ELSE sst[f]]
    BY Zenon, <1>4 DEF RedoBuild
  <2>2. nextFile \in Nat /\ Len(wal) \in Nat /\ Running
    BY <2>1 DEF TypeOK, MemoryType, DiskType, Running
  <2>3. \A f \in Named(levels) : f \notin redoFiles'
    BY <2>1, <2>2, NewNumbers
  <2> QED
    BY Zenon, <1>1, <2>1, <2>3
<1>5. ASSUME MajorUnlink("background")
      PROVE  \A f \in Named(levels) \cup BgJob.out : sst'[f] = sst[f] \/ f \notin DOMAIN sst
  <2>1. PICK fs : /\ sst' = [f \in DOMAIN sst \ fs |-> sst[f]]
                  /\ \/ BgPc = "unlink0" /\ fs = BgJob.in0
                     \/ BgPc = "unlink1" /\ fs = BgJob.in1
    BY Zenon, <1>5, BgMoves DEF BgStep
  <2>2. fs \cap (Named(levels) \cup BgJob.out) = {}
    BY Zenon, <2>1 DEF Files, OutputsAreFresh, Unadded, RemovedInputsAreGone, Removed0, Removed1, InputsOf, BgPc, BgJob
  <2> QED
    BY Zenon, <2>1, <2>2
<1>6. \/ MinorBuild \/ MajorMerge("background") \/ MajorUnlink("background") \/ RedoBuild \/ UNCHANGED sst
  <2>1. CASE ServerStep
    BY Zenon, <2>1, ServerFrame
  <2>2. CASE MinorStep
    BY Zenon, <2>2, MinorFrame DEF MinorStep, MinorAdd
  <2>3. CASE BgStep
    BY Zenon, <2>3, BgMoves DEF BgStep
  <2>4. CASE Crash
    BY Zenon, <2>4 DEF Crash, disk
  <2>5. CASE RestartStep
    BY Zenon, <2>5 DEF RestartStep, DropEmptySeg, Restart, RestartFails, RedoAdd, RedoFlush, RedoDelete, disk
  <2> QED
    BY Zenon, <2>1, <2>2, <2>3, <2>4, <2>5, Steps
<1>7. ASSUME Merging PROVE Named(AfterCommit) \subseteq DOMAIN sst
  <2>1. Named(AfterCommit) \subseteq Named(levels) \cup BgJob.out
    BY Zenon, <1>7, NamedAfterCommit
  <2>2. BgJob.out \subseteq DOMAIN sst
    <3>1. CASE BgPc = "flush2"
      <4>1. levels[BgJob.level + 1] \subseteq Named(levels)
        BY Zenon, <1>7, NamedAfterCommit, AfterCommitLevels DEF CommitShape, Named
      <4> QED
        BY Zenon, <1>1, <3>1, <4>1 DEF InputsAreThere
    <3>2. CASE BgPc # "flush2"
      BY Zenon, <1>7, <3>2 DEF Files, OutputsAreFresh, Unadded, Merging, Committing, BgPc, BgJob
    <3> QED
      BY Zenon, <3>1, <3>2
  <2> QED
    BY Zenon, <1>1, <2>1, <2>2
<1>8. ~Merging \/ ~(MajorMerge("background") \/ RedoBuild)
  <2>1. MajorMerge("background") => ~Merging
    BY Zenon DEF MajorMerge, Merging, Committing, BgPc
  <2>2. RedoBuild => ~Merging
    BY Zenon, NamedAfterCommit DEF RedoBuild
  <2> QED
    BY Zenon, <2>1, <2>2
<1>9. \A f \in Named(levels) : sst'[f] = sst[f]
  BY Zenon, <1>1, <1>2, <1>3, <1>4, <1>5, <1>6
<1>10. ASSUME Merging PROVE \A f \in Named(AfterCommit) : sst'[f] = sst[f]
  <2>1. Named(AfterCommit) \subseteq Named(levels) \cup BgJob.out
    BY <1>10, NamedAfterCommit
  <2> QED
    BY Zenon, <1>2, <1>5, <1>6, <1>7, <1>8, <1>10, <2>1
<1> QED
  BY Zenon, <1>9, <1>10

\* A file minor_compaction adds while a merge is under way stays on level 0.
LEMMA MinorAddAfterCommit ==
  ASSUME TableLaws, TypeOK, Control, Files, OneReadersWriter, MinorAdd, TypeOK', Control', Merging'
  PROVE  /\ BgPc = "merged" /\ BgPc' = "merged"
         /\ DOMAIN AfterCommit = Levels /\ DOMAIN AfterCommit' = Levels
         /\ AfterCommit'[0] = AfterCommit[0] \cup {minor.file}
         /\ \A l \in Levels : l # 0 => AfterCommit'[l] = AfterCommit[l]
<1> DEFINE l == BgJob.level
<1>1. /\ UNCHANGED <<majorPc, job, sst>> /\ ~ReadersWriteLocked
      /\ levels' = [levels EXCEPT ![0] = @ \cup {minor.file}] /\ minor.pc = "add"
  BY Zenon DEF MinorAdd, majors
<1>2. BgPc' = BgPc /\ BgJob' = BgJob /\ BgPc = "merged"
  BY Zenon, <1>1 DEF BgPc, BgJob, Merging, ReadersWriteLocked, Committing
<1>3. CommitShape /\ CommitShape'
  BY AfterCommitLevels, PTL
<1>4. l \in Levels /\ l + 1 \in Levels /\ AfterCommit \in LevelFiles /\ AfterCommit' \in LevelFiles
  BY Zenon, <1>2, <1>3 DEF CommitShape
<1>5. l # l + 1 /\ l + 1 # 0
  BY <1>4 DEF Levels
<1>6. levels'[0] = levels[0] \cup {minor.file} /\ \A m \in Levels : m # 0 => levels'[m] = levels[m]
  BY Zenon, <1>1, LevelNumbers DEF TypeOK, MemoryType, LevelFiles
<1>7. minor.file \notin BgJob.in0
  BY Zenon, <1>1 DEF Files, MinorFileIsFresh, InputsOf, BgJob
<1>8. /\ l = 0 => /\ AfterCommit[0] = levels[0] \ BgJob.in0
                  /\ AfterCommit'[0] = levels'[0] \ BgJob.in0
      /\ l # 0 => AfterCommit[0] = levels[0] /\ AfterCommit'[0] = levels'[0]
  BY Zenon, <1>2, <1>3, <1>5, LevelNumbers DEF CommitShape
<1>9. ASSUME NEW m \in Levels, m # 0 PROVE AfterCommit'[m] = AfterCommit[m]
  BY ZenonT(40), <1>2, <1>3, <1>6, <1>9 DEF CommitShape
<1>10. AfterCommit'[0] = AfterCommit[0] \cup {minor.file}
  BY Zenon, <1>6, <1>7, <1>8
<1> QED
  BY Zenon, <1>2, <1>4, <1>9, <1>10 DEF LevelFiles

(***************************************************************************)
(* The files of a level above 0 stay disjoint.                             *)
(***************************************************************************)
LEMMA LevelsStayDisjoint ==
  ASSUME TableLaws, SoundStep, Shape
  PROVE  Sorted(sst', levels')
<1> /\ ~ClientMajor /\ TypeOK /\ Control /\ Files
    /\ InputsAreThere /\ OneReadersWriter /\ Next /\ TypeOK' /\ Control'
  BY Zenon DEF SoundStep, IndInv, Data
<1>1. DOMAIN levels = Levels /\ DOMAIN levels' = Levels /\ Sorted(sst, levels)
  BY Zenon DEF TypeOK, MemoryType, LevelFiles, Shape, Readable
<1>2. \A l \in Levels : \A f \in levels[l] : sst'[f] = sst[f]
  BY Zenon, TablesKept DEF Named
<1>3. ASSUME \A l \in Levels : l # 0 => levels'[l] \subseteq levels[l] PROVE Sorted(sst', levels')
  BY <1>1, <1>2, <1>3, SortedKept
<1>4. CASE ServerStep
  BY Zenon, <1>3, <1>4, ServerFrame
<1>5. CASE MinorStep
  <2>1. levels' = levels \/ levels' = [levels EXCEPT ![0] = @ \cup {minor.file}]
    BY Zenon, <1>5, MinorFrame DEF MinorStep, MinorBuild, MinorAdd
  <2> QED
    BY Zenon, <1>1, <1>3, <2>1
<1>6. CASE BgStep
  <2>1. CASE MajorAdd("background")
    <3>1. /\ BgPc = "add" /\ BgPc' = "flush2" /\ BgJob' = BgJob /\ sst' = sst
          /\ levels' = [levels EXCEPT ![BgJob.level + 1] = @ \cup BgJob.out]
      BY Zenon, <1>6, <2>1, BgMoves DEF BgJob
    <3>2. Merging /\ CommitShape
      BY Zenon, <3>1, AfterCommitLevels DEF Merging, Committing, BgPc
    <3>3. Sorted(sst, AfterCommit) /\ DOMAIN AfterCommit = Levels
      BY Zenon, <3>2 DEF Shape, Readable
    <3>4. BgJob.level \in Levels /\ BgJob.level + 1 \in Levels
      BY Zenon, <3>1, <3>2 DEF CommitShape
    <3>5. BgJob.in0 \cap levels[BgJob.level] = {} /\ BgJob.in1 \cap levels[BgJob.level + 1] = {}
      <4>1. RemovedInputsAreGone
        BY Zenon DEF Files
      <4> QED
        BY <3>1, <3>4, <4>1 DEF RemovedInputsAreGone, Removed0, Removed1, BgPc, BgJob, Named
    <3>6. BgJob.level # BgJob.level + 1
      BY <3>4 DEF Levels
    <3>7. ASSUME NEW l \in Levels PROVE levels'[l] \subseteq AfterCommit[l]
      BY Zenon, <1>1, <3>1, <3>2, <3>4, <3>5, <3>6 DEF CommitShape
    <3> QED
      BY Zenon, <1>1, <3>1, <3>3, <3>7, SortedKept
  <2>2. CASE MajorRemove0("background") \/ MajorRemove1("background")
    <3>1. PICK l, fs : levels' = [levels EXCEPT ![l] = @ \ fs]
      BY Zenon, <1>6, <2>2, BgMoves
    <3> QED
      BY Zenon, <1>1, <1>3, <3>1
  <2>3. CASE ~MajorAdd("background") /\ ~MajorRemove0("background") /\ ~MajorRemove1("background")
    <3>1. levels' = levels
      BY Zenon, <1>6, <2>3, BgMoves DEF BgStep
    <3> QED
      BY Zenon, <1>3, <3>1
  <2> QED
    BY Zenon, <2>1, <2>2, <2>3
<1>7. CASE Crash
  <2>1. \A l \in Levels : levels'[l] = {}
    BY Zenon, <1>7 DEF Crash, Die, NoFiles
  <2> QED
    BY Zenon, <1>3, <2>1
<1>8. CASE RestartStep
  <2>1. CASE Restart
    <3>1. levels' = manifest /\ manifest # Torn /\ sst' = sst
      BY Zenon, <2>1 DEF Restart, Loadable, disk
    <3> QED
      BY Zenon, <3>1 DEF Shape, Readable
  <2>2. CASE ~Restart
    <3>1. levels' = levels \/ levels' = [levels EXCEPT ![0] = @ \cup redoFiles]
      BY Zenon, <1>8, <2>2 DEF RestartStep, DropEmptySeg, RestartFails, RedoBuild, RedoAdd, RedoFlush, RedoDelete, memory
    <3> QED
      BY Zenon, <1>1, <1>3, <3>1
  <2> QED
    BY Zenon, <2>1, <2>2
<1> QED
  BY Zenon, <1>4, <1>5, <1>6, <1>7, <1>8, Steps

\* The levels that a commit will leave stay sorted while flushes add to level 0.
LEMMA AfterCommitStaysDisjoint ==
  ASSUME TableLaws, SoundStep, Shape, Merging'
  PROVE  Sorted(sst', AfterCommit')
<1> /\ ~ClientMajor /\ TypeOK /\ Control /\ Files /\ TablesHaveKeys
    /\ InputsAreThere /\ OneReadersWriter /\ Next /\ TypeOK' /\ Control'
  BY Zenon DEF SoundStep, IndInv, Data
<1>1. ASSUME Merging, DOMAIN AfterCommit' = DOMAIN AfterCommit,
             \A l \in Levels : l # 0 => AfterCommit'[l] = AfterCommit[l]
      PROVE  Sorted(sst', AfterCommit')
  <2>1. Sorted(sst, AfterCommit) /\ DOMAIN AfterCommit = Levels
    BY Zenon, <1>1 DEF Shape, Readable
  <2>2. \A l \in Levels : \A f \in AfterCommit[l] : sst'[f] = sst[f]
    BY Zenon, <1>1, TablesKept DEF Named
  <2> QED
    BY <1>1, <2>1, <2>2, SortedKept
<1>2. ASSUME UNCHANGED <<levels, majorPc, job>> PROVE Sorted(sst', AfterCommit')
  <2>1. Merging /\ AfterCommit' = AfterCommit
    BY Zenon, <1>2 DEF Merging, Committing, BgPc, BgJob, AfterCommit
  <2> QED
    BY Zenon, <1>1, <2>1
<1>3. CASE ServerStep
  BY Zenon, <1>2, <1>3, ServerFrame
<1>4. CASE MinorStep
  <2>1. CASE MinorAdd
    BY Zenon, <1>1, <2>1, MinorAddAfterCommit DEF Merging
  <2>2. CASE ~MinorAdd
    BY Zenon, <1>2, <1>4, <2>2, MinorFrame DEF MinorStep, MinorBuild, majors
  <2> QED
    BY Zenon, <2>1, <2>2
<1>5. CASE BgStep
  <2>1. CASE MajorMerge("background")
    BY Zenon, <2>1, MergeStep
  <2>2. CASE MajorPick("background") \/ MajorPanics("background")
    BY Zenon, <1>5, <2>2, BgMoves DEF Merging, Committing, BgPc
  <2>3. CASE ~MajorMerge("background") /\ ~MajorPick("background") /\ ~MajorPanics("background")
    <3>1. BgPc' # "idle"
      BY Zenon DEF Merging, Committing, BgPc
    <3>2. AfterCommit' = AfterCommit
      BY Zenon, <1>5, <2>3, <3>1, AfterCommitStays
    <3>3. Merging
      BY Zenon, <1>5, <2>3, BgMoves DEF BgStep, Merging, Committing, BgPc
    <3> QED
      BY Zenon, <1>1, <3>2, <3>3
  <2> QED
    BY Zenon, <2>1, <2>2, <2>3
<1>6. CASE Crash
  BY Zenon, <1>6 DEF Crash, Die, Merging, Committing, BgPc
<1>7. CASE RestartStep
  BY Zenon, <1>7, RestartFrame DEF Merging, Committing, BgPc
<1> QED
  BY Zenon, <1>3, <1>4, <1>5, <1>6, <1>7, Steps

\* Every step keeps the files of a level above 0 disjoint.
LEMMA RangesStep ==
  ASSUME TableLaws, SoundStep, Shape
  PROVE  RangesAreDisjoint'
<1> /\ ~ClientMajor /\ TypeOK /\ Control /\ Files /\ TablesHaveKeys /\ InputsAreThere
    /\ RangesAreDisjoint /\ OneReadersWriter /\ Next /\ TypeOK' /\ Control' /\ Files'
  BY Zenon DEF SoundStep, IndInv, Data
<1>1. DOMAIN levels' = Levels
  BY Zenon DEF TypeOK, MemoryType, LevelFiles
<1>2. Disjoint(levels)'
  BY Zenon, <1>1, LevelsStayDisjoint DEF Sorted, SortedOn, Apart, Disjoint
<1>3. ASSUME manifest' # Torn PROVE Disjoint(manifest)'
  <2>1. CASE Running'
    <3>1. manifest' = levels'
      BY Zenon, <1>3, <2>1 DEF Files, ManifestInSync
    <3> QED
      BY Zenon, <1>2, <3>1 DEF Disjoint
  <2>2. CASE ~Running'
    <3>1. UNCHANGED <<sst, manifest>>
      <4>1. CASE Crash
        BY Zenon, <4>1 DEF Crash, disk
      <4>2. CASE RestartStep
        BY Zenon, <2>2, <4>2 DEF RestartStep, DropEmptySeg, Restart, RestartFails, RedoBuild, RedoAdd, RedoFlush, RedoDelete, Running, disk
      <4>3. CASE ServerStep
        BY Zenon, <4>3, ServerFrame
      <4>4. CASE MinorStep
        <5>1. phase = "up" /\ phase' = phase
          BY <4>4 DEF MinorStep, MinorCount, MinorLock, MinorBuild, MinorAdd, MinorFlush, MinorConsumeSeg, MinorConsume,
             Control, Quiet, NoMinor
        <5> QED
          BY Zenon, <2>2, <5>1 DEF Running
      <4>5. CASE BgStep
        <5>1. phase = "up" /\ phase' = phase
          <6>1. phase' = phase /\ (phase = "up" \/ BgPc # "idle")
            BY Zenon, <4>5, BgMoves DEF BgStep, MajorPick
          <6> QED
            BY Zenon, <6>1 DEF Control, Quiet, BgPc
        <5> QED
          BY <2>2, <5>1 DEF Running
      <4> QED
        BY Zenon, <4>1, <4>2, <4>3, <4>4, <4>5, Steps
    <3> QED
      BY Zenon, <1>3, <3>1 DEF RangesAreDisjoint, Disjoint
  <2> QED
    BY Zenon, <2>1, <2>2
<1>4. ASSUME Merging' PROVE Disjoint(AfterCommit)'
  <2>1. CommitShape'
    BY AfterCommitLevels, PTL
  <2>2. DOMAIN AfterCommit' = Levels
    BY Zenon, <1>4, <2>1 DEF CommitShape, LevelFiles, Merging, Committing, BgPc
  <2> QED
    BY Zenon, <1>4, <2>2, AfterCommitStaysDisjoint DEF Sorted, SortedOn, Apart, Disjoint
<1> QED
  BY Zenon, <1>2, <1>3, <1>4 DEF RangesAreDisjoint

(***************************************************************************)
(* Lookups from one state to the next.                                     *)
(***************************************************************************)
LEMMA LookupKept ==
  ASSUME TableLaws, NEW lv, Readable(lv), \A f \in Named(lv) : sst'[f] = sst[f], NEW k \in Keys
  PROVE  Lookup(sst', lv, k) = Lookup(sst, lv, k)
<1>1. DOMAIN lv = Levels /\ Leveled(sst, lv) /\ Sorted(sst, lv)
  BY Zenon DEF Readable
<1>2. \A l \in DOMAIN lv : \A f \in lv[l] : sst'[f] = sst[f]
  BY Zenon, <1>1 DEF Named
<1> QED
  BY SMTT(30), <1>1, <1>2 DEF TableLaws, LookupFrameLaw

\* SstableReader::add of a table built by minor_compaction.
LEMMA AddOneTable ==
  ASSUME TableLaws, NEW lv, NEW lw, Readable(lv), DOMAIN lw = Levels, NEW f \in Nat,
         lw[0] = lv[0] \cup {f}, \A l \in Levels : l # 0 => lw[l] = lv[l],
         \A g \in lv[0] : g < f, NEW k \in Keys
  PROVE  Lookup(sst, lw, k) = IF sst[f][k] # Absent THEN sst[f][k] ELSE Lookup(sst, lv, k)
<1> DEFINE new == {f}
<1>1. DOMAIN lv = Levels /\ Leveled(sst, lv) /\ 0 \in DOMAIN lv
  BY Zenon, LevelNumbers DEF Readable
<1>2. NumberSet(new)
  <2>1. IsFiniteSet({f})
    BY Zenon DEF TableLaws, FiniteLaw
  <2> QED
    BY Zenon, <2>1 DEF NumberSet
<1>3. \A g \in lv[0], h \in new : g < h
  BY Zenon
<1>4. lw[0] = lv[0] \cup new /\ DOMAIN lw = DOMAIN lv /\ \A l \in DOMAIN lv : l # 0 => lw[l] = lv[l]
  BY Zenon, <1>1
<1>5. f \in new /\ (\A h \in new : h = f) /\ ~ (f > f)
  OBVIOUS
<1> HIDE DEF new
<1>6. Adds(sst, lv, lw, new)
  BY Zenon, <1>1, <1>2, <1>3, <1>4 DEF Adds
<1>7. /\ (\A g \in new : sst[g][k] = Absent) => Lookup(sst, lw, k) = Lookup(sst, lv, k)
      /\ \A g \in new : sst[g][k] # Absent /\ (\A h \in new : h > g => sst[h][k] = Absent) =>
           Lookup(sst, lw, k) = sst[g][k]
  BY <1>6, NewestAdded
<1> QED
  BY Zenon, <1>5, <1>7

\* Only a flush changes what the readers return, and only for the keys it adds.
LEMMA ReadersStep ==
  ASSUME TableLaws, SoundStep, Shape, Shape', phase = "up", phase' = "up", NEW k \in Keys
  PROVE  ReadersGet(Visible, k)' =
           IF MinorAdd /\ sst[minor.file][k] # Absent THEN sst[minor.file][k] ELSE ReadersGet(Visible, k)
<1> /\ ~ClientMajor /\ TypeOK /\ Control /\ Files /\ InputsAreThere
    /\ MergeIsFaithful /\ OneReadersWriter /\ Next /\ TypeOK' /\ Control'
  BY Zenon DEF SoundStep, IndInv, Data
<1>1. /\ ReadersGet(Visible, k)' = Lookup(sst', Visible', k)
      /\ ReadersGet(Visible, k) = Lookup(sst, Visible, k)
      /\ Visible' = IF Committing("background")' THEN AfterCommit' ELSE levels'
      /\ Visible = IF Committing("background") THEN AfterCommit ELSE levels
  BY Zenon DEF Shape, Readable
<1>2. Readable(Visible) /\ Readable(levels)
  BY Zenon DEF Shape
<1>3. Committing("background") => Merging
  BY Zenon DEF Merging
<1>4. \A f \in Named(Visible) : sst'[f] = sst[f]
  BY Zenon, <1>1, <1>3, TablesKept
<1>5. Lookup(sst', Visible, k) = Lookup(sst, Visible, k)
  BY <1>2, <1>4, LookupKept
<1>6. ASSUME Visible' = Visible PROVE ReadersGet(Visible, k)' = ReadersGet(Visible, k)
  BY <1>1, <1>5, <1>6
<1>7. ASSUME UNCHANGED <<levels, majorPc, job>> PROVE ReadersGet(Visible, k)' = ReadersGet(Visible, k)
  <2>1. Committing("background")' = Committing("background") /\ AfterCommit' = AfterCommit
    BY Zenon, <1>7 DEF Committing, AfterCommit, BgJob
  <2> QED
    BY Zenon, <1>1, <1>6, <1>7, <2>1
<1>8. CASE ServerStep
  <2>1. minor' = minor
    BY Zenon, <1>8, ServerFrame
  <2>2. ~MinorAdd
    BY Zenon, <2>1 DEF MinorAdd, TypeOK, MinorType
  <2> QED
    BY <1>7, <1>8, <2>2, ServerFrame
<1>9. CASE MinorStep
  <2>1. CASE MinorAdd
    <3>1. /\ UNCHANGED <<sst, majorPc, job>> /\ levels' = [levels EXCEPT ![0] = @ \cup {minor.file}]
          /\ ~Committing("background") /\ minor.pc = "add"
      BY Zenon, <2>1 DEF MinorAdd, majors, ReadersWriteLocked
    <3>2. ~Committing("background")'
      BY Zenon, <3>1 DEF Committing
    <3>3. /\ levels'[0] = levels[0] \cup {minor.file} /\ \A l \in Levels : l # 0 => levels'[l] = levels[l]
          /\ DOMAIN levels' = Levels
      BY Zenon, <3>1, LevelNumbers DEF TypeOK, MemoryType, LevelFiles
    <3>4. minor.file \in Nat /\ \A g \in levels[0] : g < minor.file
      BY Zenon, <3>1 DEF TypeOK, MinorType, Files, MinorFileIsFresh
    <3>5. Lookup(sst, levels', k) = IF sst[minor.file][k] # Absent THEN sst[minor.file][k] ELSE Lookup(sst, levels, k)
      BY Zenon, <1>2, <3>3, <3>4, AddOneTable
    <3> QED
      BY Zenon, <1>1, <2>1, <3>1, <3>2, <3>5
  <2>2. CASE ~MinorAdd
    BY Zenon, <1>7, <1>9, <2>2, MinorFrame DEF MinorStep, MinorBuild, majors
  <2> QED
    BY Zenon, <2>1, <2>2
<1>10. CASE BgStep
  <2>0. ~MinorAdd
    <3>1. minor' = minor
      BY Zenon, <1>10, BgMoves
    <3> QED
      BY <3>1 DEF MinorAdd, TypeOK, MinorType
  <2>1. CASE MajorPick("background") \/ MajorPanics("background") \/ MajorMerge("background")
    <3>1. ~Committing("background") /\ ~Committing("background")' /\ levels' = levels
      BY Zenon, <1>10, <2>1, BgMoves DEF Committing, BgPc
    <3> QED
      BY Zenon, <1>1, <1>6, <2>0, <3>1
  <2>2. CASE MajorRemove0("background")
    <3>1. BgPc = "merged" /\ BgPc' = "flush0" /\ sst' = sst
      BY Zenon, <1>10, <2>2, BgMoves
    <3>2. AfterCommit' = AfterCommit
      BY Zenon, <1>10, <2>2, <3>1, AfterCommitStays DEF MajorRemove0, MajorRemove, MajorPick, MajorMerge, MajorPanics, BgPc
    <3>3. ~Committing("background") /\ Committing("background")' /\ Merging
      BY Zenon, <3>1 DEF Committing, Merging, BgPc
    <3>4. ReadersGet(AfterCommit, k) = ReadersGet(levels, k)
      BY Zenon, <3>1 DEF MergeIsFaithful
    <3>5. ReadersGet(AfterCommit, k) = Lookup(sst, AfterCommit, k) /\ ReadersGet(levels, k) = Lookup(sst, levels, k)
      BY Zenon, <3>3 DEF Shape, Readable
    <3> QED
      BY Zenon, <1>1, <2>0, <3>1, <3>2, <3>3, <3>4, <3>5
  <2>3. CASE MajorFlush("background") /\ BgPc = "flush2"
    <3>1. levels' = levels /\ BgPc' = "idle"
      BY Zenon, <1>10, <2>3, BgMoves
    <3>2. Committing("background") /\ ~Committing("background")'
      BY Zenon, <2>3, <3>1 DEF Committing, BgPc
    <3>3. AfterCommit = levels
      BY Zenon, <2>3, CommitDone
    <3> QED
      BY Zenon, <1>1, <1>6, <2>0, <3>1, <3>2, <3>3
  <2>4. CASE \/ MajorRemove1("background") \/ MajorUnlink("background") \/ MajorAdd("background")
             \/ MajorFlush("background") /\ BgPc # "flush2"
    <3>1. BgPc \notin {"idle", "dead", "picked", "merged"} /\ BgPc' \notin {"idle", "dead", "picked", "merged"}
      BY Zenon, <1>10, <2>4, BgMoves
    <3>2. Committing("background") /\ Committing("background")'
      BY Zenon, <3>1 DEF Committing, BgPc, TypeOK, MajorType
    <3>3. ~MajorPick("background") /\ ~MajorMerge("background") /\ ~MajorPanics("background")
      BY Zenon, <3>1 DEF MajorPick, MajorMerge, MajorPanics, BgPc
    <3>4. AfterCommit' = AfterCommit
      BY <1>10, <3>1, <3>3, AfterCommitStays
    <3> QED
      BY Zenon, <1>1, <1>6, <2>0, <3>2, <3>4
  <2> QED
    BY <1>10, <2>1, <2>2, <2>3, <2>4 DEF BgStep
<1>11. CASE Crash
  BY Zenon, <1>11 DEF Crash, Die
<1>12. CASE RestartStep
  BY Zenon, <1>12, RestartFrame
<1> QED
  BY Zenon, <1>8, <1>9, <1>10, <1>11, <1>12, Steps

\* A merge stays faithful although minor_compaction adds newer files.
LEMMA MergeIsFaithfulStep ==
  ASSUME TableLaws, SoundStep, Shape, Shape'
  PROVE  MergeIsFaithful'
<1> /\ ~ClientMajor /\ TypeOK /\ Control /\ Files /\ TablesHaveKeys
    /\ InputsAreThere /\ MergeIsFaithful /\ OneReadersWriter /\ Next /\ TypeOK' /\ Control'
  BY Zenon DEF SoundStep, IndInv, Data
<1> SUFFICES ASSUME BgPc' = "merged", NEW k \in Keys
             PROVE  ReadersGet(AfterCommit, k)' = ReadersGet(levels, k)'
  BY Zenon DEF MergeIsFaithful
<1>1. /\ ReadersGet(AfterCommit, k)' = Lookup(sst', AfterCommit', k)
      /\ ReadersGet(levels, k)' = Lookup(sst', levels', k)
  <2>1. Merging'
    BY Zenon DEF Merging
  <2> QED
    BY Zenon, <2>1 DEF Shape, Readable
<1>2. Readable(levels) /\ \A f \in Named(levels) : sst'[f] = sst[f]
  BY Zenon, TablesKept DEF Shape
<1>3. Lookup(sst', levels, k) = Lookup(sst, levels, k)
  BY Zenon, <1>2, LookupKept
<1>4. ASSUME BgPc = "merged"
      PROVE  /\ Readable(AfterCommit) /\ Lookup(sst, AfterCommit, k) = Lookup(sst, levels, k)
             /\ Lookup(sst', AfterCommit, k) = Lookup(sst, AfterCommit, k)
  <2>1. Merging
    BY Zenon, <1>4 DEF Merging
  <2>2. Readable(AfterCommit) /\ \A f \in Named(AfterCommit) : sst'[f] = sst[f]
    BY Zenon, <2>1, TablesKept DEF Shape
  <2>3. Lookup(sst', AfterCommit, k) = Lookup(sst, AfterCommit, k)
    BY Zenon, <2>2, LookupKept
  <2>4. ReadersGet(AfterCommit, k) = ReadersGet(levels, k)
    BY Zenon, <1>4 DEF MergeIsFaithful
  <2> QED
    BY Zenon, <1>2, <2>2, <2>3, <2>4 DEF Readable
<1>5. ASSUME UNCHANGED <<levels, majorPc, job>> PROVE Lookup(sst', AfterCommit', k) = Lookup(sst', levels', k)
  <2>1. AfterCommit' = AfterCommit /\ BgPc = "merged"
    BY Zenon, <1>5 DEF AfterCommit, BgJob, BgPc
  <2> QED
    BY Zenon, <1>3, <1>4, <1>5, <2>1
<1>6. CASE ServerStep
  BY Zenon, <1>1, <1>5, <1>6, ServerFrame
<1>7. CASE MinorStep
  <2>1. CASE MinorAdd
    <3>1. /\ UNCHANGED sst /\ levels' = [levels EXCEPT ![0] = @ \cup {minor.file}] /\ minor.pc = "add"
      BY Zenon, <2>1 DEF MinorAdd
    <3>2. /\ levels'[0] = levels[0] \cup {minor.file} /\ \A l \in Levels : l # 0 => levels'[l] = levels[l]
          /\ DOMAIN levels' = Levels
      BY Zenon, <3>1, LevelNumbers DEF TypeOK, MemoryType, LevelFiles
    <3>3. minor.file \in Nat /\ \A g \in levels[0] : g < minor.file
      BY Zenon, <3>1 DEF TypeOK, MinorType, Files, MinorFileIsFresh
    <3>4. /\ BgPc = "merged" /\ DOMAIN AfterCommit' = Levels
          /\ AfterCommit'[0] = AfterCommit[0] \cup {minor.file}
          /\ \A l \in Levels : l # 0 => AfterCommit'[l] = AfterCommit[l]
      BY Zenon, <2>1, MinorAddAfterCommit DEF Merging
    <3>5. \A g \in AfterCommit[0] : g < minor.file
      <4>1. AfterCommit[0] \subseteq levels[0]
        <5>1. CommitShape
          BY Zenon, AfterCommitLevels
        <5>2. BgJob.level \in Levels
          BY Zenon, <3>4, <5>1 DEF CommitShape
        <5>3. BgJob.level + 1 # 0
          BY <5>2 DEF Levels
        <5>4. BgPc \notin {"idle", "dead"}
          BY Zenon, <3>4
        <5>5. BgJob.level = 0 => AfterCommit[0] = levels[0] \ BgJob.in0
          BY Zenon, <5>1, <5>4 DEF CommitShape
        <5>6. BgJob.level # 0 => AfterCommit[0] = levels[0]
          BY Zenon, <5>1, <5>3, <5>4, LevelNumbers DEF CommitShape
        <5> QED
          BY Zenon, <5>5, <5>6
      <4> QED
        BY Zenon, <3>3, <4>1
    <3>6. Lookup(sst, levels', k) = IF sst[minor.file][k] # Absent THEN sst[minor.file][k] ELSE Lookup(sst, levels, k)
      BY Zenon, <1>2, <3>2, <3>3, AddOneTable
    <3>7. Lookup(sst, AfterCommit', k) =
            IF sst[minor.file][k] # Absent THEN sst[minor.file][k] ELSE Lookup(sst, AfterCommit, k)
      BY ZenonT(30), <1>4, <3>3, <3>4, <3>5, AddOneTable
    <3> QED
      BY Zenon, <1>1, <1>4, <3>1, <3>4, <3>6, <3>7
  <2>2. CASE ~MinorAdd
    BY Zenon, <1>1, <1>5, <1>7, <2>2, MinorFrame DEF MinorStep, MinorBuild, majors
  <2> QED
    BY Zenon, <2>1, <2>2
<1>8. CASE BgStep
  <2>1. MajorMerge("background")
    BY Zenon, <1>8, BgMoves DEF BgStep
  <2>2. levels' = levels
    BY Zenon, <2>1 DEF MajorMerge
  <2> QED
    BY Zenon, <1>1, <1>3, <2>1, <2>2, MergeStep
<1>9. CASE Crash
  BY Zenon, <1>9 DEF Crash, Die, BgPc
<1>10. CASE RestartStep
  BY Zenon, <1>10, RestartFrame DEF BgPc
<1> QED
  BY Zenon, <1>6, <1>7, <1>8, <1>9, <1>10, Steps

(***************************************************************************)
(* The memtables on level 0.                                               *)
(***************************************************************************)
LEMMA FlushedInRange ==
  ASSUME TypeOK, Control
  PROVE  /\ Flushed \in Nat /\ Flushed =< Len(imm) /\ Len(imm) \in Nat /\ minor.done \in Nat
         /\ minor.pc \in {"flush", "seg"} => Flushed = minor.done + 1
         /\ minor.pc \notin {"flush", "seg"} => Flushed = minor.done
         /\ minor.pc \in {"build", "add", "flush", "seg"} => minor.done + 1 \in 1..Len(imm)
         /\ minor.pc \in {"idle", "lock"} => minor.done = 0
<1>1. Len(imm) \in Nat /\ minor.done \in Nat /\ minor.count \in Nat
  BY DEF TypeOK, MemoryType, MinorType
<1>2. minor.pc \in {"idle", "lock"} => minor.done = 0
  BY DEF Control, MinorInRange, NoMinor
<1>3. minor.pc \in {"build", "add", "flush", "seg"} => minor.done + 1 \in 1..Len(imm)
  BY <1>1 DEF Control, MinorInRange
<1>4. minor.pc = "consume" => minor.done =< Len(imm)
  BY <1>1 DEF Control, MinorInRange
<1> QED
  BY <1>1, <1>2, <1>3, <1>4 DEF Flushed, TypeOK, MinorType

\* A step that flushes no memtable keeps FlushedAreReadable.
LEMMA FlushedFrame ==
  ASSUME TableLaws, SoundStep, Shape, Shape', phase = "up", phase' = "up", ~MinorAdd, Flushed' = Flushed,
         \A i \in 1..Flushed : imm'[i] = imm[i],
         minor'.pc = "add" => sst'[minor'.file] = imm'[minor'.done + 1]
  PROVE  FlushedAreReadable'
<1> /\ ~ClientMajor /\ TypeOK /\ Control /\ Files /\ InputsAreThere
    /\ MergeIsFaithful /\ OneReadersWriter /\ FlushedAreReadable /\ Next /\ TypeOK' /\ Control'
  BY Zenon DEF SoundStep, IndInv, Data
<1>1. ASSUME NEW k \in Keys, NEW i \in 1..Flushed', imm'[i][k] # Absent,
             \A j \in (i + 1)..Flushed' : imm'[j][k] = Absent
      PROVE  ReadersGet(Visible, k)' = imm'[i][k]
  <2>1. ReadersGet(Visible, k)' = ReadersGet(Visible, k)
    BY Zenon, ReadersStep
  <2>2. i \in 1..Flushed /\ imm'[i] = imm[i] /\ Flushed \in Nat
    BY Zenon, FlushedInRange
  <2>3. \A j \in (i + 1)..Flushed : imm[j][k] = Absent
    <3>1. \A j \in (i + 1)..Flushed : j \in 1..Flushed
      BY <2>2
    <3> QED
      BY Zenon, <1>1, <3>1
  <2>4. imm[i][k] # Absent
    BY Zenon, <1>1, <2>2
  <2> QED
    BY Zenon, <2>1, <2>2, <2>3, <2>4 DEF FlushedAreReadable
<1> QED
  BY Zenon, <1>1 DEF FlushedAreReadable

\* Every step keeps it: a memtable is on level 0 before it leaves imm_mut.
LEMMA FlushedAreReadableStep ==
  ASSUME TableLaws, SoundStep, Shape, Shape'
  PROVE  FlushedAreReadable'
<1> /\ ~ClientMajor /\ TypeOK /\ Control /\ Files /\ InputsAreThere
    /\ MergeIsFaithful /\ OneReadersWriter /\ FlushedAreReadable /\ Next /\ TypeOK' /\ Control'
  BY Zenon DEF SoundStep, IndInv, Data
<1> SUFFICES ASSUME phase' = "up" PROVE FlushedAreReadable'
  BY Zenon DEF FlushedAreReadable
<1>0. imm \in Seq(Table)
  BY Zenon DEF TypeOK, MemoryType
<1>1. ASSUME minor' = minor, phase = "up", minor.pc = "add" => sst'[minor.file] = sst[minor.file],
             imm' = imm \/ \E t : imm' = Append(imm, t)
      PROVE  FlushedAreReadable'
  <2>1. ~MinorAdd
    BY Zenon, <1>1 DEF MinorAdd, TypeOK, MinorType
  <2>2. Flushed' = Flushed
    BY Zenon, <1>1 DEF Flushed
  <2>3. \A i \in 1..Len(imm) : imm'[i] = imm[i]
    BY <1>0, <1>1, AppendToSeq
  <2>4. \A i \in 1..Flushed : imm'[i] = imm[i]
    BY <2>3, FlushedInRange
  <2>5. minor'.pc = "add" => sst'[minor'.file] = imm'[minor'.done + 1]
    BY Zenon, <1>1, <2>3, FlushedInRange DEF FlushedAreReadable
  <2> QED
    BY Zenon, <1>1, <2>1, <2>2, <2>4, <2>5, FlushedFrame
<1>2. CASE ServerStep
  <2>1. UNCHANGED <<phase, minor, sst>>
    BY Zenon, <1>2, ServerFrame
  <2>2. imm' = imm \/ \E t : imm' = Append(imm, t)
    BY Zenon, <1>2 DEF ServerStep, GetFromMemtables, Insert, WalAppend, GetFromReaders, Remove, MemInsert, NewSeg, memory
  <2> QED
    BY Zenon, <1>1, <2>1, <2>2
<1>3. CASE MinorStep
  <2>0. phase = "up"
    BY SMTT(30), <1>3 DEF MinorStep, MinorCount, MinorLock, MinorBuild, MinorAdd, MinorFlush, MinorConsumeSeg, MinorConsume,
       Control, Quiet, NoMinor
  <2>1. CASE MinorCount \/ MinorConsume
    <3>1. minor'.pc \in {"idle", "lock"}
      BY <1>3, <2>1, MinorMoves DEF NoMinor
    <3>2. Flushed' = 0 /\ minor'.pc # "add"
      <4>1. minor'.done = 0
        BY SMTT(30), <3>1, FlushedInRange DEF Control, MinorInRange, NoMinor
      <4> QED
        BY SMTT(30), <3>1, <4>1 DEF Flushed
    <3> QED
      BY SMTT(30), <3>2 DEF FlushedAreReadable
  <2>2. CASE MinorLock \/ MinorBuild \/ MinorFlush \/ MinorConsumeSeg
    <3>1. ~MinorAdd
      BY Zenon, <1>3, <2>2 DEF MinorLock, MinorBuild, MinorFlush, MinorConsumeSeg, MinorAdd
    <3>2. imm' = imm
      BY Zenon, <2>2 DEF MinorLock, MinorBuild, MinorFlush, MinorConsumeSeg, memory
    <3>3. Flushed' = Flushed
      <4>1. CASE MinorLock
        BY Zenon, <1>3, <4>1, MinorMoves DEF Flushed, MinorLock
      <4>2. CASE MinorBuild
        BY <1>3, <4>2, MinorMoves DEF Flushed, MinorBuild
      <4>3. CASE MinorFlush
        BY Zenon, <1>3, <4>3, MinorMoves DEF Flushed, MinorFlush
      <4>4. CASE MinorConsumeSeg
        <5>1. minor.pc = "seg" /\ minor'.pc \in {"consume", "build"} /\ minor'.done = minor.done + 1
          BY <1>3, <4>4, MinorMoves DEF MinorConsumeSeg
        <5> QED
          BY <5>1, FlushedInRange DEF Flushed
      <4> QED
        BY <2>2, <4>1, <4>2, <4>3, <4>4
    <3>4. minor'.pc = "add" => sst'[minor'.file] = imm'[minor'.done + 1]
      <4>1. minor'.pc = "add" => MinorBuild
        BY Zenon, <1>3, <2>2, MinorMoves
      <4>2. ASSUME MinorBuild PROVE sst'[minor'.file] = imm'[minor'.done + 1]
        <5>1. minor'.file = nextFile /\ minor'.done = minor.done
          BY Zenon, <1>3, <4>2, MinorMoves
        <5>2. sst'[nextFile] = imm[minor.done + 1]
          BY Zenon, <4>2 DEF MinorBuild
        <5> QED
          BY Zenon, <3>2, <5>1, <5>2
      <4> QED
        BY Zenon, <4>1, <4>2
    <3> QED
      BY Zenon, <2>0, <3>1, <3>2, <3>3, <3>4, FlushedFrame
  <2>3. CASE MinorAdd
    <3>1. /\ minor.pc = "add" /\ minor'.pc = "flush" /\ minor'.done = minor.done /\ imm' = imm
      BY SMTT(30), <1>3, <2>3, MinorMoves DEF MinorAdd
    <3> DEFINE n == minor.done + 1
    <3>2. Flushed = minor.done /\ Flushed' = n /\ minor.done \in Nat /\ sst[minor.file] = imm[n]
      BY Zenon, <2>0, <3>1, FlushedInRange DEF Flushed, FlushedAreReadable
    <3>3. ASSUME NEW k \in Keys, NEW i \in 1..n, imm[i][k] # Absent,
                 \A j \in (i + 1)..n : imm[j][k] = Absent
          PROVE  ReadersGet(Visible, k)' = imm[i][k]
      <4>1. ReadersGet(Visible, k)' = IF imm[n][k] # Absent THEN imm[n][k] ELSE ReadersGet(Visible, k)
        BY Zenon, <2>0, <2>3, <3>2, ReadersStep
      <4>2. CASE i = n
        BY <3>3, <4>1, <4>2
      <4>3. CASE i # n
        <5>1. i \in 1..Flushed /\ n \in (i + 1)..n /\ \A j \in (i + 1)..Flushed : j \in (i + 1)..n
          BY SMTT(30), <3>2, <4>3
        <5>2. imm[n][k] = Absent /\ \A j \in (i + 1)..Flushed : imm[j][k] = Absent
          BY Zenon, <3>3, <5>1
        <5>3. ReadersGet(Visible, k) = imm[i][k]
          BY Zenon, <2>0, <3>3, <5>1, <5>2 DEF FlushedAreReadable
        <5> QED
          BY <4>1, <5>2, <5>3
      <4> QED
        BY <4>2, <4>3
    <3> QED
      BY Zenon, <3>1, <3>2, <3>3 DEF FlushedAreReadable
  <2> QED
    BY SMTT(30), <1>3, <2>1, <2>2, <2>3 DEF MinorStep
<1>4. CASE BgStep
  <2>1. minor' = minor /\ imm' = imm /\ phase' = phase
    BY Zenon, <1>4, BgMoves
  <2>2. ASSUME minor.pc = "add" PROVE sst'[minor.file] = sst[minor.file]
    <3>1. minor.file \in DOMAIN sst /\ minor.file \notin BgJob.in0 \cup BgJob.in1 /\ minor.file < nextFile
      BY Zenon, <2>1, <2>2 DEF Files, MinorFileIsFresh, FileNumbersBelowNext, Running, InputsOf, BgJob
    <3>2. CASE MajorMerge("background")
      <4>1. /\ \A f \in DOMAIN sst : f \notin NewTables(BgJob.level) => sst'[f] = sst[f]
            /\ majorPc["background"] = "picked"
        BY Zenon, <3>2 DEF MajorMerge, BgJob
      <4>2. nextFile \in Nat /\ PartCount(MergedInputs(BgJob.level), SstMaxSize) \in Nat /\ minor.file \in Nat
        BY <4>1, MergedInputsType DEF TypeOK, MemoryType, MinorType, BgJob
      <4>3. minor.file \notin NewTables(BgJob.level)
        BY <3>1, <4>2 DEF NewTables
      <4> QED
        BY SMTT(30), <3>1, <4>1, <4>3
    <3>3. CASE MajorUnlink("background")
      <4>1. PICK fs : sst' = [f \in DOMAIN sst \ fs |-> sst[f]] /\ (fs = BgJob.in0 \/ fs = BgJob.in1)
        BY Zenon, <1>4, <3>3, BgMoves
      <4> QED
        BY <3>1, <4>1
    <3>4. CASE ~MajorMerge("background") /\ ~MajorUnlink("background")
      <4>1. sst' = sst
        BY <1>4, <3>4, BgMoves DEF BgStep
      <4> QED
        BY Zenon, <4>1
    <3> QED
      BY <3>2, <3>3, <3>4
  <2> QED
    BY SMTT(30), <1>1, <2>1, <2>2
<1>5. CASE Crash
  BY Zenon, <1>5 DEF Crash, Die
<1>6. CASE RestartStep
  <2>1. minor' = NoMinor
    BY Zenon, <1>6, RestartFrame
  <2>2. Flushed' = 0 /\ minor'.pc # "add"
    BY <2>1 DEF Flushed, NoMinor
  <2> QED
    BY SMTT(30), <2>2 DEF FlushedAreReadable
<1> QED
  BY Zenon, <1>2, <1>3, <1>4, <1>5, <1>6, Steps

(***************************************************************************)
(* The log and redo.                                                       *)
(***************************************************************************)
LEMMA UpSteps ==
  ASSUME Control, ServerStep \/ MinorStep \/ BgStep
  PROVE  phase = "up"
<1>1. CASE ServerStep
  BY Zenon, <1>1 DEF Control, Quiet, ServerStep, GetFromMemtables, Insert, GetFromReaders, Remove, MemInsert, NewSeg
<1>2. CASE MinorStep
  BY <1>2 DEF Control, Quiet, NoMinor, MinorStep, MinorCount, MinorLock, MinorBuild, MinorAdd, MinorFlush,
     MinorConsumeSeg, MinorConsume
<1>3. CASE BgStep
  <2>1. majorPc["background"] # "idle" => phase = "up"
    BY Zenon DEF Control, Quiet
  <2> QED
    BY Zenon, <1>3, <2>1 DEF BgStep, MajorPick, MajorMerge, MajorRemove0, MajorRemove1, MajorRemove, MajorFlush,
       MajorUnlink, MajorAdd, MajorPanics
<1> QED
  BY Zenon, <1>1, <1>2, <1>3

LogShape ==
  /\ Logged \in Seq(Table) /\ Len(Logged) = Len(wal) /\ Len(wal) \in Nat
  /\ \A i \in 1..Len(wal) : Logged[i] = Replay(wal[i]) /\ Replay(wal[i]) \in Table

\* Replaying any part of the log returns tables.
LEMMA LoggedTables == TableLaws /\ TypeOK => LogShape
<1> SUFFICES ASSUME TableLaws, TypeOK PROVE LogShape
  BY Zenon
<1>1. wal \in Seq(Seq(Record)) /\ Len(wal) \in Nat
  BY DEF TypeOK, DiskType
<1>2. \A i \in 1..Len(wal) : Replay(wal[i]) \in Table
  BY <1>1 DEF TableLaws, ReplayTypeLaw
<1> QED
  BY <1>1, <1>2 DEF Logged, LogShape

\* The readers after redo has added the tables of the log.
LEMMA RedoAddReaders ==
  ASSUME TableLaws, TypeOK, Files, Shape, RedoIsReadable, TypeOK', Shape', RedoAdd, NEW k \in Keys
  PROVE  ReadersGet(levels, k)' =
           IF Newest(Logged, k) # Absent THEN Newest(Logged, k) ELSE ReadersGet(levels, k)
<1> DEFINE n == Len(wal)
           file(i) == nextFile - n + i - 1
<1>1. /\ phase = "redoadd" /\ sst' = sst /\ levels' = [levels EXCEPT ![0] = @ \cup redoFiles]
  BY Zenon DEF RedoAdd
<1>2. /\ n \in Nat /\ Len(Logged) = n /\ nextFile \in Nat
      /\ redoFiles = (nextFile - n)..(nextFile - 1)
      /\ \A i \in 1..n : sst[file(i)] = Logged[i]
  BY Zenon, <1>1, LoggedTables DEF RedoIsReadable, TypeOK, MemoryType, LogShape
<1>3. NumberSet(redoFiles)
  <2>1. IsFiniteSet(redoFiles)
    BY <1>2 DEF TableLaws, IntervalLaw
  <2> QED
    BY Zenon, <2>1 DEF NumberSet, TypeOK, MemoryType
<1>4. /\ \A i \in 1..n : file(i) \in redoFiles
      /\ \A g \in redoFiles : \E i \in 1..n : g = file(i)
      /\ \A i, j \in 1..n : file(i) > file(j) => j < i
  <2>1. ASSUME NEW g \in redoFiles PROVE \E i \in 1..n : g = file(i)
    <3>1. g - (nextFile - n) + 1 \in 1..n /\ g = file(g - (nextFile - n) + 1)
      BY <1>2
    <3> QED
      BY Zenon, <3>1
  <2>2. n \in Nat /\ nextFile \in Nat /\ redoFiles = (nextFile - n)..(nextFile - 1)
    BY Zenon, <1>2
  <2> HIDE DEF n
  <2>3. ASSUME NEW i \in 1..n PROVE file(i) \in redoFiles
    BY <2>2
  <2>4. ASSUME NEW i \in 1..n, NEW j \in 1..n, file(i) > file(j) PROVE j < i
    BY <2>2, <2>4
  <2> HIDE DEF file
  <2> QED
    BY Zenon, <2>1, <2>3, <2>4
<1>5. Len(Logged) \in Nat /\ Len(Logged) = n /\ \A i \in 1..n : sst[file(i)] = Logged[i]
  BY Zenon, <1>2
<1> HIDE DEF file, n
<1>6. /\ (\A g \in redoFiles : sst[g][k] = Absent) => Lookup(sst, levels', k) = Lookup(sst, levels, k)
      /\ \A g \in redoFiles : sst[g][k] # Absent /\ (\A h \in redoFiles : h > g => sst[h][k] = Absent) =>
           Lookup(sst, levels', k) = sst[g][k]
  <2>1. Leveled(sst, levels) /\ 0 \in DOMAIN levels /\ DOMAIN levels = Levels
    BY Zenon, LevelNumbers DEF Shape, Readable
  <2>2. /\ DOMAIN levels' = DOMAIN levels /\ levels'[0] = levels[0] \cup redoFiles
        /\ \A m \in DOMAIN levels : m # 0 => levels'[m] = levels[m]
    BY Zenon, <1>1, <2>1
  <2>3. \A f \in levels[0], g \in redoFiles : f < g
    BY Zenon, <1>1 DEF Files, RedoFilesAreFresh
  <2>4. Adds(sst, levels, levels', redoFiles)
    BY Zenon, <1>3, <2>1, <2>2, <2>3 DEF Adds
  <2> QED
    BY <2>4, NewestAdded
<1>7. /\ ReadersGet(levels, k)' = Lookup(sst', levels', k)
      /\ ReadersGet(levels, k) = Lookup(sst, levels, k)
  BY Zenon DEF Shape, Readable
<1>8. CASE \A j \in 1..Len(Logged) : Logged[j][k] = Absent
  <2>1. Newest(Logged, k) = Absent
    BY Zenon, <1>8 DEF TableLaws, NewestMissLaw
  <2>2. \A g \in redoFiles : sst[g][k] = Absent
    <3>1. ASSUME NEW g \in redoFiles PROVE sst[g][k] = Absent
      <4>1. PICK i \in 1..n : g = file(i)
        BY Zenon, <1>4
      <4>2. sst[file(i)] = Logged[i] /\ i \in 1..Len(Logged)
        BY Zenon, <1>5
      <4> QED
        BY Zenon, <1>8, <4>1, <4>2
    <3> QED
      BY Zenon, <3>1
  <2> QED
    BY Zenon, <1>1, <1>6, <1>7, <2>1, <2>2
<1>9. ASSUME NEW i, HitAt(Logged, Len(Logged), k, i)
      PROVE  ReadersGet(levels, k)' = Newest(Logged, k) /\ Newest(Logged, k) # Absent
  <2>1. i \in 1..n /\ Logged[i][k] # Absent
    BY Zenon, <1>5, <1>9 DEF HitAt
  <2>2. Newest(Logged, k) = Logged[i][k]
    BY <1>5, <1>9 DEF TableLaws, NewestHitLaw
  <2>3. file(i) \in redoFiles /\ sst[file(i)][k] # Absent
    BY <1>4, <1>5, <2>1
  <2>4. ASSUME NEW h \in redoFiles, h > file(i) PROVE sst[h][k] = Absent
    <3>1. PICK j \in 1..n : h = file(j)
      BY <1>4
    <3>2. i < j /\ j \in 1..Len(Logged)
      BY Zenon, <1>4, <1>5, <2>1, <2>4, <3>1
    <3>3. Logged[j][k] = Absent
      BY Zenon, <1>9, <3>2 DEF HitAt
    <3> QED
      BY <1>5, <3>1, <3>3
  <2>5. Lookup(sst, levels', k) = sst[file(i)][k]
    BY <1>6, <2>3, <2>4
  <2> QED
    BY Zenon, <1>1, <1>5, <1>7, <2>1, <2>2, <2>5
<1> QED
  BY Zenon, <1>5, <1>8, <1>9 DEF TableLaws, NewestCasesLaw

\* RedoDelete takes away the oldest segment.
LEMMA RedoDeleteLog ==
  ASSUME TableLaws, TypeOK, TypeOK', Control, RedoDelete, NEW k
  PROVE  Newest(Logged, k)' # Absent => Newest(Logged, k)' = Newest(Logged, k)
<1>1. wal # <<>> /\ wal \in Seq(Seq(Record)) /\ wal' = Tail(wal)
  BY Zenon DEF RedoDelete, Control, RedoHasLog, Redoing, TypeOK, DiskType
<1>2. /\ Len(wal) \in Nat /\ Len(wal') \in Nat /\ Len(wal) = Len(wal') + 1
      /\ \A j \in 1..Len(wal') : wal'[j] = wal[1 + j] /\ 1 + j \in 1..Len(wal)
  BY <1>1, TailOfSeq
<1>3. /\ Len(Logged) = Len(wal) /\ \A i \in 1..Len(wal) : Logged[i] = Replay(wal[i])
      /\ Len(Logged') = Len(wal') /\ \A i \in 1..Len(wal') : Logged'[i] = Replay(wal'[i])
  <2>1. LogShape /\ LogShape'
    BY LoggedTables, PTL
  <2> QED
    BY Zenon, <2>1 DEF LogShape
<1>4. \A j \in 1..Len(Logged') : Logged'[j] = Logged[1 + j]
  BY <1>2, <1>3
<1> DEFINE u == Logged'
<1>5. Newest(Logged, k)' = Newest(u, k)
  BY Zenon DEF Newest, Holders
<1>6. SuffixOf(Logged, u, 1)
  BY <1>2, <1>3, <1>4 DEF SuffixOf
<1> HIDE DEF u
<1>7. Newest(u, k) # Absent => Newest(Logged, k) = Newest(u, k)
  BY <1>6 DEF DropsOldest, TableLaws, NewestSuffixLaw
<1> QED
  BY <1>5, <1>7

\* What redo has rebuilt is what the log and the tables hold.
LEMMA RedoIsReadableStep ==
  ASSUME TableLaws, SoundStep, Shape, Shape'
  PROVE  RedoIsReadable'
<1> /\ ~ClientMajor /\ TypeOK /\ Control /\ Files
    /\ InputsAreThere /\ OneReadersWriter /\ RedoIsReadable /\ Next /\ TypeOK'
  BY Zenon DEF SoundStep, IndInv, Data
<1>1. CASE ServerStep \/ MinorStep \/ BgStep
  <2>1. phase' = "up"
    BY Zenon, <1>1, UpSteps, ServerFrame, MinorFrame, BgMoves DEF MinorStep, MinorBuild, MinorAdd
  <2> QED
    BY Zenon, <2>1 DEF RedoIsReadable
<1>2. CASE Crash
  BY Zenon, <1>2 DEF RedoIsReadable, Crash, Die
<1>3. CASE DropEmptySeg \/ Restart \/ RestartFails
  BY Zenon, <1>3 DEF RedoIsReadable, DropEmptySeg, Restart, RestartFails
<1>4. CASE RedoBuild
  <2> DEFINE n == Len(wal)
  <2>1. /\ n \in Nat /\ nextFile \in Nat
    BY Zenon, LoggedTables DEF TypeOK, MemoryType, LogShape
  <2>2. /\ phase' = "redoadd" /\ wal' = wal /\ nextFile' = nextFile + n
        /\ redoFiles' = nextFile..(nextFile + n - 1)
        /\ sst' = [f \in DOMAIN sst \cup redoFiles' |->
                     IF f \in redoFiles' THEN Replay(wal[f - nextFile + 1]) ELSE sst[f]]
    BY Zenon, <1>4 DEF RedoBuild
  <2> HIDE DEF n
  <2>3. nextFile' - n = nextFile /\ redoFiles' = (nextFile' - n)..(nextFile' - 1)
    BY <2>1, <2>2
  <2>4. ASSUME NEW i \in 1..n PROVE sst'[nextFile' - n + i - 1] = Replay(wal[i])
    <3> DEFINE f == nextFile' - n + i - 1
    <3>1. f \in redoFiles' /\ f - nextFile + 1 = i
      BY <2>1, <2>2, <2>3
    <3> HIDE DEF f
    <3> QED
      BY Zenon, <2>2, <3>1 DEF f
  <2> QED
    BY Zenon, <2>2, <2>3, <2>4 DEF RedoIsReadable, n
<1>5. CASE RedoAdd
  <2>1. phase' = "redoflush" /\ wal' = wal
    BY Zenon, <1>5 DEF RedoAdd
  <2>2. \A k \in Keys : Newest(Logged, k)' = Newest(Logged, k)
    BY <2>1 DEF Newest, Holders, Logged
  <2> QED
    BY Zenon, <1>5, <2>1, <2>2, RedoAddReaders DEF RedoIsReadable
<1>6. CASE RedoFlush
  <2>1. phase = "redoflush" /\ phase' = "redodelete" /\ UNCHANGED <<wal, sst, levels>>
    BY Zenon, <1>6 DEF RedoFlush, memory
  <2>2. \A k \in Keys : Newest(Logged, k)' = Newest(Logged, k)
    BY <2>1 DEF Newest, Holders, Logged
  <2>3. \A k \in Keys : ReadersGet(levels, k)' = ReadersGet(levels, k)
    BY ZenonT(30), <2>1 DEF Shape, Readable
  <2> QED
    BY Zenon, <2>1, <2>2, <2>3 DEF RedoIsReadable
<1>7. CASE RedoDelete
  <2>1. phase = "redodelete" /\ phase' # "redoadd" /\ UNCHANGED <<sst, levels>>
    BY Zenon, <1>7 DEF RedoDelete, memory
  <2>3. \A k \in Keys : ReadersGet(levels, k)' = ReadersGet(levels, k)
    BY ZenonT(30), <2>1 DEF Shape, Readable
  <2> QED
    BY Zenon, <1>7, <2>1, <2>3, RedoDeleteLog DEF RedoIsReadable
<1> QED
  BY Zenon, <1>1, <1>2, <1>3, <1>4, <1>5, <1>6, <1>7, Steps DEF RestartStep

(***************************************************************************)
(* What get returns.                                                       *)
(***************************************************************************)
LEMMA SameLog ==
  ASSUME wal' = wal, NEW k
  PROVE  Newest(Logged, k)' = Newest(Logged, k)
BY DEF Newest, Holders, Logged

\* A lookup in the memtables depends on the memtables only.
LEMMA MemGetKept ==
  ASSUME mem' = mem, imm' = imm, NEW k
  PROVE  MemGet(k)' = MemGet(k)
BY Zenon DEF MemGet, Newest, Holders

\* insert_ makes its entry the one that is found.
LEMMA MemInsertMemGet ==
  ASSUME TableLaws, TypeOK, Control, MemInsert, NEW k \in Keys
  PROVE  /\ MemGet(k)' = IF k = req.key THEN Entry(req) ELSE MemGet(k)
         /\ Entry(req) # Absent
<1> DEFINE t == [mem EXCEPT ![req.key] = Entry(req)]
<1>1. server = "appended" /\ mem \in Table /\ imm \in Seq(Table)
  BY Zenon DEF MemInsert, TypeOK, MemoryType
<1>2. Entry(req) \in Vals \cup {Tombstone} /\ req \in Request
  BY Zenon, <1>1 DEF Control, RequestShape, TypeOK, RequestType, Pending
<1>3. Entry(req) # Absent
  BY <1>2, ValsAssumption
<1>4. t \in Table /\ t[k] = IF k = req.key THEN Entry(req) ELSE mem[k]
  BY <1>1, <1>2 DEF Table, Request
<1>5. \/ imm' = Append(imm, t) /\ mem' = EmptyTable
      \/ imm' = imm /\ mem' = t
  BY Zenon DEF MemInsert
<1> HIDE DEF t
<1>6. MemGet(k)' = IF mem'[k] # Absent THEN mem'[k] ELSE Newest(imm', k)
  BY Zenon DEF MemGet, Newest, Holders
<1>7. CASE imm' = Append(imm, t) /\ mem' = EmptyTable
  <2> DEFINE u == imm'
  <2>1. Len(u) = Len(imm) + 1 /\ Len(imm) \in Nat /\ u[Len(u)] = t /\ \A j \in 1..Len(imm) : u[j] = imm[j]
    BY SMTT(30), <1>1, <1>4, <1>7, AppendToSeq
  <2> HIDE DEF u
  <2>2. Newest(u, k) = IF u[Len(u)][k] # Absent THEN u[Len(u)][k] ELSE Newest(imm, k)
    BY Zenon, <2>1 DEF TableLaws, NewestAppendLaw
  <2>3. mem'[k] = Absent
    BY Zenon, <1>7 DEF EmptyTable
  <2>4. MemGet(k)' = IF t[k] # Absent THEN t[k] ELSE Newest(imm, k)
    BY Zenon, <1>6, <2>1, <2>2, <2>3 DEF u
  <2> QED
    BY Zenon, <1>3, <1>4, <2>4 DEF MemGet
<1>8. CASE imm' = imm /\ mem' = t
  BY Zenon, <1>3, <1>4, <1>6, <1>8 DEF MemGet
<1> QED
  BY Zenon, <1>3, <1>5, <1>7, <1>8

\* A lookup without the n oldest memtables.
LEMMA NewestOfSuffix ==
  ASSUME TableLaws, NEW s \in Seq(Table), NEW n \in 0..Len(s), NEW k
  PROVE  DropsOldest(s, SubSeq(s, n + 1, Len(s)), n, k)
<1> DEFINE u == SubSeq(s, n + 1, Len(s))
<1>1. Len(s) \in Nat /\ n \in Nat /\ n + 1 \in Int /\ Len(s) \in Int /\ n =< Len(s)
  OBVIOUS
<1>2. \A i \in (n + 1)..Len(s) : s[i] \in Table
  BY <1>1
<1>3. /\ Len(u) = IF n + 1 =< Len(s) THEN Len(s) - (n + 1) + 1 ELSE 0
      /\ \A i \in 1..(Len(s) - (n + 1) + 1) : u[i] = s[n + 1 + i - 1]
  BY SMTT(30), <1>1, <1>2, SliceOfSeq
<1> HIDE DEF u
<1>4. Len(u) \in Nat /\ Len(s) = Len(u) + n
  BY <1>1, <1>3
<1>5. ASSUME NEW j \in 1..Len(u) PROVE u[j] = s[n + j]
  <2>1. j \in 1..(Len(s) - (n + 1) + 1) /\ n + 1 + j - 1 = n + j
    BY <1>1, <1>4
  <2> QED
    BY <1>3, <2>1
<1>6. SuffixOf(s, u, n)
  BY Zenon, <1>1, <1>4, <1>5 DEF SuffixOf
<1>7. DropsOldest(s, u, n, k)
  BY <1>6 DEF TableLaws, NewestSuffixLaw
<1> QED
  BY <1>7 DEF u

\* A lookup that ends in a memtable on level 0 can be left to the readers.
LEMMA FlushedHit ==
  ASSUME TypeOK, Control, FlushedAreReadable, phase = "up",
         NEW k \in Keys, NEW i \in 1..Flushed, HitAt(imm, Len(imm), k, i)
  PROVE  imm[i][k] # Absent /\ ReadersGet(Visible, k) = imm[i][k]
<1>1. Flushed \in Nat /\ Flushed =< Len(imm) /\ Len(imm) \in Nat
  BY Zenon, FlushedInRange
<1>2. \A j \in (i + 1)..Flushed : j \in 1..Len(imm) /\ i < j
  BY <1>1
<1>3. imm[i][k] # Absent /\ \A j \in (i + 1)..Flushed : imm[j][k] = Absent
  BY Zenon, <1>2 DEF HitAt
<1> QED
  BY Zenon, <1>3 DEF FlushedAreReadable

\* No other step changes what get returns.
LEMMA CurrentStep ==
  ASSUME TableLaws, SoundStep, Shape, Shape', phase = "up", phase' = "up", NEW k \in Keys
  PROVE  Current(k)' = IF MemInsert /\ k = req.key THEN Decode(Entry(req)) ELSE Current(k)
<1> /\ ~ClientMajor /\ TypeOK /\ Control /\ Files /\ InputsAreThere
    /\ MergeIsFaithful /\ OneReadersWriter /\ FlushedAreReadable /\ Next /\ TypeOK' /\ Control'
  BY Zenon DEF SoundStep, IndInv, Data
<1>1. ReadersGet(Visible, k)' =
        IF MinorAdd /\ sst[minor.file][k] # Absent THEN sst[minor.file][k] ELSE ReadersGet(Visible, k)
  BY Zenon, ReadersStep
<1>2. /\ Current(k) = Decode(IF MemGet(k) # Absent THEN MemGet(k) ELSE ReadersGet(Visible, k))
      /\ Current(k)' = Decode(IF MemGet(k)' # Absent THEN MemGet(k)' ELSE ReadersGet(Visible, k)')
  BY Zenon DEF Current, Decode
<1>3. CASE MemInsert
  <2>1. ~MinorAdd
    <3>1. minor' = minor
      BY <1>3 DEF MemInsert
    <3> QED
      BY Zenon, <3>1 DEF MinorAdd, TypeOK, MinorType
  <2> HIDE DEF MinorAdd
  <2> QED
    BY Zenon, <1>1, <1>2, <1>3, <2>1, MemInsertMemGet
<1>4. CASE MinorAdd
  <2>1. mem' = mem /\ imm' = imm /\ minor.pc = "add" /\ ~MemInsert
    BY Zenon, <1>4 DEF MinorAdd, MemInsert, TypeOK, MinorType
  <2>2. sst[minor.file] = imm[minor.done + 1] /\ minor.done + 1 \in 1..Len(imm)
    BY ZenonT(30), <2>1, FlushedInRange DEF FlushedAreReadable
  <2>3. MemGet(k) = Absent => imm[minor.done + 1][k] = Absent
    <3>1. MemGet(k) = Absent => Newest(imm, k) = Absent
      BY Zenon DEF MemGet
    <3>2. Newest(imm, k) = Absent => \A j \in 1..Len(imm) : imm[j][k] = Absent
      <4>1. Len(imm) \in Nat
        BY DEF TypeOK, MemoryType
      <4>2. ASSUME NEW i, HitAt(imm, Len(imm), k, i) PROVE Newest(imm, k) # Absent
        BY <4>1, <4>2 DEF HitAt, TableLaws, NewestHitLaw
      <4> QED
        BY Zenon, <4>1, <4>2 DEF TableLaws, NewestCasesLaw
    <3> QED
      BY Zenon, <2>2, <3>1, <3>2
  <2>4. MemGet(k)' = MemGet(k)
    BY Zenon, <2>1, MemGetKept
  <2> HIDE DEF MinorAdd
  <2> QED
    BY Zenon, <1>1, <1>2, <1>4, <2>1, <2>2, <2>3, <2>4
<1>5. CASE MinorConsume
  <2>1. /\ minor.pc = "consume" /\ mem' = mem /\ ~MemInsert /\ ~MinorAdd
        /\ imm' = SubSeq(imm, minor.count + 1, Len(imm))
    <3>1. minor' = NoMinor /\ minor.pc = "consume"
      BY <1>5 DEF MinorConsume
    <3> QED
      BY <1>5, <3>1 DEF MinorConsume, MemInsert, MinorAdd, NoMinor
  <2>2. minor.count \in 1..Len(imm) /\ minor.done = minor.count /\ Flushed = minor.count /\ Len(imm) \in Nat
    BY Zenon, <2>1, FlushedInRange DEF Control, MinorInRange
  <2> DEFINE n == minor.count
             u == imm'
  <2>3. n \in 0..Len(imm) /\ imm \in Seq(Table) /\ u = SubSeq(imm, n + 1, Len(imm))
    BY SMTT(30), <2>1, <2>2 DEF TypeOK, MemoryType
  <2>4. MemGet(k)' = IF mem[k] # Absent THEN mem[k] ELSE Newest(u, k)
    BY SMTT(30), <2>1 DEF MemGet, Newest, Holders
  <2> HIDE DEF u
  <2>5. \/ Newest(u, k) # Absent /\ Newest(imm, k) = Newest(u, k)
        \/ Newest(u, k) = Absent /\ Newest(imm, k) = Absent
        \/ Newest(u, k) = Absent /\ \E i \in 1..n : HitAt(imm, Len(imm), k, i) /\ Newest(imm, k) = imm[i][k]
    BY SMTT(30), <2>3, NewestOfSuffix DEF DropsOldest
  <2>6. ASSUME NEW i \in 1..n, HitAt(imm, Len(imm), k, i)
        PROVE  imm[i][k] # Absent /\ ReadersGet(Visible, k) = imm[i][k]
    BY <2>2, <2>6, FlushedHit
  <2>7. ReadersGet(Visible, k)' = ReadersGet(Visible, k)
    BY Zenon, <1>1, <2>1
  <2> QED
    BY Zenon, <1>2, <2>1, <2>4, <2>5, <2>6, <2>7 DEF MemGet
<1>6. CASE ~MemInsert /\ ~MinorAdd /\ ~MinorConsume
  <2>1. mem' = mem /\ imm' = imm
    <3>1. CASE ServerStep
      BY Zenon, <1>6, <3>1 DEF ServerStep, GetFromMemtables, Insert, WalAppend, GetFromReaders, Remove, NewSeg, memory
    <3>2. CASE MinorStep
      BY <1>6, <3>2 DEF MinorStep, MinorCount, MinorLock, MinorBuild, MinorFlush, MinorConsumeSeg, memory
    <3>3. CASE BgStep
      BY Zenon, <3>3, BgMoves
    <3>4. CASE Crash
      BY <3>4 DEF Crash, Die
    <3>5. CASE RestartStep
      BY <3>5, RestartFrame
    <3> QED
      BY Zenon, <3>1, <3>2, <3>3, <3>4, <3>5, Steps
  <2>2. MemGet(k)' = MemGet(k)
    BY Zenon, <2>1, MemGetKept
  <2> QED
    BY Zenon, <1>1, <1>2, <1>6, <2>2
<1> QED
  BY Zenon, <1>3, <1>4, <1>5, <1>6

\* A get returns what an entry holds, unless the entry is a tombstone.
LEMMA DecodeCases ==
  ASSUME NEW e, Decode(e) # Absent
  PROVE  Decode(e) = e /\ e # Absent
BY Zenon DEF Decode

\* A read that ends with Found(r, e) has found what get returns.
LEMMA FoundCases ==
  ASSUME NEW r \in Request, NEW e, Found(r, e)
  PROVE  \/ /\ r.op = "remove" /\ Decode(e) # Absent /\ Decode(e) = e
            /\ server' = "append" /\ reply' = Nothing
            /\ req'.op = "remove" /\ req'.key = r.key /\ req'.val = e
         \/ /\ r.op # "remove" \/ Decode(e) = Absent
            /\ server' = "idle" /\ req' = Nothing /\ reply' = Decode(e)
<1>1. CASE r.op = "remove" /\ Decode(e) # Absent
  <2>1. server' = "append" /\ req' = [r EXCEPT !.val = e] /\ reply' = Nothing
    BY <1>1 DEF Found
  <2> QED
    BY <1>1, <2>1, DecodeCases DEF Request
<1>2. CASE ~ (r.op = "remove" /\ Decode(e) # Absent)
  BY <1>2 DEF Found
<1> QED
  BY <1>1, <1>2

\* When get reads the readers, the memtables do not have the key.
LEMMA ReadingReaders ==
  ASSUME Shape, OneReadersWriter, ReadsAreCurrent, GetFromReaders
  PROVE  Current(req.key) = Decode(ReadersGet(levels, req.key))
<1>1. server = "getsst" /\ ~Committing("background")
  BY Zenon DEF GetFromReaders, ReadersWriteLocked
<1>2. Visible = levels
  BY <1>1 DEF Shape
<1>3. MemGet(req.key) = Absent
  BY <1>1 DEF ReadsAreCurrent
<1> QED
  BY <1>2, <1>3 DEF Current

\* Every step keeps ReadsAreCurrent: a get that has missed in the memtables stays right.
LEMMA ReadsAreCurrentStep ==
  ASSUME TableLaws, SoundStep, Shape, Shape'
  PROVE  ReadsAreCurrent'
<1> /\ ~ClientMajor /\ TypeOK /\ Control /\ Files /\ InputsAreThere /\ MergeIsFaithful
    /\ OneReadersWriter /\ FlushedAreReadable /\ ReadsAreCurrent /\ Next /\ TypeOK' /\ Control'
  BY Zenon DEF SoundStep, IndInv, Data
<1>1. ASSUME server' \notin {"getsst", "append", "appended"} PROVE ReadsAreCurrent'
  BY Zenon, <1>1 DEF ReadsAreCurrent, Pending
<1>2. CASE Crash \/ RestartStep
  <2>1. server' = "idle"
    BY <1>2, RestartFrame DEF Crash, Die, requests
  <2> QED
    BY <1>1, <2>1
<1>3. ASSUME ServerStep \/ MinorStep \/ BgStep PROVE phase = "up" /\ phase' = "up"
  BY Zenon, <1>3, UpSteps, ServerFrame, MinorFrame, BgMoves DEF MinorStep, MinorBuild, MinorAdd
<1>4. ASSUME phase = "up", phase' = "up", ~MemInsert, UNCHANGED requests, server = "getsst" => ~MinorConsume
      PROVE  ReadsAreCurrent'
  <2>1. UNCHANGED <<server, req, reply>>
    BY <1>4 DEF requests
  <2>2. Pending' => reply' = Nothing
    BY <2>1 DEF Pending, ReadsAreCurrent
  <2>3. ASSUME server' = "getsst" PROVE MemGet(req.key)' = Absent
    <3>1. mem' = mem /\ imm' = imm
      <4>1. CASE ServerStep
        BY Zenon, <1>4, <4>1 DEF ServerStep, GetFromMemtables, Insert, WalAppend, GetFromReaders, Remove, NewSeg, memory
      <4>2. CASE MinorStep
        BY Zenon, <1>4, <2>1, <2>3, <4>2 DEF MinorStep, MinorCount, MinorLock, MinorBuild, MinorAdd, MinorFlush, MinorConsumeSeg, memory
      <4>3. CASE BgStep
        BY Zenon, <4>3, BgMoves
      <4>4. CASE Crash
        BY <1>4, <4>4 DEF Crash, Die
      <4>5. CASE RestartStep
        BY Zenon, <4>5, RestartFrame
      <4> QED
        BY Zenon, <4>1, <4>2, <4>3, <4>4, <4>5, Steps
    <3>2. MemGet(req.key)' = IF mem'[req'.key] # Absent THEN mem'[req'.key] ELSE Newest(imm', req'.key)
      BY Zenon DEF MemGet, Newest, Holders
    <3>3. MemGet(req.key) = Absent
      BY Zenon, <2>1, <2>3 DEF ReadsAreCurrent
    <3> QED
      BY Zenon, <2>1, <3>1, <3>2, <3>3 DEF MemGet
  <2>4. ASSUME server' \in {"append", "appended"}, req'.op = "remove" PROVE Current(req.key)' = req'.val
    <3>1. server \in {"append", "appended"} /\ req.op = "remove" /\ req.key \in Keys
      BY Zenon, <2>1, <2>4 DEF TypeOK, RequestType, Pending, Request
    <3>2. Current(req.key) = req.val
      BY Zenon, <3>1 DEF ReadsAreCurrent
    <3>3. PICK k \in Keys : k = req.key
      BY Zenon, <3>1
    <3>4. Current(req.key)' = Current(k)'
      BY <2>1, <3>3, PrimedCurrent
    <3>5. Current(k)' = Current(k)
      BY Zenon, <1>4, CurrentStep
    <3> QED
      BY Zenon, <2>1, <3>2, <3>3, <3>4, <3>5
  <2> QED
    BY <2>2, <2>3, <2>4 DEF ReadsAreCurrent
<1>5. CASE MinorStep \/ BgStep
  <2>1. UNCHANGED requests /\ ~MemInsert
    <3>1. UNCHANGED requests
      BY <1>5, MinorFrame, BgMoves DEF MinorStep, MinorBuild, MinorAdd
    <3> QED
      BY Zenon, <3>1 DEF MemInsert, requests
  <2>2. server = "getsst" => ~MinorConsume
    BY Zenon DEF MinorConsume, ImmReadLocked
  <2> QED
    BY Zenon, <1>3, <1>4, <1>5, <2>1, <2>2
<1>6. CASE MemInsert \/ NewSeg
  <2>1. server' \in {"idle", "newseg"}
    BY Zenon, <1>6 DEF MemInsert, NewSeg
  <2> QED
    BY SMTT(30), <1>1, <2>1
<1>7. CASE \E k \in Keys, v \in Vals : Insert(k, v)
  <2>1. server' = "appended" /\ reply' = Nothing /\ req'.op = "insert"
    BY SMTT(30), <1>7 DEF Insert, WalAppend
  <2> QED
    BY Zenon, <2>1 DEF ReadsAreCurrent
<1>8. CASE Remove
  <2>1. server = "append" /\ server' = "appended" /\ reply' = Nothing /\ req' = req /\ ~MemInsert
    BY Zenon, <1>8 DEF Remove, WalAppend, MemInsert
  <2>2. PICK k \in Keys : k = req.key
    BY Zenon, <2>1 DEF TypeOK, RequestType, Pending, Request
  <2>3. req.op = "remove" => Current(k) = req.val
    BY <2>1, <2>2 DEF ReadsAreCurrent
  <2>4. Current(req.key)' = Current(k)'
    BY <2>1, <2>2, PrimedCurrent
  <2>5. Current(k)' = Current(k)
    BY Zenon, <1>3, <1>8, <2>1, CurrentStep DEF ServerStep
  <2> QED
    BY Zenon, <2>1, <2>3, <2>4, <2>5 DEF ReadsAreCurrent
<1>9. ASSUME NEW r \in Request, NEW e, Found(r, e), Decode(e) = Current(r.key), ~MemInsert, phase = "up", phase' = "up"
      PROVE  ReadsAreCurrent'
  <2>1. CASE server' = "idle"
    BY Zenon, <1>1, <2>1
  <2>2. CASE server' # "idle"
    <3>1. server' = "append" /\ reply' = Nothing /\ req'.key = r.key /\ req'.val = Decode(e)
      BY Zenon, <1>9, <2>2, FoundCases
    <3>2. PICK k \in Keys : k = r.key
      BY Zenon DEF Request
    <3>3. Current(req.key)' = Current(k)'
      BY Zenon, <3>1, <3>2, PrimedCurrent
    <3>4. Current(k)' = Current(k)
      BY Zenon, <1>9, CurrentStep
    <3> QED
      BY Zenon, <1>9, <3>1, <3>2, <3>3, <3>4 DEF ReadsAreCurrent
  <2> QED
    BY Zenon, <2>1, <2>2
<1>10. CASE GetFromReaders
  <2>1. req \in Request /\ Found(req, ReadersGet(levels, req.key)) /\ ~MemInsert
    BY Zenon, <1>10 DEF GetFromReaders, MemInsert, TypeOK, RequestType, Pending
  <2>2. Current(req.key) = Decode(ReadersGet(levels, req.key))
    BY Zenon, <1>10, ReadingReaders
  <2>3. PICK r \in Request : r = req
    BY Zenon, <2>1
  <2>4. PICK e : e = ReadersGet(levels, req.key)
    BY Zenon
  <2>5. phase = "up" /\ phase' = "up"
    BY <1>3, <1>10 DEF ServerStep
  <2>6. Found(r, e) /\ Decode(e) = Current(r.key)
    BY Zenon, <2>1, <2>2, <2>3, <2>4
  <2> QED
    BY Zenon, <1>9, <2>1, <2>5, <2>6
<1>11. ASSUME NEW op \in {"get", "remove"}, NEW k \in Keys, GetFromMemtables(op, k) PROVE ReadsAreCurrent'
  <2>1. phase = "up" /\ phase' = "up" /\ ~MemInsert /\ mem' = mem /\ imm' = imm
    BY Zenon, <1>11 DEF GetFromMemtables, MemInsert, memory
  <2> DEFINE r == [op |-> op, key |-> k, val |-> Absent]
  <2>2. r \in Request /\ r.key = k
    BY Zenon DEF Request
  <2>3. CASE MemGet(k) # Absent
    <3>1. Found(r, MemGet(k))
      BY Zenon, <1>11, <2>3 DEF GetFromMemtables
    <3>2. Decode(MemGet(k)) = Current(k)
      BY Zenon, <2>3 DEF Current
    <3>3. PICK e : e = MemGet(k)
      BY Zenon
    <3> HIDE DEF r
    <3> QED
      BY Zenon, <1>9, <2>1, <2>2, <3>1, <3>2, <3>3
  <2>4. CASE MemGet(k) = Absent
    <3>1. server' = "getsst" /\ req' = r /\ reply' = Nothing
      BY <1>11, <2>4 DEF GetFromMemtables
    <3>2. MemGet(req.key)' = MemGet(k)'
      BY Zenon, <2>2, <3>1, PrimedCurrent
    <3>3. MemGet(k)' = Absent
      BY <2>1, <2>4, MemGetKept
    <3> QED
      BY SMTT(30), <3>1, <3>2, <3>3 DEF ReadsAreCurrent
  <2> QED
    BY Zenon, <2>3, <2>4
<1> QED
  BY <1>2, <1>5, <1>6, <1>7, <1>8, <1>10, <1>11, Steps DEF ServerStep

------------------------------------------------------------------------------
(***************************************************************************)
(* Data is an invariant.                                                   *)
(***************************************************************************)
LEMMA InitData == Init => Data
<1> SUFFICES ASSUME Init PROVE Data
  BY Zenon
<1>1. DOMAIN sst = {} /\ levels = NoFiles /\ manifest = NoFiles /\ imm = <<>> /\ wal = <<>> /\ phase = "up"
      /\ minor = NoMinor /\ server = "idle" /\ BgPc = "idle" /\ BgJob = NoJob /\ majorPc["server"] = "idle"
  BY DEF Init, BgPc, BgJob
<1>2. TablesHaveKeys
  BY <1>1 DEF TablesHaveKeys
<1>3. InputsAreThere /\ MergeIsFaithful
  BY Zenon, <1>1 DEF InputsAreThere, MergeIsFaithful, NoJob
<1>4. Disjoint(NoFiles)
  BY Zenon DEF Disjoint, NoFiles
<1>5. ~Merging
  BY Zenon, <1>1 DEF Merging, Committing, BgPc
<1>6. RangesAreDisjoint
  BY Zenon, <1>1, <1>4, <1>5 DEF RangesAreDisjoint
<1>7. OneReadersWriter
  BY Zenon, <1>1 DEF OneReadersWriter, NoMinor
<1>8. Flushed = 0 /\ minor.pc # "add"
  BY <1>1 DEF Flushed, NoMinor
<1>9. FlushedAreReadable
  BY <1>8 DEF FlushedAreReadable
<1>10. RedoIsReadable
  BY Zenon, <1>1 DEF RedoIsReadable
<1>11. ReadsAreCurrent
  BY Zenon, <1>1 DEF ReadsAreCurrent, Pending
<1> QED
  BY Zenon, <1>2, <1>3, <1>6, <1>7, <1>9, <1>10, <1>11 DEF Data

\* The readers return the same when nothing changes.
LEMMA StutterShape ==
  ASSUME TableLaws, IndInv, Data, UNCHANGED vars, IndInv'
  PROVE  /\ Shape /\ Shape' /\ InputsAreThere' /\ RangesAreDisjoint' /\ OneReadersWriter'
         /\ Merging' = Merging /\ AfterCommit' = AfterCommit /\ Visible' = Visible
<1> USE DEF vars, memory, disk, requests, majors, bounds
<1>1. BgPc' = BgPc /\ BgJob' = BgJob /\ Committing("background")' = Committing("background")
  BY Zenon DEF BgPc, BgJob, Committing
<1>2. Merging' = Merging /\ AfterCommit' = AfterCommit
  BY Zenon, <1>1 DEF Merging, AfterCommit
<1>3. InputsAreThere' /\ RangesAreDisjoint' /\ OneReadersWriter'
  BY Zenon, <1>1, <1>2 DEF Data, InputsAreThere, RangesAreDisjoint, OneReadersWriter, Disjoint
<1>4. Shape
  BY Zenon, StateShape DEF IndInv, Data
<1>5. TypeOK' /\ Control' /\ Files'
  BY Zenon DEF IndInv
<1>6. Shape'
  BY <1>3, <1>5, StateShape, PTL
<1>7. Visible' = Visible
  BY ZenonT(40) DEF Visible, Committing
<1> QED
  BY Zenon, <1>2, <1>3, <1>4, <1>6, <1>7

\* A step that changes nothing changes no lookup,
LEMMA StutterReads ==
  ASSUME TableLaws, IndInv, Data, UNCHANGED vars, IndInv', NEW k \in Keys
  PROVE  /\ ReadersGet(levels, k)' = ReadersGet(levels, k)
         /\ ReadersGet(Visible, k)' = ReadersGet(Visible, k)
         /\ Merging => ReadersGet(AfterCommit, k)' = ReadersGet(AfterCommit, k)
         /\ Newest(Logged, k)' = Newest(Logged, k) /\ MemGet(k)' = MemGet(k)
         /\ Current(k)' = Current(k)
<1>1. sst' = sst /\ levels' = levels /\ wal' = wal /\ mem' = mem /\ imm' = imm
  BY Zenon DEF vars, memory, disk
<1>2. /\ Shape /\ Shape'
      /\ Merging' = Merging /\ AfterCommit' = AfterCommit /\ Visible' = Visible
  BY Zenon, StutterShape
<1>3. ReadersGet(levels, k)' = ReadersGet(levels, k)
  BY ZenonT(30), <1>1, <1>2 DEF Shape, Readable
<1>4. ReadersGet(Visible, k)' = ReadersGet(Visible, k)
  <2>1. Readable(Visible) /\ Readable(Visible)'
    BY Zenon, <1>2 DEF Shape
  <2>2. /\ ReadersGet(Visible, k) = Lookup(sst, Visible, k)
        /\ ReadersGet(Visible, k)' = Lookup(sst', Visible', k)
    BY Zenon, <2>1 DEF Readable
  <2> QED
    BY Zenon, <1>1, <1>2, <2>2
<1>5. Merging => ReadersGet(AfterCommit, k)' = ReadersGet(AfterCommit, k)
  <2>1. Merging => Readable(AfterCommit) /\ Readable(AfterCommit)'
    BY Zenon, <1>2 DEF Shape
  <2>2. Merging => /\ ReadersGet(AfterCommit, k) = Lookup(sst, AfterCommit, k)
                   /\ ReadersGet(AfterCommit, k)' = Lookup(sst', AfterCommit', k)
    BY Zenon, <2>1 DEF Readable
  <2> QED
    BY Zenon, <1>1, <1>2, <2>2
<1>6. Newest(Logged, k)' = Newest(Logged, k) /\ MemGet(k)' = MemGet(k)
  BY Zenon, <1>1, SameLog, MemGetKept
<1> QED
  BY Zenon, <1>3, <1>4, <1>5, <1>6 DEF Current, Decode

\* and keeps Data.
LEMMA StutterData ==
  ASSUME TableLaws, IndInv, Data, UNCHANGED vars, IndInv'
  PROVE  Data'
<1>1. InputsAreThere' /\ RangesAreDisjoint' /\ OneReadersWriter'
  BY Zenon, StutterShape
<1> USE DEF vars, memory, disk, requests, majors, bounds
<1>2. TablesHaveKeys'
  BY Zenon DEF Data, TablesHaveKeys
<1>3. MergeIsFaithful'
  <2>1. BgPc' = BgPc
    BY Zenon DEF BgPc
  <2> QED
    BY Zenon, <2>1, StutterReads DEF Data, MergeIsFaithful, Merging
<1>4. FlushedAreReadable'
  <2>1. Flushed' = Flushed
    BY Zenon DEF Flushed
  <2> QED
    BY Zenon, <2>1, StutterReads DEF Data, FlushedAreReadable
<1>5. RedoIsReadable'
  BY Zenon, StutterReads DEF Data, RedoIsReadable
<1>6. ReadsAreCurrent'
  <2>1. Pending' = Pending
    BY Zenon DEF Pending
  <2>2. Pending => req.key \in Keys /\ req'.key = req.key
    BY Zenon DEF IndInv, TypeOK, RequestType, Request
  <2> QED
    BY Zenon, <2>1, <2>2, StutterReads, PrimedCurrent DEF Data, ReadsAreCurrent, Pending
<1> QED
  BY Zenon, <1>1, <1>2, <1>3, <1>4, <1>5, <1>6 DEF Data

\* What the step lemmas need holds before and after the step.
LEMMA ShapeStep ==
  ASSUME TableLaws, SoundStep
  PROVE  OneReadersWriter' /\ InputsAreThere' /\ TablesHaveKeys' /\ RangesAreDisjoint' /\ Shape /\ Shape'
<1>1. Shape
  BY Zenon, StateShape DEF SoundStep, IndInv, Data
<1>2. OneReadersWriter' /\ InputsAreThere' /\ TablesHaveKeys' /\ RangesAreDisjoint'
  BY Zenon, <1>1, OneReadersWriterStep, InputsAreThereStep, TablesHaveKeysStep, RangesStep
<1>3. TypeOK' /\ Control' /\ Files'
  BY Zenon DEF SoundStep, IndInv
<1>4. Shape'
  BY <1>2, <1>3, StateShape, PTL
<1> QED
  BY Zenon, <1>1, <1>2, <1>4

\* Every step of the engine keeps Data, if clients request no major compaction.
LEMMA DataStep ==
  ASSUME TableLaws, ~ClientMajor, IndInv, Data, [Next]_vars, IndInv'
  PROVE  Data'
<1>1. CASE UNCHANGED vars
  BY <1>1, StutterData
<1>2. CASE Next
  <2>1. SoundStep
    BY Zenon, <1>2 DEF SoundStep
  <2>2. OneReadersWriter' /\ InputsAreThere' /\ TablesHaveKeys' /\ RangesAreDisjoint' /\ Shape /\ Shape'
    BY <2>1, ShapeStep
  <2>3. MergeIsFaithful' /\ FlushedAreReadable' /\ RedoIsReadable' /\ ReadsAreCurrent'
    BY <2>1, <2>2, MergeIsFaithfulStep, FlushedAreReadableStep, RedoIsReadableStep, ReadsAreCurrentStep
  <2> QED
    BY <2>2, <2>3 DEF Data
<1> QED
  BY <1>1, <1>2
==============================================================================
