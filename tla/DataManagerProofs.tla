-------------------------- MODULE DataManagerProofs --------------------------
(***************************************************************************)
(* Every step of DataManager preserves IndInv: its files exist and belong  *)
(* to one thread or level, and its log mirrors its memtables.  This holds  *)
(* with crashes anywhere and with clients that request major compactions.  *)
(***************************************************************************)
EXTENDS DataManagerTypes

USE DEF Threads

(***************************************************************************)
(* Every step preserves Files: a table is built under a number nobody      *)
(* uses, belongs to one thread until it is added to one level, and is      *)
(* deleted only after it has left that level.                              *)
(***************************************************************************)
\* There are always finitely many SSTables.
LEMMA FiniteFilesStep ==
  ASSUME TableLaws, TypeOK, Control, Files, Next
  PROVE  IsFiniteSet(DOMAIN sst')
<1> USE DEF disk, Files
<1>1. ASSUME MinorBuild PROVE IsFiniteSet(DOMAIN sst')
  <2>1. DOMAIN sst' = DOMAIN sst \cup {nextFile}
    BY Zenon, <1>1 DEF MinorBuild
  <2> QED
    BY Zenon, <2>1 DEF TableLaws, FiniteLaw
<1>2. ASSUME NEW t \in Threads, MajorMerge(t) PROVE IsFiniteSet(DOMAIN sst')
  <2>1. DOMAIN sst' = DOMAIN sst \cup NewTables(job[t].level)
    BY Zenon, <1>2 DEF MajorMerge
  <2>2. PartCount(MergedInputs(job[t].level), SstMaxSize) \in Nat
    BY Zenon, <1>2, MergedInputsType DEF MajorMerge
  <2>3. nextFile \in Int /\ nextFile + PartCount(MergedInputs(job[t].level), SstMaxSize) - 1 \in Int
    BY <2>2 DEF TypeOK, MemoryType
  <2>4. IsFiniteSet(NewTables(job[t].level))
    BY Zenon, <2>3 DEF NewTables, TableLaws, IntervalLaw
  <2> QED
    BY Zenon, <2>1, <2>4 DEF TableLaws, FiniteLaw
<1>3. ASSUME NEW t \in Threads, MajorUnlink(t) PROVE IsFiniteSet(DOMAIN sst')
  <2>1. DOMAIN sst' \in SUBSET DOMAIN sst
    BY Zenon, <1>3 DEF MajorUnlink
  <2> QED
    BY Zenon, <2>1 DEF TableLaws, FiniteLaw
<1>4. ASSUME NEW t \in Threads, MajorUnlinkFails(t) PROVE IsFiniteSet(DOMAIN sst')
  <2>1. DOMAIN sst' \in SUBSET DOMAIN sst
    BY Zenon, <1>4 DEF MajorUnlinkFails
  <2> QED
    BY <2>1 DEF TableLaws, FiniteLaw
<1>5. ASSUME RedoBuild PROVE IsFiniteSet(DOMAIN sst')
  <2> DEFINE new == nextFile..(nextFile + Len(wal) - 1)
  <2>1. DOMAIN sst' = DOMAIN sst \cup new
    BY Zenon, <1>5 DEF RedoBuild
  <2>2. nextFile \in Int /\ nextFile + Len(wal) - 1 \in Int
    BY DEF TypeOK, MemoryType, DiskType
  <2>3. IsFiniteSet(new)
    BY Zenon, <2>2 DEF TableLaws, IntervalLaw
  <2> QED
    BY Zenon, <2>1, <2>3 DEF TableLaws, FiniteLaw
<1>6. ASSUME GetFromReaders \/ Remove \/ MemInsert \/ NewSeg \/ MinorCount \/ MinorLock \/
             MinorAdd \/ MinorFlush \/ MinorConsumeSeg \/ MinorConsume \/ Crash \/
             DropEmptySeg \/ Restart \/ RestartFails \/ RedoAdd \/ RedoFlush \/ RedoDelete
      PROVE  IsFiniteSet(DOMAIN sst')
  <2>1. UNCHANGED sst
    BY Zenon, <1>6
       DEF GetFromReaders, Remove, WalAppend, MemInsert, NewSeg, MinorCount, MinorLock, MinorAdd,
           MinorFlush, MinorConsumeSeg, MinorConsume, Crash, Die, DropEmptySeg, Restart,
           RestartFails, RedoAdd, RedoFlush, RedoDelete
  <2> QED
    BY Zenon, <2>1
<1>7. ASSUME NEW t \in Threads, MajorPick(t) \/ MajorRemove0(t) \/ MajorRemove1(t) \/
             MajorFlush(t) \/ MajorAdd(t) \/ MajorPanics(t)
      PROVE  IsFiniteSet(DOMAIN sst')
  <2>1. UNCHANGED sst
    BY Zenon, <1>7
       DEF MajorPick, MajorRemove0, MajorRemove, MajorRemove1, MajorFlush, MajorAdd, MajorPanics,
           Die
  <2> QED
    BY Zenon, <2>1
<1>8. ASSUME NEW op \in {"get", "remove"}, NEW k \in Keys, GetFromMemtables(op, k) PROVE IsFiniteSet(DOMAIN sst')
  <2>1. UNCHANGED sst
    BY Zenon, <1>8 DEF GetFromMemtables
  <2> QED
    BY Zenon, <2>1
<1>9. ASSUME NEW k \in Keys, NEW v \in Vals, Insert(k, v) PROVE IsFiniteSet(DOMAIN sst')
  <2>1. UNCHANGED sst
    BY Zenon, <1>9 DEF Insert, WalAppend
  <2> QED
    BY Zenon, <2>1
<1> QED
  BY Zenon, <1>1, <1>2, <1>3, <1>4, <1>5, <1>6, <1>7, <1>8, <1>9
     DEF Next, ServerStep, MinorStep, MajorStep, RestartStep

\* No compaction is under way before the database is open.
LEMMA QuietJobs ==
  ASSUME Control, phase # "up"
  PROVE  minor = NoMinor /\ \A t \in Threads : majorPc[t] = "idle" /\ InputsOf(t) = {} /\ job[t].out = {}
BY Zenon DEF Control, Quiet, JobLevels, InputsOf

\* Memtable::build_sstable creates a file nobody refers to yet.
LEMMA MinorBuildFiles ==
  ASSUME TypeOK, Control, Files, MinorBuild, IsFiniteSet(DOMAIN sst')
  PROVE  Files'
<1>1. /\ DOMAIN sst' = DOMAIN sst \cup {nextFile} /\ nextFile' = nextFile + 1
      /\ minor.pc = "build" /\ minor'.pc = "add" /\ minor'.file = nextFile
      /\ UNCHANGED <<phase, levels, manifest, majorPc, job, redoFiles>>
  BY Zenon DEF MinorBuild, TypeOK, MinorType, majors
<1>2. phase = "up"
  BY <1>1 DEF Control, Quiet, NoMinor
<1>3. /\ \A f \in Named(levels) \cup redoFiles : f \in Nat /\ f < nextFile
      /\ \A t \in Threads : \A f \in InputsOf(t) \cup job[t].out : f \in Nat /\ f < nextFile
  BY Zenon, <1>2, UsedNumbers DEF Running
<1>4. nextFile \in Nat /\ levels[0] \subseteq Named(levels)
  BY NamedFiles, OptionsAssumption DEF TypeOK, MemoryType, Levels
<1>5. \A t \in Threads : InputsOf(t)' = InputsOf(t)
  BY Zenon, <1>1 DEF InputsOf
<1>6. Named(levels)' = Named(levels)
  BY Zenon, <1>1 DEF Named
<1>7. FileNumbersBelowNext'
  BY <1>1, <1>3, <1>4, <1>5, <1>6 DEF FileNumbersBelowNext
<1>8. MinorFileIsFresh'
  BY <1>1, <1>3, <1>4, <1>5, <1>6 DEF MinorFileIsFresh
<1>9. ReferencedFilesExist' /\ ManifestInSync' /\ (manifest # Torn => OneLevelEach(manifest))' /\ OneLevelEach(levels)'
  BY Zenon, <1>1, <1>6 DEF Files, ReferencedFilesExist, OneLevelEach, ManifestInSync, Running, Named
<1>10. OutputsAreFresh'
  BY Zenon, <1>1, <1>5, <1>6 DEF Files, OutputsAreFresh, Unadded
<1>11. InputsStayOnLevel' /\ RemovedInputsAreGone' /\ RedoFilesAreFresh'
  BY Zenon, <1>1, <1>2, <1>6 DEF Files, InputsStayOnLevel, RemovedInputsAreGone, RedoFilesAreFresh, Removed0, Removed1
<1> QED
  BY Zenon, <1>7, <1>8, <1>9, <1>10, <1>11 DEF Files

\* size_compaction merges into files nobody refers to yet.
LEMMA MajorMergeFiles ==
  ASSUME TableLaws, TypeOK, Control, Files, NEW t \in Threads, MajorMerge(t), IsFiniteSet(DOMAIN sst')
  PROVE  Files'
<1> DEFINE l == job[t].level
           new == NewTables(l)
<1>1. /\ DOMAIN sst' = DOMAIN sst \cup new
      /\ nextFile' = nextFile + PartCount(MergedInputs(l), SstMaxSize)
      /\ majorPc[t] = "picked" /\ majorPc' = [majorPc EXCEPT ![t] = "merged"]
      /\ job' = [job EXCEPT ![t] = [level |-> l, in0 |-> levels[l], in1 |-> NextInputs(l), out |-> new]]
      /\ UNCHANGED <<phase, levels, manifest, minor, redoFiles>>
  BY Zenon DEF MajorMerge
<1>2. phase = "up"
  BY Zenon, <1>1 DEF Control, Quiet
<1>3. /\ \A f \in Named(levels) \cup redoFiles : f \in Nat /\ f < nextFile
      /\ \A u \in Threads : \A f \in InputsOf(u) \cup job[u].out : f \in Nat /\ f < nextFile
  BY Zenon, <1>2, UsedNumbers DEF Running
<1>4. l \in Levels /\ l + 1 \in Levels /\ nextFile \in Nat
  BY Zenon, <1>1 DEF Control, JobLevels, TypeOK, MajorType, MemoryType
<1>5. PartCount(MergedInputs(l), SstMaxSize) \in Nat
  BY Zenon, <1>1, MergedInputsType
<1>6. /\ nextFile' \in Nat /\ nextFile =< nextFile'
      /\ \A f \in new : f \in Nat /\ f >= nextFile /\ f < nextFile'
  BY SMTT(30), <1>1, <1>4, <1>5 DEF NewTables
<1>7. levels[l] \subseteq Named(levels) /\ NextInputs(l) \subseteq Named(levels)
      /\ NextInputs(l) \subseteq levels[l + 1]
  BY Zenon, <1>4, NamedFiles DEF NextInputs, OtherReaders, TypeOK, MemoryType
<1>8. /\ majorPc'[t] = "merged" /\ job'[t].level = l /\ job'[t].in0 = levels[l]
      /\ job'[t].in1 = NextInputs(l) /\ job'[t].out = new
      /\ \A u \in Threads \ {t} : job'[u] = job[u] /\ majorPc'[u] = majorPc[u]
  BY Zenon, <1>1 DEF TypeOK, MajorType
<1>9. InputsOf(t)' \subseteq Named(levels) /\ \A u \in Threads \ {t} : InputsOf(u)' = InputsOf(u)
  BY Zenon, <1>7, <1>8 DEF InputsOf
<1>10. Named(levels)' = Named(levels)
  BY Zenon, <1>1 DEF Named
<1> HIDE DEF new, l
<1>11. FileNumbersBelowNext'
  <2>1. minor.pc \in {"add", "flush", "seg"} => minor.file \in Nat /\ minor.file < nextFile
    BY Zenon, <1>2 DEF Files, FileNumbersBelowNext, Running, TypeOK, MinorType
  <2>2. \A f \in Nat : f < nextFile => f < nextFile'
    BY <1>4, <1>6
  <2>3. \A u \in Threads : \A f \in InputsOf(u)' \cup job'[u].out : f < nextFile'
    BY Zenon, <1>3, <1>6, <1>8, <1>9, <2>2
  <2> QED
    BY Zenon, <1>1, <1>3, <1>10, <2>1, <2>2, <2>3 DEF FileNumbersBelowNext
<1>12. MinorFileIsFresh'
  <2>1. minor.pc = "add" => minor.file \notin new
    BY SMTT(30), <1>2, <1>4, <1>6 DEF Files, FileNumbersBelowNext, Running
  <2> QED
    BY Zenon, <1>1, <1>8, <1>9, <1>10, <2>1 DEF Files, MinorFileIsFresh
<1>13. OutputsAreFresh'
  <2>1. /\ new \cap Named(levels) = {}
        /\ \A u \in Threads : new \cap InputsOf(u) = {} /\ new \cap job[u].out = {}
    BY <1>3, <1>4, <1>6
  <2>2. \A u \in Threads : new \cap InputsOf(u)' = {}
    BY Zenon, <2>1, <1>9
  <2>3. \A u \in Threads \ {t} : Unadded(u) => job[u].out \cap InputsOf(t)' = {}
    BY Zenon, <1>9 DEF Files, OutputsAreFresh
  <2> QED
    BY <1>1, <1>8, <1>9, <1>10, <2>1, <2>2, <2>3 DEF Files, OutputsAreFresh, Unadded
<1>14. InputsStayOnLevel' /\ RemovedInputsAreGone'
  <2>1. \A m \in Levels : (m # l => levels[l] \cap levels[m] = {})
                          /\ (m # l + 1 => NextInputs(l) \cap levels[m] = {})
    BY Zenon, <1>4, <1>7 DEF Files, OneLevelEach
  <2> QED
    BY SMTT(30), <1>1, <1>8, <1>10, <2>1 DEF Files, InputsStayOnLevel, RemovedInputsAreGone, Removed0, Removed1
<1>15. ReferencedFilesExist' /\ ManifestInSync' /\ (manifest # Torn => OneLevelEach(manifest))' /\ OneLevelEach(levels)'
  BY Zenon, <1>1, <1>10 DEF Files, ReferencedFilesExist, OneLevelEach, ManifestInSync, Running, Named
<1>16. RedoFilesAreFresh'
  BY Zenon, <1>1, <1>2 DEF Files, RedoFilesAreFresh
<1> QED
  BY Zenon, <1>11, <1>12, <1>13, <1>14, <1>15, <1>16 DEF Files

\* A compaction's step that takes files off level l, or adds its own
\* outputs to it, makes the manifest Torn and touches no file.
LEMMA MajorRemoveFiles ==
  ASSUME TypeOK, Control, Files, NEW t \in Threads, MajorRemove0(t) \/ MajorRemove1(t)
  PROVE  Files'
<1>1. PICK l \in Levels, fs \in {job[t].in0, job[t].in1} :
        /\ levels' = [levels EXCEPT ![l] = @ \ fs] /\ manifest' = Torn
        /\ \/ /\ majorPc[t] = "merged" /\ majorPc' = [majorPc EXCEPT ![t] = "flush0"]
              /\ l = job[t].level /\ fs = job[t].in0
           \/ /\ majorPc[t] = "remove1" /\ majorPc' = [majorPc EXCEPT ![t] = "flush1"]
              /\ l = job[t].level + 1 /\ fs = job[t].in1
        /\ UNCHANGED <<phase, nextFile, sst, job, minor, redoFiles>>
  BY Zenon DEF MajorRemove0, MajorRemove1, MajorRemove, Control, JobLevels, TypeOK, MajorType
<1>2. phase = "up"
  BY Zenon, <1>1 DEF Control, Quiet
<1>3. /\ levels'[l] = levels[l] \ fs /\ \A m \in Levels \ {l} : levels'[m] = levels[m]
      /\ \A m \in Levels : levels'[m] \subseteq levels[m]
  BY Zenon, <1>1 DEF TypeOK, MemoryType, LevelFiles
<1>4. Named(levels') \subseteq Named(levels)
  BY Zenon, <1>3 DEF Named
<1>5. fs \cap Named(levels') = {}
  BY <1>1, <1>3 DEF Named, Files, InputsStayOnLevel
<1>6. 0 \in Levels
  BY OptionsAssumption DEF Levels
<1>7. OneLevelEach(levels')
  BY Zenon, <1>3 DEF Files, OneLevelEach
<1>8. ReferencedFilesExist' /\ ManifestInSync'
  BY Zenon, <1>1, <1>4 DEF Files, ReferencedFilesExist, ManifestInSync
<1>9. FileNumbersBelowNext' /\ MinorFileIsFresh'
  BY Zenon, <1>1, <1>3, <1>4, <1>6 DEF Files, FileNumbersBelowNext, MinorFileIsFresh, InputsOf, Running
<1>10. OutputsAreFresh'
  BY Zenon, <1>1, <1>4 DEF Files, OutputsAreFresh, Unadded, InputsOf, TypeOK, MajorType
<1>11. RedoFilesAreFresh'
  BY Zenon, <1>1, <1>2 DEF Files, RedoFilesAreFresh
<1>12. InputsStayOnLevel'
  BY <1>1, <1>3 DEF Files, InputsStayOnLevel
<1>13. RemovedInputsAreGone'
  BY Zenon, <1>1, <1>4, <1>5 DEF Files, RemovedInputsAreGone, Removed0, Removed1, TypeOK, MajorType
<1> QED
  BY Zenon, <1>1, <1>7, <1>8, <1>9, <1>10, <1>11, <1>12, <1>13 DEF Files

\* remove_by_file_names deletes only files that no level has any more.
LEMMA MajorUnlinkFiles ==
  ASSUME TypeOK, Control, Files, NEW t \in Threads, MajorUnlink(t) \/ MajorUnlinkFails(t),
         IsFiniteSet(DOMAIN sst')
  PROVE  Files'
<1>1. /\ DOMAIN sst \ DOMAIN sst' \subseteq Inputs(t)
      /\ majorPc[t] \in {"unlink0", "unlink1"}
      /\ \/ /\ UNCHANGED job
            /\ majorPc' = [majorPc EXCEPT ![t] = IF @ = "unlink0" THEN "remove1" ELSE "add"]
         \/ /\ job' = [job EXCEPT ![t] = NoJob]
            /\ majorPc' = [majorPc EXCEPT ![t] = IF t = "server" THEN "idle" ELSE "dead"]
      /\ UNCHANGED <<phase, levels, nextFile, manifest, minor, redoFiles>>
  BY Zenon DEF MajorUnlink, MajorUnlinkFails, memory
<1>2. phase = "up"
  BY Zenon, <1>1 DEF Control, Quiet
<1>3. Inputs(t) \subseteq InputsOf(t) /\ Inputs(t) \cap Named(levels) = {}
  BY Zenon, <1>1 DEF Inputs, InputsOf, Files, RemovedInputsAreGone, Removed0, Removed1
<1>4. \A u \in Threads : \/ job'[u] = job[u]
                         \/ job'[u] = NoJob /\ majorPc'[u] \in {"idle", "dead"}
  BY Zenon, <1>1 DEF TypeOK, MajorType
<1>5. \A u \in Threads : /\ InputsOf(u)' \subseteq InputsOf(u) /\ job'[u].out \subseteq job[u].out
                         /\ Unadded(u)' => Unadded(u) /\ job'[u] = job[u]
  BY SMTT(30), <1>1, <1>4 DEF InputsOf, NoJob, Unadded, TypeOK, MajorType
<1>6. Named(levels)' = Named(levels)
  BY SMTT(30), <1>1 DEF Named
<1>7. ReferencedFilesExist' /\ ManifestInSync' /\ (manifest # Torn => OneLevelEach(manifest))' /\ OneLevelEach(levels)'
  <2>1. Named(levels) \subseteq DOMAIN sst'
    BY Zenon, <1>1, <1>3 DEF Files, ReferencedFilesExist
  <2>2. manifest # Torn => manifest = levels
    BY Zenon, <1>2 DEF Files, ManifestInSync, Running
  <2> QED
    BY Zenon, <1>1, <1>6, <2>1, <2>2 DEF Files, ReferencedFilesExist, OneLevelEach, ManifestInSync, Running
<1>8. FileNumbersBelowNext' /\ RedoFilesAreFresh'
  BY Zenon, <1>1, <1>2, <1>5, <1>6 DEF Files, FileNumbersBelowNext, RedoFilesAreFresh, Running
<1>9. MinorFileIsFresh'
  BY Zenon, <1>1, <1>3, <1>5, <1>6 DEF Files, MinorFileIsFresh
<1>10. OutputsAreFresh'
  <2>1. \A u \in Threads : Unadded(u) => job[u].out \subseteq DOMAIN sst'
    BY Zenon, <1>1, <1>3 DEF Files, OutputsAreFresh
  <2> QED
    BY SMTT(30), <1>5, <1>6, <2>1 DEF Files, OutputsAreFresh
<1>11. InputsStayOnLevel'
  BY SMTT(30), <1>1, <1>4 DEF Files, InputsStayOnLevel, NoJob
<1>12. RemovedInputsAreGone'
  BY <1>1, <1>4, <1>6 DEF Files, RemovedInputsAreGone, Removed0, Removed1, NoJob, TypeOK, MajorType
<1> QED
  BY Zenon, <1>7, <1>8, <1>9, <1>10, <1>11, <1>12 DEF Files

\* add_readers gives the new files to one level.
LEMMA MajorAddFiles ==
  ASSUME TypeOK, Control, Files, NEW t \in Threads, MajorAdd(t)
  PROVE  Files'
<1> DEFINE l == job[t].level + 1
<1>1. /\ majorPc[t] = "add" /\ majorPc' = [majorPc EXCEPT ![t] = "flush2"]
      /\ levels' = [levels EXCEPT ![l] = @ \cup job[t].out] /\ manifest' = Torn
      /\ UNCHANGED <<phase, nextFile, sst, job, minor, redoFiles>>
  BY Zenon DEF MajorAdd
<1>2. phase = "up" /\ l \in Levels /\ l # 0 /\ 0 \in Levels
  BY <1>1, OptionsAssumption DEF Control, Quiet, JobLevels, TypeOK, MajorType, Levels
<1>3. levels'[l] = levels[l] \cup job[t].out /\ \A m \in Levels \ {l} : levels'[m] = levels[m]
  BY Zenon, <1>1, <1>2 DEF TypeOK, MemoryType, LevelFiles
<1>4. Named(levels') \subseteq Named(levels) \cup job[t].out
  BY Zenon, <1>3 DEF Named
<1> HIDE DEF l
<1>5. OneLevelEach(levels')
  BY <1>1, <1>2, <1>3 DEF Files, OneLevelEach, OutputsAreFresh, Unadded, Named
<1>6. ReferencedFilesExist' /\ ManifestInSync'
  BY Zenon, <1>1, <1>4 DEF Files, ReferencedFilesExist, ManifestInSync, OutputsAreFresh, Unadded
<1>7. FileNumbersBelowNext' /\ RedoFilesAreFresh'
  BY Zenon, <1>1, <1>2, <1>4 DEF Files, FileNumbersBelowNext, RedoFilesAreFresh, InputsOf, Running
<1>8. MinorFileIsFresh'
  BY Zenon, <1>1, <1>2, <1>3, <1>4 DEF Files, MinorFileIsFresh, InputsOf
<1>9. OutputsAreFresh'
  BY Zenon, <1>1, <1>4 DEF Files, OutputsAreFresh, Unadded, InputsOf, TypeOK, MajorType
<1>10. InputsStayOnLevel' /\ RemovedInputsAreGone'
  <2>1. \A u \in Threads : job[t].out \cap InputsOf(u) = {}
    BY Zenon, <1>1 DEF Files, OutputsAreFresh, Unadded
  <2>2. InputsStayOnLevel'
    BY SMTT(30), <1>1, <1>2, <1>3, <2>1 DEF Files, InputsStayOnLevel, InputsOf
  <2>3. RemovedInputsAreGone'
    BY Zenon, <1>1, <1>4, <2>1 DEF Files, RemovedInputsAreGone, Removed0, Removed1, InputsOf, TypeOK, MajorType
  <2> QED
    BY Zenon, <2>2, <2>3
<1> QED
  BY Zenon, <1>1, <1>5, <1>6, <1>7, <1>8, <1>9, <1>10 DEF Files

\* DataManager::new takes over exactly the files of the manifest.
LEMMA RestartFiles ==
  ASSUME TableLaws, TypeOK, Control, Files, Restart
  PROVE  Files'
<1>1. /\ phase = "down" /\ manifest # Torn /\ Named(manifest) \subseteq DOMAIN sst
      /\ levels' = manifest /\ nextFile' = NextFileNumber(manifest) /\ phase' \in {"up", "redo"}
      /\ UNCHANGED <<sst, manifest, majorPc, job, minor, redoFiles>>
  BY Zenon DEF Restart, Loadable, disk, majors
<1>2. manifest \in LevelFiles /\ Named(manifest) \in SUBSET Int /\ IsFiniteSet(Named(manifest))
  BY <1>1, NamedFiles DEF TypeOK, DiskType, Files, TableLaws, FiniteLaw
<1>3. Named(manifest) # {} => /\ Max(Named(manifest)) \in Int
                              /\ \A f \in Named(manifest) : f =< Max(Named(manifest))
  BY Zenon, <1>2 DEF TableLaws, MaxLaw
<1>4. \A f \in Named(manifest) : f < nextFile'
  BY <1>1, <1>2, <1>3 DEF NextFileNumber
<1>5. minor = NoMinor /\ redoFiles = {}
      /\ \A t \in Threads : majorPc[t] = "idle" /\ InputsOf(t) = {} /\ job[t].out = {}
  BY Zenon, <1>1, QuietJobs DEF Files, RedoFilesAreFresh
<1>6. \A t \in Threads : InputsOf(t)' = {} /\ job[t].in0 = {} /\ job[t].in1 = {}
  BY Zenon, <1>1, <1>5 DEF InputsOf
<1>7. Named(levels)' = Named(manifest)
  BY Zenon, <1>1 DEF Named
<1>8. FileNumbersBelowNext' /\ MinorFileIsFresh' /\ OutputsAreFresh'
  BY Zenon, <1>1, <1>4, <1>5, <1>6, <1>7
     DEF FileNumbersBelowNext, MinorFileIsFresh, OutputsAreFresh, Unadded, NoMinor
<1>9. RedoFilesAreFresh' /\ InputsStayOnLevel' /\ RemovedInputsAreGone'
  BY Zenon, <1>1, <1>5, <1>6 DEF RedoFilesAreFresh, InputsStayOnLevel, RemovedInputsAreGone
<1>10. ReferencedFilesExist' /\ ManifestInSync' /\ (manifest # Torn => OneLevelEach(manifest))' /\ OneLevelEach(levels)'
  BY Zenon, <1>1, <1>7 DEF Files, ReferencedFilesExist, OneLevelEach, ManifestInSync
<1> QED
  BY Zenon, <1>1, <1>8, <1>9, <1>10 DEF Files

\* redo builds its tables under fresh numbers above all others.
LEMMA RedoBuildFiles ==
  ASSUME TypeOK, Control, Files, RedoBuild, IsFiniteSet(DOMAIN sst')
  PROVE  Files'
<1>1. /\ phase = "redo" /\ phase' = "redoadd"
      /\ redoFiles' = nextFile..(nextFile + Len(wal) - 1) /\ nextFile' = nextFile + Len(wal)
      /\ DOMAIN sst' = DOMAIN sst \cup redoFiles'
      /\ UNCHANGED <<levels, manifest, majorPc, job, minor>>
  BY Zenon DEF RedoBuild, majors
<1>2. nextFile \in Nat /\ Len(wal) \in Nat
  BY DEF TypeOK, MemoryType, DiskType
<1>3. \A f \in redoFiles' : f \in Nat /\ f >= nextFile /\ f < nextFile'
  BY <1>1, <1>2
<1>4. \A f \in Named(levels) : f \in Nat /\ f < nextFile
  BY Zenon, <1>1, UsedNumbers DEF Running
<1>5. minor = NoMinor
      /\ \A t \in Threads : majorPc[t] = "idle" /\ InputsOf(t) = {} /\ job[t].out = {}
  BY Zenon, <1>1, QuietJobs
<1>6. \A t \in Threads : InputsOf(t)' = {} /\ job[t].in0 = {} /\ job[t].in1 = {}
  BY Zenon, <1>1, <1>5 DEF InputsOf
<1>7. Named(levels)' = Named(levels) /\ levels[0] \subseteq Named(levels)
  BY SMTT(30), <1>1, NamedFiles, OptionsAssumption DEF TypeOK, MemoryType, Levels
<1>8. FileNumbersBelowNext'
  BY SMTT(30), <1>1, <1>2, <1>3, <1>4, <1>5, <1>6, <1>7 DEF FileNumbersBelowNext, NoMinor
<1>9. MinorFileIsFresh' /\ OutputsAreFresh'
  BY Zenon, <1>1, <1>5 DEF MinorFileIsFresh, OutputsAreFresh, Unadded, NoMinor
<1>10. RedoFilesAreFresh'
  BY <1>1, <1>2, <1>3, <1>4, <1>7 DEF RedoFilesAreFresh
<1>11. InputsStayOnLevel' /\ RemovedInputsAreGone'
  BY Zenon, <1>1, <1>5, <1>6 DEF InputsStayOnLevel, RemovedInputsAreGone
<1>12. ReferencedFilesExist' /\ ManifestInSync' /\ (manifest # Torn => OneLevelEach(manifest))' /\ OneLevelEach(levels)'
  BY Zenon, <1>1, <1>7 DEF Files, ReferencedFilesExist, OneLevelEach, ManifestInSync, Running, Named
<1> QED
  BY Zenon, <1>8, <1>9, <1>10, <1>11, <1>12 DEF Files

\* A job of major compaction that goes on with its files, or drops them all.
JobGoesOn(t) ==
  \/ /\ job'[t] = job[t]
     /\ Unadded(t)' => Unadded(t)
     /\ Removed0(t)' => Removed0(t)
     /\ Removed1(t)' => Removed1(t)
  \/ job'[t].in0 = {} /\ job'[t].in1 = {} /\ job'[t].out = {}

\* A step that neither builds, adds nor removes a table preserves Files.
LEMMA KeptFiles ==
  ASSUME Files, UNCHANGED <<levels, nextFile, sst>>,
         manifest' = manifest \/ manifest' = levels,
         minor'.pc = "add" => minor' = minor,
         minor'.pc \in {"flush", "seg"} => minor.pc \in {"add", "flush", "seg"} /\ minor'.file = minor.file,
         \A t \in Threads : JobGoesOn(t),
         Running' => Running,
         redoFiles' \subseteq redoFiles,
         phase' \in {"up", "down", "torn", "failed", "redo"} => redoFiles' = {},
         phase' = "redoadd" => phase = "redoadd"
  PROVE  Files'
<1> USE DEF Files
<1>1. \A t \in Threads : /\ job'[t].in0 = job[t].in0 \/ job'[t].in0 = {}
                         /\ job'[t].in1 = job[t].in1 \/ job'[t].in1 = {}
                         /\ job'[t].out = job[t].out \/ job'[t].out = {}
                         /\ InputsOf(t)' \subseteq InputsOf(t)
  BY Zenon DEF JobGoesOn, InputsOf
<1>2. Named(levels)' = Named(levels)
  BY Zenon DEF Named
<1>3. IsFiniteSet(DOMAIN sst') /\ OneLevelEach(levels)' /\ (manifest # Torn => OneLevelEach(manifest))'
  BY Zenon DEF OneLevelEach
<1>4. ReferencedFilesExist' /\ ManifestInSync'
  BY Zenon, <1>2 DEF ReferencedFilesExist, ManifestInSync, Named
<1>5. FileNumbersBelowNext'
  <2>1. \A t \in Threads : InputsOf(t)' \cup job'[t].out \subseteq InputsOf(t) \cup job[t].out
    BY Zenon, <1>1
  <2> QED
    BY Zenon, <1>2, <2>1 DEF FileNumbersBelowNext
<1>6. MinorFileIsFresh'
  <2>1. \A t \in Threads : InputsOf(t)' \cup job'[t].out \subseteq InputsOf(t) \cup job[t].out
    BY SMTT(30), <1>1
  <2> QED
    BY Zenon, <1>2, <2>1 DEF MinorFileIsFresh
<1>7. OutputsAreFresh'
  <2> SUFFICES ASSUME NEW t \in Threads, Unadded(t)'
               PROVE  /\ job'[t].out \subseteq DOMAIN sst'
                      /\ job'[t].out \cap Named(levels)' = {}
                      /\ \A u \in Threads : job'[t].out \cap InputsOf(u)' = {}
                      /\ \A u \in Threads \ {t} : job'[t].out \cap job'[u].out = {}
    BY Zenon DEF OutputsAreFresh
  <2>1. CASE job'[t].out = {}
    BY Zenon, <2>1
  <2>2. CASE job'[t].out # {}
    <3>1. job'[t].out = job[t].out /\ Unadded(t)
      BY Zenon, <2>2 DEF JobGoesOn
    <3> QED
      BY SMTT(30), <1>1, <1>2, <3>1 DEF OutputsAreFresh
  <2> QED
    BY Zenon, <2>1, <2>2
<1>8. RedoFilesAreFresh'
  BY Zenon, <1>2 DEF RedoFilesAreFresh
<1>9. InputsStayOnLevel'
  <2> SUFFICES ASSUME NEW t \in Threads, NEW m \in Levels
               PROVE  /\ m # job'[t].level => job'[t].in0 \cap levels'[m] = {}
                      /\ m # job'[t].level + 1 => job'[t].in1 \cap levels'[m] = {}
    BY Zenon DEF InputsStayOnLevel
  <2> QED
    BY Zenon DEF InputsStayOnLevel, JobGoesOn
<1>10. RemovedInputsAreGone'
  BY Zenon, <1>2 DEF RemovedInputsAreGone, JobGoesOn
<1> QED
  BY Zenon, <1>3, <1>4, <1>5, <1>6, <1>7, <1>8, <1>9, <1>10

\* A step of the server thread that touches no file preserves Files.
LEMMA SameFiles ==
  ASSUME Files, UNCHANGED <<phase, levels, nextFile, sst, manifest, majorPc, job, minor, redoFiles>>
  PROVE  Files'
<1>1. \A t \in Threads : JobGoesOn(t)
  BY Zenon DEF JobGoesOn, Unadded, Removed0, Removed1
<1>2. /\ phase' \in {"up", "down", "torn", "failed", "redo"} => redoFiles' = {}
      /\ Running' => Running
  BY Zenon DEF Files, RedoFilesAreFresh, Running
<1> QED
  BY Zenon, <1>1, <1>2, KeptFiles

\* When the process ends, only the manifest refers to files.
LEMMA DieFiles ==
  ASSUME Files, NEW how \in {"down", "torn"}, Die(how), UNCHANGED disk
  PROVE  Files'
<1>1. /\ phase' \in {"down", "torn"} /\ levels' = NoFiles /\ redoFiles' = {} /\ minor'.pc = "idle"
      /\ UNCHANGED <<sst, manifest>>
      /\ \A t \in Threads : /\ majorPc'[t] = "idle"
                            /\ job'[t].in0 = {} /\ job'[t].in1 = {} /\ job'[t].out = {}
  BY Zenon DEF Die, disk, NoMinor, NoJob
<1>2. Named(levels)' = {} /\ OneLevelEach(levels)'
  BY Zenon, <1>1 DEF Named, NoFiles, OneLevelEach
<1>3. IsFiniteSet(DOMAIN sst') /\ ReferencedFilesExist' /\ (manifest # Torn => OneLevelEach(manifest))'
  BY Zenon, <1>1, <1>2 DEF Files, ReferencedFilesExist, OneLevelEach, Named
<1>4. ManifestInSync' /\ FileNumbersBelowNext' /\ MinorFileIsFresh' /\ RedoFilesAreFresh'
  BY Zenon, <1>1 DEF ManifestInSync, FileNumbersBelowNext, MinorFileIsFresh, RedoFilesAreFresh, Running
<1>5. OutputsAreFresh'
  BY Zenon, <1>1 DEF OutputsAreFresh, Unadded
<1>6. InputsStayOnLevel' /\ RemovedInputsAreGone'
  BY Zenon, <1>1 DEF InputsStayOnLevel, RemovedInputsAreGone
<1> QED
  BY Zenon, <1>2, <1>3, <1>4, <1>5, <1>6 DEF Files

\* Tables that nobody refers to are added to level 0: MinorAdd and RedoAdd.
LEMMA AddedFiles ==
  ASSUME TypeOK, Files, NEW new \in SUBSET Nat, new \subseteq DOMAIN sst,
         new \cap Named(levels) = {},
         \A t \in Threads : new \cap (InputsOf(t) \cup job[t].out) = {},
         \A f \in new : f < nextFile,
         levels' = [levels EXCEPT ![0] = @ \cup new], manifest' = Torn,
         UNCHANGED <<nextFile, sst, majorPc, job, redoFiles>>,
         minor'.pc # "add",
         minor'.pc \in {"flush", "seg"} => minor.pc \in {"add", "flush", "seg"} /\ minor'.file = minor.file,
         Running' => Running,
         phase' \in {"up", "down", "torn", "failed", "redo"} => redoFiles = {},
         phase' # "redoadd"
  PROVE  Files'
<1>1. 0 \in Levels
  BY OptionsAssumption DEF Levels
<1>2. levels'[0] = levels[0] \cup new /\ \A m \in Levels \ {0} : levels'[m] = levels[m]
  BY Zenon, <1>1 DEF TypeOK, MemoryType, LevelFiles
<1>3. Named(levels)' = Named(levels) \cup new /\ \A m \in Levels : levels[m] \subseteq Named(levels)
  BY <1>1, <1>2 DEF Named
<1>4. \A t \in Threads : InputsOf(t)' = InputsOf(t)
  BY Zenon DEF InputsOf
<1>5. OneLevelEach(levels)'
  BY SMTT(30), <1>2, <1>3 DEF Files, OneLevelEach
<1>6. IsFiniteSet(DOMAIN sst') /\ ReferencedFilesExist' /\ ManifestInSync'
  BY Zenon, <1>3 DEF Files, ReferencedFilesExist, ManifestInSync
<1>7. FileNumbersBelowNext'
  BY Zenon, <1>3, <1>4 DEF Files, FileNumbersBelowNext
<1>8. MinorFileIsFresh' /\ RedoFilesAreFresh'
  BY Zenon DEF MinorFileIsFresh, RedoFilesAreFresh
<1>9. OutputsAreFresh'
  BY ZenonT(30), <1>3, <1>4 DEF Files, OutputsAreFresh, Unadded
<1>10. InputsStayOnLevel'
  <2> SUFFICES ASSUME NEW t \in Threads, NEW m \in Levels
               PROVE  /\ m # job[t].level => job[t].in0 \cap levels'[m] = {}
                      /\ m # job[t].level + 1 => job[t].in1 \cap levels'[m] = {}
    BY Zenon DEF InputsStayOnLevel
  <2>1. new \cap job[t].in0 = {} /\ new \cap job[t].in1 = {}
    BY Zenon DEF InputsOf
  <2> QED
    BY SMTT(30), <1>2, <2>1 DEF Files, InputsStayOnLevel
<1>11. RemovedInputsAreGone'
  BY Zenon, <1>3 DEF Files, RemovedInputsAreGone, Removed0, Removed1, InputsOf
<1> QED
  BY Zenon, <1>5, <1>6, <1>7, <1>8, <1>9, <1>10, <1>11 DEF Files

\* Every step preserves Files.
LEMMA FilesStep ==
  ASSUME TableLaws, TypeOK, Control, Files, Next
  PROVE  Files'
<1>1. ASSUME MinorBuild PROVE Files'
  BY Zenon, <1>1, FiniteFilesStep, MinorBuildFiles
<1>2. ASSUME NEW t \in Threads, MajorMerge(t) PROVE Files'
  BY Zenon, <1>2, FiniteFilesStep, MajorMergeFiles
<1>3. ASSUME NEW t \in Threads, MajorRemove0(t) PROVE Files'
  BY Zenon, <1>3, MajorRemoveFiles
<1>4. ASSUME NEW t \in Threads, MajorRemove1(t) PROVE Files'
  BY Zenon, <1>4, MajorRemoveFiles
<1>5. ASSUME NEW t \in Threads, MajorUnlink(t) PROVE Files'
  BY Zenon, <1>5, FiniteFilesStep, MajorUnlinkFiles
<1>6. ASSUME NEW t \in Threads, MajorUnlinkFails(t) PROVE Files'
  BY Zenon, <1>6, FiniteFilesStep, MajorUnlinkFiles
<1>7. ASSUME NEW t \in Threads, MajorAdd(t) PROVE Files'
  BY Zenon, <1>7, MajorAddFiles
<1>8. ASSUME Restart PROVE Files'
  BY Zenon, <1>8, RestartFiles
<1>9. ASSUME RedoBuild PROVE Files'
  BY <1>9, FiniteFilesStep, RedoBuildFiles
<1>10. ASSUME MinorCount \/ MinorLock \/ MinorFlush \/ MinorConsumeSeg \/ MinorConsume PROVE Files'
  <2>1. /\ UNCHANGED <<phase, levels, nextFile, sst, majorPc, job, redoFiles>>
        /\ manifest' = manifest \/ manifest' = levels
    BY Zenon, <1>10 DEF MinorCount, MinorLock, MinorFlush, MinorConsumeSeg, MinorConsume, memory, disk, majors
  <2>2. /\ minor'.pc # "add"
        /\ minor'.pc \in {"flush", "seg"} => minor.pc = "flush" /\ minor'.file = minor.file
    <3>1. CASE MinorCount
      <4>1. minor' = [NoMinor EXCEPT !.pc = "lock", !.count = Len(imm)]
        BY Zenon, <3>1 DEF MinorCount
      <4>2. minor'.pc = "lock"
        BY Zenon, <4>1 DEF NoMinor
      <4> QED
        BY Zenon, <4>2
    <3>5. CASE MinorConsume
      BY Zenon, <3>5 DEF MinorConsume, NoMinor
    <3>2. CASE MinorLock
      BY Zenon, <3>2 DEF MinorLock, TypeOK, MinorType
    <3>3. CASE MinorFlush
      BY Zenon, <3>3 DEF MinorFlush, TypeOK, MinorType
    <3>4. CASE MinorConsumeSeg
      BY Zenon, <3>4 DEF MinorConsumeSeg, TypeOK, MinorType
    <3> QED
      BY Zenon, <1>10, <3>1, <3>2, <3>3, <3>4, <3>5
  <2>3. \A t \in Threads : JobGoesOn(t)
    BY Zenon, <2>1 DEF JobGoesOn, Unadded, Removed0, Removed1
  <2>4. /\ phase' \in {"up", "down", "torn", "failed", "redo"} => redoFiles' = {}
        /\ Running' => Running
    BY Zenon, <2>1 DEF Files, RedoFilesAreFresh, Running
  <2> QED
    BY Zenon, <2>1, <2>2, <2>3, <2>4, KeptFiles
<1>11. ASSUME NEW t \in Threads, MajorPick(t) \/ MajorFlush(t) \/ (MajorPanics(t) /\ t # "server")
       PROVE  Files'
  <2>1. /\ UNCHANGED <<phase, levels, nextFile, sst, minor, redoFiles>>
        /\ manifest' = manifest \/ manifest' = levels
    BY Zenon, <1>11 DEF MajorPick, MajorFlush, MajorPanics, memory, disk
  <2>2. \A u \in Threads \ {t} : job'[u] = job[u] /\ majorPc'[u] = majorPc[u]
    BY Zenon, <1>11 DEF MajorPick, MajorFlush, MajorPanics, TypeOK, MajorType
  <2>3. ASSUME MajorPick(t) \/ (MajorPanics(t) /\ t # "server") PROVE JobGoesOn(t)
    BY <2>3 DEF MajorPick, MajorPanics, NoJob, JobGoesOn, TypeOK, MajorType
  <2>4. ASSUME MajorFlush(t) PROVE JobGoesOn(t)
    <3>1. CASE majorPc[t] = "flush2"
      BY <2>4, <3>1 DEF MajorFlush, NoJob, JobGoesOn, TypeOK, MajorType
    <3>2. CASE majorPc[t] = "flush0"
      BY Zenon, <2>4, <3>2 DEF MajorFlush, JobGoesOn, TypeOK, MajorType, Unadded, Removed0, Removed1
    <3>3. CASE majorPc[t] = "flush1"
      BY Zenon, <2>4, <3>3 DEF MajorFlush, JobGoesOn, TypeOK, MajorType, Unadded, Removed0, Removed1
    <3> QED
      BY Zenon, <2>4, <3>1, <3>2, <3>3 DEF MajorFlush
  <2>5. \A u \in Threads \ {t} : JobGoesOn(u)
    BY Zenon, <2>2 DEF JobGoesOn, Unadded, Removed0, Removed1
  <2>6. /\ phase' \in {"up", "down", "torn", "failed", "redo"} => redoFiles' = {}
        /\ Running' => Running
    BY Zenon, <2>1 DEF Files, RedoFilesAreFresh, Running
  <2>7. \A u \in Threads : JobGoesOn(u)
    BY Zenon, <1>11, <2>3, <2>4, <2>5
  <2> QED
    BY Zenon, <2>1, <2>6, <2>7, KeptFiles
<1>12. ASSUME NEW t \in Threads, MajorPanics(t), t = "server" PROVE Files'
  <2>1. Die("down") /\ UNCHANGED disk
    BY Zenon, <1>12 DEF MajorPanics
  <2> QED
    BY Zenon, <2>1, DieFiles
<1>13. ASSUME Crash PROVE Files'
  <2>1. (Die("down") \/ Die("torn")) /\ UNCHANGED disk
    BY Zenon, <1>13 DEF Crash
  <2> QED
    BY Zenon, <2>1, DieFiles
<1>14. ASSUME MinorAdd PROVE Files'
  <2>1. /\ levels' = [levels EXCEPT ![0] = @ \cup {minor.file}] /\ manifest' = Torn
        /\ UNCHANGED <<phase, nextFile, sst, majorPc, job, redoFiles>>
        /\ minor.pc = "add" /\ minor'.pc = "flush" /\ minor'.file = minor.file
    BY Zenon, <1>14 DEF MinorAdd, majors, TypeOK, MinorType
  <2>2. phase = "up" /\ Running
    BY <2>1 DEF Control, Quiet, NoMinor, Running
  <2>3. redoFiles = {}
    BY Zenon, <2>2 DEF Files, RedoFilesAreFresh
  <2>4. /\ minor.file \in Nat /\ minor.file \in DOMAIN sst /\ minor.file < nextFile
        /\ minor.file \notin Named(levels)
        /\ \A t \in Threads : minor.file \notin InputsOf(t) \cup job[t].out
    BY Zenon, <2>1, <2>2 DEF Files, MinorFileIsFresh, FileNumbersBelowNext, TypeOK, MinorType
  <2> DEFINE new == {minor.file}
  <2>5. /\ new \in SUBSET Nat /\ new \subseteq DOMAIN sst /\ new \cap Named(levels) = {}
        /\ \A t \in Threads : new \cap (InputsOf(t) \cup job[t].out) = {}
        /\ \A f \in new : f < nextFile
        /\ levels' = [levels EXCEPT ![0] = @ \cup new]
    BY Zenon, <2>1, <2>4
  <2> HIDE DEF new
  <2> QED
    BY Zenon, <2>1, <2>2, <2>3, <2>5, AddedFiles
<1>15. ASSUME RedoAdd PROVE Files'
  <2>1. /\ levels' = [levels EXCEPT ![0] = @ \cup redoFiles] /\ manifest' = Torn
        /\ UNCHANGED <<nextFile, sst, majorPc, job, redoFiles, minor>>
        /\ phase = "redoadd" /\ phase' = "redoflush"
    BY Zenon, <1>15 DEF RedoAdd, majors
  <2>2. minor.pc = "idle" /\ \A t \in Threads : InputsOf(t) \cup job[t].out = {}
    BY <2>1, QuietJobs DEF NoMinor
  <2>3. redoFiles \in SUBSET Nat /\ redoFiles \subseteq DOMAIN sst /\ redoFiles \cap Named(levels) = {}
    BY Zenon, <2>1 DEF Files, RedoFilesAreFresh, TypeOK, MemoryType
  <2>4. Running /\ \A f \in redoFiles : f < nextFile
    BY Zenon, <2>1 DEF Files, FileNumbersBelowNext, Running
  <2> QED
    BY Zenon, <2>1, <2>2, <2>3, <2>4, AddedFiles
<1>16. ASSUME RestartFails \/ RedoFlush \/ RedoDelete PROVE Files'
  <2>1. /\ UNCHANGED <<levels, nextFile, sst, majorPc, job, minor>>
        /\ manifest' = manifest \/ manifest' = levels
    BY Zenon, <1>16 DEF RestartFails, RedoFlush, RedoDelete, memory, disk, majors
  <2>2. /\ phase' # "redoadd" /\ redoFiles' \subseteq redoFiles
        /\ phase' \in {"up", "down", "torn", "failed", "redo"} => redoFiles' = {}
        /\ Running' => Running
    BY Zenon, <1>16 DEF RestartFails, RedoFlush, RedoDelete, Files, RedoFilesAreFresh, Running
  <2>3. \A t \in Threads : JobGoesOn(t)
    BY Zenon, <2>1 DEF JobGoesOn, Unadded, Removed0, Removed1
  <2> QED
    BY Zenon, <2>1, <2>2, <2>3, KeptFiles
<1>17. ASSUME GetFromReaders \/ Remove \/ MemInsert \/ NewSeg \/ DropEmptySeg PROVE Files'
  <2>1. UNCHANGED <<phase, levels, nextFile, sst, manifest, majorPc, job, minor, redoFiles>>
    BY Zenon, <1>17 DEF GetFromReaders, Remove, WalAppend, MemInsert, NewSeg, DropEmptySeg, memory, disk, majors
  <2> QED
    BY Zenon, <2>1, SameFiles
<1>18. ASSUME NEW op \in {"get", "remove"}, NEW k \in Keys, GetFromMemtables(op, k) PROVE Files'
  <2>1. UNCHANGED <<phase, levels, nextFile, sst, manifest, majorPc, job, minor, redoFiles>>
    BY Zenon, <1>18 DEF GetFromMemtables, memory, disk, majors
  <2> QED
    BY Zenon, <2>1, SameFiles
<1>19. ASSUME NEW k \in Keys, NEW v \in Vals, Insert(k, v) PROVE Files'
  <2>1. UNCHANGED <<phase, levels, nextFile, sst, manifest, majorPc, job, minor, redoFiles>>
    BY Zenon, <1>19 DEF Insert, WalAppend, memory, disk, majors
  <2> QED
    BY Zenon, <2>1, SameFiles
<1> QED
  BY Zenon, <1>1, <1>2, <1>3, <1>4, <1>5, <1>6, <1>7, <1>8, <1>9, <1>10, <1>11, <1>12, <1>13, <1>14,
     <1>15, <1>16, <1>17, <1>18, <1>19
     DEF Next, ServerStep, MinorStep, MajorStep, RestartStep

------------------------------------------------------------------------------
(***************************************************************************)
(* Every step preserves Mirror.                                            *)
(***************************************************************************)

\* Steps that leave log and memtables alone.
LEMMA MirrorFrame ==
  ASSUME Mirror, UNCHANGED <<phase, mem, imm, wal>>, minor'.done = minor.done,
         \/ UNCHANGED <<server, req>>
         \/ {server, server'} \cap {"appended", "newseg"} = {}
  PROVE  Mirror'
BY Zenon DEF Mirror, Flushable, SegmentsMirrorImm, MemAfterWrite, Entry

\* WAL::append logs the write that the memtable is about to get.
LEMMA WalAppendMirror ==
  ASSUME TableLaws, TypeOK, Control, Mirror, phase = "up", server \in {"idle", "append"},
         NEW r, r.key \in Keys, Entry(r) \in Vals \cup {Tombstone}, WalAppend(r)
  PROVE  Mirror'
<1> DEFINE rec  == [key |-> r.key, val |-> Entry(r)]
           segs == IF wal = <<>> THEN <<<<>>>> ELSE wal
           last == Len(segs)
<1>1. /\ wal' = [segs EXCEPT ![last] = Append(@, rec)]
      /\ server' = "appended" /\ req' = r /\ UNCHANGED <<phase, mem, imm, minor>>
  BY Zenon DEF WalAppend, memory
<1>2. segs \in Seq(Seq(Record)) /\ last \in 1..Len(segs) /\ rec \in Record
  <2>1. wal \in Seq(Seq(Record))
    BY Zenon DEF TypeOK, DiskType
  <2>2. rec \in Record
    BY Zenon DEF Record
  <2> QED
    BY <2>1, <2>2
<1>3. segs[last] \in Seq(Record) /\ Append(segs[last], rec) \in Seq(Record)
  BY <1>2
<1>4. /\ wal' \in Seq(Seq(Record)) /\ Len(wal') = last /\ wal'[last] = Append(segs[last], rec)
      /\ \A i \in 1..(last - 1) : wal'[i] = segs[i]
  BY SMTT(30), <1>1, <1>2, <1>3
<1>5. Replay(wal'[last]) = [Replay(segs[last]) EXCEPT ![r.key] = Entry(r)]
  <2>1. rec.key = r.key /\ rec.val = Entry(r)
    BY Zenon
  <2>2. Replay(Append(segs[last], rec)) = [Replay(segs[last]) EXCEPT ![rec.key] = rec.val]
    <3> HIDE DEF rec, segs, last
    <3> QED
      BY Zenon, <1>2, <1>3 DEF TableLaws, ReplayAppendLaw
  <2> QED
    BY Zenon, <1>4, <2>1, <2>2
<1>6. minor.done \in 0..Len(imm) /\ Len(imm) \in Nat
  BY MinorDoneInRange DEF TypeOK, MemoryType
<1>7. Len(segs) = Flushable + 1 /\ SegmentsMirrorImm /\ Replay(segs[last]) = mem
  <2>1. CASE wal = <<>>
    <3>1. imm = <<>> /\ mem = EmptyTable
      BY <2>1, <1>6 DEF Mirror, Flushable
    <3>2. Flushable = 0 /\ Len(segs) = 1 /\ segs[1] = <<>>
      BY <2>1, <3>1, <1>6 DEF Flushable
    <3> QED
      BY <3>1, <3>2 DEF SegmentsMirrorImm, TableLaws, ReplayEmptyLaw
  <2>2. CASE wal # <<>>
    BY Zenon, <2>2 DEF Mirror, MemAfterWrite
  <2> QED
    BY Zenon, <2>1, <2>2
<1> HIDE DEF segs, rec, last
<1>8. Flushable' = Flushable /\ Flushable \in Nat /\ last = Flushable + 1
  BY <1>1, <1>6, <1>7 DEF Flushable, last
<1>9. SegmentsMirrorImm'
  <2>1. wal # <<>> => segs = wal
    BY Zenon DEF segs
  <2>2. ASSUME NEW i \in 1..Flushable PROVE Replay(wal'[i]) = imm[minor.done + i]
    <3>1. i \in 1..(last - 1) /\ wal # <<>>
      BY SMTT(30), <1>8 DEF last, segs
    <3> QED
      BY Zenon, <1>4, <1>7, <2>1, <3>1 DEF SegmentsMirrorImm
  <2> QED
    BY <1>1, <1>8, <2>2 DEF SegmentsMirrorImm
<1>10. MemAfterWrite' = [mem EXCEPT ![r.key] = Entry(r)]
  BY Zenon, <1>1 DEF MemAfterWrite, Entry
<1> QED
  BY Zenon, <1>1, <1>4, <1>5, <1>7, <1>8, <1>9, <1>10 DEF Mirror

\* The memtable gets it; a full one becomes immutable with its segment.
LEMMA MemInsertMirror ==
  ASSUME TypeOK, Control, Mirror, MemInsert
  PROVE  Mirror'
<1> DEFINE t == [mem EXCEPT ![req.key] = Entry(req)]
<1>1. phase = "up" /\ server = "appended" /\ UNCHANGED <<phase, wal, minor>>
  BY Zenon DEF MemInsert, Control, Quiet, disk
<1>2. Len(wal) = Flushable + 1 /\ SegmentsMirrorImm /\ Replay(wal[Len(wal)]) = t
  BY Zenon, <1>1 DEF Mirror, MemAfterWrite
<1>3. minor.done \in 0..Len(imm) /\ Len(imm) \in Nat /\ imm \in Seq(Table)
  BY SMTT(30), MinorDoneInRange DEF TypeOK, MemoryType
<1>4. CASE server' = "idle" /\ mem' = t /\ imm' = imm
  BY Zenon, <1>1, <1>2, <1>4 DEF Mirror, Flushable, SegmentsMirrorImm, MemAfterWrite
<1>5. CASE server' = "newseg" /\ mem' = EmptyTable /\ imm' = Append(imm, t)
  <2>1. Len(imm') = Len(imm) + 1 /\ imm'[Len(imm) + 1] = t /\ \A i \in 1..Len(imm) : imm'[i] = imm[i]
    BY SMTT(30), <1>3, <1>5
  <2>2. Flushable' = Flushable + 1 /\ Flushable \in Nat
    BY SMTT(30), <1>1, <1>3, <2>1 DEF Flushable
  <2>3. ASSUME NEW i \in 1..(Flushable + 1) PROVE Replay(wal[i]) = imm'[minor.done + i]
    <3>1. CASE i = Flushable + 1
      <4>1. minor.done + i = Len(imm) + 1
        BY <1>3, <3>1 DEF Flushable
      <4> QED
        BY Zenon, <1>2, <2>1, <3>1, <4>1
    <3>2. CASE i # Flushable + 1
      <4>1. i \in 1..Flushable /\ minor.done + i \in 1..Len(imm)
        BY <1>3, <2>2, <3>2 DEF Flushable
      <4> QED
        BY Zenon, <1>2, <2>1, <4>1 DEF SegmentsMirrorImm
    <3> QED
      BY Zenon, <3>1, <3>2
  <2>4. SegmentsMirrorImm'
    BY Zenon, <1>1, <2>2, <2>3 DEF SegmentsMirrorImm
  <2> QED
    BY Zenon, <1>1, <1>2, <1>5, <2>2, <2>4 DEF Mirror
<1> QED
  BY Zenon, <1>4, <1>5 DEF MemInsert

\* WAL::new_seg opens the segment of the new, empty memtable.
LEMMA NewSegMirror ==
  ASSUME TableLaws, TypeOK, Control, Mirror, NewSeg
  PROVE  Mirror'
<1>1. /\ phase = "up" /\ server = "newseg" /\ server' = "idle"
      /\ wal' = Append(wal, <<>>) /\ UNCHANGED <<phase, mem, imm, minor>>
  BY Zenon DEF NewSeg, Control, Quiet, memory
<1>2. mem = EmptyTable /\ Len(wal) = Flushable /\ SegmentsMirrorImm
  BY Zenon, <1>1 DEF Mirror
<1>3. wal \in Seq(Seq(Record)) /\ <<>> \in Seq(Record)
  BY DEF TypeOK, DiskType
<1>4. /\ Len(wal') = Len(wal) + 1 /\ Len(wal) \in Nat /\ wal'[Len(wal) + 1] = <<>>
      /\ \A i \in 1..Len(wal) : wal'[i] = wal[i]
  BY SMTT(30), <1>1, <1>3
<1>5. Flushable' = Flushable /\ SegmentsMirrorImm'
  BY Zenon, <1>1, <1>2, <1>4 DEF Flushable, SegmentsMirrorImm
<1> QED
  BY Zenon, <1>1, <1>2, <1>4, <1>5 DEF Mirror, MemAfterWrite, TableLaws, ReplayEmptyLaw

\* WAL::consume_seg deletes the segment of the memtable just flushed.
LEMMA MinorConsumeSegMirror ==
  ASSUME TypeOK, Control, Mirror, MinorConsumeSeg
  PROVE  Mirror'
<1>1. /\ minor.pc = "seg" /\ minor'.done = minor.done + 1
      /\ wal' = IF wal = <<>> THEN wal ELSE Tail(wal)
      /\ UNCHANGED <<phase, mem, imm, server, req>>
  BY Zenon DEF MinorConsumeSeg, TypeOK, MinorType, memory, requests
<1>2. /\ phase = "up" /\ server \notin {"appended", "newseg"}
      /\ minor.count \in 1..Len(imm) /\ minor.done < minor.count /\ minor.done \in Nat
  BY <1>1 DEF Control, Quiet, NoMinor, OneWalHolder, MinorInRange, TypeOK, MinorType
<1>3. Len(imm) \in Nat /\ Flushable \in Nat \ {0}
  BY <1>2 DEF Flushable, TypeOK, MemoryType
<1>4. Len(wal) = Flushable + 1 /\ SegmentsMirrorImm /\ Replay(wal[Len(wal)]) = mem
  BY <1>2, <1>3 DEF Mirror, MemAfterWrite
<1>5. wal \in Seq(Seq(Record)) /\ wal # <<>>
  BY <1>3, <1>4 DEF TypeOK, DiskType
<1>6. Len(wal') = Len(wal) - 1 /\ \A i \in 1..(Len(wal) - 1) : wal'[i] = wal[i + 1]
  BY Zenon, <1>1, <1>5, TailOfSeq
<1>7. Flushable' = Flushable - 1
  BY <1>1, <1>2, <1>3 DEF Flushable
<1>8. ASSUME NEW i \in 1..(Flushable - 1) PROVE Replay(wal'[i]) = imm[minor.done + 1 + i]
  <2>1. i + 1 \in 1..Flushable /\ i \in 1..(Len(wal) - 1) /\ minor.done + (i + 1) = minor.done + 1 + i
    BY <1>2, <1>3, <1>4
  <2> QED
    BY Zenon, <1>4, <1>6, <2>1 DEF SegmentsMirrorImm
<1>9. SegmentsMirrorImm'
  BY Zenon, <1>1, <1>7, <1>8 DEF SegmentsMirrorImm
<1>10. Replay(wal'[Len(wal')]) = mem
  <2>1. Len(wal') \in 1..(Len(wal) - 1) /\ Len(wal') + 1 = Len(wal)
    BY <1>3, <1>4, <1>6
  <2> QED
    BY Zenon, <1>4, <1>6, <2>1
<1> QED
  BY <1>1, <1>2, <1>3, <1>4, <1>6, <1>7, <1>9, <1>10 DEF Mirror, MemAfterWrite

\* MemtableList::consume drops the memtables whose segments are gone.
LEMMA MinorConsumeMirror ==
  ASSUME TypeOK, Control, Mirror, MinorConsume
  PROVE  Mirror'
<1>1. /\ minor.pc = "consume" /\ minor' = NoMinor
      /\ imm' = SubSeq(imm, minor.count + 1, Len(imm))
      /\ UNCHANGED <<phase, mem, wal, server, req>>
  BY Zenon DEF MinorConsume, disk, requests
<1>2. phase = "up" /\ minor.count \in 1..Len(imm) /\ minor.done = minor.count /\ minor'.done = 0
  BY <1>1 DEF Control, Quiet, NoMinor, MinorInRange
<1>3. imm \in Seq(Table) /\ Len(imm) \in Nat
  BY DEF TypeOK, MemoryType
<1>4. Len(imm') = Len(imm) - minor.count /\ \A i \in 1..Len(imm') : imm'[i] = imm[minor.count + i]
  BY SMTT(30), <1>1, <1>2, <1>3
<1>5. Flushable' = Flushable /\ Flushable \in Nat /\ Flushable = Len(imm')
  BY <1>2, <1>3, <1>4 DEF Flushable
<1>6. SegmentsMirrorImm => SegmentsMirrorImm'
  BY SMTT(30), <1>1, <1>2, <1>4, <1>5 DEF SegmentsMirrorImm
<1>7. MemAfterWrite' = MemAfterWrite
  BY Zenon, <1>1 DEF MemAfterWrite, Entry
<1> QED
  BY <1>1, <1>2, <1>5, <1>6, <1>7 DEF Mirror

\* Every step preserves Mirror.
LEMMA MirrorStep ==
  ASSUME TableLaws, TypeOK, Control, Mirror, Next
  PROVE  Mirror'
<1>1. ASSUME NEW op \in {"get", "remove"}, NEW k \in Keys, GetFromMemtables(op, k) PROVE Mirror'
  BY Zenon, <1>1, MirrorFrame DEF GetFromMemtables, Found, memory, disk
<1>2. ASSUME NEW k \in Keys, NEW v \in Vals, Insert(k, v) PROVE Mirror'
  <2>1. Entry([op |-> "insert", key |-> k, val |-> v]) = v
    BY Zenon DEF Entry
  <2> QED
    BY Zenon, <1>2, <2>1, WalAppendMirror DEF Insert
<1>3. ASSUME GetFromReaders PROVE Mirror'
  BY Zenon, <1>3, MirrorFrame DEF GetFromReaders, Found, memory, disk
<1>4. ASSUME Remove PROVE Mirror'
  <2>1. phase = "up" /\ req.key \in Keys /\ Entry(req) \in Vals \cup {Tombstone}
    BY Zenon, <1>4 DEF Remove, Control, Quiet, RequestShape, TypeOK, RequestType, Pending, Request, Entry
  <2> QED
    BY Zenon, <1>4, <2>1, WalAppendMirror DEF Remove
<1>5. ASSUME MemInsert PROVE Mirror'
  BY Zenon, <1>5, MemInsertMirror
<1>6. ASSUME NewSeg PROVE Mirror'
  BY <1>6, NewSegMirror
<1>7. ASSUME MinorCount PROVE Mirror'
  BY Zenon, <1>7, MirrorFrame DEF MinorCount, NoMinor, Control, MinorInRange, memory, disk, requests
<1>8. ASSUME MinorLock PROVE Mirror'
  BY Zenon, <1>8, MirrorFrame DEF MinorLock, TypeOK, MinorType, memory, disk, requests
<1>9. ASSUME MinorBuild PROVE Mirror'
  BY Zenon, <1>9, MirrorFrame DEF MinorBuild, TypeOK, MinorType, requests
<1>10. ASSUME MinorAdd PROVE Mirror'
  BY Zenon, <1>10, MirrorFrame DEF MinorAdd, TypeOK, MinorType, requests
<1>11. ASSUME MinorFlush PROVE Mirror'
  BY Zenon, <1>11, MirrorFrame DEF MinorFlush, TypeOK, MinorType, memory, requests
<1>12. ASSUME MinorConsumeSeg PROVE Mirror'
  BY <1>12, MinorConsumeSegMirror
<1>13. ASSUME MinorConsume PROVE Mirror'
  BY <1>13, MinorConsumeMirror
<1>14. ASSUME NEW t \in Threads, MajorPick(t) PROVE Mirror'
  BY Zenon, <1>14, MirrorFrame DEF MajorPick, memory, disk
<1>15. ASSUME NEW t \in Threads, MajorMerge(t) PROVE Mirror'
  BY Zenon, <1>15, MirrorFrame DEF MajorMerge, requests
<1>16. ASSUME NEW t \in Threads, MajorRemove0(t) PROVE Mirror'
  BY Zenon, <1>16, MirrorFrame DEF MajorRemove0, MajorRemove, requests
<1>17. ASSUME NEW t \in Threads, MajorRemove1(t) PROVE Mirror'
  BY Zenon, <1>17, MirrorFrame DEF MajorRemove1, MajorRemove, requests
<1>18. ASSUME NEW t \in Threads, MajorFlush(t) PROVE Mirror'
  BY Zenon, <1>18, MirrorFrame DEF MajorFlush, Control, ServerCompacts, memory
<1>19. ASSUME NEW t \in Threads, MajorUnlink(t) PROVE Mirror'
  BY Zenon, <1>19, MirrorFrame DEF MajorUnlink, memory, requests
<1>20. ASSUME NEW t \in Threads, MajorUnlinkFails(t) PROVE Mirror'
  BY Zenon, <1>20, MirrorFrame DEF MajorUnlinkFails, Control, ServerCompacts, memory
<1>21. ASSUME NEW t \in Threads, MajorAdd(t) PROVE Mirror'
  BY Zenon, <1>21, MirrorFrame DEF MajorAdd, requests
<1>22. ASSUME NEW t \in Threads, MajorPanics(t) PROVE Mirror'
  <2>1. CASE Die("down")
    BY Zenon, <2>1 DEF Die, Mirror
  <2>2. CASE UNCHANGED <<phase, memory, requests, minor, disk>>
    BY Zenon, <2>2, MirrorFrame DEF memory, requests, disk
  <2> QED
    BY Zenon, <1>22, <2>1, <2>2 DEF MajorPanics
<1>23. ASSUME Crash PROVE Mirror'
  BY Zenon, <1>23 DEF Crash, Die, Mirror
<1>24. ASSUME DropEmptySeg PROVE Mirror'
  BY Zenon, <1>24 DEF DropEmptySeg, Mirror
<1>25. ASSUME Restart PROVE Mirror'
  BY Zenon, <1>25 DEF Restart, Mirror, Control, Quiet, disk, requests
<1>26. ASSUME RestartFails PROVE Mirror'
  BY Zenon, <1>26 DEF RestartFails, Mirror
<1>27. ASSUME RedoBuild PROVE Mirror'
  BY Zenon, <1>27 DEF RedoBuild, Mirror
<1>28. ASSUME RedoAdd PROVE Mirror'
  BY Zenon, <1>28 DEF RedoAdd, Mirror
<1>29. ASSUME RedoFlush PROVE Mirror'
  BY Zenon, <1>29 DEF RedoFlush, Mirror
<1>30. ASSUME RedoDelete PROVE Mirror'
  <2>1. Len(wal) = 1 => Tail(wal) = <<>>
    <3>1. wal \in Seq(Seq(Record))
      BY Zenon DEF TypeOK, DiskType
    <3>2. Len(wal) = 1 => wal # <<>>
      OBVIOUS
    <3>3. Len(wal) = 1 => Tail(wal) \in Seq(Seq(Record)) /\ Len(Tail(wal)) = 0
      BY <3>1, <3>2, TailOfSeq
    <3> QED
      BY Zenon, <3>3, EmptySequence
  <2> QED
    BY Zenon, <1>30, <2>1 DEF RedoDelete, Mirror, Control, Quiet, memory, requests
<1> QED
  BY Zenon, <1>1, <1>2, <1>3, <1>4, <1>5, <1>6, <1>7, <1>8, <1>9, <1>10, <1>11, <1>12, <1>13, <1>14,
     <1>15, <1>16, <1>17, <1>18, <1>19, <1>20, <1>21, <1>22, <1>23, <1>24, <1>25, <1>26, <1>27,
     <1>28, <1>29, <1>30
     DEF Next, ServerStep, MinorStep, MajorStep, RestartStep

------------------------------------------------------------------------------
\* A new, empty database satisfies the inductive invariant,
LEMMA InitIndInv == TableLaws /\ Init => IndInv
<1> SUFFICES ASSUME TableLaws, Init PROVE IndInv
  BY Zenon
<1>1. 0 \in Levels /\ MaxWrites \in Nat /\ MaxCrashes \in Nat
  BY OptionsAssumption DEF Levels
<1>2. NoFiles \in LevelFiles /\ Named(NoFiles) = {} /\ OneLevelEach(NoFiles)
  BY Zenon DEF NoFiles, LevelFiles, Named, OneLevelEach
<1>3. DOMAIN sst = {}
  BY DEF Init
<1>4. EmptyTable \in Table
  BY Zenon DEF EmptyTable, Table
<1>5. MemoryType /\ DiskType
  BY SMTT(30), <1>1, <1>2, <1>3, <1>4 DEF Init, MemoryType, DiskType
<1>6. RequestType /\ MinorType /\ MajorType
  BY SMTT(30), <1>1 DEF Init, RequestType, MinorType, MajorType, Pending, NoMinor, NoJob
<1>7. Control
  BY Zenon DEF Init, Control, Quiet, MinorInRange, OneWalHolder, JobLevels, ServerCompacts, RequestShape,
         RedoHasLog, Redoing, NoMinor, NoJob
<1>8. Files
  <2>1. IsFiniteSet(DOMAIN sst)
    BY Zenon, <1>3 DEF TableLaws, FiniteLaw
  <2>2. ReferencedFilesExist /\ OneLevelEach(levels) /\ OneLevelEach(manifest) /\ ManifestInSync
    BY Zenon, <1>2 DEF Init, ReferencedFilesExist, ManifestInSync
  <2>3. FileNumbersBelowNext /\ MinorFileIsFresh /\ OutputsAreFresh /\ RedoFilesAreFresh
    BY ZenonT(30), <1>2 DEF Init, FileNumbersBelowNext, MinorFileIsFresh, OutputsAreFresh, RedoFilesAreFresh,
                Unadded, InputsOf, NoMinor, NoJob
  <2>4. InputsStayOnLevel /\ RemovedInputsAreGone
    BY Zenon DEF Init, InputsStayOnLevel, RemovedInputsAreGone, Removed0, Removed1, NoJob
  <2> QED
    BY Zenon, <2>1, <2>2, <2>3, <2>4 DEF Files
<1>9. Mirror
  BY Zenon DEF Init, Mirror
<1> QED
  BY Zenon, <1>5, <1>6, <1>7, <1>8, <1>9 DEF IndInv, TypeOK

\* and every step of every thread, crash and restart preserves it.
LEMMA StepIndInv == TableLaws /\ IndInv /\ [Next]_vars => IndInv'
<1> SUFFICES ASSUME TableLaws, IndInv, [Next]_vars PROVE IndInv'
  BY Zenon
<1>1. CASE Next
  BY Zenon, <1>1, TypeStep, ControlStep, FilesStep, MirrorStep DEF IndInv
<1>2. CASE UNCHANGED vars
  <2> USE <1>2 DEF vars, memory, disk, requests, majors, bounds
  <2>1. TypeOK'
    BY SMTT(30) DEF IndInv, TypeOK, MemoryType, DiskType, RequestType, MinorType, MajorType, Pending
  <2>2. Control'
    BY ZenonT(30) DEF IndInv, Control, Quiet, MinorInRange, OneWalHolder, JobLevels, ServerCompacts, RequestShape,
           RedoHasLog, Redoing, Entry
  <2>3. Files'
    BY Zenon, SameFiles DEF IndInv
  <2>4. Mirror'
    BY Zenon, MirrorFrame DEF IndInv
  <2> QED
    BY Zenon, <2>1, <2>2, <2>3, <2>4 DEF IndInv
<1> QED
  BY Zenon, <1>1, <1>2
==============================================================================
