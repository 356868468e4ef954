----------------------------- MODULE DataManager -----------------------------
(***************************************************************************)
(* mirdb's storage engine: the memtable, the immutable memtables, the      *)
(* write-ahead log, the levels of SSTables with their manifest, and the    *)
(* three threads that work on them: the server thread (tokio-proto's       *)
(* TcpServer runs one) and the two background threads, for minor and for   *)
(* major compaction.                                                       *)
(*                                                                         *)
(* Abstractions.  Sizes are counted in records.  The RwLocks are not       *)
(* variables: who holds a lock follows from the program counters.          *)
(* Between two steps of a thread lies either a lock operation or a write   *)
(* to disk, so every interleaving and every crash point that another       *)
(* thread or a restart can tell apart is a state of its own.  The disk     *)
(* keeps what was written (the code never calls fsync): a crash is the     *)
(* death of the process.                                                   *)
(***************************************************************************)
EXTENDS Tables

CONSTANTS MemTableMaxSize,  \* opt.mem_table_max_size
          SstMaxSize,       \* opt.sst_max_size
          MaxLevel,         \* opt.max_level
          L0Trigger,        \* opt.l0_compaction_trigger
          LevelBytes,       \* max_bytes_for_level(1)
          Nothing,          \* no request, no reply
          Torn,             \* a truncated manifest file
          ClientMajor,      \* do clients send major_compaction requests?
          CrashInAppend,    \* may a crash tear a WAL record being written?
          CrashInFlush,     \* may a crash hit a manifest being rewritten?
          CrashInCommit,    \* may a crash hit a major compaction's commit?
          MaxWrites,        \* bound: inserts and removes that reach the WAL
          MaxCrashes        \* bound: crashes

ASSUME OptionsAssumption ==
  /\ MemTableMaxSize \in Nat \ {0} /\ SstMaxSize \in Nat \ {0}
  /\ MaxLevel \in Nat \ {0} /\ L0Trigger \in Nat \ {0} /\ LevelBytes \in Nat \ {0}
  /\ {ClientMajor, CrashInAppend, CrashInFlush, CrashInCommit} \subseteq BOOLEAN
  /\ MaxWrites \in Nat /\ MaxCrashes \in Nat

Levels == 0..(MaxLevel - 1)
LevelFiles == [Levels -> SUBSET Nat]

ASSUME TornAssumption == Torn \notin LevelFiles

VARIABLES
  phase,      \* "up", "down", "torn" (down, with half a record at the end of
              \* the log), "failed" (cannot start) or the step of redo
  mem,        \* mut_
  imm,        \* imm_.tables_, back to front: imm[1] is the oldest
  levels,     \* readers_ and the manifest in memory: the files of each level
  nextFile,   \* next_file_number_
  wal,        \* the *.wal files in name order, each a sequence of records
  sst,        \* the *.sst files: number -> table
  manifest,   \* the MANIFEST file
  server,     \* the server thread: program counter
  req,        \* ... the request it works on
  reply,      \* ... and the result of the last one
  minor,      \* the minor compaction thread: [pc, count, done, file]
  majorPc,    \* who runs major_compaction: thread -> program counter
  job,        \* ... thread -> [level, in0, in1, out]
  redoFiles,  \* the tables redo has built
  writes, crashes  \* how many so far (bounds)

memory == <<mem, imm, levels, nextFile>>
disk == <<wal, sst, manifest>>
majors == <<majorPc, job>>
requests == <<server, req, reply>>
bounds == <<writes, crashes>>
vars == <<phase, memory, disk, requests, minor, majors, redoFiles, bounds>>

Threads == {"background", "server"}

NoJob == [level |-> 0, in0 |-> {}, in1 |-> {}, out |-> {}]
NoMinor == [pc |-> "idle", count |-> 0, done |-> 0, file |-> 0]
------------------------------------------------------------------------------
(* Looking keys up *)

Holding(fs, k) == {f \in fs : sst[f][k] # Absent}

\* Mutant of LevelGet: level 0 is searched oldest file first.
LevelGetOldestFirst(l, fs, k) ==
  LET H == Holding(fs, k)
  IN  IF H = {} THEN Absent
      ELSE IF l = 0 THEN sst[Min(H)][k]
      ELSE sst[CHOOSE f \in H : \A g \in H : MinKey(sst[f]) =< MinKey(sst[g])][k]

\* One level's readers in the order they are searched and merged: level 0
\* newest first (push order is file number order, see FilesArePushedInOrder),
\* the others by smallest key (sort_readers).
LevelGet(l, fs, k) ==
  LET H == Holding(fs, k)
  IN  IF H = {} THEN Absent
      ELSE IF l = 0 THEN sst[Max(H)][k]
      ELSE sst[CHOOSE f \in H : \A g \in H : MinKey(sst[f]) =< MinKey(sst[g])][k]

\* SstableReader::get: the lowest level that has the key wins
ReadersGet(lv, k) ==
  LET hit   == [l \in Levels |-> LevelGet(l, lv[l], k)]
      found == {l \in Levels : hit[l] # Absent}
  IN  IF found = {} THEN Absent ELSE hit[Min(found)]

\* DataManager::get, the part under the two memtable locks
MemGet(k) == IF mem[k] # Absent THEN mem[k] ELSE Newest(imm, k)
------------------------------------------------------------------------------
(* Locks, from the program counters *)

WalLocked == server \in {"appended", "newseg"} \/ minor.pc \in {"build", "add", "flush", "seg"}

Committing(t) ==
  majorPc[t] \in {"flush0", "unlink0", "remove1", "flush1", "unlink1", "add", "flush2"}

ReadersWriteLocked == minor.pc = "flush" \/ \E t \in Threads : Committing(t)

\* get holds imm_.read() while it waits for and searches the readers
ImmReadLocked == server = "getsst" \/ minor.pc \in {"build", "add", "flush", "seg"}
------------------------------------------------------------------------------
(* The server thread *)

\* The request in progress; val is the payload to insert or, once remove has
\* found it, the payload to remove.
Request == [op : {"get", "remove", "insert"}, key : Keys, val : Vals \cup {Absent}]

ASSUME NothingAssumption == Nothing \notin Request \cup [op : {"get", "remove"}, key : Keys]

\* Mutant of Found: a tombstone is answered like a payload.
FoundRaw(r, e) ==
  IF r.op = "remove" /\ Decode(e) # Absent
  THEN server' = "append" /\ req' = [r EXCEPT !.val = e] /\ reply' = Nothing
  ELSE server' = "idle" /\ req' = Nothing /\ reply' = e

\* The read of request r is done and found entry e.  remove goes on to insert
\* a tombstone, but only if there is a payload to remove.
Found(r, e) ==
  IF r.op = "remove" /\ Decode(e) # Absent
  THEN server' = "append" /\ req' = [r EXCEPT !.val = e] /\ reply' = Nothing
  ELSE server' = "idle" /\ req' = Nothing /\ reply' = Decode(e)

\* DataManager::get under mut_.read() and imm_.read(): a hit ends it, a miss
\* goes on to the readers with both locks held.
GetFromMemtables(op, k) ==
  /\ phase = "up" /\ server = "idle"
  /\ op = "remove" => writes < MaxWrites
  /\ LET r == [op |-> op, key |-> k, val |-> Absent]
     IN  IF MemGet(k) # Absent
         THEN Found(r, MemGet(k))
         ELSE server' = "getsst" /\ req' = r /\ reply' = Nothing
  /\ UNCHANGED <<phase, memory, disk, minor, majors, redoFiles, bounds>>

GetFromReaders ==
  /\ server = "getsst"
  /\ ~ReadersWriteLocked
  /\ Found(req, ReadersGet(levels, req.key))
  /\ UNCHANGED <<phase, memory, disk, minor, majors, redoFiles, bounds>>

Entry(r) == IF r.op = "insert" THEN r.val ELSE Tombstone

\* insert_, up to wal.append: the WAL's lock, a first segment if there is
\* none, one record at the end of the last segment.  (A crash in its
\* write_all: see Crash.)
WalAppend(r) ==
  /\ ~WalLocked
  /\ LET segs == IF wal = <<>> THEN <<<<>>>> ELSE wal
     IN  wal' = [segs EXCEPT ![Len(segs)] = Append(@, [key |-> r.key, val |-> Entry(r)])]
  /\ server' = "appended" /\ req' = r /\ reply' = Nothing
  /\ writes' = writes + 1
  /\ UNCHANGED <<phase, memory, sst, manifest, minor, majors, redoFiles, crashes>>

Insert(k, v) ==
  /\ phase = "up" /\ server = "idle" /\ writes < MaxWrites
  /\ WalAppend([op |-> "insert", key |-> k, val |-> v])

Remove == server = "append" /\ WalAppend(req)

\* Mutant of MemInsert: the write goes to the memtable after the rotation.
MemInsertAfterRotation ==
  /\ server = "appended"
  /\ IF Len(wal[Len(wal)]) >= MemTableMaxSize
     THEN imm' = Append(imm, mem) /\ mem' = [EmptyTable EXCEPT ![req.key] = Entry(req)] /\ server' = "newseg"
     ELSE mem' = [mem EXCEPT ![req.key] = Entry(req)] /\ server' = "idle" /\ UNCHANGED imm
  /\ reply' = IF req.op = "insert" THEN Absent ELSE req.val
  /\ req' = Nothing
  /\ UNCHANGED <<phase, levels, nextFile, disk, minor, majors, redoFiles, bounds>>

\* insert_, the memtables: a segment that has reached the limit makes the
\* memtable immutable.  (Nobody else reads imm_ here: the minor compaction
\* would need the WAL's lock.)
MemInsert ==
  /\ server = "appended"
  /\ LET t == [mem EXCEPT ![req.key] = Entry(req)]
     IN  IF Len(wal[Len(wal)]) >= MemTableMaxSize
         THEN imm' = Append(imm, t) /\ mem' = EmptyTable /\ server' = "newseg"
         ELSE mem' = t /\ server' = "idle" /\ UNCHANGED imm
  /\ reply' = IF req.op = "insert" THEN Absent ELSE req.val
  /\ req' = Nothing
  /\ UNCHANGED <<phase, levels, nextFile, disk, minor, majors, redoFiles, bounds>>

\* insert_, wal.new_seg(): the segment that goes with the new memtable
NewSeg ==
  /\ server = "newseg"
  /\ wal' = Append(wal, <<>>)
  /\ server' = "idle"
  /\ UNCHANGED <<phase, memory, sst, manifest, req, reply, minor, majors, redoFiles, bounds>>
------------------------------------------------------------------------------
(* The minor compaction thread *)

\* Mutant of MinorCount: a single immutable memtable is left waiting.
MinorCountSeveral ==
  /\ phase = "up" /\ minor.pc = "idle" /\ Len(imm) > 1
  /\ minor' = [NoMinor EXCEPT !.pc = "lock", !.count = Len(imm)]
  /\ UNCHANGED <<phase, memory, disk, requests, majors, redoFiles, bounds>>

\* Count the immutable memtables; the lock is dropped again.
MinorCount ==
  /\ phase = "up" /\ minor.pc = "idle" /\ imm # <<>>
  /\ minor' = [NoMinor EXCEPT !.pc = "lock", !.count = Len(imm)]
  /\ UNCHANGED <<phase, memory, disk, requests, majors, redoFiles, bounds>>

MinorLock ==
  /\ minor.pc = "lock" /\ ~WalLocked
  /\ minor' = [minor EXCEPT !.pc = "build"]
  /\ UNCHANGED <<phase, memory, disk, requests, majors, redoFiles, bounds>>

\* Mutant of MinorBuild: the newest memtable first.
MinorBuildNewest ==
  /\ minor.pc = "build"
  /\ sst' = [f \in DOMAIN sst \cup {nextFile} |->
               IF f = nextFile THEN imm[Len(imm) - minor.done] ELSE sst[f]]
  /\ nextFile' = nextFile + 1
  /\ minor' = [minor EXCEPT !.pc = "add", !.file = nextFile]
  /\ UNCHANGED <<phase, mem, imm, levels, wal, manifest, requests, majors, redoFiles, bounds>>

\* Memtable::build_sstable of the oldest memtable not flushed yet.  (It is
\* never empty, so there always is a table to add.)
MinorBuild ==
  /\ minor.pc = "build"
  /\ sst' = [f \in DOMAIN sst \cup {nextFile} |->
               IF f = nextFile THEN imm[minor.done + 1] ELSE sst[f]]
  /\ nextFile' = nextFile + 1
  /\ minor' = [minor EXCEPT !.pc = "add", !.file = nextFile]
  /\ UNCHANGED <<phase, mem, imm, levels, wal, manifest, requests, majors, redoFiles, bounds>>

\* SstableReader::add: memory first, then ManifestBuilder::flush, whose
\* File::create empties the manifest before the new contents are written.
MinorAdd ==
  /\ minor.pc = "add" /\ ~ReadersWriteLocked
  /\ levels' = [levels EXCEPT ![0] = @ \cup {minor.file}]
  /\ manifest' = Torn
  /\ minor' = [minor EXCEPT !.pc = "flush"]
  /\ UNCHANGED <<phase, mem, imm, nextFile, wal, sst, requests, majors, redoFiles, bounds>>

MinorFlush ==
  /\ minor.pc = "flush"
  /\ manifest' = levels
  /\ minor' = [minor EXCEPT !.pc = "seg"]
  /\ UNCHANGED <<phase, memory, wal, sst, requests, majors, redoFiles, bounds>>

\* WAL::consume_seg: the oldest segment's file is deleted.  After the last
\* one both locks are released.
MinorConsumeSeg ==
  /\ minor.pc = "seg"
  /\ wal' = IF wal = <<>> THEN wal ELSE Tail(wal)
  /\ minor' = [minor EXCEPT !.done = @ + 1,
                            !.pc = IF minor.done + 1 = minor.count THEN "consume" ELSE "build"]
  /\ UNCHANGED <<phase, memory, sst, manifest, requests, majors, redoFiles, bounds>>

\* imm_.write(): drop the flushed memtables, the oldest ones.
MinorConsume ==
  /\ minor.pc = "consume" /\ ~ImmReadLocked
  /\ imm' = SubSeq(imm, minor.count + 1, Len(imm))
  /\ minor' = NoMinor
  /\ UNCHANGED <<phase, mem, levels, nextFile, disk, requests, majors, redoFiles, bounds>>
------------------------------------------------------------------------------
(* Major compaction, by the background thread or for a client's request *)

LevelSize(l) == MapThenSumSet(LAMBDA f : Cardinality(KeysOf(sst[f])), levels[l])

\* compute_compaction_levels: a level's score is Filled(l) / Limit(l)
Filled(l) == IF l = 0 THEN Cardinality(levels[0]) ELSE LevelSize(l)
Limit(l) == IF l = 0 THEN L0Trigger ELSE LevelBytes * 10^(l - 1)

\* Mutant of Due: a level exactly at its limit is not due.
DueAbove == {l \in Levels : Filled(l) > Limit(l)}

\* Mutant of Due: a level is due one file or record early.
DueEarly == {l \in Levels : Filled(l) >= Limit(l) - 1}

Due == {l \in Levels : Filled(l) >= Limit(l)}

\* levels[0] of the list sorted (stably) by falling score
IsMostUrgent(l) ==
  /\ l \in Due
  /\ \A m \in Due : \/ Filled(l) * Limit(m) > Filled(m) * Limit(l)
                    \/ Filled(l) * Limit(m) = Filled(m) * Limit(l) /\ l =< m

\* The level is chosen under a lock that is dropped before size_compaction
\* takes it again.  A last level that is the most urgent one is left alone.
MajorPick(t) ==
  /\ phase = "up" /\ majorPc[t] = "idle" /\ ~ReadersWriteLocked
  /\ \E l \in Levels :
       /\ IsMostUrgent(l)
       /\ l < MaxLevel - 1
       /\ job' = [job EXCEPT ![t] = [NoJob EXCEPT !.level = l]]
  /\ majorPc' = [majorPc EXCEPT ![t] = "picked"]
  /\ IF t = "server" THEN ClientMajor /\ server = "idle" /\ server' = "major"
                     ELSE UNCHANGED server
  /\ UNCHANGED <<phase, memory, disk, req, reply, minor, redoFiles, bounds>>

\* Mutant of OtherReaders: a file that starts at the end of the range is missed.
OtherReadersBelow(lo, hi, fs) == {f \in fs : MinKey(sst[f]) < hi /\ MaxKey(sst[f]) >= lo}

\* get_other_readers: the files of a level that overlap a key range
OtherReaders(lo, hi, fs) == {f \in fs : MinKey(sst[f]) =< hi /\ MaxKey(sst[f]) >= lo}

KeysIn(fs) == UNION {KeysOf(sst[f]) : f \in fs}

\* The Merger over inputs0, then inputs1
Merged(l, in0, in1) ==
  [k \in Keys |-> IF Holding(in0, k) # {} THEN LevelGet(l, in0, k) ELSE LevelGet(l + 1, in1, k)]

\* size_compaction under readers_.read(): all files of the level (inputs0;
\* last_compact_keys_ is never filled) and the files of the next one they
\* overlap (inputs1), merged into new files.
NextInputs(l) == OtherReaders(Min(KeysIn(levels[l])), Max(KeysIn(levels[l])), levels[l + 1])
MergedInputs(l) == Merged(l, levels[l], NextInputs(l))
NewTables(l) == nextFile..(nextFile + PartCount(MergedInputs(l), SstMaxSize) - 1)

MajorMerge(t) ==
  /\ majorPc[t] = "picked" /\ ~ReadersWriteLocked
  /\ LET l == job[t].level
     IN  /\ levels[l] # {}
         /\ sst' = [f \in DOMAIN sst \cup NewTables(l) |->
                      IF f \in NewTables(l)
                      THEN Part(MergedInputs(l), SstMaxSize, f - nextFile + 1) ELSE sst[f]]
         /\ nextFile' = nextFile + PartCount(MergedInputs(l), SstMaxSize)
         /\ job' = [job EXCEPT ![t] = [level |-> l, in0 |-> levels[l], in1 |-> NextInputs(l),
                                      out |-> NewTables(l)]]
  /\ majorPc' = [majorPc EXCEPT ![t] = "merged"]
  /\ UNCHANGED <<phase, mem, imm, levels, wal, manifest, requests, minor, redoFiles, bounds>>

\* Mutant of MajorRemove: the files are deleted before the manifest is
\* rewritten.
MajorRemoveUnlinksFirst(t, fs, l, from, to) ==
  /\ majorPc[t] = from
  /\ levels' = [levels EXCEPT ![l] = @ \ fs]
  /\ sst' = [f \in DOMAIN sst \ fs |-> sst[f]]
  /\ majorPc' = [majorPc EXCEPT ![t] = to]
  /\ UNCHANGED <<phase, mem, imm, nextFile, wal, manifest, requests, minor, job, redoFiles, bounds>>

\* remove_by_file_names(level, ...) under readers_.write(): memory, then the
\* manifest, then the files.
MajorRemove(t, fs, l, from, to) ==
  /\ majorPc[t] = from
  /\ levels' = [levels EXCEPT ![l] = @ \ fs]
  /\ manifest' = Torn
  /\ majorPc' = [majorPc EXCEPT ![t] = to]
  /\ UNCHANGED <<phase, mem, imm, nextFile, wal, sst, requests, minor, job, redoFiles, bounds>>

MajorRemove0(t) ==
  ~ReadersWriteLocked /\ MajorRemove(t, job[t].in0, job[t].level, "merged", "flush0")

MajorRemove1(t) == MajorRemove(t, job[t].in1, job[t].level + 1, "remove1", "flush1")

\* The second half of ManifestBuilder::flush.  The last of the three ends
\* the compaction and releases the lock.
MajorFlush(t) ==
  /\ majorPc[t] \in {"flush0", "flush1", "flush2"}
  /\ manifest' = levels
  /\ majorPc' = [majorPc EXCEPT ![t] = CASE @ = "flush0" -> "unlink0"
                                         [] @ = "flush1" -> "unlink1"
                                         [] OTHER -> "idle"]
  /\ IF majorPc[t] = "flush2"
     THEN /\ job' = [job EXCEPT ![t] = NoJob]
          /\ server' = IF t = "server" THEN "idle" ELSE server
     ELSE UNCHANGED <<job, server>>
  /\ UNCHANGED <<phase, memory, wal, sst, req, reply, minor, redoFiles, bounds>>

Inputs(t) == IF majorPc[t] = "unlink0" THEN job[t].in0 ELSE job[t].in1

\* remove_file on every input
MajorUnlink(t) ==
  /\ majorPc[t] \in {"unlink0", "unlink1"}
  /\ Inputs(t) \subseteq DOMAIN sst
  /\ sst' = [f \in DOMAIN sst \ Inputs(t) |-> sst[f]]
  /\ majorPc' = [majorPc EXCEPT ![t] = IF @ = "unlink0" THEN "remove1" ELSE "add"]
  /\ UNCHANGED <<phase, memory, wal, manifest, requests, minor, job, redoFiles, bounds>>

\* A remove_file that fails ends the compaction with an error, after an
\* arbitrary part of the set (a HashSet) was deleted.  The background thread
\* dies of its unwrap(); the server thread answers SERVER_ERROR.
MajorUnlinkFails(t) ==
  /\ majorPc[t] \in {"unlink0", "unlink1"}
  /\ ~ Inputs(t) \subseteq DOMAIN sst
  /\ \E gone \in SUBSET (Inputs(t) \cap DOMAIN sst) :
       sst' = [f \in DOMAIN sst \ gone |-> sst[f]]
  /\ majorPc' = [majorPc EXCEPT ![t] = IF t = "server" THEN "idle" ELSE "dead"]
  /\ job' = [job EXCEPT ![t] = NoJob]
  /\ server' = IF t = "server" THEN "idle" ELSE server
  /\ UNCHANGED <<phase, memory, wal, manifest, req, reply, minor, redoFiles, bounds>>

\* add_readers(level + 1, new_readers)
MajorAdd(t) ==
  /\ majorPc[t] = "add"
  /\ levels' = [levels EXCEPT ![job[t].level + 1] = @ \cup job[t].out]
  /\ manifest' = Torn
  /\ majorPc' = [majorPc EXCEPT ![t] = "flush2"]
  /\ UNCHANGED <<phase, mem, imm, nextFile, wal, sst, requests, minor, job, redoFiles, bounds>>
------------------------------------------------------------------------------
(* Death and restart of the process *)

NoFiles == [l \in Levels |-> {}]

\* Everything in memory is gone.
Die(how) ==
  /\ phase' = how
  /\ mem' = EmptyTable /\ imm' = <<>> /\ levels' = NoFiles /\ nextFile' = 0
  /\ server' = "idle" /\ req' = Nothing /\ reply' = Nothing
  /\ minor' = NoMinor
  /\ majorPc' = [t \in Threads |-> "idle"] /\ job' = [t \in Threads |-> NoJob]
  /\ redoFiles' = {}

\* The level that was due has been emptied by the other thread's compaction:
\* unwrap() of no key range.  A panic of the server thread, which is the main
\* thread, ends the process.
MajorPanics(t) ==
  /\ majorPc[t] = "picked" /\ ~ReadersWriteLocked
  /\ levels[job[t].level] = {}
  /\ IF t = "server"
     THEN Die("down")
     ELSE /\ majorPc' = [majorPc EXCEPT ![t] = "dead"]
          /\ job' = [job EXCEPT ![t] = NoJob]
          /\ UNCHANGED <<phase, memory, requests, minor, redoFiles>>
  /\ UNCHANGED <<disk, bounds>>

\* Between the first and the last manifest written by size_compaction's
\* commit, the inputs' data is in no file the manifest names.
CommitOpen ==
  \E t \in Threads : majorPc[t] \in {"unlink0", "remove1", "flush1", "unlink1", "add", "flush2"}

\* WALSeg::append may be writing a record.
Appending ==
  phase = "up" /\ ~WalLocked /\ (server = "append" \/ (server = "idle" /\ writes < MaxWrites))

\* The process is killed between two steps, or in the middle of write_all.
\* A record of which nothing, or all but the padding, was written is as good
\* as none, or as a whole one.
Crash ==
  /\ phase \notin {"down", "torn", "failed"} /\ crashes < MaxCrashes
  /\ manifest = Torn /\ ~CommitOpen => CrashInFlush
  /\ CommitOpen => CrashInCommit
  /\ \/ Die("down")
     \/ CrashInAppend /\ Appending /\ Die("torn")
  /\ crashes' = crashes + 1
  /\ UNCHANGED <<disk, writes>>

Named(m) == UNION {m[l] : l \in Levels}

\* Mutant of NextFileNumber: the highest number in use instead of the next.
NextFileNumberInUse(m) == IF Named(m) = {} THEN 0 ELSE Max(Named(m))

\* Manifest::next_file_number
NextFileNumber(m) == IF Named(m) = {} THEN 0 ELSE Max(Named(m)) + 1

Loadable == IF manifest = Torn THEN FALSE ELSE Named(manifest) \subseteq DOMAIN sst

\* WAL::new deletes the segments that are empty ...
DropEmptySeg ==
  /\ phase = "down" /\ Loadable
  /\ \E i \in 1..Len(wal) :
       /\ wal[i] = <<>>
       /\ wal' = SubSeq(wal, 1, i - 1) \o SubSeq(wal, i + 1, Len(wal))
  /\ UNCHANGED <<phase, memory, sst, manifest, requests, minor, majors, redoFiles, bounds>>

\* ... and DataManager::new goes on with the others.  Without any, there is
\* nothing to redo.
Restart ==
  /\ phase = "down" /\ Loadable
  /\ \A i \in 1..Len(wal) : wal[i] # <<>>
  /\ levels' = manifest
  /\ nextFile' = NextFileNumber(manifest)
  /\ phase' = IF wal = <<>> THEN "up" ELSE "redo"
  /\ UNCHANGED <<mem, imm, disk, requests, minor, majors, redoFiles, bounds>>

\* The manifest cannot be loaded, or WALSegIter panics on half a record and
\* redo, which joins that thread, with it: Store::new does not return a store,
\* main ends, and so it does whenever it is started again.  (The tables redo
\* has built from other segments are in no manifest.)
RestartFails ==
  /\ (phase = "down" /\ ~Loadable) \/ phase \in {"torn", "failed"}
  /\ phase' = "failed"
  /\ UNCHANGED <<memory, disk, requests, minor, majors, redoFiles, bounds>>

\* redo: one table per segment, built by a thread each
RedoBuild ==
  /\ phase = "redo"
  /\ redoFiles' = nextFile..(nextFile + Len(wal) - 1)
  /\ sst' = [f \in DOMAIN sst \cup redoFiles' |->
               IF f \in redoFiles' THEN Replay(wal[f - nextFile + 1]) ELSE sst[f]]
  /\ nextFile' = nextFile + Len(wal)
  /\ phase' = "redoadd"
  /\ UNCHANGED <<mem, imm, levels, wal, manifest, requests, minor, majors, bounds>>

RedoAdd ==
  /\ phase = "redoadd"
  /\ levels' = [levels EXCEPT ![0] = @ \cup redoFiles]
  /\ manifest' = Torn
  /\ phase' = "redoflush"
  /\ UNCHANGED <<mem, imm, nextFile, wal, sst, requests, minor, majors, redoFiles, bounds>>

RedoFlush ==
  /\ phase = "redoflush"
  /\ manifest' = levels
  /\ phase' = "redodelete"
  /\ UNCHANGED <<memory, wal, sst, requests, minor, majors, redoFiles, bounds>>

\* Mutant of RedoDelete: the last segment is never deleted.
RedoDeleteKeepsLast ==
  /\ phase = "redodelete"
  /\ wal' = IF Len(wal) = 1 THEN wal ELSE Tail(wal)
  /\ UNCHANGED <<phase, redoFiles, memory, sst, manifest, requests, minor, majors, bounds>>

\* Mutant of RedoDelete: the segments are deleted newest first.
RedoDeleteNewestFirst ==
  /\ phase = "redodelete"
  /\ wal' = SubSeq(wal, 1, Len(wal) - 1)
  /\ IF Len(wal) = 1 THEN phase' = "up" /\ redoFiles' = {} ELSE UNCHANGED <<phase, redoFiles>>
  /\ UNCHANGED <<memory, sst, manifest, requests, minor, majors, bounds>>

\* The segments are deleted oldest first; after the last one the server and
\* the background threads start.
RedoDelete ==
  /\ phase = "redodelete"
  /\ wal' = Tail(wal)
  /\ IF Len(wal) = 1 THEN phase' = "up" /\ redoFiles' = {} ELSE UNCHANGED <<phase, redoFiles>>
  /\ UNCHANGED <<memory, sst, manifest, requests, minor, majors, bounds>>
------------------------------------------------------------------------------
Init ==
  /\ phase = "up"
  /\ mem = EmptyTable /\ imm = <<>> /\ levels = NoFiles /\ nextFile = 0
  /\ wal = <<>> /\ sst = <<>> /\ manifest = NoFiles
  /\ server = "idle" /\ req = Nothing /\ reply = Nothing
  /\ minor = NoMinor
  /\ majorPc = [t \in Threads |-> "idle"] /\ job = [t \in Threads |-> NoJob]
  /\ redoFiles = {}
  /\ writes = 0 /\ crashes = 0

ServerStep ==
  \/ \E op \in {"get", "remove"}, k \in Keys : GetFromMemtables(op, k)
  \/ \E k \in Keys, v \in Vals : Insert(k, v)
  \/ GetFromReaders \/ Remove \/ MemInsert \/ NewSeg

MinorStep ==
  \/ MinorCount \/ MinorLock \/ MinorBuild \/ MinorAdd \/ MinorFlush
  \/ MinorConsumeSeg \/ MinorConsume

MajorStep(t) ==
  \/ MajorPick(t) \/ MajorMerge(t) \/ MajorRemove0(t) \/ MajorRemove1(t) \/ MajorFlush(t)
  \/ MajorUnlink(t) \/ MajorUnlinkFails(t) \/ MajorAdd(t) \/ MajorPanics(t)

RestartStep ==
  \/ DropEmptySeg \/ Restart \/ RestartFails
  \/ RedoBuild \/ RedoAdd \/ RedoFlush \/ RedoDelete

Next ==
  \/ ServerStep
  \/ MinorStep
  \/ \E t \in Threads : MajorStep(t)
  \/ Crash
  \/ RestartStep

Spec == Init /\ [][Next]_vars

\* The threads run and locks are granted in the end: whoever holds one gives
\* it back, and the background threads sleep between two rounds.  Requests
\* need not come, and crashes need not happen.
ServerProgress == GetFromReaders \/ Remove \/ MemInsert \/ NewSeg

Fairness ==
  /\ SF_vars(ServerProgress)
  /\ SF_vars(MinorStep)
  /\ SF_vars(MajorStep("background"))
  /\ WF_vars(MajorStep("server") /\ server = "major")
  /\ WF_vars(RestartStep)

FairSpec == Spec /\ Fairness
------------------------------------------------------------------------------
(* Properties *)

\* The manifest on disk, or what is being written to it.
DiskLevels == IF manifest = Torn THEN levels ELSE manifest

Logged == [i \in 1..Len(wal) |-> Replay(wal[i])]

\* What get(k) would return after a restart.
Recovered(k) ==
  Decode(IF Newest(Logged, k) # Absent THEN Newest(Logged, k) ELSE ReadersGet(DiskLevels, k))

\* The files a reader finds when it gets the lock: a commit in progress
\* holds readers_.write() to its end, which is its last step or the first
\* remove_file that fails.
Visible ==
  IF ~ \E t \in Threads : Committing(t) THEN levels
  ELSE LET t   == CHOOSE t \in Threads : Committing(t)
           j   == job[t]
           ok0 == majorPc[t] \in {"flush0", "unlink0"} => j.in0 \subseteq DOMAIN sst
           ok1 == majorPc[t] \notin {"add", "flush2"} => j.in1 \subseteq DOMAIN sst
       IN  [levels EXCEPT
              ![j.level] = @ \ j.in0,
              ![j.level + 1] = IF ~ok0 THEN @ ELSE (@ \ j.in1) \cup IF ok1 THEN j.out ELSE {}]

\* What get(k) returns once it has its locks.
Current(k) == Decode(IF MemGet(k) # Absent THEN MemGet(k) ELSE ReadersGet(Visible, k))

View == [k \in Keys |-> IF phase = "up" THEN Current(k) ELSE Recovered(k)]

Pending == server \in {"getsst", "append", "appended"}

\* The request in flight, as KVStore has it.
InProgress ==
  IF ~Pending THEN Nothing
  ELSE IF req.op = "insert" THEN req ELSE [op |-> req.op, key |-> req.key]

KV == INSTANCE KVStore WITH db <- View, req <- InProgress, reply <- reply

(***************************************************************************)
(* The engine implements the abstract map: a get or remove returns what    *)
(* the last completed write of the key left, whatever rotation, flush or   *)
(* compaction does in between (insert_, get, minor_compaction,             *)
(* size_compaction), and a crash followed by redo keeps every completed    *)
(* write and applies the one in flight entirely or not at all.             *)
(***************************************************************************)
ImplementsKVStore == KV!Spec

MemoryType ==
  /\ phase \in {"up", "down", "torn", "failed", "redo", "redoadd", "redoflush", "redodelete"}
  /\ mem \in Table /\ imm \in Seq(Table)
  /\ levels \in LevelFiles /\ nextFile \in Nat /\ redoFiles \in SUBSET Nat

DiskType ==
  /\ wal \in Seq(Seq(Record))
  /\ DOMAIN sst \subseteq Nat /\ sst \in [DOMAIN sst -> Table]
  /\ manifest \in LevelFiles \cup {Torn}

RequestType ==
  /\ server \in {"idle", "getsst", "append", "appended", "newseg", "major"}
  /\ IF Pending THEN req \in Request ELSE req = Nothing
  /\ reply \in Vals \cup {Absent, Nothing}
  /\ writes \in 0..MaxWrites /\ crashes \in 0..MaxCrashes

MinorType ==
  minor \in [pc : {"idle", "lock", "build", "add", "flush", "seg", "consume"},
             count : Nat, done : Nat, file : Nat]

MajorType ==
  /\ majorPc \in [Threads -> {"idle", "picked", "merged", "flush0", "unlink0", "remove1",
                              "flush1", "unlink1", "add", "flush2", "dead"}]
  /\ job \in [Threads -> [level : Levels, in0 : SUBSET Nat, in1 : SUBSET Nat, out : SUBSET Nat]]

(***************************************************************************)
(* Types.  Two of them are more than bookkeeping: a table minor_compaction *)
(* or size_compaction builds is made of memtables and files that exist     *)
(* (iter.next().unwrap(), the readers it merges), and no more than         *)
(* MaxWrites requests pass insert_.                                        *)
(***************************************************************************)
TypeOK == MemoryType /\ DiskType /\ RequestType /\ MinorType /\ MajorType

\* The immutable memtables whose segments the minor compaction has not
\* deleted yet, and the memtable once the logged write has reached it.
Unflushed == SubSeq(imm, minor.done + 1, Len(imm))
MemAfterWrite == IF server = "appended" THEN [mem EXCEPT ![req.key] = Entry(req)] ELSE mem

(***************************************************************************)
(* The log and the memtables correspond one to one, although insert_       *)
(* rotates them in several steps and minor_compaction deletes a segment    *)
(* long before it drops its memtable: replaying the segments in order      *)
(* gives exactly the immutable memtables not yet flushed, oldest first,    *)
(* and then the memtable (which has no segment right after a restart and   *)
(* before new_seg).  A pairing off by one would make consume_seg delete a  *)
(* segment whose records are in no SSTable.                                *)
(***************************************************************************)
LogMirrorsMemtables ==
  phase = "up" =>
    \/ wal = <<>> /\ imm = <<>> /\ mem = EmptyTable /\ server \notin {"appended", "newseg"}
    \/ server = "newseg" /\ mem = EmptyTable /\ Logged = Unflushed
    \/ server # "newseg" /\ Logged = Append(Unflushed, MemAfterWrite)

(***************************************************************************)
(* At any moment outside a manifest rewrite and a major compaction's       *)
(* commit, killing the process loses nothing: what redo would rebuild from *)
(* the manifest and the WAL is what get returns now, plus the write that   *)
(* has reached the log but not the memtable yet.                           *)
(***************************************************************************)
Durable ==
  phase = "up" /\ manifest # Torn /\ ~CommitOpen =>
    \A k \in Keys :
      Recovered(k) = IF server = "appended" /\ req.key = k THEN Decode(Entry(req)) ELSE Current(k)

(***************************************************************************)
(* Every SSTable the manifest or a reader refers to exists, at every crash *)
(* point and even when two major compactions collide: a restart never      *)
(* finds a manifest with a missing file (SstableReader::load would fail).  *)
(* It rests on remove_by_file_names writing the manifest before it deletes *)
(* the files, and on the builders finishing a file before it is added.     *)
(***************************************************************************)
ReferencedFilesExist ==
  /\ manifest # Torn => Named(manifest) \subseteq DOMAIN sst
  /\ Named(levels) \subseteq DOMAIN sst

(***************************************************************************)
(* The files of a level above 0 have disjoint key ranges, which            *)
(* search_readers and get_other_readers assume: size_compaction must merge *)
(* every file of the next level it overlaps.                               *)
(***************************************************************************)
LevelsAreDisjoint ==
  \A l \in Levels \ {0} : \A f, g \in Visible[l] :
    f # g => MaxKey(sst[f]) < MinKey(sst[g]) \/ MaxKey(sst[g]) < MinKey(sst[f])

(***************************************************************************)
(* A new SSTable never takes the name of a file in use, across restarts    *)
(* too (next_file_number is rebuilt from the manifest alone), and level 0  *)
(* receives its files in the order of their numbers, so that the newest    *)
(* file is the one with the highest number.                                *)
(***************************************************************************)
FilesArePushedInOrder ==
  phase \notin {"down", "torn", "failed"} =>
    /\ \A f \in Named(levels) \cup redoFiles : f < nextFile
    /\ minor.pc \in {"add", "flush", "seg"} => minor.file < nextFile
    /\ \A t \in Threads : \A f \in job[t].out : f < nextFile
    /\ minor.pc = "add" => \A f \in levels[0] : f < minor.file
    /\ phase = "redoadd" => \A f \in levels[0], g \in redoFiles : f < g

(***************************************************************************)
(* Every immutable memtable is flushed and dropped in the end, whatever    *)
(* the server and the major compaction do: minor_compaction always gets    *)
(* past the WAL's, the memtables' and the readers' locks.                  *)
(***************************************************************************)
MemtablesGetFlushed == []<>(imm = <<>>)

(***************************************************************************)
(* Level 0 is compacted again and again: it stays at or above              *)
(* l0_compaction_trigger only as long as the last level, which             *)
(* size_compaction leaves alone, is the most urgent one.                   *)
(***************************************************************************)
Level0Drains == []<>(Cardinality(levels[0]) < L0Trigger \/ IsMostUrgent(MaxLevel - 1))

(***************************************************************************)
(* The background thread outlives every compaction: when it comes back to  *)
(* the level it picked before it dropped the lock, the level still has     *)
(* files to merge (size_compaction would unwrap() no key range), and the   *)
(* files it removes are still there.  It holds as long as clients request  *)
(* no major compaction (see collisions).                                   *)
(***************************************************************************)
CompactorSurvives == majorPc["background"] # "dead"

(***************************************************************************)
(* A crash between two steps is followed by a complete restart, also when  *)
(* it hits redo, before or after its tables are in the manifest and some   *)
(* of its segments are deleted.  A crash that tears a record of the log is *)
(* the exception ("torn"): from there no start completes (RestartFails).   *)
(***************************************************************************)
RestartCompletes == phase = "down" ~> phase = "up"

(***************************************************************************)
(* No crash leaves files the server cannot start from: test_fault_         *)
(* tolerance kills the engine and opens it again on the same directory.    *)
(***************************************************************************)
AlwaysRestarts == phase # "failed"

(***************************************************************************)
(* As Durable, but in the middle of a major compaction's commit as well.   *)
(***************************************************************************)
DurableInCommit ==
  phase = "up" /\ manifest # Torn =>
    \A k \in Keys :
      Recovered(k) = IF server = "appended" /\ req.key = k THEN Decode(Entry(req)) ELSE Current(k)
==============================================================================
