---------------------------- MODULE DataManagerInv ----------------------------
(***************************************************************************)
(* The inductive invariants of DataManager.  IndInv has four parts:        *)
(* TypeOK; Control, what the program counters imply; Files, who may refer  *)
(* to which SSTable; and Mirror, the correspondence of WAL segments and    *)
(* memtables.  It holds whatever clients do.  Data, which is inductive     *)
(* relative to IndInv, says what the tables hold.                          *)
(***************************************************************************)
EXTENDS DataManager

Running == phase \notin {"down", "torn", "failed"}
Redoing == phase \in {"redo", "redoadd", "redoflush", "redodelete"}

\* The files that have been merged but not added to a level yet ...
Unadded(t) ==
  majorPc[t] \in {"merged", "flush0", "unlink0", "remove1", "flush1", "unlink1", "add"}
\* ... and the inputs that have left their level.
Removed0(t) ==
  majorPc[t] \in {"flush0", "unlink0", "remove1", "flush1", "unlink1", "add", "flush2"}
Removed1(t) == majorPc[t] \in {"flush1", "unlink1", "add", "flush2"}
InputsOf(t) == job[t].in0 \cup job[t].in1

(***************************************************************************)
(* Control: the program counters                                           *)
(***************************************************************************)
\* Until redo is done only the thread that opens the database runs.
Quiet ==
  phase # "up" =>
    /\ mem = EmptyTable /\ imm = <<>> /\ server = "idle" /\ minor = NoMinor
    /\ majorPc = [t \in Threads |-> "idle"]

\* minor_compaction's count never exceeds the memtables there are.
MinorInRange ==
  /\ minor.pc = "idle" => minor = NoMinor
  /\ minor.pc # "idle" => minor.count \in 1..Len(imm)
  /\ minor.pc = "lock" => minor.done = 0
  /\ minor.pc \in {"build", "add", "flush", "seg"} => minor.done < minor.count
  /\ minor.pc = "consume" => minor.done = minor.count

\* wal_.write() has one holder.
OneWalHolder ==
  ~ (server \in {"appended", "newseg"} /\ minor.pc \in {"build", "add", "flush", "seg"})

\* size_compaction never takes the last level as its input.
JobLevels ==
  \A t \in Threads :
    /\ majorPc[t] \notin {"idle", "dead"} => job[t].level + 1 \in Levels
    /\ majorPc[t] \in {"idle", "picked", "dead"} => job[t].in0 = {} /\ job[t].in1 = {} /\ job[t].out = {}

\* The server thread waits for the compaction a client asked for.
ServerCompacts == majorPc["server"] = "idle" <=> server # "major"

\* What insert_ is called with.
RequestShape ==
  /\ server = "getsst" => req.op \in {"get", "remove"}
  /\ server = "append" => req.op = "remove"
  /\ server = "append" \/ (server = "getsst" /\ req.op = "remove") => writes < MaxWrites
  /\ server = "appended" => req.op # "get" /\ Entry(req) \in Vals \cup {Tombstone}

\* redo works on a log that has segments.
RedoHasLog == Redoing => wal # <<>>

Control ==
  Quiet /\ MinorInRange /\ OneWalHolder /\ JobLevels /\ ServerCompacts /\ RequestShape /\ RedoHasLog

(***************************************************************************)
(* Files: who refers to which SSTable                                      *)
(***************************************************************************)
OneLevelEach(lv) == \A l, m \in Levels : l # m => lv[l] \cap lv[m] = {}

\* Outside a rewrite the manifest on disk says what is in memory.
ManifestInSync == Running /\ manifest # Torn => manifest = levels

FileNumbersBelowNext ==
  Running =>
    /\ \A f \in Named(levels) \cup redoFiles : f < nextFile
    /\ \A t \in Threads : \A f \in InputsOf(t) \cup job[t].out : f < nextFile
    /\ minor.pc \in {"add", "flush", "seg"} => minor.file < nextFile

\* The table minor_compaction has built is nobody else's yet,
MinorFileIsFresh ==
  minor.pc = "add" =>
    /\ minor.file \in DOMAIN sst /\ minor.file \notin Named(levels)
    /\ \A f \in levels[0] : f < minor.file
    /\ \A t \in Threads : minor.file \notin InputsOf(t) \cup job[t].out

\* nor are the tables size_compaction has built ...
OutputsAreFresh ==
  \A t \in Threads : Unadded(t) =>
    /\ job[t].out \subseteq DOMAIN sst
    /\ job[t].out \cap Named(levels) = {}
    /\ \A u \in Threads : job[t].out \cap InputsOf(u) = {}
    /\ \A u \in Threads \ {t} : job[t].out \cap job[u].out = {}

\* ... and those that redo has built.
RedoFilesAreFresh ==
  /\ phase \in {"up", "down", "torn", "failed", "redo"} => redoFiles = {}
  /\ phase = "redoadd" =>
       /\ redoFiles \subseteq DOMAIN sst /\ redoFiles \cap Named(levels) = {}
       /\ \A f \in levels[0], g \in redoFiles : f < g

\* An input is on its own level or on none,
InputsStayOnLevel ==
  \A t \in Threads : \A m \in Levels :
    /\ m # job[t].level => job[t].in0 \cap levels[m] = {}
    /\ m # job[t].level + 1 => job[t].in1 \cap levels[m] = {}

\* and on none once it was removed: only then is its file deleted.
RemovedInputsAreGone ==
  \A t \in Threads :
    /\ Removed0(t) => job[t].in0 \cap Named(levels) = {}
    /\ Removed1(t) => job[t].in1 \cap Named(levels) = {}

Files ==
  /\ IsFiniteSet(DOMAIN sst)
  /\ ReferencedFilesExist
  /\ OneLevelEach(levels) /\ (manifest # Torn => OneLevelEach(manifest))
  /\ ManifestInSync /\ FileNumbersBelowNext
  /\ MinorFileIsFresh /\ OutputsAreFresh /\ RedoFilesAreFresh
  /\ InputsStayOnLevel /\ RemovedInputsAreGone

(***************************************************************************)
(* Mirror: LogMirrorsMemtables, element by element                         *)
(***************************************************************************)
Flushable == Len(imm) - minor.done

SegmentsMirrorImm == \A i \in 1..Flushable : Replay(wal[i]) = imm[minor.done + i]

Mirror ==
  phase = "up" =>
    \/ /\ wal = <<>> /\ imm = <<>> /\ mem = EmptyTable /\ server \notin {"appended", "newseg"}
    \/ /\ server = "newseg" /\ mem = EmptyTable
       /\ Len(wal) = Flushable /\ SegmentsMirrorImm
    \/ /\ server # "newseg" /\ Len(wal) = Flushable + 1 /\ SegmentsMirrorImm
       /\ Replay(wal[Len(wal)]) = MemAfterWrite

IndInv == TypeOK /\ Control /\ Files /\ Mirror

(***************************************************************************)
(* Data: what the tables hold.  It is an invariant as long as clients      *)
(* request no major compaction, so that the background thread is the only  *)
(* one to compact.                                                         *)
(***************************************************************************)
Disjoint(lv) ==
  \A l \in Levels \ {0} : \A f, g \in lv[l] :
    f # g => MaxKey(sst[f]) < MinKey(sst[g]) \/ MaxKey(sst[g]) < MinKey(sst[f])

\* No memtable that is flushed and no SSTable is empty.
TablesHaveKeys ==
  /\ \A f \in DOMAIN sst : KeysOf(sst[f]) # {}
  /\ \A i \in 1..Len(imm) : KeysOf(imm[i]) # {}
  /\ phase = "redo" => \A i \in 1..Len(wal) : wal[i] # <<>>

\* The compaction whose tables have been merged, and the levels it leaves
\* behind when its commit is done.
BgPc == majorPc["background"]
BgJob == job["background"]
Merging == BgPc = "merged" \/ Committing("background")

AfterCommit ==
  [levels EXCEPT ![BgJob.level] = @ \ BgJob.in0,
                 ![BgJob.level + 1] = (@ \ BgJob.in1) \cup BgJob.out]

\* The inputs are there until the compaction itself deletes them.
InputsAreThere ==
  /\ BgJob.in0 \cap BgJob.in1 = {}
  /\ BgPc \in {"merged", "flush0", "unlink0"} => BgJob.in0 \subseteq DOMAIN sst
  /\ BgPc \in {"merged", "flush0", "unlink0", "remove1", "flush1", "unlink1"} =>
       BgJob.in1 \subseteq DOMAIN sst
  /\ BgPc = "flush2" => BgJob.out \subseteq levels[BgJob.level + 1]

\* The outputs can take the place of the inputs, also when minor_compaction
\* has added newer files since they were merged.
MergeIsFaithful ==
  BgPc = "merged" => \A k \in Keys : ReadersGet(AfterCommit, k) = ReadersGet(levels, k)

RangesAreDisjoint ==
  /\ Disjoint(levels)
  /\ manifest # Torn => Disjoint(manifest)
  /\ Merging => Disjoint(AfterCommit)

\* readers_.write() has one holder, and a manifest that is being rewritten
\* is torn.
OneReadersWriter ==
  /\ majorPc["server"] = "idle"
  /\ ~ (minor.pc = "flush" /\ Committing("background"))
  /\ BgPc = "flush0" => manifest = Torn

\* The immutable memtables that minor_compaction has added to level 0 are
\* what the readers return, until it drops them.
Flushed == minor.done + IF minor.pc \in {"flush", "seg"} THEN 1 ELSE 0

FlushedAreReadable ==
  phase = "up" =>
    /\ minor.pc = "add" => sst[minor.file] = imm[minor.done + 1]
    /\ \A k \in Keys : \A i \in 1..Flushed :
         imm[i][k] # Absent /\ (\A j \in (i + 1)..Flushed : imm[j][k] = Absent) =>
           ReadersGet(Visible, k) = imm[i][k]

\* redo's tables are the replayed segments in their order, and are found by
\* the readers before the segments are deleted.
RedoIsReadable ==
  /\ phase = "redoadd" =>
       /\ redoFiles = (nextFile - Len(wal))..(nextFile - 1)
       /\ \A i \in 1..Len(wal) : sst[nextFile - Len(wal) + i - 1] = Replay(wal[i])
  /\ phase \in {"redoflush", "redodelete"} =>
       \A k \in Keys : Newest(Logged, k) # Absent => ReadersGet(levels, k) = Newest(Logged, k)

\* What a request has read is still so when it takes effect.
ReadsAreCurrent ==
  /\ Pending => reply = Nothing
  /\ server = "getsst" => MemGet(req.key) = Absent
  /\ server \in {"append", "appended"} /\ req.op = "remove" => Current(req.key) = req.val

Data ==
  /\ TablesHaveKeys /\ InputsAreThere /\ MergeIsFaithful /\ RangesAreDisjoint
  /\ OneReadersWriter /\ FlushedAreReadable /\ RedoIsReadable /\ ReadsAreCurrent
==============================================================================
