# A TLA+ verification of MirDB

MirDB is a persistent key-value store that speaks the memcached protocol. It is
an LSM tree: writes go to a write-ahead log (WAL) and a memtable, full memtables
become immutable and are flushed to SSTables of level 0 (minor compaction), and
levels are merged downwards (major compaction). This directory models the
storage engine, its files and the protocol in TLA+, checks the models with TLC on small
instances and proves with TLAPS, for all instances, the main invariants and that
the engine implements the map it is meant to be.

## The system

| Part | Source | Module | Status |
| --- | --- | --- | --- |
| Reads, writes, memtable rotation | `mirdb-server/src/data_manager.rs` | `DataManager` | modelled |
| Minor compaction thread | `data_manager.rs` | `DataManager` | modelled |
| Major compaction, background and by request | `data_manager.rs`, `merger.rs` | `DataManager`, `Tables`, `SSTable` | modelled |
| Write-ahead log | `wal.rs` | `DataManager`, `Tables`, `WALSegment`, `TableFiles` | segments, replay, record bytes; no I/O errors |
| Manifest | `manifest.rs` | `DataManager` | modelled |
| Readers of the levels | `sstable_reader.rs` | `DataManager`, `SearchReaders`, `TableFiles` | modelled |
| Restart and redo | `data_manager.rs`, `wal.rs` | `DataManager` | modelled |
| Memtables | `memtable.rs`, `memtable_list.rs`, `sstable_builder.rs` | `Tables`, `DataManager` | modelled |
| Skip list | `skip-list/src` | `SkipList` | modelled |
| Thread pool | `thread_pool.rs` | `ThreadPool` | modelled |
| SSTable writer: blocks, index, separators | `sstable/src/*_builder.rs`, `util.rs` | `Separator`, `Block`, `SSTable` | layout; no encoding of integers, no compression |
| SSTable reader and iterators | `table_reader.rs`, `block_iter.rs`, `table_iter.rs` | `Block`, `SSTable`, `Cursor`, `TableFiles` | all but unreadable blocks and the cache |
| Memcached semantics: add, replace, append, expiry | `store.rs` | `Store`, `ExpiringMap` | modelled |
| Protocol: parser and codec | `parser.rs`, `parser_util`, `proto.rs` | `Protocol` | reading; writing of responses left out |
| Configuration, error types, byte slices | `config.rs`, `options.rs`, `error.rs`, `slice.rs` | – | constants only |

Three threads work on one `DataManager`. The *server thread* (tokio-proto's
TcpServer runs one, on the main thread) executes requests one at a time. Two
*background threads* run `minor_compaction` and `major_compaction` in a loop. A
client may also send `major_compaction`, which the server thread then runs
itself, beside the background one. They share four RwLocks: `wal_`, `mut_`,
`imm_` and `readers_`.

## Modules

**`KVStore`** is the promise: a map, one request at a time, each taking effect at
one instant, and a crash that keeps every completed request and keeps or drops
the one in flight.

**`Tables`** has the data: a table (memtable or SSTable) maps keys to a value, a
tombstone (the serialised `None` that `remove` inserts) or nothing; lookup
newest first, replay of a WAL segment, and cutting a merged table into files.

**`DataManager`** is the engine. Its variables are the memory (`mem`, `imm`,
`levels`, `nextFile`), the disk (`wal`, `sst`, `manifest`) and one program counter
per thread. There is one action per stretch of code between two lock
operations or disk writes:

| Code | Actions |
| --- | --- |
| `get`, `remove` | `GetFromMemtables`, `GetFromReaders`, `Remove` |
| `insert_` | `Insert`/`WalAppend`, `MemInsert`, `NewSeg` |
| `minor_compaction` | `MinorCount`, `MinorLock`, `MinorBuild`, `MinorAdd`, `MinorFlush`, `MinorConsumeSeg`, `MinorConsume` |
| `major_compaction`, `size_compaction` | `MajorPick`, `MajorMerge`, `MajorRemove0/1`, `MajorFlush`, `MajorUnlink`, `MajorAdd` |
| their failures | `MajorUnlinkFails` (`remove_file` of a file the other run deleted), `MajorPanics` (the level was emptied meanwhile) |
| process death | `Crash` |
| `WAL::new`, `DataManager::new`, `redo` | `DropEmptySeg`, `Restart`, `RestartFails`, `RedoBuild`, `RedoAdd`, `RedoFlush`, `RedoDelete` |

Locks are not variables: who holds which follows from the program counters
(`WalLocked`, `ReadersWriteLocked`, `ImmReadLocked`). A manifest rewrite takes two
steps, because `File::create` truncates the file before the new contents are
written; in between it is `Torn`. A crash ends the process and keeps what was
written. One that hits `write_all` in the middle of a record of the log leaves the
phase "torn": the rest of the state is as after any other crash, but `redo` panics on
the half record, so every start ends in `RestartFails`. The code never calls fsync,
so the loss of a whole machine is outside what it can promise and outside the model.
Sizes are counted in records instead of bytes. Keys are integers, since only their
order matters.

The constants `ClientMajor`, `CrashInAppend`, `CrashInFlush` and `CrashInCommit`
switch on behaviours that the code does not survive. `CrashInAppend` is on in all
passing runs: no server starts after it, and what was written stays on disk. Each of the other three is shown
by a run of its own; without them the remaining properties hold, and with them the
weaker ones of the `collisions` run still do.

The next modules go below the tables of `DataManager`, where a table is a map and
a lookup applies it.

**`Separator`** has byte strings in their order and `find_shortest_sep`, which makes
the key of an index entry. **`Block`** has `BlockBuilder`, which stores keys with
shared prefixes and a restart point every `block_restart_interval` entries, and
`BlockIter`, which walks and searches them. **`SSTable`** has `TableBuilder`,
`TableReader::get`, `TableIter`, `Merger::advance` and the loop of `size_compaction`
that cuts the merged entries into tables. Offsets are those of the bytes; the
contents of the lengths, the compression and the checksum are left out.

**`WALSegment`** has a log record byte by byte, with its lengths and padding, and
`WALSegIter`. **`SearchReaders`** is the binary search and scan of
`search_readers`, one action per turn of a loop.

**`TableFiles`** composes these five: a log segment, level 0 and level 1 as files,
with appends, a crash at any byte of an append, replay, flushes, compactions,
lookups and iterations. Its operations run one at a time, since `DataManager` has
their concurrency. `Compact` is `size_compaction` of level 0 without its commit,
which is in `DataManager` as well. **`Cursor`** is what an `SsIterator` promises, and the
table iterators of `TableFiles` implement it.

**`Protocol`** is a connection: a client that pipelines requests, reads that end
anywhere, `ServerCodec::decode` and the parser combinators with the grammar of
`parser.rs`. The stream consists of units, one or more bytes that the parser never
tells apart; names have two or three, so that a read can end inside them and
names share beginnings. `AnyCut` lets reads also end inside the head of a request,
which the parser does not survive; see the run `fragmented`.

**`SkipList`** has the nodes, heights and raw pointers of the memtable's skip
list on a heap of addresses that the allocator hands out in any order; `gen_height` is
any height. Users hold a lock, so one operation runs at a time. Its loops are
taken step by step: an operation begins (`Get`, `Insert`, `Remove`), the search goes
forward or down (`Forward`, `Down`) and the operation takes effect (`ReturnValue`,
`ReplaceValue`, `Link`, `Unlink`, `NothingToRemove`); `clear` frees node by node
(`Clear`, `DisposeNext`, `DisposeEnd`), and `clone` inserts entry by entry (`Clone`,
`CloneNext`, `CloneEnd`). An update that the search has not set yet is `Null`: in the
code it is uninitialised. `get` uses a search without updates, and here ignores them.
`remove` is modelled for values without a destructor: the code drops an
uninitialised value there, and the server never calls it.

**`ThreadPool`** has the channel, the mutex held during `recv`, jobs that panic
and the two phases of `drop`.

**`ExpiringMap`** is what a client can rely on: a map whose items lapse in the second
their lifetime ends. No get sees a lapsed item again; for add, replace, append,
prepend and delete it is still there. **`Store`** is `Store::apply` on top of the map that
`KVStore` specifies: one action per kind of request (`Setter` for the five storing
ones), a get that looks up one key per step, and a clock. Payloads are never
removed when they expire, only hidden (`IsExpired`). The clock never goes back,
which `SystemTime` does not promise.

`DataManagerInv` states the inductive invariants of `DataManager`. The proofs are in

- `TableLaws` and `TablesProofs`: facts about tables, lookups, merging, replay and
  finite sets that mention no thread. `TableLaws` states them as one formula, which
  `TablesProofs` proves (`TablesObeyLaws`).
- `DataManagerTypes`, `DataManagerProofs` and `DataManagerData`: every step of the
  engine preserves the types, the invariant `IndInv` and the invariant `Data`. Their
  lemmas take `TableLaws` as a hypothesis instead of citing the lemmas behind it.
- `DataManagerRefinement`: the steps of the engine as steps of `KVStore`, and the
  theorems about the engine. They cite `TablesObeyLaws`, so none of them has
  `TableLaws` as a hypothesis.
- `StoreProofs`, `SearchProofs` (for `SkipList`, `SearchReaders` and `Separator`) and
  `ThreadPoolProofs`.

The modules whose names start with `MC` are those that the `.cfg` files instantiate.

## Runs

| Run | Instance | Shows |
| --- | --- | --- |
| `refinement` | 2 keys, 4 writes, memtables of 2 records, 2 crashes (also of `redo` and in an append) | `ImplementsKVStore`: all threads together implement `KVStore`; `Durable`, `LogMirrorsMemtables`, `TypeOK`: killing the process anywhere outside a manifest rewrite or a compaction's commit loses nothing |
| `collisions` | 1 key, 3 writes, client compactions, 2 crashes at any point | `ReferencedFilesExist`, `FilesArePushedInOrder` |
| `progress` | 2 keys, 3 writes, memtables of 2, files of 1 record, 3 levels, fair threads, 2 crashes (also of `redo` and in an append) | `LevelsAreDisjoint`, `CompactorSurvives`, `RestartCompletes`, `MemtablesGetFlushed`, `Level0Drains` |
| `skiplist` | 3 keys, 2 values, 3 addresses, heights 0 to 2 | `ListsAreNested`, `SearchFindsEntries`, `ActsLikeMap` |
| `threadpool` | 3 workers, 4 jobs that may panic | `JobsAreTakenInOrder`, `CloseWaitsForJobs`, `DropReturns` |
| `store` | 2 keys, lifetimes 0 and 1, 2 seconds, data of at most 2 bytes | `BytesCountData`, `ImplementsExpiringMap` |
| `tablefiles` | 5 keys of one to seven bytes, 2 writes, every level 1 that one compaction leaves, blocks of one to three entries | `TornRecordIsNotMisread`, `CompactionKeepsLevel`, `SearchIsComplete`, `GetReturnsLatest`, `IteratesLikeCursor` |
| `protocol` | 13 requests of all kinds, 2 on a connection, reads of any length that do not end inside a head | `DecodesWhatWasSent`, `EveryRequestIsDecoded` |
| `commit_crash` | 1 key, what a crash inside a commit would leave | violated: `DurableInCommit` |
| `flush_crash` | 1 key, crash inside a manifest rewrite | violated: `AlwaysRestarts` |
| `client_major` | client compaction beside the background one | violated: `ImplementsKVStore` |
| `fragmented` | `protocol`, with reads that end anywhere | violated: `CutRequestIsIncomplete` |

The bounds are small but reach every action: memtables of one or two records
rotate after every write or every other one, `l0_compaction_trigger` of 1 or 2
makes compactions overlap with flushes, and `progress` moves data from level 0
through level 1 to level 2. Two crashes let the second one hit `redo`, so that
segments are replayed again beside the tables the first `redo` made of them; three
writes with memtables of two give `redo` two segments, one of which may be deleted
already.
Until the server is up again the abstract map of `refinement` is what the files
on disk would be recovered to, so every state of `redo` is judged; `Durable`
speaks of a running server only. `refinement` has one payload: the engine tells a
payload from a tombstone and never one payload from another, so a stale read
shows as a removed value that is back or a stored one that is missing. In
`progress` the last level never reaches its limit, ten times that of level 1, so
the exception that `Level0Drains` makes does not arise there. It does with
`MaxLevel = 2` and `LevelBytes = 1`, where the property holds as well and fails
without the exception. Keys in `store` are interchangeable and its properties are
about safety, so its symmetry is sound. In `store` two seconds let an item end, be
stored again and end again.

`skiplist` has three heights, so that there is one below and one above a list that
skips nodes: with three keys and any heights there are nodes that a list has and
lacks before, at and behind the place of an operation. Its addresses are
interchangeable and its properties are about safety, so its symmetry is sound. With three
addresses for three keys, freed ones are used again. In `tablefiles` the largest byte
is 8, so that the cases of `find_shortest_sep` arise with few keys: one key a
prefix of the next, bytes that differ by one and by more, and the largest byte.
Short keys share a block and long ones fill one, restart points come every two
entries and blocks are cut behind 18 bytes: a table has up to three blocks, so that
there is a middle one, a block up to three entries, so that some are at a restart
point and some behind one, and level 1 up to three tables, two of which one
compaction can write. A torn record is cut at every byte. Values are numbers
of writes, so a stale one shows. `protocol` has two requests: the second one is
what a wrong end of the first would damage. Its payloads are empty, hold an end
of line or end with half of one; keys start like words of the protocol.

Some runs say `CHECK_DEADLOCK FALSE` because the system may stop there: a closed
pool (`threadpool`), a client that sends no more requests (`protocol`,
`fragmented`), a log segment torn in a way from which `redo` panics
(`tablefiles`). In `DataManager` a server that cannot start is started again and
fails again.

The four violations are findings about the code:

1. `commit_crash`: `size_compaction` removes its inputs from the manifest and
   deletes them before the manifest names the outputs. A crash in between loses
   the data of the inputs.
2. `flush_crash`: the manifest is rewritten in place; a crash in between leaves a
   file from which the server cannot start.
3. `client_major`: two compactions merge level 0 at once, the second with one
   more file that was flushed in between. It takes all its inputs out of the
   level, then fails to delete a file the first one deleted already, and never
   adds its output: the data of the extra file is gone.
4. `fragmented`: `space` and `digit` answer Err, not Incomplete, at the end of the
   input. A read that ends right after `gets` or `delete`, or between the name of a
   storing request and the first digit of its size, makes the server answer an
   error and forget what it has read.

Four more observations have no run of their own.

- `imm_mem_table_max_count` limits nothing: only `MemtableList::insert`, which has no
  caller, asks for it.
- Only get asks whether a payload has expired. For add, replace, append, prepend
  and delete it is still there: add answers NOT_STORED at a key that get finds
  empty, and append serves the old data again with a new lifetime. A memcached client
  would expect otherwise, but no document of the repository promises it;
  `ExpiringMap` says what the code does (`lapsed`).
- A record that a crash tore at the end of a segment is never misread, but it may
  make `redo` panic, at every start until someone removes the segment. In
  `tablefiles` it is torn at each of its bytes and `TornRecordIsNotMisread` allows
  the panic; in `DataManager` it is the phase "torn", which `RestartCompletes`
  excepts.
- Between a key and the same key with a zero byte appended `find_shortest_sep`
  returns the second, so the index would lead a get of it to the wrong block. The
  parser accepts no zero byte in a key.

## Fairness

`progress` assumes that each thread keeps running and that a lock
which is free again and again is obtained in the end (strong fairness). The
background threads sleep between rounds and the server thread serves one
request at a time, so every lock is free again and again; `std::sync::RwLock`
itself promises no order, which is why this is an assumption. Requests need not
come, and crashes need not happen. `Level0Drains` needs its second clause: a last
level that is over its limit and has the highest score is chosen and then left
alone (`level >= max_level - 1`), so level 0 waits as long as that lasts.

`protocol` assumes that TCP delivers what was sent and that the event loop polls a
connection that has input: weak fairness of reading and of decoding. The client
need not send anything. `threadpool` assumes that the threads run (weak fairness of
each worker and of the thread in `drop`); nothing is assumed about who gets the
mutex, and no job need be submitted.

## Proofs

The theorems hold for every value of the constants: any keys, values, memtable
and file sizes, numbers of levels, writes and crashes. Three of the
switches of `DataManager` appear as hypotheses where the code needs them;
`CrashInAppend` does not.

| Theorem | States |
| --- | --- |
| `TablesObeyLaws` | `TableLaws`: what lookups, merges and replay return on any tables |
| `Invariance` | `Spec => []IndInv` |
| `TypeCorrectness` | `Spec => []TypeOK` |
| `LogCorrectness` | `Spec => []LogMirrorsMemtables` |
| `NoDanglingFiles` | `Spec => []ReferencedFilesExist` |
| `FileNumbering` | `Spec => []FilesArePushedInOrder` |
| `DataInvariance` | `Spec => []Data`, without `ClientMajor` |
| `DisjointLevels` | `Spec => []LevelsAreDisjoint`, without `ClientMajor` |
| `Durability` | `Spec => []Durable`, without `ClientMajor` |
| `Refinement` | `Spec => ImplementsKVStore`, without `ClientMajor`, `CrashInFlush` and `CrashInCommit` |
| `ByteCounts` | `Store!Spec => []BytesCountData` |
| `ExpiryRefinement` | `Store!Spec => ImplementsExpiringMap` |
| `SkipListNesting` | `SkipList!Spec => []ListsAreNested` |
| `SkipListSearch` | `SkipList!Spec => []SearchFindsEntries` |
| `SkipListMap` | `SkipList!Spec => ActsLikeMap` |
| `SearchCompleteness` | `SearchSpec => []SearchIsComplete` |
| `SeparatorFollowsBlock` | a separator is at least the last key of its block |
| `SeparatorPrecedesNext` | and below the first key of the next block, if that has no zero byte |
| `PoolTakesJobsInOrder` | `ThreadPool!Spec => []JobsAreTakenInOrder` |
| `PoolCloseWaits` | `ThreadPool!Spec => []CloseWaitsForJobs` |

### The engine

`Invariance` and the four theorems behind it include client compactions and crashes at any point. None
of these properties is inductive alone. `IndInv` adds three parts to the types:

- `Control` says what the program counters imply: nothing runs before redo is
  done, one holder of the WAL's lock, the minor compaction's count never exceeds
  the memtables, a compaction's level has a next one.
- `Files` says who may refer to a file: tables just built are nobody else's,
  inputs stay on their level until they are removed, removed inputs are on no
  level when they are deleted, all numbers are below `nextFile`, and outside a
  rewrite the manifest equals the levels in memory. It holds for two compactions
  at once because the second may find its inputs gone, but no file ever returns
  to a level.
- `Mirror` is `LogMirrorsMemtables` element by element, so that a step touches one
  position of the log. `MemInsert` uses `ReplayAppendLaw`: replaying one
  more record is inserting it into the replayed table.

`DataInvariance` and the next three are about what the tables hold, and rest on `Data` beside `IndInv`.
Two copies of an entry exist whenever it is being moved, and each part of `Data` says of one kind
of move that the new copy can be read before the old one goes:

- `FlushedAreReadable`: the newest entry of a key among the memtables that
  `minor_compaction` has added to level 0 is what the readers return, until
  `consume` drops those memtables. A major compaction may push the new files down
  meanwhile.
- `MergeIsFaithful`: between merging and committing, replacing the inputs by the
  outputs would change no lookup, although `minor_compaction` may have added newer files
  since. This is where the lock that `size_compaction` drops in between matters,
  and where a second compactor would break it.
- `RangesAreDisjoint`: the levels have disjoint tables, in memory, in the
  manifest, and as the compaction in progress will leave them. A lookup on such
  levels has a closed form (`Lookup` in `TableLaws`) and `CompactionLaw`
  says that merging preserves it.
- `RedoIsReadable`: the tables that `redo` builds are the segments in their order,
  and what the log says is in the readers before the first segment is deleted.
- `ReadsAreCurrent`: what a get or remove has read before it took the next lock is
  still so when it takes effect; a get that missed the memtables has missed
  nothing that was flushed before it reached the readers.
- `TablesHaveKeys`, `InputsAreThere` and `OneReadersWriter` are what the others
  need: no table is empty (an empty one has no key range), a compaction's inputs
  are not deleted before it deletes them, one writer of the readers.

`Durability` then compares two lookups: the memtables from the flushed ones on are
the log (`Mirror`), and the flushed ones are covered by the readers. `Refinement`
maps the abstract map to `View`, what a get would return, or while the server is down
what a restart would recover. Every step of the background threads and of redo
leaves `View` alone (`ViewStep`); `MemInsert` and the two reads are the instants at
which a request takes effect; a crash keeps the map, with the request in flight applied if its
record is in the log (`CrashKeepsMap`).

The hypotheses exclude what `client_major`, `flush_crash` and `commit_crash` show to
fail, and nothing else: crashes between any other two steps, also of `redo`, and in
the middle of an append are included, and `DataInvariance`, `DisjointLevels` and `Durability` allow crashes everywhere.

### The other components

`ByteCounts` needs the types of the payloads beside the property itself.
`ExpiryRefinement` maps each payload to the item a get can see (`ItemAt`) or to the
item that has lapsed (`LapsedAt`). A tick of the clock moves exactly the items whose
deadline it is from the first to the second (`TickItem`), and a request that is no
get finds the item of the payload, expired or not (`FoundItem`), and does to it what
it would do to the payload (`SameAnswer`).

The skip list's invariant `SkipInv` has five parts. `SkipType` says that the heap has
a head and nodes with different keys; `ListInv`, that at each height a node points
to the one with the next larger key among those that are as high (`Linked`), which
says all of a sorted list without following its pointers; `FindInv`, that a search has only
passed nodes before the key and has the last such node of every height above its own; `DisposeInv`,
that `dispose` has freed the nodes before `current` and no other; `CloneInv`, that the
copy has the entries up to the iterator's. `LinkOne` and `UnlinkOne` are the
argument for one height: a node is put between, or taken from between, the last
node before its key and that node's successor. At the heights that an operation does not
relink nothing changes (`SameLinks`), and above `height_` the head is alone.

`SearchCompleteness` is about a level of any length whose tables are sorted and
disjoint, over any keys with a total order, and a level that any compaction may
replace between two searches. Its invariant `SearchInv` says that the tables to the
left of `left` end before the key, and that `res` has the covering tables before
the scan. That the levels are sorted and disjoint is what `DisjointLevels` proves and
`CompactionKeepsLevel` checks. `TableFiles` uses the same definitions.

The invariant `PoolInv` of the thread pool says that the jobs taken followed by the
channel are the jobs submitted and then the Terminate messages; that a job taken
is finished or being run; that each Terminate message is in the channel or has
ended a worker; and that the workers joined have exited. `PoolCloseWaits` is a count: when all workers
have exited and none has died, all Terminate messages are used up, so the channel
is empty and all jobs before them were taken.

The assumptions are those of the modules: keys are a finite set of integers (for
the skip list any set of positive ones, null and the head's address are not the allocator's),
tombstone and `None` are no values, "no request" is no request and "never" is no
second, the options are positive, the order of keys is total, there is at least one
worker, the largest byte is not 0.

Only model-checked: all liveness, which needs fairness and `ENABLED`;
`CompactorSurvives`, which rests on the sum that `LevelSize` folds; and what rests
on recursive definitions, whose values take induction over data: the blocks, tables and
log records of `TableFiles` (`TornRecordIsNotMisread`, `CompactionKeepsLevel`,
`GetReturnsLatest`, `IteratesLikeCursor`) and the parser (`DecodesWhatWasSent`).

## Not modelled

- Errors of the file system (a full disk, an unreadable block), other than the one
  that colliding compactions cause. Nothing says what the server should do after
  one; the places where one would do lasting damage are listed as hazards in
  `PROJECT.json`.
- The loss of a machine. The code never calls fsync.
- Encodings that are only written and read back: varints, the footer, the meta
  block, bincode, snappy (but for its length prefix in the log), checksums, and the
  cuckoo filter, which is the set of its keys and possibly more.
- The block cache. Its keys name the reader and the offset, so it never returns
  another block.
- Writing responses, which is formatting; `info`, which only reads; configuration and
  command line parsing; logging.
- Code without a caller in the server: `MemtableList::insert`, `WAL::truncate`,
  `WALIter`, `TableIter::seek_to_last`, `Merger::prev` and `reset`, mutable iterators and `get_mut`
  of the skip list; and `seek_compaction`, which is empty.
