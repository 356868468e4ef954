SPECIFICATION Spec
CONSTANTS
  Keys = {1, 2}
  Vals = {v1}
  Tombstone = Tombstone
  Absent = Absent
  Nothing = Nothing
  Torn = Torn
  MemTableMaxSize = 2
  SstMaxSize = 1
  MaxLevel = 2
  L0Trigger = 2
  LevelBytes = 4
  ClientMajor = FALSE
  CrashInAppend = TRUE
  CrashInFlush = FALSE
  CrashInCommit = FALSE
  MaxWrites = 4
  MaxCrashes = 2
INVARIANTS TypeOK LogMirrorsMemtables Durable
PROPERTY ImplementsKVStore
