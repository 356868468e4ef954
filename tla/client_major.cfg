SPECIFICATION FairSpec
CONSTANTS
  Keys = {1}
  Vals = {v1}
  Tombstone = Tombstone
  Absent = Absent
  Nothing = Nothing
  Torn = Torn
  MemTableMaxSize = 1
  SstMaxSize = 1
  MaxLevel = 2
  L0Trigger = 2
  LevelBytes = 4
  ClientMajor = TRUE
  CrashInAppend = FALSE
  CrashInFlush = FALSE
  CrashInCommit = FALSE
  MaxWrites = 4
  MaxCrashes = 0
PROPERTY ImplementsKVStore
