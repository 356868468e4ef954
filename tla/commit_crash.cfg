SPECIFICATION Spec
CONSTANTS
  Keys = {1}
  Vals = {v1}
  Tombstone = Tombstone
  Absent = Absent
  Nothing = Nothing
  Torn = Torn
  MemTableMaxSize = 1
  SstMaxSize = 1
  MaxLevel = 2
  L0Trigger = 2
  LevelBytes = 4
  ClientMajor = FALSE
  CrashInAppend = FALSE
  CrashInFlush = FALSE
  CrashInCommit = TRUE
  MaxWrites = 2
  MaxCrashes = 0
INVARIANT DurableInCommit
