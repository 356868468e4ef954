SPECIFICATION Spec
CONSTANTS
  Keys = {1}
  Vals = {v1}
  Tombstone = Tombstone
  Absent = Absent
  Nothing = Nothing
  Torn = Torn
  MemTableMaxSize = 1
  SstMaxSize = 1
  MaxLevel = 2
  L0Trigger = 2
  LevelBytes = 4
  ClientMajor = TRUE
  CrashInAppend = TRUE
  CrashInFlush = TRUE
  CrashInCommit = TRUE
  MaxWrites = 3
  MaxCrashes = 2
INVARIANTS ReferencedFilesExist FilesArePushedInOrder
