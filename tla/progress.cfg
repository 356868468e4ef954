SPECIFICATION FairSpec
CONSTANTS
  Keys = {1, 2}
  Vals = {v1}
  Tombstone = Tombstone
  Absent = Absent
  Nothing = Nothing
  Torn = Torn
  MemTableMaxSize = 2
  SstMaxSize = 1
  MaxLevel = 3
  L0Trigger = 1
  LevelBytes = 2
  ClientMajor = FALSE
  CrashInAppend = TRUE
  CrashInFlush = FALSE
  CrashInCommit = FALSE
  MaxWrites = 3
  MaxCrashes = 2
INVARIANTS LevelsAreDisjoint CompactorSurvives
PROPERTIES RestartCompletes MemtablesGetFlushed Level0Drains
