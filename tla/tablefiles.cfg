SPECIFICATION Spec
CONSTANTS
  MaxByte = 8
  RestartInterval = 2
  BlockSize = 18
  SstMaxBytes = 16
  MaxLog = 2
  MaxWrites = 2
  None = None
  Panic = Panic
  KeyBytes <- MCKeyBytes
  SearchKeys <- MCSearchKeys
  Before <- Less
INVARIANTS
  TornRecordIsNotMisread
  CompactionKeepsLevel
  SearchIsComplete
  GetReturnsLatest
PROPERTIES
  IteratesLikeCursor
CHECK_DEADLOCK FALSE
