SPECIFICATION Spec
CONSTANTS
  Requests <- MCRequests
  MaxRequests = 2
  MaxNumber = 2
  AnyCut = TRUE
INVARIANT CutRequestIsIncomplete
CHECK_DEADLOCK FALSE
