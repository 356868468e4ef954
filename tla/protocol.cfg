SPECIFICATION FairSpec
CONSTANTS
  Requests <- MCRequests
  MaxRequests = 2
  MaxNumber = 2
  AnyCut = FALSE
INVARIANT DecodesWhatWasSent
PROPERTY EveryRequestIsDecoded
CHECK_DEADLOCK FALSE
