SPECIFICATION FairSpec
CONSTANTS
  Workers = 3
  MaxJobs = 4
  JobsMayPanic = TRUE
  Terminate = Terminate
INVARIANTS JobsAreTakenInOrder CloseWaitsForJobs
PROPERTY DropReturns
CHECK_DEADLOCK FALSE
