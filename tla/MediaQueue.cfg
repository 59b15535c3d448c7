SPECIFICATION FairSpec
CONSTANTS
  Jobs = {1, 2, 3}
  Direct = {4}
  Limit = 2
  QueueLimit = 2
  MaxDirFailures = 1
INVARIANTS
  ConcurrencyLimitHolds
  NoFileLeaks
PROPERTIES
  OnlySweepCutsDelivery
  CanceledStaysCanceled
  EveryJobRuns
CHECK_DEADLOCK FALSE
