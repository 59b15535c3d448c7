SPECIFICATION Spec
CONSTANTS
  Jobs = {1, 2, 3}
  Direct = {4}
  Limit = 2
  QueueLimit = 2
  MaxDirFailures = 1
INVARIANTS
  ActiveCountsDownloads
CHECK_DEADLOCK FALSE
