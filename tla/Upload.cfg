SPECIFICATION FairJobSpec
CONSTANTS
  PartCount = 4
  MaxFaults = 2
INVARIANTS
  JobHasItsSource
  NoOrphanSource
  CompleteHasAllParts
  OfferedFileExists
PROPERTIES
  WorkDirsAreRemoved
  EverySubmitEnds
  ImplementsLifecycle
  EveryJobSettles
  ExpiredIsRemoved
CHECK_DEADLOCK FALSE
