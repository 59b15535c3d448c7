SPECIFICATION FairRequestSpec
CONSTANTS
  EXTRACTION_ATTEMPTS = 2
  Interval = 2
  Stale = 6
  Delay = 1
  MaxLost = 1
  MaxBytes = 3
  MaxCrashes = 1
INVARIANTS
  OneChildPerDir
  SuccessHasWholeFile
  AvailableMeansAlive
  AliveIsAvailable
  FormAgreesWithApi
  OnlyKnownSizesAreDownloaded
PROPERTY
  EveryJobEnds
CHECK_DEADLOCK FALSE
