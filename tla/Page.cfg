SPECIFICATION FairSpec
CONSTANT MaxSubmits = 3
INVARIANTS
  OneLiveHandler
  ShownJobIsLatest
  ProcessingIsAlive
  LockFollowsWork
PROPERTIES
  ResultStays
  EveryHandlerEnds
CHECK_DEADLOCK FALSE
