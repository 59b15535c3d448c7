SPECIFICATION Spec
CONSTANTS
  Sources <- MCSources
  MaxSubmits = 2
  MaxOpens = 2
  MaxQueue = 3
  MaxImports = 2
  MaxFaults = 1
INVARIANTS
  OneSubmitAtATime
  BusyIsUnderWay
  StartsWhatWasClicked
  StoredAsShown
CHECK_DEADLOCK FALSE
