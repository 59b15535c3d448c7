SPECIFICATION MCFairSpec
CONSTANTS
  r1 = r1
  r2 = r2
  k1 = k1
  Requests = {r1, r2}
  Keys = {k1}
  KeyOf <- MCKeyOf
  MaxLosses = 1
  MaxFaults = 2
INVARIANTS
  ExtractsOnlyWhatIsMissing
  ShownFileExistsApart
PROPERTIES
  FreshAssetKept
  EveryRequestEnds
CHECK_DEADLOCK FALSE
