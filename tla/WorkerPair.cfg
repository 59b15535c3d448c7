\* Two worker processes and no job that outlives the processing timeout.
SPECIFICATION Spec
CONSTANTS
  Workers = {w1, w2}
  Downloads = {2}
  Subtitles = {1, 3}
  Timeout = 1
  Overrun = FALSE
  MaxFaults = 1
SYMMETRY WorkerSymmetry
INVARIANTS
  AtMostOneActive
  NoOvertaking
PROPERTIES
  SettledIsFinal
