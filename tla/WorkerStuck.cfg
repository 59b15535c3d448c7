\* Two workers, one of which is slower than the timeout and then dies.
SPECIFICATION FairSpec
CONSTANTS
  Workers = {w1, w2}
  Downloads = {1}
  Subtitles = {2}
  Timeout = 1
  Overrun = TRUE
  MaxFaults = 1
PROPERTIES
  NoJobStuckForever
