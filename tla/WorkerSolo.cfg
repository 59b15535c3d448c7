\* One worker process, as docker-compose.yml deploys it.
SPECIFICATION FairSpec
CONSTANTS
  Workers = {w1}
  Downloads = {1, 3}
  Subtitles = {2}
  Timeout = 1
  Overrun = TRUE
  MaxFaults = 2
PROPERTIES
  EveryJobSettles
  ImplementsLifecycle
