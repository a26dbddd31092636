CONSTANTS
  Volumes = {v1, v2}
  Cpus = {cpu1, cpu2}
  BadVolumes = {}
  MaxWatches = 2
  NULL = NULL
  ENDED = ENDED
SPECIFICATION Spec
INVARIANT ProcessesLiveWatches
CHECK_DEADLOCK FALSE
