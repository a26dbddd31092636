CONSTANTS
  Volumes = {v1, v2, v3}
  Cpus = {cpu1, cpu2}
  BadVolumes = {v3}
  MaxWatches = 3
  NULL = NULL
  ENDED = ENDED
SPECIFICATION Spec
INVARIANTS ListsAgree WatchesMatchWish OneReadPerWatch
PROPERTIES ListingReturns DestructorReturns
CHECK_DEADLOCK FALSE
