CONSTANTS
  o1 = o1  o2 = o2
  Threads = {1, 2, 3}
  Owners = {o1, o2}
  Need <- TwoForOne
  NULL = NULL
  GARBAGE = GARBAGE
  FreshDone = {TRUE, FALSE}
  FreshCandidate = {NULL, GARBAGE}
SPECIFICATION Spec
INVARIANT ClosesAllThreads
PROPERTIES NoJobOverwritten WorkersRun DestroyReturns
CHECK_DEADLOCK FALSE
